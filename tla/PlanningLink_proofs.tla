------------------------ MODULE PlanningLink_proofs ------------------------
(* For every number of connections, requests and plans: the types, that no    *)
(* plan reaches a GUI twice, that an answer belongs to the call that takes it, *)
(* that a plan under way sees at most one late state of each connection, and   *)
(* that only the client of the moment is received from.  And for every number *)
(* of poses, connections and launches of the headset app: that the callback    *)
(* gets each pose once, and those of a connection in order.                    *)
EXTENDS PlanningLink, HeadsetLink, SequenceTheorems, TLAPS

-----------------------------------------------------------------------------
(* Operators of the model.                                                   *)

Accepting == [step : {"listen", "close", "drop", "install", "spawn"},
              conn : 0..MaxConns, held : 0..MaxConns]
FramesHeld == {NoFrame} \cup {<<m>> : m \in Messages}
Reading == [step : {"none", "recv", "dispatch", "apply", "close", "drop", "gone"},
            frame : FramesHeld, held : 0..MaxConns]
Calls == [step : {"idle", "send", "sendall", "close", "drop", "wait", "plan"},
          id : 0..MaxRequests, plan : 0..MaxPlans, sock : 0..MaxConns,
          waits : SUBSET {"image", "ack"}]

\* What a queue of frames is after a receive, and after the GUI has sent one.
LEMMA ReceivedFrom ==
    ASSUME NEW q \in Seq(Messages), q # <<>>
    PROVE  /\ Tail(q) \in Seq(Messages) /\ Head(q) \in Messages
           /\ Head(q) = q[1] /\ 1 \in 1..Len(q)
           /\ \A i \in 1..Len(Tail(q)) : Tail(q)[i] = q[i + 1] /\ i + 1 \in 1..Len(q)
  OBVIOUS

LEMMA SentTo ==
    ASSUME NEW q \in Seq(Messages), NEW m \in Messages
    PROVE  /\ Append(q, m) \in Seq(Messages)
           /\ \A i \in 1..Len(Append(q, m)) :
                 Append(q, m)[i] = m \/ (i \in 1..Len(q) /\ Append(q, m)[i] = q[i])
  OBVIOUS

\* A frame in the hand of a reader is one message.
LEMMA OneFrame == \A m : <<m>> # NoFrame /\ Head(<<m>>) = m
  BY DEF NoFrame

\* The reader that leaves a receive, a handler or the loop.
LEMMA GoTypes ==
    ASSUME TcpTypeOK, NEW c \in Conns
    PROVE  /\ \A s \in {"none", "recv", "dispatch", "apply", "close", "drop", "gone"} :
                 Go(c, s) \in Reading
           /\ Loop(c) \in Reading /\ Loop(c).frame = NoFrame
           /\ Loop(c).step = IF client = c THEN "recv" ELSE "gone"
           /\ Leave(c) \in Reading /\ Leave(c).frame = NoFrame
           /\ Leave(c).step = IF client = c THEN "close" ELSE "gone"
<1>1. 0 \in 0..MaxConns
  BY TcpAssumption
<1>2. NoFrame \in FramesHeld
  BY DEF FramesHeld
<1> QED
  BY <1>1, <1>2 DEF Go, Loop, Leave, Reading, Nobody

-----------------------------------------------------------------------------
(* The steps of the server's own threads and of the GUI.                     *)

TcpStep ==
    \/ \E c \in Conns : \/ Connect(c) \/ GoAway(c) \/ ReceiveFails(c)
                        \/ Accept(c) \/ EndOfStream(c) \/ ReaderClose(c)
    \/ AcceptClose \/ Install \/ Spawn

\* A step that neither sends nor receives a frame keeps the types, leaves no new
\* frame behind and brings no reader into a handler.
LEMMA TcpStepTypes ==
    ASSUME TcpTypeOK, TcpStep
    PROVE  /\ TcpTypeOK'
           /\ \A c \in Conns : inbox'[c] \in {inbox[c], <<>>}
           /\ \A c \in Conns : \/ reader'[c] = reader[c]
                               \/ reader'[c].step \notin {"dispatch", "apply"}
<1> USE DEF TcpTypeOK
<1>0. /\ 0 \in 0..MaxConns /\ \A c \in Conns : c \in 0..MaxConns
      /\ <<>> \in Seq(Messages)
  BY TcpAssumption DEF Conns
<1>1. ASSUME NEW c \in Conns, Connect(c) PROVE TcpTypeOK'
  BY <1>1 DEF Connect
<1>2. ASSUME NEW c \in Conns, GoAway(c) PROVE TcpTypeOK'
  BY <1>2 DEF GoAway
<1>3. ASSUME NEW c \in Conns, ReceiveFails(c) PROVE TcpTypeOK'
  BY <1>0, <1>3, GoTypes DEF ReceiveFails, Reading, FramesHeld
<1>4. ASSUME NEW c \in Conns, Accept(c) PROVE TcpTypeOK'
  BY <1>0, <1>4 DEF Accept, Nobody
<1>5. ASSUME NEW c \in Conns, EndOfStream(c) PROVE TcpTypeOK'
  BY <1>0, <1>5, GoTypes DEF EndOfStream, Reading, FramesHeld
<1>6. ASSUME NEW c \in Conns, ReaderClose(c) PROVE TcpTypeOK'
  <2> DEFINE r == [reader[c] EXCEPT !.step = "drop", !.held = client]
  <2>1. reader \in [Conns -> Reading] /\ client \in 0..MaxConns
    BY DEF Reading, FramesHeld
  <2>2. r \in Reading /\ Go(c, "gone") \in Reading
    <3>1. reader[c] \in Reading
      BY <2>1
    <3>2. r \in Reading
      BY <2>1, <3>1 DEF Reading
    <3> QED
      BY <3>2, GoTypes
  <2> HIDE DEF r
  <2>3. CASE reader' = [reader EXCEPT ![c] = r] /\ UNCHANGED <<client, sock, peer, inbox, accept>>
    <3>1. reader' \in [Conns -> Reading]
      BY <2>1, <2>2, <2>3
    <3> QED
      BY <2>3, <3>1 DEF Reading, FramesHeld
  <2>4. CASE /\ CloseClient(reader[c].held)
             /\ reader' = [reader EXCEPT ![c] = Go(c, "gone")]
             /\ UNCHANGED <<peer, inbox, accept>>
    <3>1. reader' \in [Conns -> Reading]
      BY <2>1, <2>2, <2>4
    <3>2. client' \in 0..MaxConns /\ sock' \in [Conns -> {"none", "open", "closed"}]
      BY <1>0, <2>4 DEF CloseClient, Nobody
    <3> QED
      BY <2>4, <3>1, <3>2 DEF Reading, FramesHeld
  <2> QED
    BY <1>6, <2>3, <2>4 DEF ReaderClose, r
<1>7. CASE AcceptClose
  BY <1>0, <1>7 DEF AcceptClose, CloseClient, Nobody
<1>8. CASE Install
  BY <1>8 DEF Install
<1>9. CASE Spawn
  <2>1. CASE accept.conn \in Conns
    BY <1>9, <2>1, GoTypes DEF Spawn, Reading, FramesHeld
  <2>2. CASE accept.conn \notin Conns
    BY <1>9, <2>2 DEF Spawn
  <2> QED
    BY <2>1, <2>2
<1>10. TcpTypeOK'
  BY <1>1, <1>2, <1>3, <1>4, <1>5, <1>6, <1>7, <1>8, <1>9 DEF TcpStep
<1>11. /\ \A c \in Conns : inbox'[c] \in {inbox[c], <<>>}
       /\ \A c \in Conns : \/ reader'[c] = reader[c]
                           \/ reader'[c].step \notin {"dispatch", "apply"}
  <2>1. \A b \in Conns : /\ Loop(b).step \notin {"dispatch", "apply"}
                         /\ Leave(b).step \notin {"dispatch", "apply"}
                         /\ Go(b, "gone").step \notin {"dispatch", "apply"}
    BY DEF Loop, Leave, Go
  <2>2. ASSUME NEW b \in Conns, ReaderClose(b)
        PROVE  /\ inbox' = inbox
               /\ \A c \in Conns : \/ reader'[c] = reader[c]
                                   \/ reader'[c].step \notin {"dispatch", "apply"}
    <3> DEFINE r == [reader[b] EXCEPT !.step = "drop", !.held = client]
    <3>1. r.step = "drop"
      BY DEF Reading
    <3> HIDE DEF r
    <3>2. inbox' = inbox /\ \/ reader' = [reader EXCEPT ![b] = r]
                            \/ reader' = [reader EXCEPT ![b] = Go(b, "gone")]
      BY <2>2 DEF ReaderClose, r
    <3> QED
      BY <2>1, <3>1, <3>2
  <2>3. ASSUME NEW b \in Conns, ReceiveFails(b) \/ EndOfStream(b)
        PROVE  /\ \A c \in Conns : inbox'[c] \in {inbox[c], <<>>}
               /\ \A c \in Conns : \/ reader'[c] = reader[c]
                                   \/ reader'[c].step \notin {"dispatch", "apply"}
    BY <2>1, <2>3 DEF ReceiveFails, EndOfStream
  <2>4. CASE Spawn
    BY <2>1, <2>4 DEF Spawn
  <2>5. CASE AcceptClose \/ Install
    BY <2>5 DEF AcceptClose, Install
  <2>6. ASSUME NEW b \in Conns, Connect(b) \/ GoAway(b) \/ Accept(b)
        PROVE  inbox' = inbox /\ reader' = reader
    BY <2>6 DEF Connect, GoAway, Accept
  <2> QED
    BY <2>2, <2>3, <2>4, <2>5, <2>6 DEF TcpStep
<1> QED
  BY <1>10, <1>11

-----------------------------------------------------------------------------
(* The inductive invariant.                                                  *)

LinkTypes ==
    /\ call \in Calls
    /\ requests \in 0..MaxRequests /\ waiter \in 0..MaxRequests
    /\ got \subseteq call.waits
    /\ asked \subseteq [conn : Conns, id : Requests, plan : 0..MaxPlans]
    /\ pending \in 0..plans /\ plans \in 0..MaxPlans
    /\ live \in BOOLEAN /\ was \in BOOLEAN
    /\ slips \in [Conns -> 0..2]

\* What the GUI was asked for is numbered in order and belongs to plans computed
\* so far; the cached plan is not among it.
Numbered ==
    /\ \A q \in asked : q.id <= requests /\ q.plan <= plans
    /\ pending # NoPlan => \A q \in asked : q.plan # pending
    /\ PlannedOnce

\* The request of the call: new until it is sent, and carrying the cached plan;
\* the only one with a waiter, for the kind of answer that it gets.
OfTheCall ==
    /\ call.step \in {"send", "sendall"} =>
          /\ call.id = requests /\ call.id # 0 /\ call.plan \in {NoPlan, pending}
          /\ \A q \in asked : q.id < call.id
    /\ call.step = "sendall" => call.sock # Nobody
    /\ call.step \in {"idle", "plan"} => call.id = 0 /\ call.waits = {}
    /\ call.step = "plan" => plans < MaxPlans
    /\ \A q \in asked : q.id = call.id => q.plan = call.plan
    /\ waiter # 0 =>
          /\ waiter = call.id
          /\ call.waits = IF call.plan = NoPlan THEN {"image"} ELSE {"ack"}
    /\ got # {} => \E q \in asked : q.id = call.id

\* Every frame on its way is a state, or the answer to a request.
Honest(m) == m.kind = "state" \/ \E q \in asked : m \in Answers(q)
Truthful ==
    /\ \A c \in Conns : \A i \in 1..Len(inbox[c]) : Honest(inbox[c][i])
    /\ \A c \in Conns : At(c, "dispatch") =>
          \E m \in Messages : reader[c].frame = <<m>> /\ Honest(m)

\* During a plan the live state is off, and a handler that has passed the test
\* is the first of its connection.
Frozen ==
    /\ FreezeHolds
    /\ call.step = "plan" => ~live /\ \A c \in Conns : At(c, "apply") => slips[c] = 0

LinkInv == TcpTypeOK /\ LinkTypes /\ Numbered /\ OfTheCall /\ Truthful /\ Frozen

LEMMA TypesSplit == TypeOK <=> TcpTypeOK /\ LinkTypes
  BY DEF TypeOK, LinkTypes, Calls

LEMMA LinkStarts == Init => LinkInv
<1> SUFFICES ASSUME Init PROVE LinkInv
  OBVIOUS
<1> USE TcpAssumption, LinkAssumption
<1>1. 0 \in 0..MaxConns /\ 0 \in 0..MaxRequests /\ 0 \in 0..MaxPlans /\ 0 \in 0..0
  OBVIOUS
<1>2. <<>> \in Seq(Messages) /\ \A i : i \notin 1..Len(<<>>)
  OBVIOUS
<1>3. TcpTypeOK
  BY <1>1, <1>2 DEF Init, TcpInit, TcpTypeOK, Nobody
<1>4. Idle \in Calls
  BY <1>1 DEF Idle, Calls, NoPlan, Nobody
<1>5. LinkTypes
  BY <1>1, <1>4 DEF Init, LinkTypes, NoPlan, Idle
<1>6. Numbered /\ OfTheCall
  BY DEF Init, Numbered, OfTheCall, PlannedOnce, Idle
<1>7. Truthful
  BY <1>2 DEF Init, TcpInit, Truthful, At
<1>8. Frozen
  BY DEF Init, Frozen, FreezeHolds, Idle
<1> QED
  BY <1>3, <1>5, <1>6, <1>7, <1>8 DEF LinkInv

-----------------------------------------------------------------------------
(* The server's threads and the GUI.                                         *)

\* What is on its way stays true when nothing is forgotten and no frame comes in.
LEMMA StaysTruthful ==
    ASSUME Truthful, asked \subseteq asked',
           \A c \in Conns : inbox'[c] \in {inbox[c], <<>>},
           \A c \in Conns : \/ reader'[c] = reader[c]
                            \/ reader'[c].step \notin {"dispatch", "apply"}
    PROVE  Truthful'
<1>1. \A m : Honest(m) => Honest(m)'
  BY DEF Honest, Answers, NoPlan
<1>2. \A c \in Conns : \A i \in 1..Len(inbox'[c]) :
          inbox'[c] = inbox[c] /\ i \in 1..Len(inbox[c])
  <2>1. \A i : i \notin 1..Len(<<>>)
    OBVIOUS
  <2> QED
    BY <2>1
<1>3. \A c \in Conns : At(c, "dispatch")' => At(c, "dispatch") /\ reader'[c] = reader[c]
  BY DEF At
<1> QED
  BY <1>1, <1>2, <1>3 DEF Truthful

LEMMA ServerKeeps ==
    ASSUME LinkInv, TcpStep, UNCHANGED linkVars, UNCHANGED slips
    PROVE  LinkInv'
<1>1. /\ TcpTypeOK'
      /\ \A c \in Conns : inbox'[c] \in {inbox[c], <<>>}
      /\ \A c \in Conns : \/ reader'[c] = reader[c]
                          \/ reader'[c].step \notin {"dispatch", "apply"}
  BY TcpStepTypes DEF LinkInv
<1>2. Truthful'
  BY <1>1, StaysTruthful DEF LinkInv, linkVars
<1>3. LinkTypes' /\ Numbered' /\ OfTheCall'
  BY DEF LinkInv, LinkTypes, Numbered, OfTheCall, PlannedOnce, linkVars
<1>4. Frozen'
  BY <1>1 DEF LinkInv, Frozen, FreezeHolds, At, linkVars
<1> QED
  BY <1>1, <1>2, <1>3, <1>4 DEF LinkInv

LEMMA SendKeeps ==
    ASSUME LinkInv, NEW c \in Conns, NEW m \in GuiFrames(c), Send(c, m),
           UNCHANGED linkVars, UNCHANGED slips
    PROVE  LinkInv'
<1>1. m \in Messages /\ Honest(m)
  <2>1. CASE m \in [kind : {"state"}, id : {0}]
    BY <2>1, LinkAssumption DEF Honest
  <2>2. ASSUME NEW q \in asked, m \in Answers(q) PROVE m \in Messages /\ Honest(m)
    BY <2>2, LinkAssumption DEF Honest, Answers, LinkInv, LinkTypes, Requests
  <2> QED
    BY <2>1, <2>2 DEF GuiFrames
<1>2. /\ inbox[c] \in Seq(Messages)
      /\ inbox' = [inbox EXCEPT ![c] = Append(@, m)]
      /\ UNCHANGED <<client, sock, peer, accept, reader>>
  BY DEF Send, LinkInv, TcpTypeOK
<1>3. /\ Append(inbox[c], m) \in Seq(Messages)
      /\ \A i \in 1..Len(Append(inbox[c], m)) :
            \/ Append(inbox[c], m)[i] = m
            \/ i \in 1..Len(inbox[c]) /\ Append(inbox[c], m)[i] = inbox[c][i]
  BY <1>1, <1>2, SentTo
<1>4. TcpTypeOK'
  BY <1>2, <1>3 DEF LinkInv, TcpTypeOK
<1>5. asked' = asked /\ \A n : Honest(n)' <=> Honest(n)
  BY DEF linkVars, Honest, Answers
<1>6. Truthful'
  <2>1. ASSUME NEW b \in Conns, NEW i \in 1..Len(inbox'[b]) PROVE Honest(inbox'[b][i])
    <3>1. CASE b = c
      <4>1. inbox'[b] = Append(inbox[c], m)
        BY <1>2, <3>1 DEF LinkInv, TcpTypeOK
      <4> QED
        BY <1>1, <1>3, <2>1, <4>1 DEF LinkInv, Truthful
    <3>2. CASE b # c
      <4>1. inbox'[b] = inbox[b]
        BY <1>2, <3>2 DEF LinkInv, TcpTypeOK
      <4> QED
        BY <2>1, <4>1 DEF LinkInv, Truthful
    <3> QED
      BY <3>1, <3>2
  <2> QED
    BY <1>2, <1>5, <2>1 DEF LinkInv, Truthful, At
<1>7. LinkTypes' /\ Numbered' /\ OfTheCall' /\ Frozen'
  BY <1>2 DEF LinkInv, LinkTypes, Numbered, OfTheCall, PlannedOnce, Frozen, FreezeHolds, At, linkVars
<1> QED
  BY <1>4, <1>6, <1>7 DEF LinkInv

LEMMA ReceiveKeeps ==
    ASSUME LinkInv, NEW c \in Conns, Receive(c), UNCHANGED linkVars, UNCHANGED slips
    PROVE  LinkInv'
<1> DEFINE q == inbox[c]
           r == [reader[c] EXCEPT !.step = "dispatch", !.frame = <<Head(q)>>]
<1>1. /\ q \in Seq(Messages) /\ q # <<>> /\ reader[c] \in Reading
      /\ inbox' = [inbox EXCEPT ![c] = Tail(q)]
      /\ reader' = [reader EXCEPT ![c] = r]
      /\ UNCHANGED <<client, sock, peer, accept>>
  BY DEF Receive, LinkInv, TcpTypeOK, Reading, FramesHeld
<1>2. /\ Tail(q) \in Seq(Messages) /\ Head(q) \in Messages
      /\ Head(q) = q[1] /\ 1 \in 1..Len(q)
      /\ \A i \in 1..Len(Tail(q)) : Tail(q)[i] = q[i + 1] /\ i + 1 \in 1..Len(q)
  BY <1>1, ReceivedFrom
<1>3. r \in Reading /\ r.step = "dispatch" /\ r.frame = <<Head(q)>>
  <2>1. <<Head(q)>> \in FramesHeld
    BY <1>2 DEF FramesHeld
  <2> QED
    BY <1>1, <2>1 DEF Reading
<1>4. Honest(Head(q)) /\ \A i \in 1..Len(Tail(q)) : Honest(Tail(q)[i])
  BY <1>2 DEF LinkInv, Truthful
<1> HIDE DEF q, r
<1>5. /\ inbox'[c] = Tail(q) /\ reader'[c] = r
      /\ \A b \in Conns : b # c => inbox'[b] = inbox[b] /\ reader'[b] = reader[b]
      /\ reader' \in [Conns -> Reading] /\ inbox' \in [Conns -> Seq(Messages)]
  BY <1>1, <1>2, <1>3 DEF LinkInv, TcpTypeOK, Reading, FramesHeld
<1>6. TcpTypeOK'
  BY <1>1, <1>5 DEF LinkInv, TcpTypeOK, Reading, FramesHeld
<1>7. asked' = asked /\ \A n : Honest(n)' <=> Honest(n)
  BY DEF linkVars, Honest, Answers
<1>8. Truthful'
  <2>1. ASSUME NEW b \in Conns, NEW i \in 1..Len(inbox'[b]) PROVE Honest(inbox'[b][i])
    BY <1>4, <1>5, <2>1 DEF LinkInv, Truthful
  <2>2. ASSUME NEW b \in Conns, At(b, "dispatch")'
        PROVE  \E n \in Messages : reader'[b].frame = <<n>> /\ Honest(n)
    <3>1. CASE b = c
      BY <1>2, <1>3, <1>4, <1>5, <3>1
    <3>2. CASE b # c
      <4>1. At(b, "dispatch") /\ reader'[b] = reader[b]
        BY <1>5, <2>2, <3>2 DEF At
      <4> QED
        BY <4>1 DEF LinkInv, Truthful
    <3> QED
      BY <3>1, <3>2
  <2> QED
    BY <1>7, <2>1, <2>2 DEF Truthful
<1>9. LinkTypes' /\ Numbered' /\ OfTheCall'
  BY DEF LinkInv, LinkTypes, Numbered, OfTheCall, PlannedOnce, linkVars
<1>10. Frozen'
  BY <1>3, <1>5 DEF LinkInv, Frozen, FreezeHolds, At, linkVars
<1> QED
  BY <1>6, <1>8, <1>9, <1>10 DEF LinkInv

\* The handler of a frame: an answer counts for the request it names, which is
\* the one of the call; a state passes the test only when no plan is under way.
LEMMA DispatchKeeps ==
    ASSUME LinkInv, NEW c \in Conns, Dispatch(c)
    PROVE  LinkInv'
<1>1. PICK m \in Messages : reader[c].frame = <<m>> /\ Honest(m)
  BY DEF LinkInv, Truthful, Dispatch
<1>2. Head(reader[c].frame) = m
  BY <1>1, OneFrame
<1>3. /\ reader' = [reader EXCEPT ![c] = AfterFrame(c, m)]
      /\ got' = IF m.kind # "state" /\ waiter # 0 /\ Resolves(m)
                THEN got \cup {m.kind} ELSE got
      /\ UNCHANGED <<client, sock, peer, inbox, accept, slips>>
      /\ UNCHANGED <<call, requests, waiter, asked, planVars, liveVars>>
  BY <1>2 DEF Dispatch
<1>4. /\ AfterFrame(c, m) \in Reading
      /\ AfterFrame(c, m).step \in {"recv", "gone", "apply"}
      /\ AfterFrame(c, m).step = "apply" => live
  <2>1. Go(c, "apply") \in Reading /\ Loop(c) \in Reading
    BY GoTypes DEF LinkInv
  <2> QED
    BY <2>1 DEF AfterFrame, Go, Loop
<1>5. /\ reader' \in [Conns -> Reading]
      /\ \A b \in Conns : \/ reader'[b] = reader[b]
                          \/ reader'[b].step \notin {"dispatch", "apply"}
                          \/ reader'[b].step = "apply" /\ live
  BY <1>3, <1>4 DEF LinkInv, TcpTypeOK, Reading, FramesHeld
<1>6. TcpTypeOK'
  BY <1>3, <1>5 DEF LinkInv, TcpTypeOK, Reading, FramesHeld
<1>7. asked' = asked /\ \A n : Honest(n)' <=> Honest(n)
  BY <1>3 DEF Honest, Answers
<1>8. Truthful'
  <2>1. \A b \in Conns : At(b, "dispatch")' => At(b, "dispatch") /\ reader'[b] = reader[b]
    BY <1>5 DEF At
  <2> QED
    BY <1>3, <1>7, <2>1 DEF LinkInv, Truthful
<1>9. got' # got => /\ m.kind \in call.waits
                    /\ \E q \in asked : q.id = call.id
  <2> SUFFICES ASSUME got' # got
               PROVE  m.kind \in call.waits /\ \E q \in asked : q.id = call.id
    OBVIOUS
  <2>1. m.kind # "state" /\ waiter # 0 /\ m.id = waiter
    BY <1>3 DEF Resolves
  <2>2. PICK q \in asked : m \in Answers(q)
    BY <1>1, <2>1 DEF Honest
  <2>3. q.id = call.id /\ m.kind = IF q.plan = NoPlan THEN "image" ELSE "ack"
    BY <2>1, <2>2 DEF Answers, LinkInv, OfTheCall
  <2> QED
    BY <2>1, <2>3 DEF LinkInv, OfTheCall
<1>10. LinkTypes'
  <2>1. got' \subseteq call'.waits
    BY <1>3, <1>9 DEF LinkInv, LinkTypes
  <2> QED
    BY <1>3, <2>1 DEF LinkInv, LinkTypes, planVars, liveVars
<1>11. Numbered' /\ OfTheCall'
  BY <1>3, <1>9 DEF LinkInv, Numbered, OfTheCall, PlannedOnce, planVars
<1>12. Frozen'
  BY <1>3, <1>5 DEF LinkInv, Frozen, FreezeHolds, At, liveVars
<1> QED
  BY <1>6, <1>8, <1>10, <1>11, <1>12 DEF LinkInv

LEMMA ApplyKeeps ==
    ASSUME LinkInv, NEW c \in Conns, ApplyState(c)
    PROVE  LinkInv'
<1>1. /\ reader' = [reader EXCEPT ![c] = Loop(c)]
      /\ slips' = [slips EXCEPT ![c] = IF call.step = "plan" /\ @ < 2 THEN @ + 1 ELSE @]
      /\ UNCHANGED <<client, sock, peer, inbox, accept>>
      /\ UNCHANGED linkVars
      /\ At(c, "apply")
  BY DEF ApplyState
<1>2. Loop(c) \in Reading /\ Loop(c).step \in {"recv", "gone"}
  BY GoTypes DEF LinkInv
<1>3. /\ reader' \in [Conns -> Reading]
      /\ \A b \in Conns : \/ reader'[b] = reader[b] /\ b # c
                          \/ reader'[b].step \notin {"dispatch", "apply"}
  BY <1>1, <1>2 DEF LinkInv, TcpTypeOK, Reading, FramesHeld
<1>4. TcpTypeOK'
  BY <1>1, <1>3 DEF LinkInv, TcpTypeOK, Reading, FramesHeld
<1>5. Truthful'
  BY <1>1, <1>3, StaysTruthful DEF LinkInv, linkVars
<1>6. /\ slips' \in [Conns -> 0..2]
      /\ \A b \in Conns : b # c => slips'[b] = slips[b]
      /\ slips'[c] <= 1
  <2>1. slips \in [Conns -> 0..2] /\ slips[c] <= 1 /\ (call.step = "plan" => slips[c] = 0)
    BY <1>1 DEF LinkInv, LinkTypes, Frozen, FreezeHolds
  <2> QED
    BY <1>1, <2>1
<1>7. LinkTypes' /\ Numbered' /\ OfTheCall'
  BY <1>1, <1>6 DEF LinkInv, LinkTypes, Numbered, OfTheCall, PlannedOnce, linkVars
<1>8. Frozen'
  BY <1>1, <1>3, <1>6 DEF LinkInv, Frozen, FreezeHolds, At, linkVars
<1> QED
  BY <1>4, <1>5, <1>7, <1>8 DEF LinkInv

-----------------------------------------------------------------------------
(* The operator's calls.                                                     *)

\* A step of the operator's thread that leaves the connections alone.
LEMMA TcpAlone ==
    ASSUME LinkInv, UNCHANGED tcpVars, asked \subseteq asked'
    PROVE  TcpTypeOK' /\ Truthful'
<1>1. /\ \A c \in Conns : inbox'[c] \in {inbox[c], <<>>}
      /\ \A c \in Conns : reader'[c] = reader[c]
  BY DEF tcpVars
<1>2. TcpTypeOK'
  BY DEF LinkInv, TcpTypeOK, tcpVars
<1> QED
  BY <1>1, <1>2, StaysTruthful DEF LinkInv

LEMMA CallTypes ==
    ASSUME LinkInv
    PROVE  /\ call \in Calls /\ Idle \in Calls /\ [Idle EXCEPT !.step = "plan"] \in Calls
           /\ call.id \in 0..MaxRequests /\ call.plan \in 0..MaxPlans
           /\ call.sock \in 0..MaxConns /\ call.waits \subseteq {"image", "ack"}
<1>1. 0 \in 0..MaxConns /\ 0 \in 0..MaxRequests /\ 0 \in 0..MaxPlans
  BY TcpAssumption, LinkAssumption
<1> QED
  BY <1>1 DEF LinkInv, LinkTypes, Calls, Idle, NoPlan, Nobody

LEMMA BeginKeeps ==
    ASSUME LinkInv, TriggerDetection \/ SendTrajectory
    PROVE  LinkInv'
<1>1. PICK plan \in {NoPlan, pending}, waits \in SUBSET {"image", "ack"} :
         /\ Begin(plan, waits)
         /\ waits # {} => waits = IF plan = NoPlan THEN {"image"} ELSE {"ack"}
  <2>1. CASE TriggerDetection
    BY <2>1 DEF TriggerDetection
  <2>2. CASE SendTrajectory
    BY <2>2 DEF SendTrajectory
  <2> QED
    BY <2>1, <2>2
<1>2. /\ requests' = requests + 1 /\ requests' \in 0..MaxRequests
      /\ call' = [step |-> "send", id |-> requests', plan |-> plan, sock |-> Nobody,
                  waits |-> waits]
      /\ waiter' = (IF waits = {} THEN 0 ELSE requests') /\ got' = {}
      /\ UNCHANGED tcpVars /\ UNCHANGED <<asked, planVars, liveVars, slips>>
  BY <1>1, LinkAssumption DEF Begin, LinkInv, LinkTypes
<1>3. pending \in 0..MaxPlans /\ plan \in 0..MaxPlans /\ Nobody \in 0..MaxConns
  BY TcpAssumption, LinkAssumption DEF LinkInv, LinkTypes, NoPlan, Nobody
<1>4. call' \in Calls
  BY <1>2, <1>3 DEF Calls
<1>5. LinkTypes'
  BY <1>2, <1>4, LinkAssumption DEF LinkInv, LinkTypes, planVars, liveVars
<1>6. \A q \in asked : q.id < requests'
  BY <1>2 DEF LinkInv, Numbered, LinkTypes, Requests
<1>7. Numbered'
  BY <1>2, <1>6 DEF LinkInv, Numbered, PlannedOnce, planVars, LinkTypes, Requests
<1>8. OfTheCall'
  BY <1>1, <1>2, <1>6 DEF OfTheCall, planVars, NoPlan, LinkInv, LinkTypes, Requests
<1>9. Frozen'
  BY <1>2 DEF LinkInv, Frozen, FreezeHolds
<1> QED
  BY <1>2, <1>5, <1>7, <1>8, <1>9, TcpAlone DEF LinkInv

\* A call that ends, or goes on without having asked anything new.
LEMMA EndKeeps ==
    ASSUME LinkInv, call' \in Calls, call'.step # "plan", call'.step \notin {"send", "sendall"},
           \/ Finish
           \/ /\ call'.waits = call.waits /\ call'.id = call.id /\ call'.plan = call.plan
              /\ call'.step # "idle" /\ UNCHANGED <<waiter, got>>,
           UNCHANGED <<requests, asked, planVars, liveVars, slips>>
    PROVE  LinkTypes' /\ Numbered' /\ OfTheCall' /\ Frozen'
<1>1. CASE Finish
  <2>1. call' = Idle /\ waiter' = 0 /\ got' = {}
    BY <1>1 DEF Finish
  <2>2. LinkTypes'
    BY <2>1, LinkAssumption DEF LinkInv, LinkTypes, planVars, liveVars
  <2>3. Numbered' /\ Frozen'
    BY <2>1 DEF LinkInv, Numbered, PlannedOnce, Frozen, FreezeHolds, planVars, Idle
  <2>4. \A q \in asked : q.id # 0
    BY DEF LinkInv, LinkTypes, Requests
  <2>5. OfTheCall'
    BY <2>1, <2>4 DEF OfTheCall, Idle
  <2> QED
    BY <2>2, <2>3, <2>5
<1>2. CASE /\ call'.waits = call.waits /\ call'.id = call.id /\ call'.plan = call.plan
           /\ call'.step # "idle" /\ UNCHANGED <<waiter, got>>
  BY <1>2 DEF LinkInv, LinkTypes, Numbered, OfTheCall, PlannedOnce, Frozen, FreezeHolds,
              planVars, liveVars
<1> QED
  BY <1>1, <1>2

LEMMA TakeSockKeeps ==
    ASSUME LinkInv, TakeSock
    PROVE  LinkInv'
<1>1. UNCHANGED tcpVars /\ UNCHANGED <<requests, asked, planVars, liveVars, slips>>
  BY DEF TakeSock
<1>2. CASE Finish
  BY <1>1, <1>2, EndKeeps, TcpAlone, CallTypes DEF Finish, Idle, LinkInv
<1>3. CASE /\ client # Nobody
           /\ call' = [call EXCEPT !.step = "sendall", !.sock = client]
           /\ UNCHANGED <<waiter, got>>
  <2>1. /\ call \in Calls /\ client \in 0..MaxConns /\ call.step = "send"
    BY DEF TakeSock, LinkInv, LinkTypes, TcpTypeOK
  <2>2. /\ call' \in Calls /\ call'.step = "sendall" /\ call'.id = call.id
        /\ call'.plan = call.plan /\ call'.waits = call.waits
    BY <1>3, <2>1 DEF Calls
  <2>3. client # Nobody /\ call'.sock = client
    BY <1>3, <2>1 DEF Calls
  <2>4. LinkTypes' /\ Numbered' /\ OfTheCall' /\ Frozen'
    BY <1>1, <1>3, <2>1, <2>2, <2>3 DEF LinkInv, LinkTypes, Numbered, OfTheCall, PlannedOnce,
       Frozen, FreezeHolds, planVars, liveVars
  <2> QED
    BY <1>1, <2>4, TcpAlone DEF LinkInv
<1> QED
  BY <1>2, <1>3 DEF TakeSock

\* What was sent is new, and its plan leaves the cache with it.
LEMMA SendAllKeeps ==
    ASSUME LinkInv, SendAll
    PROVE  LinkInv'
<1> DEFINE new == [conn |-> call.sock, id |-> call.id, plan |-> call.plan]
<1>1. /\ call.step = "sendall" /\ sock[call.sock] = "open" /\ Sent
      /\ asked' = IF peer[call.sock] = "up" THEN asked \cup {new} ELSE asked
      /\ UNCHANGED tcpVars /\ UNCHANGED <<requests, waiter, got, plans, was, slips>>
  BY DEF SendAll
<1>2. /\ call' = [call EXCEPT !.step = "wait", !.sock = Nobody]
      /\ IF call.plan = NoPlan THEN UNCHANGED <<pending, live>>
         ELSE pending' = NoPlan /\ live' = TRUE
  BY <1>1 DEF Sent
<1>3. /\ call' \in Calls /\ call'.step = "wait" /\ call'.id = call.id
      /\ call'.plan = call.plan /\ call'.waits = call.waits
  <2>1. 0 \in 0..MaxConns /\ call \in Calls
    BY CallTypes, TcpAssumption
  <2> QED
    BY <1>2, <2>1 DEF Calls, Nobody
<1>4. /\ call.id = requests /\ call.plan \in {NoPlan, pending}
      /\ \A q \in asked : q.id < call.id
  BY <1>1 DEF LinkInv, OfTheCall
<1>5. /\ new.id = call.id /\ new.plan = call.plan /\ call.plan <= plans
  BY <1>4 DEF LinkInv, LinkTypes, NoPlan
<1>6. asked # asked' => new \in [conn : Conns, id : Requests, plan : 0..MaxPlans]
  <2> SUFFICES ASSUME asked # asked'
               PROVE  new \in [conn : Conns, id : Requests, plan : 0..MaxPlans]
    OBVIOUS
  <2>1. call.sock \in Conns
    BY <1>1, CallTypes DEF LinkInv, OfTheCall, Conns, Nobody
  <2>2. call.id \in Requests
    BY <1>1, CallTypes DEF LinkInv, OfTheCall, Requests
  <2> QED
    BY <2>1, <2>2, CallTypes
<1> HIDE DEF new
<1>7. asked' \subseteq asked \cup {new} /\ asked \subseteq asked'
  BY <1>1
<1>8. LinkTypes'
  <2>1. pending' \in 0..plans' /\ live' \in BOOLEAN
    <3>1. /\ plans \in 0..MaxPlans /\ pending \in 0..plans /\ live \in BOOLEAN
      BY DEF LinkInv, LinkTypes
    <3>2. plans' = plans
      BY <1>1
    <3>3. CASE call.plan = NoPlan
      BY <1>2, <3>1, <3>2, <3>3
    <3>4. CASE call.plan # NoPlan
      <4>1. pending' = 0 /\ live' = TRUE
        BY <1>2, <3>4 DEF NoPlan
      <4>2. 0 \in 0..plans'
        BY <3>1, <3>2, LinkAssumption
      <4> QED
        BY <4>1, <4>2
    <3> QED
      BY <3>3, <3>4
  <2>2. asked' \subseteq [conn : Conns, id : Requests, plan : 0..MaxPlans]
    BY <1>6, <1>7 DEF LinkInv, LinkTypes
  <2> QED
    BY <1>1, <1>3, <2>1, <2>2 DEF LinkInv, LinkTypes
<1>9. Numbered'
  <2>1. \A q \in asked' : q.id <= requests' /\ q.plan <= plans'
    BY <1>1, <1>4, <1>5, <1>7 DEF LinkInv, Numbered, LinkTypes
  <2>2. pending' # NoPlan => \A q \in asked' : q.plan # pending'
    BY <1>2, <1>5, <1>7 DEF LinkInv, Numbered
  <2>3. PlannedOnce'
    BY <1>4, <1>5, <1>7 DEF LinkInv, Numbered, PlannedOnce
  <2> QED
    BY <2>1, <2>2, <2>3 DEF Numbered
<1>10. OfTheCall'
  <2>1. \A q \in asked' : q.id = call'.id => q.plan = call'.plan
    BY <1>3, <1>5, <1>7 DEF LinkInv, OfTheCall
  <2> QED
    BY <1>1, <1>3, <1>7, <2>1 DEF LinkInv, OfTheCall
<1>11. Frozen'
  BY <1>1, <1>3 DEF LinkInv, Frozen, FreezeHolds
<1> QED
  BY <1>1, <1>7, <1>8, <1>9, <1>10, <1>11, TcpAlone DEF LinkInv

\* A failed send drops whoever is the client by then; the waits of a call end it.
LEMMA FailKeeps ==
    ASSUME LinkInv, SendFails \/ Answered \/ TimesOut
    PROVE  LinkInv'
<1>1. CASE SendFails /\ UNCHANGED tcpVars
  <2>1. /\ UNCHANGED <<requests, asked, planVars, liveVars, slips>>
        /\ \/ call' = [call EXCEPT !.step = "close"] /\ UNCHANGED <<waiter, got>>
           \/ call' = [call EXCEPT !.step = "drop", !.sock = client] /\ UNCHANGED <<waiter, got>>
           \/ Finish
    BY <1>1 DEF SendFails
  <2>2. call \in Calls /\ client \in 0..MaxConns /\ Idle \in Calls
    BY CallTypes DEF LinkInv, TcpTypeOK
  <2>3. CASE Finish
    BY <1>1, <2>1, <2>2, <2>3, EndKeeps, TcpAlone DEF Finish, Idle, LinkInv
  <2>4. CASE ~Finish
    <3>1. /\ call' \in Calls /\ call'.step \in {"close", "drop"}
          /\ call'.waits = call.waits /\ call'.id = call.id /\ call'.plan = call.plan
      BY <2>1, <2>2, <2>4 DEF Calls
    <3> QED
      BY <1>1, <2>1, <3>1, EndKeeps, TcpAlone DEF LinkInv
  <2> QED
    BY <2>3, <2>4
<1>2. CASE /\ CloseClient(call.sock) /\ Finish
           /\ UNCHANGED <<peer, inbox, accept, reader>>
           /\ UNCHANGED <<requests, asked, planVars, liveVars, slips>>
  <2>1. call.sock \in 0..MaxConns /\ 0 \in 0..MaxConns
    BY CallTypes, TcpAssumption
  <2>2. client' \in 0..MaxConns /\ sock' \in [Conns -> {"none", "open", "closed"}]
    BY <1>2, <2>1 DEF CloseClient, Nobody, LinkInv, TcpTypeOK
  <2>3. TcpTypeOK'
    BY <1>2, <2>2 DEF LinkInv, TcpTypeOK
  <2>4. Truthful'
    BY <1>2, StaysTruthful DEF LinkInv
  <2>5. LinkTypes' /\ Numbered' /\ OfTheCall' /\ Frozen'
    BY <1>2, EndKeeps, CallTypes DEF Finish, Idle
  <2> QED
    BY <2>3, <2>4, <2>5 DEF LinkInv
<1>3. CASE Answered \/ TimesOut
  <2>1. Finish /\ UNCHANGED tcpVars /\ UNCHANGED <<requests, asked, planVars, liveVars, slips>>
    BY <1>3 DEF Answered, TimesOut
  <2> QED
    BY <2>1, EndKeeps, TcpAlone, CallTypes DEF Finish, Idle, LinkInv
<1> QED
  BY <1>1, <1>2, <1>3 DEF SendFails, tcpVars

\* A plan begins with the live state off, and its number is new.
LEMMA PlanKeeps ==
    ASSUME LinkInv, PlanGrab \/ Planned \/ DiscardTrajectory \/ SetLiveState
    PROVE  LinkInv'
<1>1. UNCHANGED Rest /\ UNCHANGED tcpVars
  BY DEF PlanGrab, Planned, DiscardTrajectory, SetLiveState, Rest
<1>2. /\ plans \in 0..MaxPlans /\ pending \in 0..plans /\ live \in BOOLEAN /\ was \in BOOLEAN
      /\ slips \in [Conns -> 0..2] /\ got \subseteq call.waits
      /\ requests \in 0..MaxRequests /\ waiter \in 0..MaxRequests
      /\ asked \subseteq [conn : Conns, id : Requests, plan : 0..MaxPlans]
  BY DEF LinkInv, LinkTypes
<1>3. NoSlips => slips' \in [Conns -> 0..2] /\ \A c \in Conns : slips'[c] = 0
  BY DEF NoSlips
<1>4. \A q \in asked : q.id # 0
  BY <1>2 DEF Requests
<1>5. call.step \in {"idle", "plan"} => got = {} /\ waiter = 0
  BY DEF LinkInv, LinkTypes, OfTheCall
<1>6. CASE PlanGrab
  <2>1. /\ call' = [Idle EXCEPT !.step = "plan"] /\ live' = FALSE /\ was' = live
        /\ NoSlips /\ UNCHANGED planVars /\ call.step = "idle" /\ plans < MaxPlans
    BY <1>6 DEF PlanGrab
  <2>2. /\ call' \in Calls /\ call'.step = "plan" /\ call'.id = 0 /\ call'.plan = NoPlan
        /\ call'.waits = {}
    BY <2>1, CallTypes DEF Idle
  <2>3. LinkTypes'
    BY <1>1, <1>2, <1>3, <1>5, <2>1, <2>2 DEF LinkTypes, Rest, planVars
  <2>4. Numbered'
    BY <1>1, <2>1 DEF LinkInv, Numbered, PlannedOnce, Rest, planVars
  <2>5. OfTheCall'
    BY <1>1, <1>4, <1>5, <2>1, <2>2 DEF OfTheCall, Rest, planVars
  <2>6. Frozen'
    BY <1>3, <2>1 DEF Frozen, FreezeHolds
  <2> QED
    BY <1>1, <2>3, <2>4, <2>5, <2>6, TcpAlone DEF LinkInv, Rest
<1>7. CASE Planned
  <2>1. /\ call' = Idle /\ live' = was /\ was' = TRUE /\ NoSlips /\ call.step = "plan"
        /\ \/ plans' = plans + 1 /\ pending' = plans + 1
           \/ UNCHANGED planVars
    BY <1>7 DEF Planned
  <2>2. /\ call' \in Calls /\ call'.step = "idle" /\ call'.id = 0 /\ call'.waits = {}
    BY <2>1, CallTypes DEF Idle
  <2>3. plans' \in 0..MaxPlans /\ pending' \in 0..plans' /\ plans' >= plans
    BY <1>2, <2>1, <1>1, LinkAssumption DEF planVars, LinkInv, OfTheCall
  <2>4. LinkTypes'
    BY <1>1, <1>2, <1>3, <1>5, <2>1, <2>2, <2>3 DEF LinkTypes, Rest
  <2>5. Numbered'
    <3>1. \A q \in asked : q.id <= requests /\ q.plan <= plans /\ q.plan \in 0..MaxPlans
      BY <1>2 DEF LinkInv, Numbered
    <3>2. \A q \in asked' : q.id <= requests' /\ q.plan <= plans'
      BY <1>1, <1>2, <2>3, <3>1, LinkAssumption DEF Rest
    <3>3. pending' # NoPlan => \A q \in asked' : q.plan # pending'
      <4>1. CASE UNCHANGED planVars
        BY <1>1, <4>1 DEF LinkInv, Numbered, Rest, planVars
      <4>2. CASE plans' = plans + 1 /\ pending' = plans + 1
        BY <1>1, <1>2, <3>1, <4>2, LinkAssumption DEF Rest
      <4> QED
        BY <2>1, <4>1, <4>2
    <3> QED
      BY <1>1, <3>2, <3>3 DEF LinkInv, Numbered, PlannedOnce, Rest
  <2>6. OfTheCall'
    BY <1>1, <1>4, <1>5, <2>1, <2>2 DEF OfTheCall, Rest
  <2>7. Frozen'
    BY <1>3, <2>1, <2>2 DEF Frozen, FreezeHolds
  <2> QED
    BY <1>1, <2>4, <2>5, <2>6, <2>7, TcpAlone DEF LinkInv, Rest
<1>8. CASE DiscardTrajectory \/ SetLiveState
  <2>1. /\ call.step = "idle" /\ UNCHANGED <<call, plans, was, slips>>
        /\ pending' \in {NoPlan, pending} /\ live' \in BOOLEAN
    BY <1>8 DEF DiscardTrajectory, SetLiveState, planVars
  <2>2. pending' \in 0..plans' /\ call' \in Calls
    BY <1>2, <2>1, CallTypes, LinkAssumption DEF NoPlan
  <2>3. LinkTypes'
    BY <1>1, <1>2, <1>5, <2>1, <2>2 DEF LinkTypes, Rest
  <2>4. Numbered' /\ OfTheCall' /\ Frozen'
    BY <1>1, <2>1 DEF LinkInv, Numbered, PlannedOnce, OfTheCall, Frozen, FreezeHolds, Rest
  <2> QED
    BY <1>1, <2>3, <2>4, TcpAlone DEF LinkInv, Rest
<1> QED
  BY <1>6, <1>7, <1>8

-----------------------------------------------------------------------------
(* The theorems.                                                             *)

LEMMA LinkKeeps == LinkInv /\ [Next]_vars => LinkInv'
<1> SUFFICES ASSUME LinkInv, [Next]_vars PROVE LinkInv'
  OBVIOUS
<1>1. ASSUME NEW c \in Conns, Gui(c) \/ ReceiveFails(c),
             UNCHANGED linkVars, UNCHANGED slips
      PROVE  LinkInv'
  <2>1. CASE TcpStep
    BY <1>1, <2>1, ServerKeeps
  <2>2. ASSUME NEW m \in GuiFrames(c), Send(c, m) PROVE LinkInv'
    BY <1>1, <2>2, SendKeeps
  <2> QED
    BY <1>1, <2>1, <2>2 DEF Gui, TcpStep
<1>2. CASE AcceptLoop /\ UNCHANGED linkVars /\ UNCHANGED slips
  BY <1>2, ServerKeeps DEF AcceptLoop, TcpStep
<1>3. ASSUME NEW c \in Conns, Reader(c) PROVE LinkInv'
  <2>1. CASE (EndOfStream(c) \/ ReaderClose(c)) /\ UNCHANGED linkVars /\ UNCHANGED slips
    BY <2>1, ServerKeeps DEF TcpStep
  <2> QED
    BY <1>3, <2>1, ReceiveKeeps, DispatchKeeps, ApplyKeeps DEF Reader
<1>4. CASE Caller
  BY <1>4, TakeSockKeeps, SendAllKeeps, FailKeeps, PlanKeeps DEF Caller
<1>5. CASE Operator
  BY <1>5, BeginKeeps, PlanKeeps DEF Operator
<1>6. CASE UNCHANGED vars
  <2>1. UNCHANGED tcpVars /\ UNCHANGED linkVars /\ UNCHANGED slips
    BY <1>6 DEF vars
  <2>2. LinkTypes' /\ Numbered' /\ OfTheCall' /\ Frozen'
    BY <2>1 DEF tcpVars, linkVars, LinkInv, LinkTypes, Numbered, PlannedOnce, OfTheCall,
                Frozen, FreezeHolds, At
  <2> QED
    BY <2>1, <2>2, TcpAlone DEF LinkInv, linkVars
<1> QED
  BY <1>1, <1>2, <1>3, <1>4, <1>5, <1>6 DEF Next

THEOREM LinkInvariant == Spec => []LinkInv
BY LinkStarts, LinkKeeps, PTL DEF Spec

\* Type correctness of the server, the connections, the calls and the plans.
THEOREM LinkTypeCorrect == Spec => []TypeOK
BY LinkInvariant, TypesSplit, PTL DEF LinkInv

\* A plan moves the arm at most once, for every number of retries, plans and
\* connections.
THEOREM EachPlanOnce == Spec => []PlannedOnce
BY LinkInvariant, PTL DEF LinkInv, Numbered

\* A call takes only an answer to what it asked itself.
THEOREM AnswersBelong == Spec => []OwnAnswer
<1>1. LinkInv => OwnAnswer
  BY DEF LinkInv, OfTheCall, OwnAnswer
<1> QED
  BY <1>1, LinkInvariant, PTL

\* A plan under way sees at most one late state of each connection.
THEOREM PlansAreFrozen == Spec => []FreezeHolds
BY LinkInvariant, PTL DEF LinkInv, Frozen

\* Only the client of the moment is received from.
THEOREM OneClientAtATime == Spec => SingleClient
<1>1. TcpTypeOK /\ [Next]_vars =>
         [\A c \in Conns : client # c /\ ~At(c, "recv") => reader'[c].step # "recv"]_vars
  <2> SUFFICES ASSUME TcpTypeOK, Next, NEW c \in Conns, client # c, ~At(c, "recv")
               PROVE  reader'[c].step # "recv"
    OBVIOUS
  <2>0. reader \in [Conns -> Reading] /\ Loop(c).step # "recv"
    BY DEF TcpTypeOK, Reading, FramesHeld, Loop, Go
  <2>1. CASE reader' = reader
    BY <2>1 DEF At
  <2>2. ASSUME NEW b, NEW r, reader' = [reader EXCEPT ![b] = r],
               b = c => r.step # "recv"
        PROVE  reader'[c].step # "recv"
    BY <2>0, <2>2 DEF At
  <2>3. CASE Spawn
    BY <2>0, <2>2, <2>3 DEF Spawn
  <2>4. ASSUME NEW b \in Conns, Receive(b) \/ EndOfStream(b) \/ ReceiveFails(b)
        PROVE  reader'[c].step # "recv"
    <3>1. b # c
      BY <2>4 DEF Receive, EndOfStream, ReceiveFails
    <3> QED
      BY <2>0, <2>4, <3>1 DEF Receive, EndOfStream, ReceiveFails, At
  <2>5. ASSUME NEW b \in Conns, ReaderClose(b) PROVE reader'[c].step # "recv"
    <3> DEFINE r == [reader[b] EXCEPT !.step = "drop", !.held = client]
    <3>1. r.step = "drop" /\ Go(b, "gone").step = "gone"
      BY <2>0 DEF Reading, Go
    <3>2. reader' = [reader EXCEPT ![b] = r] \/ reader' = [reader EXCEPT ![b] = Go(b, "gone")]
      BY <2>5 DEF ReaderClose
    <3> HIDE DEF r
    <3> QED
      BY <2>2, <3>1, <3>2
  <2>6. ASSUME NEW b \in Conns, Dispatch(b) PROVE reader'[c].step # "recv"
    <3> DEFINE m == Head(reader[b].frame)
    <3>1. reader' = [reader EXCEPT ![b] = AfterFrame(b, m)]
      BY <2>6 DEF Dispatch
    <3>2. b = c => AfterFrame(b, m).step # "recv"
      BY <2>0 DEF AfterFrame, Go
    <3> HIDE DEF m
    <3> QED
      BY <2>2, <3>1, <3>2
  <2>7. ASSUME NEW b \in Conns, ApplyState(b) PROVE reader'[c].step # "recv"
    BY <2>0, <2>2, <2>7 DEF ApplyState
  <2>8. ASSUME NEW b \in Conns, Gui(b) \/ Accept(b) PROVE reader' = reader
    BY <2>8 DEF Gui, Connect, GoAway, Send, Accept
  <2>9. CASE AcceptClose \/ Install
    BY <2>1, <2>9 DEF AcceptClose, Install
  <2>10. CASE Caller
    BY <2>1, <2>10
    DEF Caller, TakeSock, SendAll, SendFails, Answered, TimesOut, Planned, tcpVars, Rest
  <2>11. CASE Operator
    BY <2>1, <2>11
    DEF Operator, TriggerDetection, SendTrajectory, Begin, PlanGrab, DiscardTrajectory,
        SetLiveState, tcpVars, Rest
  <2> QED
    BY <2>1, <2>3, <2>4, <2>5, <2>6, <2>7, <2>8, <2>9, <2>10, <2>11
    DEF Next, Reader, AcceptLoop
<1> QED
  BY <1>1, LinkInvariant, PTL DEF LinkInv, Spec, SingleClient

-----------------------------------------------------------------------------
(* HeadsetLink.  The headset and its server share nothing with the planning  *)
(* link; the same connections, queues of frames and threads are at work.     *)

\* The poses that came by connection l: given to the callback, or on their way.
On(l) == {p \in Poses : given[p] = l} \cup Elements(wire[l])

Senders == [step : {"dial", "get", "send"}, link : 0..MaxLinks, pose : Nat, version : Nat]
Servers == [step : {"none", "recv", "callback", "gone"}, pose : Nat]

HeadsetTypes ==
    /\ poses \in 0..MaxPoses /\ outgoing \in [pose : 0..MaxPoses, version : Nat]
    /\ last_sent \in Nat /\ sender \in Senders
    /\ net \in [Links -> {"none", "up", "fin", "cut"}]
    /\ wire \in [Links -> Seq(Poses)] /\ server \in [Links -> Servers]
    /\ given \in [Poses -> 0..MaxLinks]

\* What the sender has yet to send is newer than all that was sent: the version says
\* so, which starts anew with the app and the buffer.
Unsent ==
    /\ outgoing.pose <= poses /\ last_sent <= outgoing.version
    /\ \A l \in Links : \A p \in On(l) :
           /\ p <= poses
           /\ outgoing.version # last_sent => p < outgoing.pose
           /\ sender.step = "send" => p < sender.pose
    /\ sender.step = "send" =>
           /\ sender.pose \in Poses /\ sender.pose <= outgoing.pose
           /\ sender.version <= outgoing.version
           /\ sender.version # outgoing.version => sender.pose < outgoing.pose

\* The app sends on the newest connection; one that was not made carries nothing.
NewestLink ==
    /\ \A l \in Links : net[l] = "none" => /\ On(l) = {} /\ server[l].step = "none"
                                           /\ \A k \in Links : k > l => net[k] = "none"
    /\ sender.step # "dial" =>
           sender.link \in Links /\ \A k \in Links : k > sender.link => net[k] = "none"

\* Within a connection, and from one to the next, poses come in order.
Ordered ==
    /\ \A l \in Links : \A i, j \in 1..Len(wire[l]) : i < j => wire[l][i] < wire[l][j]
    /\ \A l \in Links : \A i \in 1..Len(wire[l]) :
           \A p \in Poses : given[p] = l => p < wire[l][i]
    /\ \A k, l \in Links : k < l => \A p \in On(k), q \in On(l) : p < q

HeadsetInv == HeadsetTypes /\ Unsent /\ NewestLink /\ Ordered

\* What a queue of poses is after a delivery, a send and a break.
LEMMA PosesTaken ==
    ASSUME NEW s \in Seq(Poses), s # <<>>
    PROVE  /\ Head(s) = s[1] /\ s[1] \in Poses /\ 1 \in 1..Len(s) /\ Tail(s) \in Seq(Poses)
           /\ \A i \in 1..Len(Tail(s)) :
                  Tail(s)[i] = s[i + 1] /\ i + 1 \in 1..Len(s) /\ 1 < i + 1
  OBVIOUS

LEMMA PosesAdded ==
    ASSUME NEW s \in Seq(Poses), NEW p \in Poses
    PROVE  /\ Append(s, p) \in Seq(Poses) /\ Len(Append(s, p)) = Len(s) + 1 /\ Len(s) \in Nat
           /\ \A i \in 1..Len(Append(s, p)) :
                  Append(s, p)[i] = IF i = Len(s) + 1 THEN p ELSE s[i]
  OBVIOUS

LEMMA PosesKept ==
    ASSUME NEW s \in Seq(Poses), NEW k \in 0..Len(s)
    PROVE  /\ SubSeq(s, 1, k) \in Seq(Poses) /\ Len(SubSeq(s, 1, k)) = k
           /\ k <= Len(s) /\ \A i \in 1..k : SubSeq(s, 1, k)[i] = s[i]
  OBVIOUS

\* A connection that swallows poses, or moves none, keeps the order.
LEMMA WireShrinks ==
    ASSUME HeadsetTypes, given' = given, wire' \in [Links -> Seq(Poses)],
           \A l \in Links : /\ Len(wire'[l]) <= Len(wire[l])
                            /\ \A i \in 1..Len(wire'[l]) : wire'[l][i] = wire[l][i]
    PROVE  /\ \A l \in Links : On(l)' \subseteq On(l)
           /\ Ordered => Ordered'
<1>1. \A l \in Links : Len(wire'[l]) \in Nat /\ Len(wire[l]) \in Nat
  BY DEF HeadsetTypes
<1>2. \A l \in Links : 1..Len(wire'[l]) \subseteq 1..Len(wire[l])
  BY <1>1
<1>3. \A l \in Links : Elements(wire'[l]) \subseteq Elements(wire[l])
  BY <1>2 DEF Elements
<1>4. \A l \in Links : On(l)' \subseteq On(l)
  BY <1>3 DEF On, Elements
<1>5. ASSUME Ordered PROVE Ordered'
  <2>1. \A l \in Links : \A i, j \in 1..Len(wire'[l]) : i < j => wire'[l][i] < wire'[l][j]
    BY <1>2, <1>5 DEF Ordered
  <2>2. \A l \in Links : \A i \in 1..Len(wire'[l]) :
            \A p \in Poses : given'[p] = l => p < wire'[l][i]
    BY <1>2, <1>5 DEF Ordered
  <2>3. \A k, l \in Links : k < l => \A p \in On(k)', q \in On(l)' : p < q
    BY <1>4, <1>5 DEF Ordered
  <2> QED
    BY <2>1, <2>2, <2>3 DEF Ordered
<1> QED
  BY <1>4, <1>5

\* ... and a sender that does not dial goes on with the newest connection.
LEMMA NewestStays ==
    ASSUME NewestLink, \A l \in Links : On(l)' \subseteq On(l),
           \A l \in Links : net'[l] = "none" <=> net[l] = "none",
           \A l \in Links : net'[l] = "none" => server'[l].step = "none",
           \/ sender'.step = "dial"
           \/ sender.step # "dial" /\ sender'.link = sender.link
    PROVE  NewestLink'
<1>1. \A l \in Links : net'[l] = "none" =>
          /\ On(l)' = {} /\ server'[l].step = "none"
          /\ \A k \in Links : k > l => net'[k] = "none"
  BY DEF NewestLink
<1>2. sender'.step # "dial" =>
          sender'.link \in Links /\ \A k \in Links : k > sender'.link => net'[k] = "none"
  BY DEF NewestLink
<1> QED
  BY <1>1, <1>2 DEF NewestLink

\* Nothing new is sent: what there is to send stays newer.
LEMMA UnsentStays ==
    ASSUME HeadsetTypes, Unsent, \A l \in Links : On(l)' \subseteq On(l),
           UNCHANGED <<poses, outgoing, last_sent>>,
           sender'.step = "send" => sender' = sender
    PROVE  Unsent'
<1>1. /\ outgoing'.pose <= poses' /\ last_sent' <= outgoing'.version
      /\ sender'.step = "send" =>
             /\ sender'.pose \in Poses /\ sender'.pose <= outgoing'.pose
             /\ sender'.version <= outgoing'.version
             /\ sender'.version # outgoing'.version => sender'.pose < outgoing'.pose
  BY DEF Unsent
<1>2. \A l \in Links : \A p \in On(l)' :
          /\ p <= poses'
          /\ outgoing'.version # last_sent' => p < outgoing'.pose
          /\ sender'.step = "send" => p < sender'.pose
  BY DEF Unsent
<1> QED
  BY <1>1, <1>2 DEF Unsent

-----------------------------------------------------------------------------
(* The app.                                                                  *)

LEMMA SenderFields ==
    ASSUME HeadsetTypes
    PROVE  /\ outgoing.pose \in Nat /\ outgoing.version \in Nat
           /\ Offline \in Senders
           /\ sender \in Senders /\ sender.link \in 0..MaxLinks
           /\ sender.version \in Nat /\ sender.pose \in Nat
<1> MaxPoses \in Nat /\ MaxLinks \in Nat
  BY HeadsetAssumption
<1>1. /\ outgoing.pose \in Nat /\ outgoing.version \in Nat
      /\ sender \in Senders /\ sender.link \in 0..MaxLinks
      /\ sender.version \in Nat /\ sender.pose \in Nat
  BY DEF HeadsetTypes, Senders
<1>2. Offline \in Senders
  BY DEF Offline, Senders
<1> QED
  BY <1>1, <1>2

\* A sender that has dialled, and one that has taken a pose.
LEMMA Connected ==
    ASSUME NEW l \in Links, sender' = [Offline EXCEPT !.step = "get", !.link = l]
    PROVE  /\ sender'.step = "get" /\ sender'.link = l /\ sender' \in Senders
<1> MaxLinks \in Nat
  BY HeadsetAssumption
<1>1. sender' = [step |-> "get", link |-> l, pose |-> 0, version |-> 0]
  BY DEF Offline
<1> QED
  BY <1>1 DEF Senders, Links

LEMMA Taken ==
    ASSUME HeadsetTypes,
           sender' = [sender EXCEPT !.step = "send", !.pose = outgoing.pose,
                                    !.version = outgoing.version]
    PROVE  /\ sender'.step = "send" /\ sender'.pose = outgoing.pose
           /\ sender'.version = outgoing.version /\ sender'.link = sender.link
           /\ sender' \in Senders
<1>1. sender' = [step |-> "send", link |-> sender.link, pose |-> outgoing.pose,
                 version |-> outgoing.version]
  BY SenderFields DEF Senders
<1> QED
  BY <1>1, SenderFields DEF Senders

LEMMA AppTypes ==
    ASSUME HeadsetTypes, Sample \/ (\E l \in Links : Dial(l)) \/ Get \/ TransmitFails \/ Relaunch
    PROVE  HeadsetTypes'
<1> MaxPoses \in Nat /\ MaxLinks \in Nat
  BY HeadsetAssumption
<1> Fresh \in [pose : 0..MaxPoses, version : Nat]
  BY DEF Fresh
<1>1. CASE Sample
  <2>1. poses' \in 0..MaxPoses /\ outgoing' \in [pose : 0..MaxPoses, version : Nat]
    BY <1>1 DEF Sample, HeadsetTypes
  <2> QED
    BY <1>1, <2>1 DEF Sample, HeadsetTypes
<1>2. CASE \E l \in Links : Dial(l)
  <2>1. PICK l \in Links : Dial(l)
    BY <1>2
  <2>2. sender' \in Senders
    <3>1. sender' = [Offline EXCEPT !.step = "get", !.link = l]
      BY <2>1 DEF Dial
    <3> QED
      BY <3>1, Connected
  <2>3. net' \in [Links -> {"none", "up", "fin", "cut"}]
    BY <2>1 DEF Dial, HeadsetTypes
  <2> QED
    BY <2>1, <2>2, <2>3 DEF Dial, HeadsetTypes
<1>3. CASE Get
  <2>1. sender' \in Senders
    BY <1>3, Taken DEF Get
  <2> QED
    BY <1>3, <2>1 DEF Get, HeadsetTypes
<1>4. CASE TransmitFails
  <2>1. sender' \in Senders
    BY <1>4, SenderFields DEF TransmitFails
  <2>2. net' \in [Links -> {"none", "up", "fin", "cut"}]
    BY <1>4 DEF TransmitFails, HeadsetTypes
  <2> QED
    BY <1>4, <2>1, <2>2 DEF TransmitFails, HeadsetTypes
<1>5. CASE Relaunch
  <2>1. net' \in [Links -> {"none", "up", "fin", "cut"}]
    BY <1>5 DEF Relaunch, HeadsetTypes
  <2>2. last_sent' \in Nat /\ sender' \in Senders
    BY <1>5, SenderFields DEF Relaunch
  <2> QED
    BY <1>5, <2>1, <2>2 DEF Relaunch, HeadsetTypes
<1> QED
  BY <1>1, <1>2, <1>3, <1>4, <1>5

\* Everything of the app but the sending: the wires stay as they are.
LEMMA AppKeeps ==
    ASSUME HeadsetInv, Sample \/ (\E l \in Links : Dial(l)) \/ Get \/ TransmitFails \/ Relaunch
    PROVE  HeadsetInv'
<1> HeadsetTypes /\ Unsent /\ NewestLink /\ Ordered
  BY DEF HeadsetInv
<1>1. UNCHANGED <<wire, server, given>>
  <2>1. ASSUME NEW l \in Links, Dial(l) PROVE UNCHANGED <<wire, server, given>>
    BY <2>1 DEF Dial
  <2> QED
    BY <2>1 DEF Sample, Get, TransmitFails, Relaunch
<1>2. \A l \in Links : wire[l] \in Seq(Poses) /\ Len(wire[l]) \in Nat
  BY DEF HeadsetTypes
<1>3. (\A l \in Links : On(l)' \subseteq On(l)) /\ Ordered'
  BY <1>1, <1>2, WireShrinks DEF HeadsetTypes
<1>4. HeadsetTypes'
  BY AppTypes
<1>5. \A l \in Links : net[l] = "none" => server[l].step = "none"
  BY DEF NewestLink
<1>6. CASE Sample
  <2>1. /\ poses' = poses + 1 /\ outgoing' = [pose |-> poses', version |-> outgoing.version + 1]
        /\ UNCHANGED <<last_sent, sender, net>>
    BY <1>6 DEF Sample
  <2>2. NewestLink'
    BY <1>1, <1>3, <1>5, <2>1, NewestStays
  <2>3. /\ outgoing'.pose = poses + 1 /\ outgoing'.version = outgoing.version + 1
        /\ poses \in Nat /\ outgoing.version \in Nat /\ last_sent \in Nat /\ outgoing.pose \in Nat
        /\ sender.version \in Nat
    BY <2>1, SenderFields DEF HeadsetTypes
  <2>4. \A l \in Links : \A p \in On(l)' : p \in Nat /\ p < poses + 1
    <3>1. \A l \in Links : \A p \in On(l) : p \in Poses
      <4>1. \A l \in Links : Elements(wire[l]) \subseteq Poses
        BY DEF Elements, HeadsetTypes
      <4> QED
        BY <4>1 DEF On
    <3>2. \A l \in Links : \A p \in On(l) : p \in Nat /\ p < poses + 1
      BY <2>3, <3>1 DEF Unsent, Poses
    <3> QED
      BY <1>3, <3>2
  <2>5. sender'.step = "send" =>
           /\ sender'.pose \in Poses /\ sender'.pose <= outgoing'.pose
           /\ sender'.version <= outgoing'.version /\ sender'.pose < outgoing'.pose
    BY <2>1, <2>3 DEF Unsent, Poses
  <2>6. Unsent'
    BY <1>3, <2>1, <2>3, <2>4, <2>5 DEF Unsent
  <2> QED
    BY <1>3, <1>4, <2>2, <2>6 DEF HeadsetInv
<1>7. CASE \E l \in Links : Dial(l)
  <2>1. PICK l \in Links : Dial(l)
    BY <1>7
  <2>2. /\ net[l] = "none" /\ \A k \in 1..(l - 1) : net[k] # "none"
        /\ net' = [net EXCEPT ![l] = "up"] /\ sender' = [Offline EXCEPT !.step = "get", !.link = l]
        /\ UNCHANGED <<poses, outgoing, last_sent>>
    BY <2>1 DEF Dial
  <2>3. sender'.step = "get" /\ sender'.link = l
    BY <2>2, Connected
  <2>4. Unsent'
    BY <1>3, <2>2, <2>3, UnsentStays
  <2>5. net'[l] = "up" /\ \A k \in Links \ {l} : net'[k] = net[k]
    BY <2>2 DEF HeadsetTypes
  <2>6. \A k \in Links : net[k] = "none" => k >= l
    BY <2>2 DEF Links
  <2>7. \A k \in Links : net'[k] = "none" =>
            /\ On(k)' = {} /\ server'[k].step = "none"
            /\ \A j \in Links : j > k => net'[j] = "none"
    <3> SUFFICES ASSUME NEW k \in Links, net'[k] = "none"
                 PROVE  /\ On(k)' = {} /\ server'[k].step = "none"
                        /\ \A j \in Links : j > k => net'[j] = "none"
      OBVIOUS
    <3>1. k # l /\ net[k] = "none"
      BY <2>5
    <3>2. k > l
      BY <2>6, <3>1 DEF Links
    <3>3. /\ On(k)' = {} /\ server'[k].step = "none"
      BY <1>1, <1>3, <3>1 DEF NewestLink
    <3>4. \A j \in Links : j > k => j # l /\ net[j] = "none"
      BY <3>1, <3>2 DEF NewestLink, Links
    <3> QED
      BY <2>5, <3>3, <3>4
  <2>8. \A k \in Links : k > l => net'[k] = "none"
    BY <2>2, <2>5 DEF NewestLink, Links
  <2>9. NewestLink'
    BY <2>3, <2>7, <2>8 DEF NewestLink
  <2> QED
    BY <1>3, <1>4, <2>4, <2>9 DEF HeadsetInv
<1>8. CASE Get
  <2>1. /\ sender.step = "get" /\ outgoing.pose # 0 /\ outgoing.version # last_sent
        /\ sender' = [sender EXCEPT !.step = "send", !.pose = outgoing.pose,
                                    !.version = outgoing.version]
        /\ UNCHANGED <<poses, outgoing, last_sent, net>>
    BY <1>8 DEF Get
  <2>2. /\ sender'.step = "send" /\ sender'.pose = outgoing.pose
        /\ sender'.version = outgoing.version /\ sender'.link = sender.link
    BY <2>1, Taken
  <2>3. NewestLink'
    BY <1>1, <1>3, <1>5, <2>1, <2>2, NewestStays
  <2>4. outgoing.pose \in Poses /\ outgoing.version \in Nat
    BY <2>1 DEF HeadsetTypes, Poses
  <2>5. \A l \in Links : \A p \in On(l)' : p <= poses' /\ p < outgoing.pose
    BY <1>3, <2>1 DEF Unsent
  <2>6. outgoing'.pose <= poses' /\ last_sent' <= outgoing'.version
    BY <2>1 DEF Unsent
  <2>7. outgoing.pose <= outgoing.pose /\ outgoing.version <= outgoing.version
    BY <2>4 DEF Poses
  <2>8. Unsent'
    BY <2>1, <2>2, <2>4, <2>5, <2>6, <2>7 DEF Unsent
  <2> QED
    BY <1>3, <1>4, <2>3, <2>8 DEF HeadsetInv
<1>9. CASE TransmitFails
  <2>1. /\ sender.step = "send" /\ sender' = Offline /\ UNCHANGED <<poses, outgoing, last_sent>>
        /\ UNCHANGED net \/ (net[sender.link] = "up" /\ net' = [net EXCEPT ![sender.link] = "fin"])
    BY <1>9 DEF TransmitFails
  <2>2. sender'.step = "dial"
    BY <2>1 DEF Offline
  <2>3. \A l \in Links : net'[l] = "none" <=> net[l] = "none"
    BY <2>1 DEF HeadsetTypes
  <2>4. NewestLink'
    BY <1>1, <1>3, <1>5, <2>2, <2>3, NewestStays
  <2>5. Unsent'
    BY <1>3, <2>1, <2>2, UnsentStays
  <2> QED
    BY <1>3, <1>4, <2>4, <2>5 DEF HeadsetInv
<1>10. CASE Relaunch
  <2>1. /\ outgoing' = Fresh /\ last_sent' = 0 /\ sender' = Offline
        /\ net' = [l \in Links |-> IF net[l] = "up" THEN "fin" ELSE net[l]]
        /\ UNCHANGED poses
    BY <1>10 DEF Relaunch
  <2>2. sender'.step = "dial" /\ outgoing'.pose = 0 /\ outgoing'.version = 0
    BY <2>1 DEF Offline, Fresh
  <2>3. \A l \in Links : net'[l] = "none" <=> net[l] = "none"
    BY <2>1
  <2>4. NewestLink'
    BY <1>1, <1>3, <1>5, <2>2, <2>3, NewestStays
  <2>5. \A l \in Links : \A p \in On(l)' : p <= poses'
    BY <1>3, <2>1 DEF Unsent
  <2>6. outgoing'.pose <= poses' /\ last_sent' <= outgoing'.version
    BY <2>1, <2>2 DEF HeadsetTypes
  <2>7. Unsent'
    BY <2>1, <2>2, <2>5, <2>6 DEF Unsent
  <2> QED
    BY <1>3, <1>4, <2>4, <2>7 DEF HeadsetInv
<1> QED
  BY <1>6, <1>7, <1>8, <1>9, <1>10

\* A pose is sent: it is newer than all that were, and comes by the newest connection.
LEMMA TransmitKeeps ==
    ASSUME HeadsetInv, Transmit
    PROVE  HeadsetInv'
<1> HeadsetTypes /\ Unsent /\ NewestLink /\ Ordered
  BY DEF HeadsetInv
<1>1. PICK l : l = sender.link
  OBVIOUS
<1>2. /\ sender.step = "send" /\ last_sent' = sender.version
      /\ sender' = [Offline EXCEPT !.step = "get", !.link = l]
      /\ UNCHANGED <<poses, outgoing, net, server, given>>
      /\ \/ net[l] = "up" /\ wire' = [wire EXCEPT ![l] = Append(wire[l], sender.pose)]
         \/ UNCHANGED wire
  BY <1>1 DEF Transmit
<1>3. PICK p \in Poses : p = sender.pose
  BY <1>2 DEF Unsent
<1>4. /\ l \in Links /\ (\A k \in Links : k > l => net[k] = "none")
      /\ p <= outgoing.pose /\ sender.version <= outgoing.version
      /\ sender.version # outgoing.version => p < outgoing.pose
      /\ \A k \in Links : \A q \in On(k) : q <= poses /\ q < p
  BY <1>1, <1>2, <1>3 DEF Unsent, NewestLink
<1>5. sender'.step = "get" /\ sender'.link = l /\ sender' \in Senders
  BY <1>2, <1>4, Connected
<1>6. /\ outgoing.pose \in Nat /\ poses \in Nat /\ outgoing.pose <= poses
      /\ \A k \in Links : \A q \in On(k) : q \in Nat
  <2>1. \A k \in Links : \A q \in On(k) : q \in Poses
    <3>1. \A k \in Links : Elements(wire[k]) \subseteq Poses
      BY DEF Elements, HeadsetTypes
    <3> QED
      BY <3>1 DEF On
  <2> QED
    BY <2>1, SenderFields DEF Unsent, Poses, HeadsetTypes
<1>7. ASSUME /\ \A k \in Links : On(k)' \subseteq On(k) \cup {p}
             /\ \A k \in Links : net[k] = "none" => On(k)' = {}
             /\ wire' \in [Links -> Seq(Poses)] /\ Ordered'
      PROVE  HeadsetInv'
  <2>1. HeadsetTypes'
    BY <1>2, <1>5, <1>7, SenderFields DEF HeadsetTypes
  <2>2. \A k \in Links : net'[k] = "none" =>
            /\ On(k)' = {} /\ server'[k].step = "none"
            /\ \A j \in Links : j > k => net'[j] = "none"
    BY <1>2, <1>7 DEF NewestLink
  <2>3. NewestLink'
    BY <1>2, <1>4, <1>5, <2>2 DEF NewestLink
  <2>4. p \in Nat
    BY DEF Poses
  <2>5. \A k \in Links : \A q \in On(k)' :
            /\ q <= poses
            /\ outgoing.version # sender.version => q < outgoing.pose
    BY <1>4, <1>6, <1>7, <2>4
  <2>6. Unsent'
    BY <1>2, <1>4, <1>5, <1>6, <2>5 DEF Unsent
  <2> QED
    BY <1>7, <2>1, <2>3, <2>6 DEF HeadsetInv
<1>8. CASE UNCHANGED wire
  <2>1. \A k \in Links : Len(wire[k]) \in Nat
    BY DEF HeadsetTypes
  <2>2. (\A k \in Links : On(k)' \subseteq On(k)) /\ Ordered'
    BY <1>2, <1>8, <2>1, WireShrinks DEF HeadsetTypes
  <2>3. \A k \in Links : net[k] = "none" => On(k)' = {}
    BY <2>2 DEF NewestLink
  <2>4. wire' \in [Links -> Seq(Poses)]
    BY <1>8 DEF HeadsetTypes
  <2> QED
    BY <1>7, <2>2, <2>3, <2>4
<1>9. CASE net[l] = "up" /\ wire' = [wire EXCEPT ![l] = Append(wire[l], sender.pose)]
  <2>1. /\ wire'[l] = Append(wire[l], p) /\ \A k \in Links \ {l} : wire'[k] = wire[k]
        /\ wire[l] \in Seq(Poses)
    BY <1>3, <1>4, <1>9 DEF HeadsetTypes
  <2>2. PICK n \in Nat : n = Len(wire[l])
    BY <2>1
  <2>3. /\ Len(wire'[l]) = n + 1 /\ wire'[l] \in Seq(Poses)
        /\ \A i \in 1..(n + 1) : wire'[l][i] = IF i = n + 1 THEN p ELSE wire[l][i]
    BY <2>1, <2>2, PosesAdded
  <2>4. wire' \in [Links -> Seq(Poses)]
    BY <1>9, <2>1, <2>3 DEF HeadsetTypes
  <2>5. Elements(wire'[l]) \subseteq Elements(wire[l]) \cup {p}
    BY <2>2, <2>3 DEF Elements
  <2>6. On(l)' \subseteq On(l) \cup {p}
    BY <1>2, <2>5 DEF On, Elements
  <2>7. \A k \in Links \ {l} : On(k)' = On(k)
    BY <1>2, <2>1 DEF On, Elements
  <2>8. \A k \in Links : net[k] = "none" => On(k)' = {}
    BY <1>9, <2>7 DEF NewestLink
  <2>9. \A i \in 1..n : wire[l][i] \in On(l)
    BY <2>2 DEF On, Elements
  <2>10. \A k \in Links : \A i, j \in 1..Len(wire'[k]) : i < j => wire'[k][i] < wire'[k][j]
    <3>1. ASSUME NEW i \in 1..(n + 1), NEW j \in 1..(n + 1), i < j
          PROVE  wire'[l][i] < wire'[l][j]
      <4>1. i \in 1..n /\ wire'[l][i] = wire[l][i]
        BY <2>3, <3>1
      <4>2. CASE j = n + 1
        BY <1>4, <2>3, <2>9, <4>1, <4>2
      <4>3. CASE j \in 1..n
        <5>1. wire'[l][j] = wire[l][j]
          BY <2>3, <4>3
        <5> QED
          BY <1>4, <2>2, <3>1, <4>1, <4>3, <5>1 DEF Ordered
      <4> QED
        BY <4>2, <4>3
    <3> QED
      BY <2>1, <2>3, <3>1 DEF Ordered
  <2>11. \A k \in Links : \A i \in 1..Len(wire'[k]) :
             \A q \in Poses : given'[q] = k => q < wire'[k][i]
    <3>1. ASSUME NEW i \in 1..(n + 1), NEW q \in Poses, given[q] = l
          PROVE  q < wire'[l][i]
      <4>1. CASE i = n + 1
        <5>1. q \in On(l)
          BY <3>1 DEF On
        <5> QED
          BY <1>4, <2>3, <4>1, <5>1
      <4>2. CASE i \in 1..n
        BY <1>4, <2>2, <2>3, <3>1, <4>2 DEF Ordered
      <4> QED
        BY <4>1, <4>2
    <3> QED
      BY <1>2, <2>1, <2>3, <3>1 DEF Ordered
  <2>12. \A j, k \in Links : j < k => \A q \in On(j)', r \in On(k)' : q < r
    <3> SUFFICES ASSUME NEW j \in Links, NEW k \in Links, j < k, NEW q \in On(j)', NEW r \in On(k)'
                 PROVE  q < r
      OBVIOUS
    <3>1. ~(k > l)
      BY <1>4, <2>8
    <3>2. j # l /\ q \in On(j)
      BY <2>7, <3>1 DEF Links
    <3>3. CASE r = p
      BY <1>4, <3>2, <3>3
    <3>4. CASE r \in On(k)
      BY <3>2, <3>4 DEF Ordered
    <3> QED
      BY <2>6, <2>7, <3>3, <3>4
  <2>13. Ordered'
    BY <2>10, <2>11, <2>12 DEF Ordered
  <2> QED
    BY <1>7, <2>4, <2>6, <2>7, <2>8, <2>13
<1> QED
  BY <1>2, <1>8, <1>9

-----------------------------------------------------------------------------
(* The network and the server.                                               *)

\* A connection that breaks has been made, and keeps what it had at most.
LEMMA SwallowKeeps ==
    ASSUME HeadsetInv, NEW l \in Links, NEW kept \in 0..Len(wire[l]), Swallow(l, kept),
           net[l] # "none", given' = given, UNCHANGED <<poses, appVars>>,
           server' \in [Links -> Servers],
           \A k \in Links \ {l} : server'[k] = server[k]
    PROVE  HeadsetInv'
<1> HeadsetTypes /\ Unsent /\ NewestLink /\ Ordered
  BY DEF HeadsetInv
<1>1. /\ wire' = [wire EXCEPT ![l] = SubSeq(wire[l], 1, kept)]
      /\ net' = [net EXCEPT ![l] = "cut"] /\ UNCHANGED <<poses, outgoing, last_sent, sender>>
  BY DEF Swallow, appVars
<1>2. /\ wire[l] \in Seq(Poses) /\ wire'[l] = SubSeq(wire[l], 1, kept)
      /\ \A k \in Links \ {l} : wire'[k] = wire[k] /\ Len(wire[k]) \in Nat
  BY <1>1 DEF HeadsetTypes
<1>3. /\ wire'[l] \in Seq(Poses) /\ Len(wire'[l]) = kept /\ kept <= Len(wire[l])
      /\ \A i \in 1..kept : wire'[l][i] = wire[l][i]
  BY <1>2, PosesKept
<1>4. wire' \in [Links -> Seq(Poses)]
  BY <1>1, <1>2, <1>3 DEF HeadsetTypes
<1>5. \A k \in Links : /\ Len(wire'[k]) <= Len(wire[k])
                       /\ \A i \in 1..Len(wire'[k]) : wire'[k][i] = wire[k][i]
  BY <1>2, <1>3
<1>6. (\A k \in Links : On(k)' \subseteq On(k)) /\ Ordered'
  BY <1>4, <1>5, WireShrinks
<1>7. \A k \in Links : net'[k] = "none" <=> net[k] = "none"
  BY <1>1 DEF HeadsetTypes
<1>8. \A k \in Links : net'[k] = "none" => server'[k].step = "none"
  BY <1>7 DEF NewestLink
<1>9. sender'.step = "dial" \/ (sender.step # "dial" /\ sender'.link = sender.link)
  BY <1>1
<1>10. NewestLink'
  BY <1>6, <1>7, <1>8, <1>9, NewestStays
<1>11. Unsent'
  BY <1>1, <1>6, UnsentStays
<1>12. HeadsetTypes'
  BY <1>1, <1>4 DEF HeadsetTypes
<1> QED
  BY <1>6, <1>10, <1>11, <1>12 DEF HeadsetInv

\* A thread that starts, comes back from its callback or ends moves no pose.
LEMMA ThreadKeeps ==
    ASSUME HeadsetInv, NEW l \in Links, net[l] # "none",
           UNCHANGED <<poses, appVars, net, wire, given>>,
           NEW step \in {"recv", "gone"}, Serve(l, step, 0)
    PROVE  HeadsetInv'
<1> HeadsetTypes /\ Unsent /\ NewestLink /\ Ordered
  BY DEF HeadsetInv
<1>1. /\ UNCHANGED <<poses, outgoing, last_sent, sender, net, wire, given>>
      /\ server' = [server EXCEPT ![l] = [step |-> step, pose |-> 0]]
  BY DEF appVars, Serve
<1>2. server' \in [Links -> Servers] /\ \A k \in Links \ {l} : server'[k] = server[k]
  BY <1>1 DEF HeadsetTypes, Servers
<1>3. HeadsetTypes'
  BY <1>1, <1>2 DEF HeadsetTypes
<1>4. \A k \in Links : On(k)' = On(k)
  BY <1>1 DEF On
<1>5. Ordered'
  BY <1>1, <1>4 DEF Ordered
<1>6. Unsent'
  BY <1>1, <1>4, UnsentStays
<1>7. \A k \in Links : net'[k] = "none" => server'[k].step = "none"
  BY <1>1, <1>2 DEF NewestLink
<1>8. NewestLink'
  BY <1>1, <1>4, <1>7, NewestStays
<1> QED
  BY <1>3, <1>5, <1>6, <1>8 DEF HeadsetInv

\* A delivery hands over the oldest pose of its connection.
LEMMA DeliverKeeps ==
    ASSUME HeadsetInv, NEW l \in Links, Deliver(l)
    PROVE  HeadsetInv'
<1> HeadsetTypes /\ Unsent /\ NewestLink /\ Ordered
  BY DEF HeadsetInv
<1>1. /\ UNCHANGED <<poses, outgoing, last_sent, sender, net>>
      /\ server' = [server EXCEPT ![l] = [step |-> "callback", pose |-> Head(wire[l])]]
      /\ wire' = [wire EXCEPT ![l] = Tail(wire[l])]
      /\ given' = [given EXCEPT ![Head(wire[l])] = l]
      /\ wire[l] # <<>> /\ server[l].step = "recv"
  BY DEF Deliver, appVars, Serve
<1>2. wire[l] \in Seq(Poses) /\ wire'[l] = Tail(wire[l])
  BY <1>1 DEF HeadsetTypes
<1>3. /\ Head(wire[l]) = wire[l][1] /\ wire[l][1] \in Poses /\ 1 \in 1..Len(wire[l])
      /\ wire'[l] \in Seq(Poses)
      /\ \A i \in 1..Len(wire'[l]) : /\ wire'[l][i] = wire[l][i + 1]
                                     /\ i + 1 \in 1..Len(wire[l]) /\ 1 < i + 1
  BY <1>1, <1>2, PosesTaken
<1>4. PICK first \in Poses : first = wire[l][1]
  BY <1>3
<1>5. given' = [given EXCEPT ![first] = l] /\ Links \subseteq 0..MaxLinks
  BY <1>1, <1>3, <1>4, HeadsetAssumption DEF Links
<1>6. /\ given'[first] = l /\ \A p \in Poses \ {first} : given'[p] = given[p]
      /\ given' \in [Poses -> 0..MaxLinks]
  BY <1>5 DEF HeadsetTypes
<1>7. server' \in [Links -> Servers] /\ \A k \in Links \ {l} : server'[k] = server[k]
  <2>1. Head(wire[l]) \in Nat
    BY <1>3, HeadsetAssumption DEF Poses
  <2> QED
    BY <1>1, <2>1 DEF HeadsetTypes, Servers
<1>8. HeadsetTypes'
  BY <1>1, <1>2, <1>3, <1>6, <1>7 DEF HeadsetTypes
<1>9. \A k \in Links \ {l} : wire'[k] = wire[k]
  BY <1>1 DEF HeadsetTypes
<1>10. \A k \in Links : On(k)' \subseteq On(k)
  <2>1. SUFFICES ASSUME NEW k \in Links, NEW p \in On(k)' PROVE p \in On(k)
    OBVIOUS
  <2>2. CASE p \in Poses /\ given'[p] = k
    <3>1. CASE p = first
      BY <1>3, <1>4, <1>6, <2>2, <3>1 DEF On, Elements
    <3>2. CASE p # first
      BY <1>6, <2>2, <3>2 DEF On
    <3> QED
      BY <3>1, <3>2
  <2>3. CASE p \in Elements(wire'[k])
    <3>1. PICK i \in 1..Len(wire'[k]) : p = wire'[k][i]
      BY <2>3 DEF Elements
    <3>2. CASE k = l
      BY <1>3, <3>1, <3>2 DEF On, Elements
    <3>3. CASE k # l
      BY <1>9, <3>1, <3>3 DEF On, Elements
    <3> QED
      BY <3>2, <3>3
  <2> QED
    BY <2>1, <2>2, <2>3 DEF On
<1>11. \A k \in Links : \A i, j \in 1..Len(wire'[k]) : i < j => wire'[k][i] < wire'[k][j]
  <2>1. SUFFICES ASSUME NEW k \in Links, NEW i \in 1..Len(wire'[k]),
                        NEW j \in 1..Len(wire'[k]), i < j
                 PROVE  wire'[k][i] < wire'[k][j]
    OBVIOUS
  <2>2. CASE k = l
    <3>1. i + 1 \in 1..Len(wire[l]) /\ j + 1 \in 1..Len(wire[l]) /\ i + 1 < j + 1
      BY <1>3, <2>1, <2>2
    <3> QED
      BY <1>3, <2>1, <2>2, <3>1 DEF Ordered
  <2>3. CASE k # l
    BY <1>9, <2>1, <2>3 DEF Ordered
  <2> QED
    BY <2>2, <2>3
<1>12. \A k \in Links : \A i \in 1..Len(wire'[k]) :
           \A p \in Poses : given'[p] = k => p < wire'[k][i]
  <2>1. SUFFICES ASSUME NEW k \in Links, NEW i \in 1..Len(wire'[k]),
                        NEW p \in Poses, given'[p] = k
                 PROVE  p < wire'[k][i]
    OBVIOUS
  <2>2. CASE k = l /\ p = first
    <3>1. i + 1 \in 1..Len(wire[l]) /\ 1 < i + 1
      BY <1>3, <2>1, <2>2
    <3>2. wire[l][1] < wire[l][i + 1]
      BY <1>3, <3>1 DEF Ordered
    <3> QED
      BY <1>3, <1>4, <2>1, <2>2, <3>2
  <2>3. CASE k = l /\ p # first
    <3>1. given[p] = l /\ i + 1 \in 1..Len(wire[l]) /\ wire'[k][i] = wire[l][i + 1]
      BY <1>3, <1>6, <2>1, <2>3
    <3>2. \A j \in 1..Len(wire[l]) : given[p] = l => p < wire[l][j]
      BY DEF Ordered
    <3> QED
      BY <3>1, <3>2
  <2>4. CASE k # l
    BY <1>6, <1>9, <2>1, <2>4 DEF Ordered
  <2> QED
    BY <2>2, <2>3, <2>4
<1>13. Ordered'
  <2>1. \A j, k \in Links : j < k => \A p \in On(j)', q \in On(k)' : p < q
    BY <1>10 DEF Ordered
  <2> QED
    BY <1>11, <1>12, <2>1 DEF Ordered
<1>14. Unsent'
  BY <1>1, <1>10, UnsentStays
<1>15. \A k \in Links : net'[k] = "none" => server'[k].step = "none"
  BY <1>1, <1>7 DEF NewestLink
<1>16. NewestLink'
  BY <1>1, <1>10, <1>15, NewestStays
<1> QED
  BY <1>8, <1>13, <1>14, <1>16 DEF HeadsetInv

LEMMA ServerThreadKeeps ==
    ASSUME HeadsetInv, NEW l \in Links,
           Break(l) \/ HeadsetServer(l) \/ Raise(l) \/ EndOfLink(l)
    PROVE  HeadsetInv'
<1> NewestLink /\ HeadsetTypes
  BY DEF HeadsetInv
<1>1. server[l].step # "none" => net[l] # "none"
  BY DEF NewestLink
<1>2. CASE Break(l)
  <2>1. PICK kept \in 0..Len(wire[l]) : Swallow(l, kept)
    BY <1>2 DEF Break
  <2>2. /\ net[l] # "none" /\ UNCHANGED <<poses, appVars, server, given>>
        /\ server' \in [Links -> Servers] /\ \A k \in Links \ {l} : server'[k] = server[k]
    BY <1>2 DEF Break, HeadsetTypes
  <2> QED
    BY <2>1, <2>2, SwallowKeeps
<1>3. CASE Raise(l)
  <2>1. /\ Swallow(l, 0) /\ UNCHANGED <<poses, appVars, given>> /\ net[l] # "none"
        /\ server' = [server EXCEPT ![l] = [step |-> "gone", pose |-> 0]]
    BY <1>1, <1>3 DEF Raise, Serve
  <2>2. server' \in [Links -> Servers] /\ \A k \in Links \ {l} : server'[k] = server[k]
    BY <2>1 DEF HeadsetTypes, Servers
  <2>3. 0 \in 0..Len(wire[l])
    BY DEF HeadsetTypes
  <2> QED
    BY <2>1, <2>2, <2>3, SwallowKeeps
<1>4. CASE Spawned(l)
  <2>1. /\ UNCHANGED <<poses, appVars, net, wire, given>> /\ net[l] # "none"
        /\ Serve(l, "recv", 0)
    BY <1>4 DEF Spawned
  <2> QED
    BY <2>1, ThreadKeeps
<1>5. CASE Return(l)
  <2>1. /\ UNCHANGED <<poses, appVars, net, wire, given>> /\ net[l] # "none"
        /\ Serve(l, "recv", 0)
    BY <1>1, <1>5 DEF Return
  <2> QED
    BY <2>1, ThreadKeeps
<1>6. CASE EndOfLink(l)
  <2>1. /\ UNCHANGED <<poses, appVars, net, wire, given>> /\ net[l] # "none"
        /\ Serve(l, "gone", 0)
    BY <1>1, <1>6 DEF EndOfLink
  <2> QED
    BY <2>1, ThreadKeeps
<1> QED
  BY <1>2, <1>3, <1>4, <1>5, <1>6, DeliverKeeps DEF HeadsetServer

-----------------------------------------------------------------------------
(* The link.                                                                 *)

LEMMA HeadsetStarts == HeadsetInit => HeadsetInv
<1> SUFFICES ASSUME HeadsetInit PROVE HeadsetInv
  OBVIOUS
<1> MaxPoses \in Nat /\ MaxLinks \in Nat
  BY HeadsetAssumption
<1>1. /\ poses = 0 /\ outgoing = [pose |-> 0, version |-> 0] /\ last_sent = 0
      /\ sender = [step |-> "dial", link |-> 0, pose |-> 0, version |-> 0]
      /\ net = [l \in Links |-> "none"] /\ wire = [l \in Links |-> <<>>]
      /\ server = [l \in Links |-> [step |-> "none", pose |-> 0]]
      /\ given = [p \in Poses |-> 0]
  BY DEF HeadsetInit, Fresh, Offline
<1>2. <<>> \in Seq(Poses) /\ Len(<<>>) = 0
  OBVIOUS
<1>3. \A l \in Links : wire[l] = <<>> /\ l # 0
  BY <1>1 DEF Links
<1>4. HeadsetTypes
  BY <1>1, <1>2 DEF HeadsetTypes, Senders, Servers
<1>5. \A l \in Links : Elements(wire[l]) = {}
  BY <1>2, <1>3 DEF Elements
<1>6. \A l \in Links : On(l) = {}
  BY <1>1, <1>3, <1>5 DEF On
<1>7. Unsent
  BY <1>1, <1>6 DEF Unsent
<1>8. NewestLink
  BY <1>1, <1>6 DEF NewestLink
<1>9. Ordered
  BY <1>2, <1>3, <1>6 DEF Ordered
<1> QED
  BY <1>4, <1>7, <1>8, <1>9 DEF HeadsetInv

LEMMA HeadsetKeeps == HeadsetInv /\ [HeadsetNext]_headsetVars => HeadsetInv'
<1> SUFFICES ASSUME HeadsetInv, [HeadsetNext]_headsetVars PROVE HeadsetInv'
  OBVIOUS
<1>1. CASE UNCHANGED headsetVars
  <2>1. UNCHANGED <<poses, outgoing, last_sent, sender, net, wire, server, given>>
    BY <1>1 DEF headsetVars, appVars
  <2> QED
    BY <2>1 DEF HeadsetInv, HeadsetTypes, Unsent, NewestLink, Ordered, On
<1>2. CASE Sample \/ App \/ Relaunch
  BY <1>2, AppKeeps, TransmitKeeps DEF App
<1>3. CASE \E l \in Links : Break(l) \/ HeadsetServer(l) \/ Raise(l) \/ EndOfLink(l)
  BY <1>3, ServerThreadKeeps
<1> QED
  BY <1>1, <1>2, <1>3 DEF HeadsetNext

\* Poses come down every connection in the order they were sampled, and each
\* connection carries newer ones than its predecessors: _last_sent_version lets none
\* be sent twice, across reconnects (send_joint) and launches of the app.
THEOREM HeadsetInvariant == HeadsetSpec => []HeadsetInv
<1> QED
  BY HeadsetStarts, HeadsetKeeps, PTL DEF HeadsetSpec

\* on_joints is called at most once with a pose, and after a newer one only from a
\* connection that was given up before the newer one was sent.
THEOREM HeadsetInOrder == HeadsetSpec => PosesInOrder
<1>1. ASSUME HeadsetInv, [HeadsetNext]_headsetVars
      PROVE  [\A l \in Links, p \in Poses :
                 server[l].step = "recv" /\ server'[l] = [step |-> "callback", pose |-> p] =>
                    /\ given[p] = 0
                    /\ \A q \in Poses : q > p /\ given[q] # 0 => given[q] > l]_headsetVars
  <2> USE <1>1
  <2> HeadsetTypes /\ Ordered
    BY DEF HeadsetInv
  <2>1. SUFFICES ASSUME HeadsetNext, NEW l \in Links, NEW p \in Poses,
                        server[l].step = "recv",
                        server'[l] = [step |-> "callback", pose |-> p]
                 PROVE  /\ given[p] = 0
                        /\ \A q \in Poses : q > p /\ given[q] # 0 => given[q] > l
    OBVIOUS
  <2>2. server'[l].step = "callback" /\ server'[l].pose = p
    BY <2>1
  <2>3. server'[l] # server[l]
    BY <2>1, <2>2
  <2>4. PICK k \in Links : Break(k) \/ HeadsetServer(k) \/ Raise(k) \/ EndOfLink(k)
    <3>1. ~Sample /\ ~Relaunch /\ ~Transmit /\ ~TransmitFails /\ \A k \in Links : ~Dial(k)
      BY <2>3 DEF Sample, Relaunch, Transmit, TransmitFails, Dial
    <3>2. ~Get
      BY <2>3, Zenon DEF Get
    <3> QED
      BY <2>1, <3>1, <3>2 DEF HeadsetNext, App
  <2>5. ~Break(k)
    BY <2>3 DEF Break
  <2>6. ASSUME NEW step, NEW pose, Serve(k, step, pose)
        PROVE  k = l /\ step = "callback" /\ pose = p
    <3>1. server' = [server EXCEPT ![k] = [step |-> step, pose |-> pose]]
      BY <2>6 DEF Serve
    <3>2. k = l
      BY <2>3, <3>1 DEF HeadsetTypes
    <3>3. server'[l] = [step |-> step, pose |-> pose]
      BY <3>1, <3>2 DEF HeadsetTypes
    <3> QED
      BY <2>2, <3>2, <3>3
  <2>7. k = l /\ Deliver(l) /\ Head(wire[l]) = p
    <3>1. ~Spawned(k) /\ ~Return(k) /\ ~Raise(k) /\ ~EndOfLink(k)
      BY <2>6 DEF Spawned, Return, Raise, EndOfLink
    <3>2. Deliver(k)
      BY <2>4, <2>5, <3>1 DEF HeadsetServer
    <3>3. Serve(k, "callback", Head(wire[k]))
      BY <3>2 DEF Deliver
    <3> QED
      BY <2>6, <3>2, <3>3
  <2>8. wire[l] \in Seq(Poses) /\ wire[l] # <<>>
    BY <2>7 DEF Deliver, HeadsetTypes
  <2>9. 1 \in 1..Len(wire[l]) /\ wire[l][1] = p
    BY <2>7, <2>8, PosesTaken
  <2>10. p \in On(l)
    BY <2>9 DEF On, Elements
  <2>11. \A q \in Poses : q \in Int /\ given[q] \in 0..MaxLinks /\ MaxLinks \in Nat
    <3>1. MaxPoses \in Nat /\ MaxLinks \in Nat
      BY HeadsetAssumption
    <3> QED
      BY <3>1 DEF HeadsetTypes, Poses
  <2>12. \A q \in Poses : given[q] # 0 => given[q] \in Links /\ q \in On(given[q])
    BY <2>11 DEF On, Links
  <2>13. ASSUME NEW q \in Poses, given[q] # 0
         PROVE  /\ given[q] = l => q < p
                /\ given[q] < l => q < p
    BY <2>9, <2>10, <2>12, <2>13 DEF Ordered
  <2>14. ASSUME NEW q \in Poses, given[q] # 0, given[q] <= l PROVE q < p
    BY <2>11, <2>13, <2>14 DEF Links
  <2>15. ASSUME NEW q \in Poses, given[q] # 0, q > p PROVE given[q] > l
    BY <2>11, <2>14, <2>15 DEF Links, Poses
  <2>16. given[p] = 0
    <3>1. SUFFICES ASSUME given[p] # 0 PROVE FALSE
      OBVIOUS
    <3>2. given[p] > l
      BY <2>11, <2>14, <3>1 DEF Links, Poses
    <3>3. given[p] \in Links /\ p \in On(given[p])
      BY <2>12, <3>1
    <3>4. p < p
      BY <2>10, <3>2, <3>3 DEF Ordered
    <3> QED
      BY <2>11, <3>4
  <2> QED
    BY <2>15, <2>16
<1> QED
  BY <1>1, HeadsetInvariant, PTL DEF HeadsetSpec, PosesInOrder
============================================================================
