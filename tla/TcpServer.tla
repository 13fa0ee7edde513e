----------------------------- MODULE TcpServer -----------------------------
(* The TCP server of the planning process (planning_server/tcp_server.py): one *)
(* listening socket and one active client, the motion planning GUI.  An accept *)
(* thread replaces the client, each connection has a reader thread, and        *)
(* send_json runs on the thread of its caller.  All of them may drop the       *)
(* client, and none holds a lock while it does.                                *)
(*                                                                             *)
(* The GUI is outside the repository: it connects, sends whole frames in order *)
(* and goes away, at any moment.                                               *)
EXTENDS Integers, Sequences

CONSTANTS
    Messages,           \* the frames the GUI sends
    MaxConns,           \* bound: connections the GUI makes
    MaxInbox            \* bound: frames of one connection on their way

ASSUME TcpAssumption == MaxConns \in Nat /\ MaxInbox \in Nat

VARIABLES
    client,     \* _client_sock: the connection, or Nobody
    sock,       \* the server's end of every connection
    peer,       \* the GUI's end
    inbox,      \* frames the GUI has sent and no reader has received
    accept,     \* the accept thread: step, its client and the sock of _close_client
    reader      \* the reader threads: step, frame and the sock of _close_client

tcpVars == <<client, sock, peer, inbox, accept, reader>>

Nobody == 0
Conns == 1..MaxConns
NoFrame == <<>>        \* a reader holds no frame, or <<m>>

TcpTypeOK ==
    /\ client \in 0..MaxConns
    /\ sock \in [Conns -> {"none", "open", "closed"}]
    /\ peer \in [Conns -> {"none", "up", "gone"}]
    /\ inbox \in [Conns -> Seq(Messages)]
    /\ accept \in [step : {"listen", "close", "drop", "install", "spawn"},
                   conn : 0..MaxConns, held : 0..MaxConns]
    /\ reader \in [Conns -> [step : {"none", "recv", "dispatch", "apply", "close",
                                     "drop", "gone"},
                             frame : {NoFrame} \cup {<<m>> : m \in Messages}, held : 0..MaxConns]]

TcpInit ==
    /\ client = Nobody
    /\ sock = [c \in Conns |-> "none"]
    /\ peer = [c \in Conns |-> "none"]
    /\ inbox = [c \in Conns |-> <<>>]
    /\ accept = [step |-> "listen", conn |-> Nobody, held |-> Nobody]
    /\ reader = [c \in Conns |-> [step |-> "none", frame |-> NoFrame, held |-> Nobody]]

-----------------------------------------------------------------------------
(* The GUI.                                                                  *)

Connect(c) ==
    /\ peer[c] = "none" /\ \A b \in 1..(c - 1) : peer[b] # "none"
    /\ peer' = [peer EXCEPT ![c] = "up"]
    /\ sock' = [sock EXCEPT ![c] = "open"]
    /\ UNCHANGED <<client, inbox, accept, reader>>

\* What it sends when nothing reads any more does not matter.
Send(c, m) ==
    /\ peer[c] = "up" /\ reader[c].step # "gone" /\ Len(inbox[c]) < MaxInbox
    /\ inbox' = [inbox EXCEPT ![c] = Append(@, m)]
    /\ UNCHANGED <<client, sock, peer, accept, reader>>

\* It closes or crashes; once the server has closed its end that makes no
\* difference.
GoAway(c) ==
    /\ peer[c] = "up" /\ sock[c] = "open"
    /\ peer' = [peer EXCEPT ![c] = "gone"]
    /\ UNCHANGED <<client, sock, inbox, accept, reader>>

-----------------------------------------------------------------------------
(* _close_client, on any thread: it reads the client first and clears it then, *)
(* whoever that is by now.                                                     *)
CloseClient(held) ==
    /\ client' = Nobody
    /\ sock' = IF held = Nobody THEN sock ELSE [sock EXCEPT ![held] = "closed"]

(* _accept_loop.                                                             *)

Accept(c) ==
    /\ accept.step = "listen"
    /\ c = accept.conn + 1 /\ sock[c] = "open"
    /\ accept' = [step |-> IF client = Nobody THEN "install" ELSE "close",
                  conn |-> c, held |-> Nobody]
    /\ UNCHANGED <<client, sock, peer, inbox, reader>>

AcceptClose ==
    \/ /\ accept.step = "close"
       /\ accept' = [accept EXCEPT !.step = "drop", !.held = client]
       /\ UNCHANGED <<client, sock, peer, inbox, reader>>
    \/ /\ accept.step = "drop"
       /\ CloseClient(accept.held)
       /\ accept' = [accept EXCEPT !.step = "install", !.held = Nobody]
       /\ UNCHANGED <<peer, inbox, reader>>

Install ==
    /\ accept.step = "install"
    /\ client' = accept.conn
    /\ accept' = [accept EXCEPT !.step = "spawn"]
    /\ UNCHANGED <<sock, peer, inbox, reader>>

-----------------------------------------------------------------------------
(* _reader_loop of connection c.  What a frame leads to is the controller's.  *)

At(c, step) == reader[c].step = step
Go(c, step) == [step |-> step, frame |-> NoFrame, held |-> Nobody]

\* Back at the head of the loop: another receive, unless c is not the client any
\* more; then, as it cannot become the client again, the thread ends.
Loop(c) == Go(c, IF client = c THEN "recv" ELSE "gone")

Spawn ==
    /\ accept.step = "spawn"
    /\ reader' = [reader EXCEPT ![accept.conn] = Loop(accept.conn)]
    /\ accept' = [accept EXCEPT !.step = "listen"]
    /\ UNCHANGED <<client, sock, peer, inbox>>

\* A receive that was under way when another thread closed the socket may still
\* return what it waited for.
Receive(c) ==
    /\ At(c, "recv") /\ inbox[c] # <<>>
    /\ reader' = [reader EXCEPT ![c] = [@ EXCEPT !.step = "dispatch",
                                                 !.frame = <<Head(inbox[c])>>]]
    /\ inbox' = [inbox EXCEPT ![c] = Tail(@)]
    /\ UNCHANGED <<client, sock, peer, accept>>

\* Nothing more to receive: the GUI closed its end, or the server did.
Mutant_Leave(c) == Go(c, "gone")
Leave(c) == Go(c, IF client = c THEN "close" ELSE "gone")

EndOfStream(c) ==
    /\ At(c, "recv") /\ inbox[c] = <<>> /\ peer[c] = "gone"
    /\ reader' = [reader EXCEPT ![c] = Leave(c)]
    /\ UNCHANGED <<client, sock, peer, inbox, accept>>

ReceiveFails(c) ==
    /\ At(c, "recv") /\ sock[c] = "closed"
    /\ reader' = [reader EXCEPT ![c] = Leave(c)]
    /\ inbox' = [inbox EXCEPT ![c] = <<>>]
    /\ UNCHANGED <<client, sock, peer, accept>>

ReaderClose(c) ==
    \/ /\ At(c, "close")
       /\ reader' = [reader EXCEPT ![c] = [@ EXCEPT !.step = "drop", !.held = client]]
       /\ UNCHANGED <<client, sock, peer, inbox, accept>>
    \/ /\ At(c, "drop")
       /\ CloseClient(reader[c].held)
       /\ reader' = [reader EXCEPT ![c] = Go(c, "gone")]
       /\ UNCHANGED <<peer, inbox, accept>>
=============================================================================
