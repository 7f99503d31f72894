----------------------------- MODULE TcpServer -----------------------------
(***************************************************************************)
(* network::TcpServer with its TcpAcceptor, and the TcpConnection and       *)
(* BufferedFd of each accepted connection.                                 *)
(*                                                                         *)
(* Everything here runs in the loop's thread.  The definitions are the      *)
(* operations of TcpServer as parts of actions; the callbacks they make     *)
(* are those of the server built on it, which conjoins its own part (see    *)
(* HttpServer).  What is sent is a sequence of whole messages: a message    *)
(* that was only partly written is still in the send buffer.                *)
(***************************************************************************)
EXTENDS Naturals, Sequences, Cabinet

CONSTANTS MaxConns     \* bound: connections accepted over the whole run
ASSUME ConnsAssumption == MaxConns \in Nat \ {0} /\ NoObj \notin 1..MaxConns

Conns == 1..MaxConns   \* TcpConnection objects, in the order of their creation

VARIABLES
  server,     \* state_: "none", "inited" or "running"
  cab,        \* conns
  accepted,   \* connections accepted so far
  token,      \* token[c]: the token TcpServer gave connection c
  sock        \* sock[c]: the connection's BufferedFd and socket, see SockType

tcpVars == <<server, cab, accepted, token, sock>>

\* bfd: "open" while sp_buffered_fd_ is set and enabled; then "closed" because the socket
\*      was at its end, "dropped" by disconnect() or "stopped" by stop().
\* peer: "open", or "gone": it closed or reset the connection.
\* rd: SHUT_RD was done.  wev: the write event is enabled.
\* out: send_buff_.  wire: what was written to the socket.
SockType(Msg) ==
  [bfd : {"none", "open", "closed", "dropped", "stopped"}, peer : {"open", "gone"}, rd : BOOLEAN,
   wev : BOOLEAN, out : Seq(Msg), wire : Seq(Msg)]

NewSock == [bfd |-> "open", peer |-> "open", rd |-> FALSE, wev |-> FALSE, out |-> <<>>,
            wire |-> <<>>]

Open(c) == sock[c].bfd = "open"

TcpInit ==
  /\ server = "none" /\ cab = Empty /\ accepted = 0
  /\ token = [c \in Conns |-> [id |-> 0, pos |-> 0]]
  /\ sock = [c \in Conns |-> [NewSock EXCEPT !.bfd = "none"]]

TcpInitialize == server = "none" /\ server' = "inited" /\ UNCHANGED <<cab, accepted, token, sock>>
TcpStart == server = "inited" /\ server' = "running" /\ UNCHANGED <<cab, accepted, token, sock>>

\* What stop() does to the connections: each is disconnected and deleted, then the
\* cabinet is cleared.
TcpStopped ==
  /\ sock' = [c \in Conns |-> IF c \in Objects(cab)
                              THEN [sock[c] EXCEPT !.bfd = "stopped", !.wev = FALSE]
                              ELSE sock[c]]
  /\ cab' = Clear(cab)
TcpStop == server = "running" /\ server' = "inited" /\ TcpStopped /\ UNCHANGED <<accepted, token>>

\* cleanup() stops first.
TcpCleanup ==
  /\ server # "none" /\ server' = "none"
  /\ IF server = "running" THEN TcpStopped ELSE UNCHANGED <<cab, sock>>
  /\ UNCHANGED <<accepted, token>>

\* TcpAcceptor::onClientConnected() and TcpServer::onTcpConnected(), up to connected_cb.
TcpConnected(c) ==
  /\ server = "running" /\ c = accepted + 1 /\ c \in Conns
  /\ accepted' = c
  /\ token' = [token EXCEPT ![c] = NewToken(cab)]
  /\ cab' = Alloc(cab, c)
  /\ sock' = [sock EXCEPT ![c] = NewSock]
  /\ UNCHANGED server

\* disconnect(): the connection is given up; the objects are deleted in the next turn.
TcpDisconnect(tok) ==
  LET c == At(cab, tok)
  IN /\ cab' = Free(cab, tok)
     /\ sock' = [d \in Conns |-> IF d = c THEN [sock[d] EXCEPT !.bfd = "dropped", !.wev = FALSE]
                               ELSE sock[d]]

\* TcpConnection::onSocketClosed() and TcpServer::onTcpDisconnected(), around
\* disconnected_cb.
TcpDisconnected(c) ==
  /\ sock' = [sock EXCEPT ![c].bfd = "closed", ![c].wev = FALSE]
  /\ cab' = Free(cab, token[c])

\* shutdown(SHUT_RD)
Shut(tok) == [c \in Conns |-> IF At(cab, tok) = c THEN [sock[c] EXCEPT !.rd = TRUE] ELSE sock[c]]

\* BufferedFd::send() of some messages, one after the other.  With data waiting they are
\* appended.  Otherwise the socket takes the first n of them and the rest waits (a short
\* write, or EAGAIN), or, if the peer is gone, is dropped with a warning.
Sent(s, msgs, n, dropped) ==
  IF s.out # <<>> THEN [s EXCEPT !.out = @ \o msgs]
  ELSE [s EXCEPT !.wire = @ \o SubSeq(msgs, 1, n),
                 !.out  = IF dropped THEN <<>> ELSE SubSeq(msgs, n + 1, Len(msgs)),
                 !.wev  = @ \/ n > 0 \/ (~dropped /\ msgs # <<>>)]
Send(c, msgs) ==
  \E n \in 0..Len(msgs), dropped \in BOOLEAN :
    /\ dropped => sock[c].peer = "gone" /\ n < Len(msgs)
    /\ sock[c].out # <<>> => n = 0 /\ ~dropped
    /\ sock' = [sock EXCEPT ![c] = Sent(@, msgs, n, dropped)]

\* BufferedFd::onWriteCallback() with data waiting: the socket takes some of it, or, if the
\* write fails or takes none, all stays for the next event; TcpConnection sets no callback
\* for the error.
Flush(c) ==
  \E n \in 0..Len(sock[c].out) :
    sock' = [sock EXCEPT ![c].wire = @ \o SubSeq(sock[c].out, 1, n),
                         ![c].out  = SubSeq(@, n + 1, Len(@))]
\* ... and with none: the event is disabled, send_complete_cb follows.
WriteIdle(s) == [s EXCEPT !.wev = FALSE]
=============================================================================
