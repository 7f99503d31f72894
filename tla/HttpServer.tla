----------------------------- MODULE HttpServer -----------------------------
(***************************************************************************)
(* http::server::Server over TcpServer: requests of one connection may be   *)
(* pipelined, their handlers may keep the Context and finish in any order,   *)
(* and the responses must leave in the order of the requests.  The last      *)
(* request of a connection (Connection: close, or HTTP/1.0) ends it.         *)
(*                                                                         *)
(* All runs in the loop's thread.  The receive callback is a loop over the   *)
(* requests in the buffer (rx); while a handler runs, the user may also       *)
(* finish other requests and stop or start the server, so each handler is a   *)
(* step of its own.  A request is its kind; a response is the pair of the     *)
(* connection and the index it belongs to.                                   *)
(***************************************************************************)
EXTENDS TcpServer, FiniteSets

CONSTANTS MaxReqs,     \* bound: requests of any connection
          Quota,       \* bound: requests of each connection
          MaxStarts    \* bound: start() calls

ASSUME ReqsAssumption ==
  MaxReqs \in Nat /\ Quota \in [Conns -> 0..MaxReqs] /\ MaxStarts \in Nat

Kinds   == {"keep", "last", "bad"}   \* IsLastRequest(); "bad" does not parse
Indexes == 0..(MaxReqs - 1)
Never   == MaxReqs                   \* numeric_limits<int>::max(): above every index
NoConn  == 0
Idle    == [c |-> NoConn, buf |-> <<>>, handling |-> FALSE, late |-> FALSE]

VARIABLES
  ctx,      \* ctx[c]: the Connection structure of TcpConnection c
  held,     \* Contexts the handlers kept: token and index, and whose request it was
  rx,       \* the receive loop: connection, requests in the buffer, handler running;
            \* late: the write callback of the same descriptor follows
  starts    \* start() calls so far

httpVars == <<ctx, held, rx, starts>>
vars     == <<tcpVars, httpVars>>

NewCtx == [alive |-> TRUE, req |-> 0, res |-> 0, close |-> Never, buff |-> {}]
Contexts == [tok : [id : Nat, pos : Nat], idx : Indexes, own : Conns]
Messages == Conns \X Indexes

TypeOK ==
  /\ server \in {"none", "inited", "running"}
  /\ accepted \in 0..MaxConns
  /\ \A c \in Conns : sock[c] \in SockType(Messages)
  /\ \A c \in Conns : /\ ctx[c].alive \in BOOLEAN
                      /\ ctx[c].req \in 0..MaxReqs /\ ctx[c].res \in 0..MaxReqs
                      /\ ctx[c].close \in 0..MaxReqs
                      /\ ctx[c].buff \subseteq Messages
  /\ held \subseteq Contexts
  /\ rx.c \in Conns \cup {NoConn} /\ rx.buf \in Seq(Kinds)
  /\ rx.handling \in BOOLEAN /\ rx.late \in BOOLEAN
  /\ starts \in 0..MaxStarts

Init ==
  /\ TcpInit
  /\ ctx = [c \in Conns |-> [NewCtx EXCEPT !.alive = FALSE]]
  /\ held = {} /\ rx = Idle /\ starts = 0

\* The loop is between callbacks; user code runs there and in a handler.
Between == rx = Idle
UserRuns == Between \/ rx.handling

-----------------------------------------------------------------------------
(* The server's life.                                                      *)

initialize == Between /\ TcpInitialize /\ UNCHANGED httpVars

start ==
  /\ UserRuns /\ starts < MaxStarts
  /\ TcpStart
  /\ starts' = starts + 1
  /\ UNCHANGED <<ctx, held, rx>>

\* The Connection structures stay until cleanup().
stop == UserRuns /\ TcpStop /\ UNCHANGED httpVars

cleanup ==
  /\ Between
  /\ TcpCleanup
  /\ ctx' = [c \in Conns |-> [ctx[c] EXCEPT !.alive = FALSE]]
  /\ UNCHANGED <<held, rx, starts>>

onTcpConnected(c) ==
  /\ Between
  /\ TcpConnected(c)
  /\ ctx' = [ctx EXCEPT ![c] = NewCtx]
  /\ UNCHANGED <<held, rx, starts>>

-----------------------------------------------------------------------------
(* Responses.                                                              *)

\* The responses that leave when response idx is next: itself, then the buffered ones that
\* follow without a gap, up to the one that closes the connection.
After(x, idx) ==
  CHOOSE k \in (idx + 1)..(MaxReqs + 1) :
    /\ k > x.close \/ \A m \in x.buff : m[2] # k
    /\ \A j \in (idx + 1)..(k - 1) : j <= x.close /\ \E m \in x.buff : m[2] = j

Buffered(x, k) == CHOOSE m \in x.buff : m[2] = k

\* Mutant: a response that is not the next one is sent all the same.
commitRespondGap(tok, idx, own) ==
  LET c == At(cab, tok)
      x == ctx[c]
  IN IF c = NoObj THEN UNCHANGED <<sock, ctx>>
     ELSE IF idx # x.res
     THEN /\ Send(c, <<<<own, idx>>>>)
          /\ UNCHANGED ctx
     ELSE /\ Send(c, <<<<own, idx>>>>)
          /\ ctx' = [ctx EXCEPT ![c].res = idx + 1]

\* Mutant: a response that waited is not sent.
commitRespondForgets(tok, idx, own) ==
  LET c == At(cab, tok)
      x == ctx[c]
  IN IF c = NoObj THEN UNCHANGED <<sock, ctx>>
     ELSE IF idx = x.res
     THEN /\ Send(c, <<<<own, idx>>>>)
          /\ ctx' = [ctx EXCEPT ![c].res = idx + 1]
     ELSE /\ ctx' = [ctx EXCEPT ![c].buff = {m \in @ : m[2] # idx} \cup {<<own, idx>>}]
          /\ UNCHANGED sock

\* commitRespond(): a response whose connection is gone is dropped, the next one in order
\* is sent with those that waited for it, any other waits.
commitRespond(tok, idx, own) ==
  LET c == At(cab, tok)
      x == ctx[c]
      end == After(x, idx)
  IN IF c = NoObj THEN UNCHANGED <<sock, ctx>>
     ELSE IF idx = x.res
     THEN /\ Send(c, [k \in 1..(end - idx) |-> IF k = 1 THEN <<own, idx>>
                                               ELSE Buffered(x, idx + k - 1)])
          /\ ctx' = [ctx EXCEPT ![c].res = end,
                                ![c].buff = {m \in @ : m[2] \notin (idx + 1)..(end - 1)}]
     ELSE /\ ctx' = [ctx EXCEPT ![c].buff = {m \in @ : m[2] # idx} \cup {<<own, idx>>}]
          /\ UNCHANGED sock

\* The user lets go of a Context it kept: ~Context() commits the response.
finish(h) ==
  /\ UserRuns /\ h \in held
  /\ held' = held \ {h}
  /\ commitRespond(h.tok, h.idx, h.own)
  /\ UNCHANGED <<server, cab, accepted, token, rx, starts>>

-----------------------------------------------------------------------------
(* Receiving.                                                              *)

\* The read callback is over.
AfterRead(c, late) == IF late THEN [Idle EXCEPT !.c = c, !.late = TRUE] ELSE Idle

\* BufferedFd::onReadCallback() with data: a batch of requests, or of waste once the last
\* request was seen.  late: the descriptor is writable too and the write event enabled.
onTcpReceived(c, batch, late) ==
  /\ Between /\ Open(c)
  /\ ctx[c].req + Len(batch) <= Quota[c]
  /\ late => sock[c].wev
  /\ rx' = IF ctx[c].close = Never
           THEN [c |-> c, buf |-> batch, handling |-> FALSE, late |-> late]
           ELSE AfterRead(c, late)
  /\ UNCHANGED <<tcpVars, ctx, held, starts>>

\* One turn of the loop over the buffer: the last request is marked and the socket shut for
\* reading, then the handler is called.  Requests behind the last one in the same buffer
\* are handled too.
handle ==
  /\ rx.c # NoConn /\ ~rx.handling /\ rx.buf # <<>> /\ Head(rx.buf) # "bad"
  /\ sock' = IF Head(rx.buf) = "last" THEN Shut(token[rx.c]) ELSE sock
  /\ ctx' = [ctx EXCEPT ![rx.c].req = @ + 1,
                        ![rx.c].close = IF Head(rx.buf) = "last" THEN ctx[rx.c].req ELSE @]
  /\ rx' = [rx EXCEPT !.buf = Tail(@), !.handling = TRUE]
  /\ UNCHANGED <<server, cab, accepted, token, held, starts>>

\* The handler returns, having kept the Context or not; in that case ~Context() commits
\* the response.
handled(keep) ==
  LET c == rx.c
      idx == ctx[c].req - 1
  IN /\ rx.handling
     /\ rx' = [rx EXCEPT !.handling = FALSE]
     /\ IF keep THEN /\ held' = held \cup {[tok |-> token[c], idx |-> idx, own |-> c]}
                     /\ UNCHANGED <<sock, ctx>>
        ELSE commitRespond(token[c], idx, c) /\ UNCHANGED held
     /\ UNCHANGED <<server, cab, accepted, token, starts>>

\* Mutant: no break, the loop goes on with the rest of the buffer.
parseFailContinues ==
  /\ rx.c # NoConn /\ ~rx.handling /\ rx.buf # <<>> /\ Head(rx.buf) = "bad"
  /\ TcpDisconnect(token[rx.c])
  /\ ctx' = [ctx EXCEPT ![rx.c].alive = FALSE]
  /\ rx' = [rx EXCEPT !.buf = Tail(@)]
  /\ UNCHANGED <<server, accepted, token, held, starts>>

\* A request that does not parse: the connection is given up.
parseFail ==
  /\ rx.c # NoConn /\ ~rx.handling /\ rx.buf # <<>> /\ Head(rx.buf) = "bad"
  /\ TcpDisconnect(token[rx.c])
  /\ ctx' = [ctx EXCEPT ![rx.c].alive = FALSE]
  /\ rx' = [rx EXCEPT !.buf = <<>>]
  /\ UNCHANGED <<server, accepted, token, held, starts>>

\* The buffer is used up, and no write callback follows.
receiveReturns ==
  /\ rx.c # NoConn /\ ~rx.handling /\ rx.buf = <<>> /\ ~rx.late
  /\ rx' = Idle
  /\ UNCHANGED <<tcpVars, ctx, held, starts>>

\* The socket is at its end, because the peer left or because of SHUT_RD.
onTcpDisconnected(c, late) ==
  /\ Between /\ Open(c)
  /\ sock[c].peer = "gone" \/ sock[c].rd
  /\ late => sock[c].wev
  /\ TcpDisconnected(c)
  /\ ctx' = [ctx EXCEPT ![c].alive = FALSE]
  /\ rx' = AfterRead(c, late)
  /\ UNCHANGED <<server, accepted, token, held, starts>>

-----------------------------------------------------------------------------
(* Sending.                                                                *)

\* onTcpSendCompleted(): once the last response is out the connection is ended.
onTcpSendCompleted(c) ==
  IF At(cab, token[c]) # NoObj /\ ctx[c].res > ctx[c].close
  THEN /\ TcpDisconnect(token[c])
       /\ ctx' = [ctx EXCEPT ![c].alive = FALSE]
  ELSE /\ sock' = [sock EXCEPT ![c] = WriteIdle(@)]
       /\ UNCHANGED <<cab, ctx>>

\* BufferedFd::onWriteCallback(), by an event of its own or late, behind the read callback
\* of the same event, even if that gave the connection up.
onWriteCallback(c) ==
  /\ \/ Between /\ Open(c) /\ sock[c].wev
     \/ rx.c = c /\ rx.late /\ ~rx.handling /\ rx.buf = <<>>
  /\ IF sock[c].out = <<>> THEN onTcpSendCompleted(c)
     ELSE Flush(c) /\ UNCHANGED <<cab, ctx>>
  /\ rx' = Idle
  /\ UNCHANGED <<server, accepted, token, held, starts>>

\* The peer closes or resets the connection.
peerLeaves(c) ==
  /\ Between /\ Open(c) /\ sock[c].peer = "open"
  /\ sock' = [sock EXCEPT ![c].peer = "gone"]
  /\ UNCHANGED <<server, cab, accepted, token, httpVars>>

-----------------------------------------------------------------------------
Batches == UNION {[1..n -> Kinds] : n \in 1..MaxReqs}

Loop == \/ handle \/ parseFail \/ receiveReturns \/ \E keep \in BOOLEAN : handled(keep)

Next ==
  \/ initialize \/ start \/ stop \/ cleanup
  \/ \E c \in Conns : onTcpConnected(c) \/ onWriteCallback(c) \/ peerLeaves(c)
  \/ \E c \in Conns, late \in BOOLEAN :
       onTcpDisconnected(c, late) \/ \E batch \in Batches : onTcpReceived(c, batch, late)
  \/ \E h \in held : finish(h)
  \/ Loop

\* Callbacks run to their end; handlers let go of their Contexts at some time; a socket
\* whose peer reads becomes writable and takes something; the end of a socket is reported.
Fairness ==
  /\ WF_vars(Loop)
  /\ WF_vars(\E h \in held : finish(h))
  /\ WF_vars(\E c \in Conns : onWriteCallback(c))
  /\ WF_vars(\E c \in Conns : onWriteCallback(c) /\ sock' # sock)
  /\ WF_vars(\E c \in Conns, late \in BOOLEAN : onTcpDisconnected(c, late))

Spec == Init /\ [][Next]_vars
FairSpec == Spec /\ Fairness

-----------------------------------------------------------------------------
(* Properties.                                                             *)

Leaving(c) == sock[c].wire \o sock[c].out

\* The responses of a connection leave in the order of its requests, and are its own.
InRequestOrder(c) ==
  /\ \A i, j \in 1..Len(Leaving(c)) : i < j => Leaving(c)[i][2] < Leaving(c)[j][2]
  /\ \A i \in 1..Len(Leaving(c)) : Leaving(c)[i][1] = c /\ Leaving(c)[i][2] < ctx[c].res
  /\ sock[c].peer = "open" => Len(Leaving(c)) = ctx[c].res

\* The requests of a connection that are with their handlers, and those whose responses wait.
WithHandler(c) ==
  {h.idx : h \in {g \in held : g.own = c}}
    \cup (IF rx.c = c /\ rx.handling THEN {ctx[c].req - 1} ELSE {})
Waiting(c) == {m[2] : m \in ctx[c].buff}

\* Each request is with its handler, waits in res_buff for an earlier one that is with its
\* handler, or was sent.  Once the last request was seen, what is behind it may wait in vain:
\* a second one in the same buffer moves close_index beyond what waits already.
Accounted(c) ==
  LET sent == 0..(ctx[c].res - 1)
  IN /\ WithHandler(c) \cup Waiting(c) \cup sent = 0..(ctx[c].req - 1)
     /\ WithHandler(c) \cap Waiting(c) = {}
     /\ WithHandler(c) \cap sent = {} /\ Waiting(c) \cap sent = {}
     /\ Waiting(c) # {} => ctx[c].res \in WithHandler(c) \/ ctx[c].close # Never

\* What waits in a send buffer has the write event enabled, and so has a connection whose
\* last response is out: nothing else would send it or end it.
WriteArmed(c) ==
  sock[c].out # <<>> \/ (ctx[c].res > ctx[c].close /\ sock[c].peer = "open") => sock[c].wev

\* Pipelining: whatever the order in which handlers finish, a connection's responses leave
\* in the order of its requests, each once, with none left out unless the peer is gone, and
\* none belongs to another connection; on an open connection none is lost between the
\* handler and the socket.
PipelineOrder ==
  \A c \in Conns : InRequestOrder(c) /\ (Open(c) => Accounted(c) /\ WriteArmed(c))

\* A connection that TcpServer knows has its Connection structure, which no path has freed:
\* the assertions on getContext() hold.
ContextAlive ==
  \A c \in Conns : /\ Open(c) => ctx[c].alive /\ At(cab, token[c]) = c
                   /\ rx.c = c /\ rx.buf # <<>> => ctx[c].alive

\* A request's response is written, unless the connection ends first.
Responded ==
  \A c \in Conns, i \in Indexes :
    Open(c) /\ i < ctx[c].req ~> (~Open(c) \/ \E k \in 1..Len(sock[c].wire) : sock[c].wire[k] = <<c, i>>)

\* A response goes to the connection its request came from.
OwnConnection ==
  \A c \in Conns : \A i \in 1..Len(Leaving(c)) : Leaving(c)[i][1] = c
=============================================================================
