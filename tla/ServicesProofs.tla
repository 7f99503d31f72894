---------------------------- MODULE ServicesProofs ----------------------------
(***************************************************************************)
(* Proofs about services that share a loop: the MQTT client, for any       *)
(* number of sockets, of results in the loop's queue and of seconds to     *)
(* wait; JSON-RPC and DNS with their TimeoutMonitor, for any number of     *)
(* requests, of servers and of slots; the coroutine scheduler with its     *)
(* primitives, for any number of routines; and the TCP client.             *)
(***************************************************************************)
EXTENDS MqttClient, RpcCalls, DnsRequest, Coroutine, TcpClient, FiniteSetTheorems, FunctionTheorems, TLAPS

-----------------------------------------------------------------------------
(* The MQTT client                                                         *)

States == {"none", "inited", "connecting", "tcp", "mqtt", "waiting", "end"}
Result == [ret : BOOLEAN, first : BOOLEAN]
MqttType ==
  [auto : BOOLEAN, wait : Nat, state : States, timer : BOOLEAN, remain : Nat,
   thread : {"null", "running", "done"}, first : BOOLEAN, ret : BOOLEAN, posted : Seq(Result),
   made : Nat, sock : Nat, read : Nat, revived : BOOLEAN]

\* A result of a thread that start() made is in the queue: it will start the timer.
FirstComing(S) == \E i \in DOMAIN S.posted : S.posted[i].first

\* The connecting thread exists only while the client connects.
OneThread(S) == S.thread # "null" => S.state = "connecting"

\* Sockets are numbered as they are made, and a client on its way to a connection has no
\* event for its socket yet: the broker cannot answer before the client knows of it.
Fenced(S) ==
  /\ S.sock <= S.made /\ S.read <= S.made
  /\ S.state \in {"connecting", "waiting", "end"} => S.sock = 0 \/ S.read # S.sock

\* A client that connects, waits or is connected is driven: by the timer, by the first
\* result on its way, or by the thread that will post it.
Driven(S) ==
  S.state \in {"connecting", "waiting", "tcp", "mqtt"} =>
    S.revived \/ S.timer \/ FirstComing(S) \/ (S.thread = "running" /\ S.first)

Counting(S) == S.state = "waiting" => S.remain > 0

\* What holds of the client whatever its callbacks do, and of its state between the steps
\* of one callback.
Steady(S) == S \in MqttType /\ OneThread(S) /\ Fenced(S) /\ Counting(S)

MqttInv == Steady(mq) /\ Driven(mq)

\* A new client.
LEMMA MqttInvInit == MqttInit => MqttInv
<1> SUFFICES ASSUME MqttInit PROVE MqttInv
  OBVIOUS
<1>1. mq \in MqttType
  BY WaitAssumption DEF MqttInit, MqttType, States, Result
<1>2. mq.state = "none" /\ mq.thread = "null" /\ mq.sock = 0 /\ mq.read = 0 /\ mq.made = 0
  BY DEF MqttInit
<1> QED
  BY <1>1, <1>2 DEF MqttInv, Steady, OneThread, Fenced, Counting, Driven

\* What the end of the connecting thread changes: the socket is a new one, or none, and
\* the result is in the queue.
Connects(S, y) ==
  /\ y \in MqttType
  /\ y.state = S.state /\ y.remain = S.remain /\ y.wait = S.wait
  /\ y.timer <=> S.timer
  /\ y.revived <=> S.revived
  /\ y.auto <=> S.auto
  /\ y.sock <= y.made /\ y.read <= y.made /\ (y.sock = 0 \/ y.read # y.sock)
  /\ FirstComing(S) \/ (S.thread = "running" /\ S.first) => FirstComing(y)

\* A queue that grows keeps what was in it.
LEMMA PostedGrows ==
  ASSUME NEW p \in Seq(Result), NEW g \in Result
  PROVE  /\ Append(p, g) \in Seq(Result)
         /\ (\E i \in DOMAIN p : p[i].first) \/ g.first =>
              \E i \in DOMAIN Append(p, g) : Append(p, g)[i].first
<1>1. Append(p, g) \in Seq(Result) /\ Len(Append(p, g)) = Len(p) + 1 /\ Len(p) \in Nat
  OBVIOUS
<1>2. DOMAIN p = 1 .. Len(p) /\ DOMAIN Append(p, g) = 1 .. Len(p) + 1
  BY <1>1
<1>3. ASSUME NEW i \in DOMAIN p, p[i].first
      PROVE \E j \in DOMAIN Append(p, g) : Append(p, g)[j].first
  <2>1. i \in DOMAIN Append(p, g) /\ Append(p, g)[i] = p[i]
    BY <1>1, <1>2
  <2> QED
    BY <1>3, <2>1
<1>4. ASSUME g.first
      PROVE \E j \in DOMAIN Append(p, g) : Append(p, g)[j].first
  <2>1. Len(p) + 1 \in DOMAIN Append(p, g) /\ Append(p, g)[Len(p) + 1] = g
    BY <1>1, <1>2
  <2> QED
    BY <1>4, <2>1
<1> QED
  BY <1>1, <1>3, <1>4

\* A queue that is served loses its head.
LEMMA PostedServed ==
  ASSUME NEW p \in Seq(Result), p # <<>>
  PROVE  /\ Tail(p) \in Seq(Result) /\ Head(p) \in Result
         /\ (\E i \in DOMAIN p : p[i].first) =>
              Head(p).first \/ \E i \in DOMAIN Tail(p) : Tail(p)[i].first
<1>1. Tail(p) \in Seq(Result) /\ Head(p) \in Result /\ Len(p) \in Nat /\ Len(p) > 0
      /\ Len(Tail(p)) = Len(p) - 1 /\ Head(p) = p[1]
  OBVIOUS
<1>2. DOMAIN p = 1 .. Len(p) /\ DOMAIN Tail(p) = 1 .. Len(p) - 1
  BY <1>1
<1>3. ASSUME NEW i \in DOMAIN p, p[i].first
      PROVE Head(p).first \/ \E j \in DOMAIN Tail(p) : Tail(p)[j].first
  <2>1. CASE i = 1
    BY <1>1, <1>3, <2>1
  <2>2. CASE i # 1
    <3>1. i - 1 \in DOMAIN Tail(p) /\ Tail(p)[i - 1] = p[i]
      BY <1>1, <1>2, <2>2
    <3> QED
      BY <1>3, <3>1
  <2> QED
    BY <2>1, <2>2
<1> QED
  BY <1>1, <1>3

\* The thread gets an answer and posts it.
LEMMA ConnectDone ==
  ASSUME NEW S, Steady(S), S.thread = "running", NEW ok \in BOOLEAN
  PROVE  Connects(S, connectDone(S, ok)) /\ connectDone(S, ok).thread = "done"
<1>1. S \in MqttType /\ S.state = "connecting" /\ S.made \in Nat /\ S.sock \in Nat /\ S.read \in Nat
      /\ S.posted \in Seq(Result) /\ S.first \in BOOLEAN /\ S.read <= S.made /\ S.sock <= S.made
      /\ (S.sock = 0 \/ S.read # S.sock)
  BY DEF Steady, MqttType, OneThread, Fenced
<1>2. PICK n \in Nat : n = IF ok THEN S.made + 1 ELSE S.made
  BY <1>1
<1>3. PICK g \in Result : g = [ret |-> ok, first |-> S.first]
  BY <1>1 DEF Result
<1>4. PICK p \in Seq(Result) : p = Append(S.posted, g)
  BY <1>1, <1>3, PostedGrows
<1>5. PICK k \in Nat : k = IF ok THEN n ELSE 0
  OBVIOUS
<1>6. PICK y : y = [S EXCEPT !.thread = "done", !.ret = ok, !.made = n, !.sock = k, !.posted = p]
  OBVIOUS
<1>7. connectDone(S, ok) = y
  BY <1>2, <1>3, <1>4, <1>5, <1>6 DEF connectDone
<1>8. y \in MqttType /\ y.state = S.state /\ y.remain = S.remain /\ y.wait = S.wait
      /\ y.thread = "done" /\ y.made = n /\ y.sock = k /\ y.read = S.read /\ y.posted = p
  BY <1>1, <1>6 DEF MqttType
<1>9. (y.timer <=> S.timer) /\ (y.revived <=> S.revived) /\ (y.auto <=> S.auto)
  BY <1>1, <1>6 DEF MqttType
<1>10. k <= n /\ S.read <= n /\ (k = 0 \/ S.read # k)
  BY <1>1, <1>2, <1>5
<1>11. g.first <=> S.first
  BY <1>3
<1>12. FirstComing(S) \/ S.first => FirstComing(y)
  BY <1>1, <1>4, <1>8, <1>11, PostedGrows, SMTT(30) DEF FirstComing
<1> QED
  BY <1>7, <1>8, <1>9, <1>10, <1>12 DEF Connects

\* A thread that is joined is gone; it posted its result before, or while it was waited for.
LEMMA ThreadJoined ==
  ASSUME NEW S, Steady(S), S.thread # "null", NEW y \in Joined(S)
  PROVE  Connects(S, y) /\ y.thread = "null"
<1>1. S \in MqttType /\ S.state = "connecting" /\ S.made \in Nat /\ S.sock \in Nat /\ S.read \in Nat
      /\ S.read <= S.made /\ S.sock <= S.made /\ (S.sock = 0 \/ S.read # S.sock)
  BY DEF Steady, MqttType, OneThread, Fenced
<1>2. CASE S.thread # "running"
  <2>1. y = [S EXCEPT !.thread = "null"]
    BY <1>2 DEF Joined
  <2>2. y \in MqttType /\ y.state = S.state /\ y.remain = S.remain /\ y.wait = S.wait
        /\ y.thread = "null" /\ y.made = S.made /\ y.sock = S.sock /\ y.read = S.read
        /\ y.posted = S.posted
    BY <1>1, <2>1 DEF MqttType
  <2>3. (y.timer <=> S.timer) /\ (y.revived <=> S.revived) /\ (y.auto <=> S.auto)
    BY <1>1, <2>1 DEF MqttType
  <2> QED
    BY <1>1, <1>2, <2>2, <2>3 DEF Connects, FirstComing
<1>3. CASE S.thread = "running"
  <2>1. PICK ok \in BOOLEAN : y = [connectDone(S, ok) EXCEPT !.thread = "null"]
    BY <1>3 DEF Joined
  <2>2. PICK x : x = connectDone(S, ok)
    OBVIOUS
  <2>3. Connects(S, x)
    BY <1>3, <2>2, ConnectDone
  <2>4. x \in MqttType
    BY <2>3 DEF Connects
  <2>5. y = [x EXCEPT !.thread = "null"]
    BY <2>1, <2>2
  <2>6. y \in MqttType /\ y.state = x.state /\ y.remain = x.remain /\ y.wait = x.wait
        /\ y.thread = "null" /\ y.made = x.made /\ y.sock = x.sock /\ y.read = x.read
        /\ y.posted = x.posted
    BY <2>4, <2>5 DEF MqttType
  <2>7. (y.timer <=> x.timer) /\ (y.revived <=> x.revived) /\ (y.auto <=> x.auto)
    BY <2>4, <2>5 DEF MqttType
  <2>8. FirstComing(y) <=> FirstComing(x)
    BY <2>6 DEF FirstComing
  <2> QED
    BY <2>3, <2>6, <2>7, <2>8 DEF Connects
<1> QED
  BY <1>2, <1>3

\* The connecting thread finishes.
LEMMA MqttThreadInv ==
  ASSUME MqttInv, NEW ok \in BOOLEAN, mqttThread(ok)
  PROVE  MqttInv'
<1>0. PICK S : S = mq
  OBVIOUS
<1>1. PICK y : y = mq'
  OBVIOUS
<1>2. Steady(S) /\ Driven(S) /\ S.thread = "running" /\ y = connectDone(S, ok)
  BY <1>0, <1>1 DEF MqttInv, mqttThread
<1>3. Connects(S, y) /\ y.thread = "done"
  BY <1>2, ConnectDone
<1>4. S.state = "connecting"
  BY <1>2 DEF Steady, OneThread
<1>5. Steady(y)
  BY <1>3, <1>4 DEF Connects, Steady, OneThread, Fenced, Counting
<1>6. Driven(y)
  BY <1>2, <1>3, <1>4 DEF Connects, Driven
<1> QED
  BY <1>1, <1>5, <1>6 DEF MqttInv

\* The fields of a client, for the provers.
LEMMA Fields ==
  ASSUME NEW S \in MqttType
  PROVE  /\ S.state \in States /\ S.thread \in {"null", "running", "done"}
         /\ S.posted \in Seq(Result) /\ S.wait \in Nat /\ S.remain \in Nat
         /\ S.made \in Nat /\ S.sock \in Nat /\ S.read \in Nat
         /\ S.auto \in BOOLEAN /\ S.timer \in BOOLEAN /\ S.first \in BOOLEAN
         /\ S.ret \in BOOLEAN /\ S.revived \in BOOLEAN
BY DEF MqttType

\* initialize() and start(): the thread is at work before there is a timer.
LEMMA MqttStartInv ==
  ASSUME MqttInv, mqttInitialize \/ mqttStart
  PROVE  MqttInv'
<1>0. PICK S : S = mq
  OBVIOUS
<1>1. PICK y : y = mq'
  OBVIOUS
<1>2. Steady(S) /\ S \in MqttType /\ OneThread(S) /\ Fenced(S)
  BY <1>0 DEF MqttInv, Steady
<1>3. CASE mqttInitialize
  <2>1. S.state = "none" /\ y = [S EXCEPT !.state = "inited"]
    BY <1>0, <1>1, <1>3 DEF mqttInitialize
  <2>2. y \in MqttType /\ y.state = "inited" /\ y.thread = S.thread /\ y.made = S.made
        /\ y.sock = S.sock /\ y.read = S.read
    BY <1>2, <2>1 DEF MqttType, States
  <2>3. Steady(y) /\ Driven(y)
    BY <1>2, <2>1, <2>2 DEF Steady, OneThread, Fenced, Counting, Driven
  <2> QED
    BY <1>1, <2>3 DEF MqttInv
<1>4. CASE mqttStart
  <2>1. PICK x : x = [S EXCEPT !.state = "connecting", !.sock = 0]
    OBVIOUS
  <2>2. x \in MqttType /\ x.state = "connecting" /\ x.sock = 0 /\ x.made = S.made /\ x.read = S.read
    BY <1>2, <2>1 DEF MqttType, States
  <2>3. y = [x EXCEPT !.thread = "running", !.first = TRUE]
    BY <1>0, <1>1, <1>4, <2>1 DEF mqttStart, newThread
  <2>4. y \in MqttType /\ y.state = "connecting" /\ y.sock = 0 /\ y.made = S.made /\ y.read = S.read
        /\ y.thread = "running"
    BY <2>2, <2>3 DEF MqttType
  <2>5. y.first
    BY <2>2, <2>3 DEF MqttType
  <2>6. Steady(y) /\ Driven(y)
    BY <1>2, <2>4, <2>5, Fields DEF Steady, OneThread, Fenced, Counting, Driven
  <2> QED
    BY <1>1, <2>6 DEF MqttInv
<1> QED
  BY <1>3, <1>4

\* A stopped client has no thread, and nothing drives it.
LEMMA StoppedSteady ==
  ASSUME NEW S, Steady(S), NEW z \in stoppedFrom(S), NEW q \in {"none", "inited"},
         NEW y, y = [z EXCEPT !.timer = FALSE, !.state = q, !.revived = FALSE]
  PROVE  Steady(y) /\ Driven(y)
<1>1. z \in MqttType /\ z.thread = "null" /\ z.sock <= z.made /\ z.read <= z.made
  <2>1. CASE Connected(S) \/ S.thread = "null"
    <3>1. z = S
      BY <2>1 DEF stoppedFrom
    <3> QED
      BY <2>1, <3>1 DEF Steady, OneThread, Fenced, Connected
  <2>2. CASE ~(Connected(S) \/ S.thread = "null")
    <3>1. z \in Joined(S) /\ S.thread # "null"
      BY <2>2 DEF stoppedFrom
    <3>2. Connects(S, z) /\ z.thread = "null"
      BY <3>1, ThreadJoined
    <3> QED
      BY <3>2 DEF Connects
  <2> QED
    BY <2>1, <2>2
<1>2. y \in MqttType /\ y.state = q /\ y.thread = "null" /\ y.sock = z.sock /\ y.read = z.read
      /\ y.made = z.made
  BY <1>1 DEF MqttType, States
<1> QED
  BY <1>1, <1>2 DEF Steady, OneThread, Fenced, Counting, Driven

\* stop() and cleanup().
LEMMA MqttStopInv ==
  ASSUME MqttInv, mqttStop \/ mqttCleanup
  PROVE  MqttInv'
<1>0. PICK S : S = mq
  OBVIOUS
<1>1. PICK y : y = mq'
  OBVIOUS
<1>2. Steady(S) /\ S \in MqttType /\ OneThread(S) /\ Fenced(S)
  BY <1>0 DEF MqttInv, Steady
<1>3. CASE /\ mqttCleanup
           /\ S.state \in {"inited", "end"}
  <2>1. y = [S EXCEPT !.state = "none", !.revived = FALSE]
    BY <1>0, <1>1, <1>3 DEF mqttCleanup
  <2>2. y \in MqttType /\ y.state = "none" /\ y.thread = S.thread /\ y.made = S.made
        /\ y.sock = S.sock /\ y.read = S.read
    BY <1>2, <2>1 DEF MqttType, States
  <2>3. Steady(y) /\ Driven(y)
    BY <1>2, <1>3, <2>2 DEF Steady, OneThread, Fenced, Counting, Driven
  <2> QED
    BY <1>1, <2>3 DEF MqttInv
<1>4. CASE mqttStop \/ (mqttCleanup /\ S.state \notin {"inited", "end"})
  <2>1. PICK q \in {"none", "inited"}, z \in stoppedFrom(S) :
          y = [z EXCEPT !.timer = FALSE, !.state = q, !.revived = FALSE]
    BY <1>0, <1>1, <1>4 DEF mqttStop, mqttCleanup
  <2>2. Steady(y) /\ Driven(y)
    BY <1>2, <2>1, StoppedSteady
  <2> QED
    BY <1>1, <2>2 DEF MqttInv
<1> QED
  BY <1>0, <1>3, <1>4

\* onTimerTick(): a new attempt, a second less to wait, or the timer's own end.
LEMMA MqttTickInv ==
  ASSUME MqttInv, mqttTick
  PROVE  MqttInv'
<1>0. PICK S : S = mq
  OBVIOUS
<1>1. PICK y : y = mq'
  OBVIOUS
<1>2. S \in MqttType /\ OneThread(S) /\ Fenced(S) /\ S.timer
  BY <1>0 DEF MqttInv, Steady, mqttTick
<1>3. CASE S.state = "connecting" /\ S.thread = "null" /\ y = newThread(S, FALSE)
  <2>1. y = [S EXCEPT !.thread = "running", !.first = FALSE]
    BY <1>3 DEF newThread
  <2>2. y \in MqttType /\ y.state = "connecting" /\ y.made = S.made /\ y.sock = S.sock
        /\ y.read = S.read
    BY <1>2, <1>3, <2>1 DEF MqttType
  <2>3. y.timer
    BY <1>2, <2>1 DEF MqttType
  <2>4. Steady(y) /\ Driven(y)
    BY <1>2, <1>3, <2>2, <2>3 DEF Steady, OneThread, Fenced, Counting, Driven
  <2> QED
    BY <1>1, <2>4 DEF MqttInv
<1>4. CASE /\ S.state = "waiting" /\ S.remain > 0
           /\ y = [S EXCEPT !.remain = @ - 1, !.state = IF S.remain = 1 THEN "connecting" ELSE @]
  <2>1. PICK q \in States : q = IF S.remain = 1 THEN "connecting" ELSE "waiting"
    BY DEF States
  <2>2. PICK k \in Nat : k = S.remain - 1
    BY <1>2, <1>4, Fields
  <2>3. y = [S EXCEPT !.remain = k, !.state = q]
    BY <1>4, <2>1, <2>2
  <2>4. y \in MqttType /\ y.state = q /\ y.made = S.made /\ y.sock = S.sock /\ y.read = S.read
        /\ y.thread = S.thread /\ y.remain = k
    BY <1>2, <2>3 DEF MqttType
  <2>5. y.timer
    BY <1>2, <2>3 DEF MqttType
  <2>6. q \in {"connecting", "waiting"} /\ (q = "waiting" => k > 0)
    BY <1>2, <1>4, <2>1, <2>2, Fields
  <2>7. Steady(y) /\ Driven(y)
    BY <1>2, <1>4, <2>4, <2>5, <2>6 DEF Steady, OneThread, Fenced, Counting, Driven
  <2> QED
    BY <1>1, <2>7 DEF MqttInv
<1>5. CASE S.state = "end" /\ y = [S EXCEPT !.timer = FALSE]
  <2>1. y \in MqttType /\ y.state = "end" /\ y.made = S.made /\ y.sock = S.sock /\ y.read = S.read
        /\ y.thread = S.thread
    BY <1>2, <1>5 DEF MqttType
  <2>2. Steady(y) /\ Driven(y)
    BY <1>2, <1>5, <2>1 DEF Steady, OneThread, Fenced, Counting, Driven
  <2> QED
    BY <1>1, <2>2 DEF MqttInv
<1> QED
  BY <1>0, <1>1, <1>3, <1>4, <1>5 DEF mqttTick

\* y is as S in all that drives the client.
SameDrive(S, y) ==
  /\ y.posted = S.posted
  /\ y.timer <=> S.timer
  /\ y.revived <=> S.revived

\* tryReconnect(), with the thread gone and no event for the socket.
LEMMA TryReconnect ==
  ASSUME NEW S \in MqttType, S.thread = "null", S.sock <= S.made, S.read <= S.made,
         S.sock = 0 \/ S.read # S.sock
  PROVE  /\ Steady(tryReconnect(S)) /\ SameDrive(S, tryReconnect(S))
         /\ tryReconnect(S).thread = "null"
<1>1. CASE ~S.auto
  <2>1. PICK y : y = [S EXCEPT !.state = "end"]
    OBVIOUS
  <2>2. tryReconnect(S) = y
    BY <1>1, <2>1 DEF tryReconnect
  <2>3. y \in MqttType /\ y.state = "end" /\ y.thread = "null" /\ y.made = S.made
        /\ y.sock = S.sock /\ y.read = S.read /\ y.posted = S.posted
    BY <2>1 DEF MqttType, States
  <2>4. (y.timer <=> S.timer) /\ (y.revived <=> S.revived)
    BY <2>1 DEF MqttType
  <2> QED
    BY <2>2, <2>3, <2>4 DEF Steady, OneThread, Fenced, Counting, SameDrive
<1>2. CASE S.auto /\ S.wait > 0
  <2>1. PICK y : y = [S EXCEPT !.remain = S.wait, !.state = "waiting"]
    OBVIOUS
  <2>2. tryReconnect(S) = y
    BY <1>2, <2>1 DEF tryReconnect
  <2>3. y \in MqttType /\ y.state = "waiting" /\ y.thread = "null" /\ y.made = S.made
        /\ y.sock = S.sock /\ y.read = S.read /\ y.posted = S.posted /\ y.remain = S.wait
    BY <2>1 DEF MqttType, States
  <2>4. (y.timer <=> S.timer) /\ (y.revived <=> S.revived)
    BY <2>1 DEF MqttType
  <2> QED
    BY <1>2, <2>2, <2>3, <2>4 DEF Steady, OneThread, Fenced, Counting, SameDrive
<1>3. CASE S.auto /\ ~(S.wait > 0)
  <2>1. PICK y : y = [S EXCEPT !.remain = 0, !.state = "connecting"]
    OBVIOUS
  <2>2. tryReconnect(S) = y
    BY <1>3, <2>1 DEF tryReconnect
  <2>3. y \in MqttType /\ y.state = "connecting" /\ y.thread = "null" /\ y.made = S.made
        /\ y.sock = S.sock /\ y.read = S.read /\ y.posted = S.posted
    BY <2>1 DEF MqttType, States
  <2>4. (y.timer <=> S.timer) /\ (y.revived <=> S.revived)
    BY <2>1 DEF MqttType
  <2> QED
    BY <2>2, <2>3, <2>4 DEF Steady, OneThread, Fenced, Counting, SameDrive
<1> QED
  BY <1>1, <1>2, <1>3

\* The callbacks of libmosquitto: the broker answers, or the connection is lost.
LEMMA MosquittoInv ==
  ASSUME MqttInv, onConnected \/ onDisconnected
  PROVE  MqttInv'
<1>0. PICK S : S = mq
  OBVIOUS
<1>1. PICK y : y = mq'
  OBVIOUS
<1>2. S \in MqttType /\ OneThread(S) /\ Fenced(S) /\ Counting(S) /\ Driven(S)
  BY <1>0 DEF MqttInv, Steady
<1>3. CASE onConnected
  <2>1. S.sock # 0 /\ (S.read = S.sock \/ Connected(S)) /\ S.state # "mqtt"
    BY <1>0, <1>3 DEF onConnected, Served
  <2>2. S.state \in {"none", "inited", "tcp"} /\ S.thread = "null"
    BY <1>2, <2>1 DEF Fenced, OneThread, Connected, MqttType, States
  <2>3. y = [S EXCEPT !.state = "mqtt", !.revived = @ \/ S.state # "tcp"]
    BY <1>0, <1>1, <1>3 DEF onConnected
  <2>4. y \in MqttType /\ y.state = "mqtt" /\ y.made = S.made /\ y.sock = S.sock /\ y.read = S.read
        /\ y.thread = "null" /\ y.posted = S.posted
    BY <1>2, <2>2, <2>3 DEF MqttType, States
  <2>5. (y.revived <=> S.revived \/ S.state # "tcp") /\ (y.timer <=> S.timer)
    BY <1>2, <2>3 DEF MqttType
  <2>6. Steady(y)
    BY <1>2, <2>4 DEF Steady, OneThread, Fenced, Counting
  <2>7. FirstComing(S) <=> FirstComing(y)
    BY <2>4 DEF FirstComing
  <2>8. Driven(y)
    BY <1>2, <2>2, <2>4, <2>5, <2>7 DEF Driven
  <2> QED
    BY <1>1, <2>6, <2>8 DEF MqttInv
<1>4. CASE onDisconnected
  <2>1. PICK x : x = [S EXCEPT !.sock = 0, !.read = 0]
    OBVIOUS
  <2>2. x \in MqttType /\ x.sock = 0 /\ x.read = 0 /\ x.made = S.made /\ x.state = S.state
        /\ x.thread = S.thread /\ x.posted = S.posted /\ x.remain = S.remain
    BY <1>2, <2>1 DEF MqttType
  <2>3. (x.revived <=> S.revived) /\ (x.timer <=> S.timer) /\ (x.first <=> S.first)
    BY <1>2, <2>1 DEF MqttType
  <2>4. x.sock <= x.made /\ x.read <= x.made
    BY <2>2, Fields
  <2>5. FirstComing(S) <=> FirstComing(x)
    BY <2>2 DEF FirstComing
  <2>6. CASE Connected(S)
    <3>1. x.thread = "null" /\ (S.revived \/ S.timer \/ FirstComing(S))
      BY <1>2, <2>2, <2>6 DEF OneThread, Connected, Driven
    <3>2. y = tryReconnect(x)
      BY <1>0, <1>1, <1>4, <2>1, <2>6 DEF onDisconnected
    <3>3. Steady(y) /\ SameDrive(x, y)
      BY <2>2, <2>4, <3>1, <3>2, TryReconnect
    <3>4. Driven(y)
      BY <2>3, <2>5, <3>1, <3>3 DEF SameDrive, Driven, FirstComing
    <3> QED
      BY <1>1, <3>3, <3>4 DEF MqttInv
  <2>7. CASE ~Connected(S)
    <3>1. y = x
      BY <1>0, <1>1, <1>4, <2>1, <2>7 DEF onDisconnected
    <3>2. Steady(x)
      BY <1>2, <2>2, <2>4 DEF Steady, OneThread, Fenced, Counting
    <3>3. Driven(x)
      BY <1>2, <2>2, <2>3, <2>5 DEF Driven
    <3> QED
      BY <1>1, <3>1, <3>2, <3>3 DEF MqttInv
  <2> QED
    BY <2>6, <2>7
<1> QED
  BY <1>3, <1>4

\* enableTimer() after the callback, for a result of start().
LEMMA TimerEnabled ==
  ASSUME NEW S, Steady(S), NEW b \in BOOLEAN, NEW y, y = [S EXCEPT !.timer = @ \/ b],
         S.state \in {"connecting", "waiting", "tcp", "mqtt"} =>
           S.revived \/ S.timer \/ b \/ FirstComing(S)
  PROVE  Steady(y) /\ Driven(y)
<1>1. S \in MqttType
  BY DEF Steady
<1>2. y \in MqttType /\ y.state = S.state /\ y.made = S.made /\ y.sock = S.sock /\ y.read = S.read
      /\ y.thread = S.thread /\ y.posted = S.posted /\ y.remain = S.remain
  BY <1>1 DEF MqttType
<1>3. (y.timer <=> S.timer \/ b) /\ (y.revived <=> S.revived)
  BY <1>1 DEF MqttType
<1>4. FirstComing(S) <=> FirstComing(y)
  BY <1>2 DEF FirstComing
<1> QED
  BY <1>2, <1>3, <1>4 DEF Steady, OneThread, Fenced, Counting, Driven

\* What onTcpConnectDone() leaves when the thread, x by now, was joined.
LEMMA ConnectAnswered ==
  ASSUME NEW S, NEW x, Connects(S, x), x.thread = "null", NEW ret \in BOOLEAN,
         NEW z \in IF ret THEN {[enableSocketRead(x) EXCEPT !.state = "tcp"]}
                   ELSE {tryReconnect(x), stoppedEarly(tryReconnect(x))}
  PROVE  /\ Steady(z)
         /\ z.state \in {"connecting", "waiting", "tcp", "mqtt"} => SameDrive(x, z)
<1>1. x \in MqttType /\ x.sock <= x.made /\ x.read <= x.made /\ (x.sock = 0 \/ x.read # x.sock)
  BY DEF Connects
<1>2. CASE ret
  <2>1. PICK w : w = enableSocketRead(x)
    OBVIOUS
  <2>2. w \in MqttType /\ w.made = x.made /\ w.sock = x.sock /\ w.read <= w.made
        /\ w.thread = "null" /\ w.posted = x.posted
    <3>1. CASE x.sock = 0 \/ x.read # 0
      BY <1>1, <2>1, <3>1 DEF enableSocketRead
    <3>2. CASE ~(x.sock = 0 \/ x.read # 0)
      <4>1. w = [x EXCEPT !.read = x.sock]
        BY <2>1, <3>2 DEF enableSocketRead
      <4>2. w \in MqttType /\ w.made = x.made /\ w.sock = x.sock /\ w.read = x.sock
            /\ w.thread = "null" /\ w.posted = x.posted
        BY <1>1, <4>1 DEF MqttType
      <4> QED
        BY <1>1, <4>2
    <3> QED
      BY <3>1, <3>2
  <2>3. (w.timer <=> x.timer) /\ (w.revived <=> x.revived)
    BY <1>1, <2>1 DEF enableSocketRead, MqttType
  <2>4. z = [w EXCEPT !.state = "tcp"]
    BY <1>2, <2>1
  <2>5. z \in MqttType /\ z.made = w.made /\ z.sock = w.sock /\ z.read = w.read
        /\ z.thread = "null" /\ z.posted = w.posted /\ z.state = "tcp"
    BY <2>2, <2>4 DEF MqttType, States
  <2>6. (z.timer <=> w.timer) /\ (z.revived <=> w.revived)
    BY <2>2, <2>4 DEF MqttType
  <2> QED
    BY <1>1, <2>2, <2>3, <2>5, <2>6 DEF Steady, OneThread, Fenced, Counting, SameDrive
<1>3. CASE ~ret
  <2>1. PICK w : w = tryReconnect(x)
    OBVIOUS
  <2>2. Steady(w) /\ SameDrive(x, w) /\ w.thread = "null"
    BY <1>1, <2>1, TryReconnect
  <2>3. CASE z = w
    BY <2>2, <2>3
  <2>4. CASE z = stoppedEarly(w)
    <3>1. CASE w.state = "end"
      BY <2>2, <2>4, <3>1 DEF stoppedEarly
    <3>2. CASE w.state # "end"
      <4>1. z = [w EXCEPT !.timer = FALSE, !.state = "inited"]
        BY <2>4, <3>2 DEF stoppedEarly
      <4>2. w \in MqttType /\ Fenced(w)
        BY <2>2 DEF Steady
      <4>3. z \in MqttType /\ z.made = w.made /\ z.sock = w.sock /\ z.read = w.read
            /\ z.thread = "null" /\ z.state = "inited"
        BY <2>2, <4>1, <4>2 DEF MqttType, States
      <4> QED
        BY <4>2, <4>3 DEF Steady, OneThread, Fenced, Counting
    <3> QED
      BY <3>1, <3>2
  <2> QED
    BY <1>3, <2>1, <2>3, <2>4
<1> QED
  BY <1>2, <1>3

\* The function the thread posted: it may find the thread of a later start().
LEMMA MqttPostedInv ==
  ASSUME MqttInv, mqttPosted
  PROVE  MqttInv'
<1>0. PICK S : S = mq
  OBVIOUS
<1>1. PICK y : y = mq'
  OBVIOUS
<1>2. S \in MqttType /\ OneThread(S) /\ Fenced(S) /\ Counting(S) /\ Driven(S)
  BY <1>0 DEF MqttInv, Steady
<1>3. S.posted \in Seq(Result) /\ S.posted # <<>>
  BY <1>0, <1>2, Fields DEF mqttPosted
<1>4. PICK p \in Seq(Result), f \in Result : p = Tail(S.posted) /\ f = Head(S.posted)
  BY <1>3, PostedServed
<1>5. PICK x : x = [S EXCEPT !.posted = p]
  OBVIOUS
<1>6. x \in MqttType /\ x.made = S.made /\ x.sock = S.sock /\ x.read = S.read
      /\ x.thread = S.thread /\ x.state = S.state /\ x.remain = S.remain /\ x.posted = p
  BY <1>2, <1>5 DEF MqttType
<1>7. (x.timer <=> S.timer) /\ (x.revived <=> S.revived) /\ (x.first <=> S.first)
  BY <1>2, <1>5 DEF MqttType
<1>8. Steady(x)
  BY <1>2, <1>6 DEF Steady, OneThread, Fenced, Counting
<1>9. PICK first \in BOOLEAN, ret \in BOOLEAN : first = f.first /\ ret = f.ret
  BY DEF Result
<1>10. FirstComing(S) => first \/ FirstComing(x)
  BY <1>3, <1>4, <1>6, <1>9, PostedServed DEF FirstComing
<1>11. PICK z \in onTcpConnectDone(x, f) : y = [z EXCEPT !.timer = @ \/ first]
  BY <1>0, <1>1, <1>4, <1>5, <1>9 DEF mqttPosted
<1>12. CASE S.thread = "null"
  <2>1. z = x
    BY <1>6, <1>11, <1>12 DEF onTcpConnectDone
  <2>2. x.state \in {"connecting", "waiting", "tcp", "mqtt"} =>
          x.revived \/ x.timer \/ first \/ FirstComing(x)
    BY <1>2, <1>6, <1>7, <1>10, <1>12 DEF Driven
  <2>3. Steady(y) /\ Driven(y)
    BY <1>8, <1>11, <2>1, <2>2, TimerEnabled
  <2> QED
    BY <1>1, <2>3 DEF MqttInv
<1>13. CASE S.thread # "null"
  <2>1. PICK J \in Joined(x) :
          z \in IF ret THEN {[enableSocketRead(J) EXCEPT !.state = "tcp"]}
                ELSE {tryReconnect(J), stoppedEarly(tryReconnect(J))}
    BY <1>6, <1>9, <1>11, <1>13 DEF onTcpConnectDone
  <2>2. Connects(x, J) /\ J.thread = "null"
    BY <1>6, <1>8, <1>13, ThreadJoined
  <2>3. Steady(z) /\ (z.state \in {"connecting", "waiting", "tcp", "mqtt"} => SameDrive(J, z))
    BY <2>1, <2>2, ConnectAnswered
  <2>4. S.revived \/ S.timer \/ FirstComing(S) \/ (S.thread = "running" /\ S.first)
    BY <1>2, <1>13 DEF OneThread, Driven
  <2>5. J.revived \/ J.timer \/ first \/ FirstComing(J)
    BY <1>6, <1>7, <1>10, <2>2, <2>4 DEF Connects
  <2>6. z.state \in {"connecting", "waiting", "tcp", "mqtt"} =>
          z.revived \/ z.timer \/ first \/ FirstComing(z)
    BY <2>3, <2>5 DEF SameDrive, FirstComing
  <2>7. Steady(y) /\ Driven(y)
    BY <1>11, <2>3, <2>6, TimerEnabled
  <2> QED
    BY <1>1, <2>7 DEF MqttInv
<1> QED
  BY <1>12, <1>13

\* Every step of the client, its thread, its timer and libmosquitto.
LEMMA MqttInvNext == MqttInv /\ [MqttNext]_mq => MqttInv'
<1> SUFFICES ASSUME MqttInv, [MqttNext]_mq PROVE MqttInv'
  OBVIOUS
<1>1. CASE mqttInitialize \/ mqttStart
  BY <1>1, MqttStartInv
<1>2. CASE mqttStop \/ mqttCleanup
  BY <1>2, MqttStopInv
<1>3. CASE mqttPosted
  BY <1>3, MqttPostedInv
<1>4. CASE mqttTick
  BY <1>4, MqttTickInv
<1>5. CASE onConnected \/ onDisconnected
  BY <1>5, MosquittoInv
<1>6. ASSUME NEW ok \in BOOLEAN, mqttThread(ok) PROVE MqttInv'
  BY <1>6, MqttThreadInv
<1>7. CASE UNCHANGED mq
  BY <1>7 DEF MqttInv
<1> QED
  BY <1>1, <1>2, <1>3, <1>4, <1>5, <1>6, <1>7 DEF MqttNext

\* An MQTT client that has to connect never falls asleep, and never starts over a thread
\* that was not joined, however stops, starts, ticks, lost connections and late results
\* of the connecting thread are interleaved, and however many they are.
THEOREM MqttKeepsMoving == MqttSpec => []MqttMoves
<1>1. MqttInv => MqttMoves
  <2> SUFFICES ASSUME MqttInv, ~mq.revived
               PROVE LET coming == mq.thread # "null" \/ \E i \in DOMAIN mq.posted : mq.posted[i].first
                     IN /\ mq.state = "connecting" => coming \/ mq.timer
                        /\ mq.state = "waiting"    => mq.remain > 0 /\ (coming \/ mq.timer)
                        /\ mq.state \in {"inited", "end"} => mq.thread = "null"
    BY DEF MqttMoves
  <2>1. mq.state \in {"connecting", "waiting"} =>
          mq.timer \/ FirstComing(mq) \/ mq.thread = "running"
    BY DEF MqttInv, Driven
  <2>2. mq.state = "waiting" => mq.remain > 0
    BY DEF MqttInv, Steady, Counting
  <2>3. mq.state \in {"inited", "end"} => mq.thread = "null"
    BY DEF MqttInv, Steady, OneThread
  <2> QED
    BY <2>1, <2>2, <2>3 DEF FirstComing
<1> QED
  BY <1>1, MqttInvInit, MqttInvNext, PTL DEF MqttSpec

-----------------------------------------------------------------------------
(* TimeoutMonitor: the timer runs as long as the ring holds a value        *)

Slots == 1 .. CheckTimes
RingType == [slots : [Slots -> Seq(Nat)], number : Nat, timer : BOOLEAN]

\* The places of the ring's values: slot and position.
Places(R) == {p \in Slots \X Nat : 1 <= p[2] /\ p[2] <= Len(R.slots[p[1]])}

Held(R, v) == \E i \in DOMAIN R.slots : v \in ToSet(R.slots[i])

\* value_number_ counts the values there are, and the timer runs while there are some.
RingOK(R) ==
  /\ R \in RingType
  /\ IsFiniteSet(Places(R))
  /\ R.number = Cardinality(Places(R))
  /\ Places(R) # {} => R.timer

\* A value that is held keeps the timer running.
LEMMA HeldTimed ==
  ASSUME NEW R, RingOK(R), NEW v, Held(R, v)
  PROVE  R.timer
<1>1. PICK i \in Slots : v \in ToSet(R.slots[i])
  BY DEF Held, RingOK, RingType
<1>2. R.slots[i] \in Seq(Nat)
  BY DEF RingOK, RingType
<1>3. PICK j \in DOMAIN R.slots[i] : v = R.slots[i][j]
  BY <1>1 DEF ToSet
<1>4. j \in Nat /\ 1 <= j /\ j <= Len(R.slots[i])
  BY <1>2, <1>3
<1>5. <<i, j>> \in Places(R)
  BY <1>4 DEF Places
<1> QED
  BY <1>5 DEF RingOK

\* initialize() makes an empty ring.
LEMMA NewRingOK == RingOK(NewRing)
<1>1. NewRing \in RingType
  BY DEF NewRing, RingType, Slots
<1>2. \A i \in Slots : NewRing.slots[i] = <<>>
  BY DEF NewRing, Slots
<1>3. \A i \in Slots : Len(NewRing.slots[i]) = 0
  BY <1>2
<1>4. Places(NewRing) = {}
  BY <1>3 DEF Places
<1>5. NewRing.number = 0
  BY DEF NewRing
<1> QED
  BY <1>1, <1>4, <1>5, FS_EmptySet DEF RingOK

\* add(): one value more, and the timer runs.
LEMMA RingAddOK ==
  ASSUME NEW R, RingOK(R), NEW v \in Nat
  PROVE  /\ RingOK(ringAdd(R, v)) /\ Held(ringAdd(R, v), v)
         /\ \A u : Held(R, u) => Held(ringAdd(R, v), u)
<1>1. R \in RingType /\ R.slots \in [Slots -> Seq(Nat)] /\ R.number \in Nat /\ 1 \in Slots
  BY CheckTimesAssumption DEF RingOK, RingType, Slots
<1>2. PICK q \in Seq(Nat) : q = R.slots[1]
  BY <1>1
<1>3. PICK a \in Seq(Nat) : a = Append(q, v)
  <2>1. Append(q, v) \in Seq(Nat)
    OBVIOUS
  <2> QED
    BY <2>1
<1>4. Len(q) \in Nat /\ Len(a) = Len(q) + 1 /\ a[Len(q) + 1] = v /\ \A i \in 1 .. Len(q) : a[i] = q[i]
  BY <1>3
<1>5. PICK y : y = ringAdd(R, v)
  OBVIOUS
<1>6. y = [R EXCEPT !.slots = [R.slots EXCEPT ![1] = a], !.number = R.number + 1,
                    !.timer = R.timer \/ R.number = 0]
  BY <1>2, <1>3, <1>5 DEF ringAdd
<1>7. y \in RingType /\ y.slots = [R.slots EXCEPT ![1] = a] /\ y.number = R.number + 1
  <2>1. PICK s \in [Slots -> Seq(Nat)] : s = [R.slots EXCEPT ![1] = a]
    BY <1>1
  <2>2. PICK n \in Nat : n = R.number + 1
    BY <1>1
  <2>b. PICK b \in BOOLEAN : b = (R.timer \/ R.number = 0)
    OBVIOUS
  <2>3. y = [R EXCEPT !.slots = s, !.number = n, !.timer = b]
    BY <1>6, <2>1, <2>2, <2>b
  <2>4. y \in RingType /\ y.slots = s /\ y.number = n
    BY <1>1, <2>3 DEF RingType
  <2> QED
    BY <2>1, <2>2, <2>4
<1>8. y.timer <=> R.timer \/ R.number = 0
  BY <1>1, <1>6 DEF RingType
<1>9. \A i \in Slots : y.slots[i] = IF i = 1 THEN a ELSE R.slots[i]
  BY <1>1, <1>7
<1>10. Places(y) = Places(R) \cup {<<1, Len(q) + 1>>}
  <2>1. ASSUME NEW p \in Places(y) PROVE p \in Places(R) \cup {<<1, Len(q) + 1>>}
    <3>1. PICK i \in Slots, j \in Nat : p = <<i, j>> /\ 1 <= j /\ j <= Len(y.slots[i])
      BY <2>1 DEF Places
    <3>2. CASE i = 1
      <4>1. j <= Len(q) \/ j = Len(q) + 1
        BY <1>4, <1>9, <3>1, <3>2
      <4> QED
        BY <1>2, <3>1, <3>2, <4>1 DEF Places
    <3>3. CASE i # 1
      BY <1>9, <3>1, <3>3 DEF Places
    <3> QED
      BY <3>2, <3>3
  <2>2. ASSUME NEW p \in Places(R) PROVE p \in Places(y)
    <3>1. PICK i \in Slots, j \in Nat : p = <<i, j>> /\ 1 <= j /\ j <= Len(R.slots[i])
      BY <2>2 DEF Places
    <3>2. j <= Len(y.slots[i])
      <4>1. CASE i = 1
        BY <1>2, <1>4, <1>9, <3>1, <4>1, SMTT(30)
      <4>2. CASE i # 1
        BY <1>9, <3>1, <4>2
      <4> QED
        BY <4>1, <4>2
    <3> QED
      BY <3>1, <3>2 DEF Places
  <2>3. <<1, Len(q) + 1>> \in Places(y)
    <3>1. Len(q) + 1 \in Nat /\ 1 <= Len(q) + 1 /\ Len(q) + 1 <= Len(y.slots[1])
      BY <1>1, <1>4, <1>9
    <3> QED
      BY <1>1, <3>1 DEF Places
  <2> QED
    BY <2>1, <2>2, <2>3
<1>11. <<1, Len(q) + 1>> \notin Places(R)
  BY <1>2, <1>4 DEF Places
<1>12. IsFiniteSet(Places(y)) /\ Cardinality(Places(y)) = Cardinality(Places(R)) + 1
  <2>1. PICK P, x : P = Places(R) /\ x = <<1, Len(q) + 1>>
    OBVIOUS
  <2>2. IsFiniteSet(P) /\ x \notin P /\ Places(y) = P \cup {x}
    BY <1>10, <1>11, <2>1 DEF RingOK
  <2>3. IsFiniteSet(P \cup {x}) /\ Cardinality(P \cup {x}) = Cardinality(P) + 1
    BY <2>2, FS_AddElement
  <2> QED
    BY <2>1, <2>2, <2>3
<1>13. y.timer
  <2>1. CASE R.number = 0
    BY <1>8, <2>1
  <2>2. CASE R.number # 0
    <3>1. Places(R) # {}
      BY <2>2, FS_EmptySet DEF RingOK
    <3> QED
      BY <1>8, <3>1 DEF RingOK
  <2> QED
    BY <2>1, <2>2
<1>14. RingOK(y)
  BY <1>7, <1>12, <1>13 DEF RingOK
<1>15. Held(y, v)
  <2>1. Len(q) + 1 \in DOMAIN a
    BY <1>4
  <2>2. v \in ToSet(y.slots[1])
    BY <1>1, <1>4, <1>9, <2>1 DEF ToSet
  <2>3. 1 \in DOMAIN y.slots
    BY <1>1, <1>7
  <2> QED
    BY <2>2, <2>3 DEF Held
<1>16. ASSUME NEW u, Held(R, u) PROVE Held(y, u)
  <2>1. PICK i \in Slots : u \in ToSet(R.slots[i])
    BY <1>1, <1>16 DEF Held
  <2>2. PICK j \in DOMAIN R.slots[i] : u = R.slots[i][j]
    BY <2>1 DEF ToSet
  <2>3. j \in DOMAIN y.slots[i] /\ y.slots[i][j] = u
    <3>1. CASE i = 1
      <4>1. j \in 1 .. Len(q)
        BY <1>2, <2>2, <3>1
      <4>2. y.slots[i] = a /\ DOMAIN a = 1 .. Len(q) + 1
        BY <1>4, <1>9, <3>1
      <4>3. j \in DOMAIN a /\ a[j] = q[j]
        BY <1>4, <4>1, <4>2
      <4> QED
        BY <1>2, <2>2, <3>1, <4>2, <4>3
    <3>2. CASE i # 1
      BY <1>9, <2>2, <3>2
    <3> QED
      BY <3>1, <3>2
  <2>4. u \in ToSet(y.slots[i]) /\ i \in DOMAIN y.slots
    BY <1>7, <1>1, <2>3 DEF ToSet
  <2> QED
    BY <2>4 DEF Held
<1> QED
  BY <1>5, <1>14, <1>15, <1>16

\* What the next tick takes out, as places.
DuePlaces(R) == {p \in Places(R) : p[1] = SlotAfter(1)}

\* The ring turns by one slot: what was in slot SlotAfter(i) is in slot i, but for the due.
LEMMA TurnedSlots ==
  ASSUME NEW R \in RingType
  PROVE  /\ \A i \in Slots : SlotAfter(i) \in Slots
         /\ \A i \in Slots, j \in Slots : SlotAfter(i) = SlotAfter(j) => i = j
         /\ \A j \in Slots \ {SlotAfter(1)} : \E i \in Slots \ {1} : j = SlotAfter(i)
         /\ ringTick(R).slots \in [Slots -> Seq(Nat)]
         /\ \A i \in Slots : ringTick(R).slots[i] = IF i = 1 THEN <<>> ELSE R.slots[SlotAfter(i)]
<1>0. CheckTimes \in Nat /\ CheckTimes >= 1 /\ 1 \in Slots
  BY CheckTimesAssumption DEF Slots
<1>1. \A i \in Slots : SlotAfter(i) \in Slots
  BY <1>0 DEF Slots, SlotAfter
<1>2. \A i \in Slots, j \in Slots : SlotAfter(i) = SlotAfter(j) => i = j
  BY <1>0 DEF Slots, SlotAfter
<1>3. ASSUME NEW j \in Slots \ {SlotAfter(1)} PROVE \E i \in Slots \ {1} : j = SlotAfter(i)
  <2>1. CASE j = 1
    <3>1. CheckTimes \in Slots \ {1} /\ SlotAfter(CheckTimes) = 1
      BY <1>0, <1>3, <2>1 DEF Slots, SlotAfter
    <3> QED
      BY <2>1, <3>1
  <2>2. CASE j # 1
    <3>1. j - 1 \in Slots \ {1} /\ SlotAfter(j - 1) = j
      BY <1>0, <1>3, <2>2 DEF Slots, SlotAfter
    <3> QED
      BY <3>1
  <2> QED
    BY <2>1, <2>2
<1>4. PICK s : s = [i \in Slots |-> R.slots[SlotAfter(i)]]
  OBVIOUS
<1>5. ringTick(R).slots = [s EXCEPT ![1] = <<>>]
  BY <1>4 DEF ringTick, Slots
<1>6. R.slots \in [Slots -> Seq(Nat)] /\ <<>> \in Seq(Nat)
  BY DEF RingType
<1>7. s \in [Slots -> Seq(Nat)]
  BY <1>1, <1>4, <1>6
<1>8. [s EXCEPT ![1] = <<>>] \in [Slots -> Seq(Nat)]
      /\ \A i \in Slots : [s EXCEPT ![1] = <<>>][i] = IF i = 1 THEN <<>> ELSE R.slots[SlotAfter(i)]
  BY <1>4, <1>6, <1>7
<1> QED
  BY <1>1, <1>2, <1>3, <1>5, <1>8

\* Sets whose members correspond one to one have the same size.
LEMMA SameSize ==
  ASSUME NEW S, NEW T, IsFiniteSet(S), NEW F \in [S -> T],
         \A a, b \in S : F[a] = F[b] => a = b, \A t \in T : \E s \in S : F[s] = t
  PROVE  IsFiniteSet(T) /\ Cardinality(T) = Cardinality(S)
<1>1. F \in Bijection(S, T)
  BY Fun_IsBij
<1>2. ExistsBijection(S, T)
  BY <1>1 DEF ExistsBijection
<1> QED
  BY <1>2, FS_Bijection

\* The values of a slot are as many as its length.
LEMMA DueCounted ==
  ASSUME NEW R, RingOK(R)
  PROVE  IsFiniteSet(DuePlaces(R)) /\ Cardinality(DuePlaces(R)) = Len(ringDue(R))
<1>1. PICK q \in Seq(Nat), k \in Slots : k = SlotAfter(1) /\ q = R.slots[k]
  <2>1. R \in RingType /\ 1 \in Slots
    BY CheckTimesAssumption DEF RingOK, Slots
  <2>2. SlotAfter(1) \in Slots
    BY <2>1, TurnedSlots
  <2>3. R.slots[SlotAfter(1)] \in Seq(Nat)
    BY <2>1, <2>2 DEF RingType
  <2> QED
    BY <2>2, <2>3
<1>2. Len(q) \in Nat
  OBVIOUS
<1>3. PICK n \in Nat : n = Len(q)
  BY <1>2
<1>4. DEFINE f == [j \in 1 .. n |-> <<k, j>>]
<1>5. \A j \in 1 .. n : <<k, j>> \in DuePlaces(R)
  BY <1>1, <1>3 DEF DuePlaces, Places
<1>6. ASSUME NEW p \in DuePlaces(R) PROVE \E j \in 1 .. n : p = <<k, j>>
  <2>1. PICK i \in Slots, j \in Nat : p = <<i, j>> /\ 1 <= j /\ j <= Len(R.slots[i]) /\ i = k
    BY <1>1, <1>6 DEF DuePlaces, Places
  <2>2. j \in 1 .. n
    BY <1>1, <1>3, <2>1
  <2> QED
    BY <2>1, <2>2
<1>7. IsFiniteSet(1 .. n) /\ Cardinality(1 .. n) = n
  <2>1. 1 \in Int /\ n \in Int
    OBVIOUS
  <2> QED
    BY <2>1, FS_Interval
<1>8. f \in [1 .. n -> DuePlaces(R)] /\ \A a, b \in 1 .. n : f[a] = f[b] => a = b
  BY <1>5
<1>9. IsFiniteSet(DuePlaces(R)) /\ Cardinality(DuePlaces(R)) = n
  <2>1. \A p \in DuePlaces(R) : \E j \in 1 .. n : f[j] = p
    BY <1>6
  <2> HIDE DEF f
  <2> QED
    BY <1>7, <1>8, <2>1, SameSize
<1>10. ringDue(R) = q
  BY <1>1 DEF ringDue
<1> QED
  BY <1>3, <1>9, <1>10

\* onTimerTick(): what is left is counted, and keeps the timer running; every value is
\* either due or still held.
LEMMA RingTickOK ==
  ASSUME NEW R, RingOK(R)
  PROVE  /\ RingOK(ringTick(R))
         /\ \A u : Held(R, u) => u \in ToSet(ringDue(R)) \/ Held(ringTick(R), u)
<1>1. R \in RingType /\ R.slots \in [Slots -> Seq(Nat)] /\ R.number \in Nat /\ 1 \in Slots
      /\ IsFiniteSet(Places(R)) /\ R.number = Cardinality(Places(R))
  BY CheckTimesAssumption DEF RingOK, RingType, Slots
<1>2. PICK y : y = ringTick(R)
  OBVIOUS
<1>3. /\ \A i \in Slots : SlotAfter(i) \in Slots
      /\ \A i \in Slots, j \in Slots : SlotAfter(i) = SlotAfter(j) => i = j
      /\ \A j \in Slots \ {SlotAfter(1)} : \E i \in Slots \ {1} : j = SlotAfter(i)
      /\ y.slots \in [Slots -> Seq(Nat)]
      /\ \A i \in Slots : y.slots[i] = IF i = 1 THEN <<>> ELSE R.slots[SlotAfter(i)]
  BY <1>1, <1>2, TurnedSlots
<1>4. PICK L \in Nat : L = Len(ringDue(R)) /\ L = Cardinality(DuePlaces(R))
  <2>1. ringDue(R) \in Seq(Nat)
    BY <1>1, <1>3 DEF ringDue
  <2>2. Len(ringDue(R)) \in Nat
    BY <2>1
  <2> QED
    BY <2>2, DueCounted
<1>5. y.number = R.number - L
  BY <1>2, <1>4 DEF ringTick
<1>6. y.timer <=> R.timer /\ R.number # L
  BY <1>2, <1>4 DEF ringTick
<1>7. PICK Q : Q = Places(R) \ DuePlaces(R)
  OBVIOUS
<1>8. IsFiniteSet(Q) /\ Cardinality(Q) = R.number - L
  <2>1. PICK A, B : A = Places(R) /\ B = DuePlaces(R)
    OBVIOUS
  <2>2. A \cap B = B
    BY <2>1 DEF DuePlaces
  <2>3. IsFiniteSet(A \ B) /\ Cardinality(A \ B) = Cardinality(A) - Cardinality(A \cap B)
    BY <1>1, <2>1, FS_Difference
  <2> QED
    BY <1>1, <1>4, <1>7, <2>1, <2>2, <2>3
<1>9. \A p \in Places(y) : /\ p = <<p[1], p[2]>>
                           /\ p[1] \in Slots \ {1}
                           /\ <<SlotAfter(p[1]), p[2]>> \in Q
  <2> SUFFICES ASSUME NEW p \in Places(y)
               PROVE p = <<p[1], p[2]>> /\ p[1] \in Slots \ {1} /\ <<SlotAfter(p[1]), p[2]>> \in Q
    OBVIOUS
  <2>1. PICK i \in Slots, j \in Nat : p = <<i, j>> /\ 1 <= j /\ j <= Len(y.slots[i])
    BY DEF Places
  <2>2. i # 1
    <3>1. CASE i = 1
      <4>1. Len(y.slots[i]) = 0
        BY <1>3, <3>1
      <4> QED
        BY <2>1, <4>1
    <3> QED
      BY <3>1
  <2>3. <<SlotAfter(i), j>> \in Places(R)
    BY <1>3, <2>1, <2>2 DEF Places
  <2>4. SlotAfter(i) # SlotAfter(1)
    BY <1>1, <1>3, <2>2
  <2>5. <<SlotAfter(i), j>> \notin DuePlaces(R)
    BY <2>4 DEF DuePlaces
  <2> QED
    BY <1>7, <2>1, <2>2, <2>3, <2>5
<1>10. \A r \in Q : \E p \in Places(y) : r = <<SlotAfter(p[1]), p[2]>>
  <2> SUFFICES ASSUME NEW r \in Q PROVE \E p \in Places(y) : r = <<SlotAfter(p[1]), p[2]>>
    OBVIOUS
  <2>1. PICK k \in Slots, j \in Nat : r = <<k, j>> /\ 1 <= j /\ j <= Len(R.slots[k])
    BY <1>7 DEF Places
  <2>2. k # SlotAfter(1)
    BY <1>7, <2>1 DEF DuePlaces
  <2>3. PICK i \in Slots \ {1} : k = SlotAfter(i)
    BY <1>3, <2>2
  <2>4. <<i, j>> \in Places(y)
    BY <1>3, <2>1, <2>3 DEF Places
  <2> QED
    BY <2>1, <2>3, <2>4
<1>11. IsFiniteSet(Places(y)) /\ Cardinality(Places(y)) = Cardinality(Q)
  <2>1. PICK P : P = Places(y)
    OBVIOUS
  <2>2. \A r \in Q : \E p \in P : r = <<SlotAfter(p[1]), p[2]>>
    BY <1>10, <2>1
  <2>3. PICK g : g = [r \in Q |-> CHOOSE p \in P : r = <<SlotAfter(p[1]), p[2]>>]
    OBVIOUS
  <2>4. \A r \in Q : g[r] \in P /\ r = <<SlotAfter(g[r][1]), g[r][2]>>
    BY <2>2, <2>3
  <2>5. g \in [Q -> P] /\ \A a, b \in Q : g[a] = g[b] => a = b
    BY <2>3, <2>4
  <2>6. ASSUME NEW p \in P PROVE \E r \in Q : g[r] = p
    <3>1. PICK r \in Q : r = <<SlotAfter(p[1]), p[2]>>
      BY <1>9, <2>1
    <3>2. g[r] \in P /\ SlotAfter(g[r][1]) = SlotAfter(p[1]) /\ g[r][2] = p[2]
      BY <2>4, <3>1
    <3>3. g[r] = <<g[r][1], g[r][2]>> /\ p = <<p[1], p[2]>> /\ g[r][1] \in Slots /\ p[1] \in Slots
      BY <1>9, <2>1, <3>2
    <3>4. g[r][1] = p[1]
      BY <1>3, <3>2, <3>3
    <3> QED
      BY <3>2, <3>3, <3>4
  <2> QED
    BY <1>8, <2>1, <2>5, <2>6, SameSize
<1>12. y \in RingType
  <2>1. Cardinality(Q) \in Nat
    BY <1>8, FS_CardinalityType
  <2>2. PICK s \in [Slots -> Seq(Nat)], n \in Nat : s = y.slots /\ n = R.number - L
    BY <1>3, <1>8, <2>1
  <2>3. PICK b \in BOOLEAN : b = (R.timer /\ R.number # L)
    OBVIOUS
  <2>4. y = [slots |-> s, number |-> n, timer |-> b]
    BY <1>2, <1>4, <2>2, <2>3 DEF ringTick
  <2> QED
    BY <2>4 DEF RingType
<1>13. ASSUME Places(y) # {} PROVE y.timer
  <2>1. Cardinality(Places(y)) # 0
    BY <1>11, <1>13, FS_EmptySet
  <2>2. R.number # L
    BY <1>1, <1>4, <1>8, <1>11, <2>1
  <2>3. Q # {}
    BY <1>9, <1>13
  <2>4. R.timer
    BY <1>7, <2>3 DEF RingOK
  <2> QED
    BY <1>6, <2>2, <2>4
<1>14. RingOK(y)
  BY <1>5, <1>8, <1>11, <1>12, <1>13 DEF RingOK
<1>15. ASSUME NEW u, Held(R, u) PROVE u \in ToSet(ringDue(R)) \/ Held(y, u)
  <2>1. PICK k \in Slots : u \in ToSet(R.slots[k])
    BY <1>1, <1>15 DEF Held
  <2>2. CASE k = SlotAfter(1)
    BY <2>1, <2>2 DEF ringDue
  <2>3. CASE k # SlotAfter(1)
    <3>1. PICK i \in Slots \ {1} : k = SlotAfter(i)
      BY <1>3, <2>3
    <3>2. y.slots[i] = R.slots[k] /\ i \in DOMAIN y.slots
      BY <1>3, <3>1
    <3> QED
      BY <2>1, <3>2 DEF Held
  <2> QED
    BY <2>2, <2>3
<1> QED
  BY <1>2, <1>14, <1>15

-----------------------------------------------------------------------------
(* JSON-RPC                                                                *)

Ids == 1 .. MaxIds
Messages == {"request", "respond"} \X Ids
RpcType ==
  [alloc : Nat, pending : SUBSET Ids, up : BOOLEAN, watch : BOOLEAN, called : [Ids -> Nat],
   dropped : SUBSET Ids, reqs : RingType, net : SUBSET Messages, tobe : SUBSET Ids,
   asked : SUBSET Ids, resps : RingType]

\* Requests that were sent: each is in the table, forgotten by cleanup(), or called once.
Counted(S) ==
  /\ S.alloc <= MaxIds
  /\ S.pending \cap S.dropped = {}
  /\ \A i \in Ids :
       /\ S.called[i] = IF i <= S.alloc /\ i \notin S.pending \cup S.dropped THEN 1 ELSE 0
       /\ i \in S.pending \cup S.dropped => i <= S.alloc

Sane(S) == S \in RpcType /\ Counted(S) /\ RingOK(S.reqs) /\ RingOK(S.resps)

\* A request in the table is in the ring.
Watched(S) == S.watch => \A i \in S.pending : Held(S.reqs, i)

RpcInv == Sane(rpc) /\ Watched(rpc)

\* A pair of new sides.
LEMMA RpcInvInit == RpcInit => RpcInv
<1> SUFFICES ASSUME RpcInit PROVE RpcInv
  OBVIOUS
<1>1. PICK R : R = NewRing
  OBVIOUS
<1>2. RingOK(R) /\ R \in RingType
  BY <1>1, NewRingOK DEF RingOK
<1>3. PICK f \in [Ids -> Nat] : f = [i \in 1 .. MaxIds |-> 0]
  BY DEF Ids
<1>4. rpc = [alloc |-> 0, pending |-> {}, up |-> TRUE, watch |-> TRUE, called |-> f,
             dropped |-> {}, reqs |-> R, net |-> {}, tobe |-> {}, asked |-> {}, resps |-> R]
  BY <1>1, <1>3 DEF RpcInit
<1>5. rpc \in RpcType
  BY <1>2, <1>4 DEF RpcType
<1>6. rpc.alloc = 0 /\ rpc.pending = {} /\ rpc.dropped = {} /\ rpc.called = f /\ rpc.reqs = R
      /\ rpc.resps = R
  BY <1>4
<1>7. \A i \in Ids : f[i] = 0
  BY <1>3 DEF Ids
<1>8. Counted(rpc)
  BY <1>6, <1>7, RpcAssumption DEF Counted, Ids
<1> QED
  BY <1>2, <1>5, <1>6, <1>8 DEF RpcInv, Sane, Watched

\* request(): a new id, in the table and in the ring.
LEMMA RequestedSane ==
  ASSUME NEW S, Sane(S), Watched(S), S.alloc < MaxIds
  PROVE  Sane(requested(S)) /\ Watched(requested(S))
<1>1. S \in RpcType /\ Counted(S) /\ RingOK(S.reqs) /\ RingOK(S.resps)
  BY DEF Sane
<1>2. S.alloc \in Nat /\ S.pending \subseteq Ids /\ S.dropped \subseteq Ids /\ S.net \subseteq Messages
  BY <1>1 DEF RpcType
<1>3. PICK id \in Nat : id = S.alloc + 1
  BY <1>2
<1>4. id \in Ids
  BY <1>2, <1>3, RpcAssumption DEF Ids
<1>5. PICK R : R = ringAdd(S.reqs, id)
  OBVIOUS
<1>6. RingOK(R) /\ Held(R, id) /\ (\A u : Held(S.reqs, u) => Held(R, u)) /\ R \in RingType
  BY <1>1, <1>5, RingAddOK DEF RingOK
<1>7. PICK N \in SUBSET Messages, P \in SUBSET Ids :
        N = S.net \cup {<<"request", id>>} /\ P = S.pending \cup {id}
  <2>1. <<"request", id>> \in Messages
    BY <1>4 DEF Messages
  <2>2. S.net \cup {<<"request", id>>} \in SUBSET Messages
    BY <1>2, <2>1
  <2>3. S.pending \cup {id} \in SUBSET Ids
    BY <1>2, <1>4
  <2> QED
    BY <2>2, <2>3
<1>8. PICK y : y = [S EXCEPT !.alloc = id, !.pending = P, !.reqs = R, !.net = N]
  OBVIOUS
<1>9. requested(S) = y
  BY <1>3, <1>5, <1>7, <1>8 DEF requested
<1>10. y \in RpcType /\ y.alloc = id /\ y.pending = P /\ y.reqs = R /\ y.dropped = S.dropped
       /\ y.called = S.called /\ y.resps = S.resps
  BY <1>1, <1>6, <1>8 DEF RpcType
<1>11. y.watch <=> S.watch
  BY <1>1, <1>8 DEF RpcType
<1>12. Counted(y)
  <2>1. id <= MaxIds
    BY <1>4, RpcAssumption DEF Ids
  <2>2. id \notin S.dropped
    BY <1>1, <1>2, <1>3, <1>4 DEF Counted
  <2>3. P \cap S.dropped = {}
    BY <1>1, <1>7, <2>2 DEF Counted
  <2>4. ASSUME NEW i \in Ids
        PROVE /\ S.called[i] = IF i <= id /\ i \notin P \cup S.dropped THEN 1 ELSE 0
              /\ i \in P \cup S.dropped => i <= id
    <3>1. i \in Nat
      BY RpcAssumption DEF Ids
    <3>2. /\ S.called[i] = IF i <= S.alloc /\ i \notin S.pending \cup S.dropped THEN 1 ELSE 0
          /\ i \in S.pending \cup S.dropped => i <= S.alloc
      BY <1>1 DEF Counted
    <3>3. i <= id <=> i <= S.alloc \/ i = id
      BY <1>2, <1>3, <3>1
    <3>4. CASE i = id
      <4>1. ~(i <= S.alloc)
        BY <1>2, <1>3, <3>4
      <4>2. S.called[i] = 0
        BY <3>2, <4>1
      <4>3. i \in P
        BY <1>7, <3>4
      <4> QED
        BY <3>3, <3>4, <4>2, <4>3
    <3>5. CASE i # id
      <4>1. i \in P <=> i \in S.pending
        BY <1>7, <3>5
      <4> QED
        BY <3>2, <3>3, <3>5, <4>1
    <3> QED
      BY <3>4, <3>5
  <2> QED
    BY <1>10, <2>1, <2>3, <2>4 DEF Counted
<1>13. Watched(y)
  BY <1>6, <1>7, <1>10, <1>11 DEF Watched
<1> QED
  BY <1>1, <1>6, <1>9, <1>10, <1>12, <1>13 DEF Sane

\* The callbacks of some ids are called and forgotten.
LEMMA SettledSane ==
  ASSUME NEW S, Sane(S), NEW ids
  PROVE  /\ Sane(settled(S, ids))
         /\ settled(S, ids).pending = S.pending \ ids /\ settled(S, ids).reqs = S.reqs
         /\ settled(S, ids).watch <=> S.watch
<1>1. S \in RpcType /\ Counted(S) /\ RingOK(S.reqs) /\ RingOK(S.resps)
  BY DEF Sane
<1>2. S.alloc \in Nat /\ S.pending \subseteq Ids /\ S.called \in [Ids -> Nat]
  BY <1>1 DEF RpcType
<1>3. PICK f : f = [i \in Ids |-> IF i \in ids \cap S.pending THEN S.called[i] + 1 ELSE S.called[i]]
  OBVIOUS
<1>4. f \in [Ids -> Nat]
  BY <1>2, <1>3
<1>5. PICK P \in SUBSET Ids : P = S.pending \ ids
  BY <1>2
<1>6. PICK y : y = [S EXCEPT !.called = f, !.pending = P]
  OBVIOUS
<1>7. settled(S, ids) = y
  BY <1>3, <1>5, <1>6 DEF settled, Ids
<1>8. y \in RpcType /\ y.alloc = S.alloc /\ y.pending = P /\ y.reqs = S.reqs /\ y.dropped = S.dropped
      /\ y.called = f /\ y.resps = S.resps
  BY <1>1, <1>4, <1>6 DEF RpcType
<1>9. y.watch <=> S.watch
  BY <1>1, <1>6 DEF RpcType
<1>10. Counted(y)
  <2>1. P \cap S.dropped = {}
    BY <1>1, <1>5 DEF Counted
  <2>2. ASSUME NEW i \in Ids
        PROVE /\ f[i] = IF i <= S.alloc /\ i \notin P \cup S.dropped THEN 1 ELSE 0
              /\ i \in P \cup S.dropped => i <= S.alloc
    <3>1. /\ S.called[i] = IF i <= S.alloc /\ i \notin S.pending \cup S.dropped THEN 1 ELSE 0
          /\ i \in S.pending \cup S.dropped => i <= S.alloc
      BY <1>1 DEF Counted
    <3>2. CASE i \in ids \cap S.pending
      <4>1. i \notin S.dropped /\ i \notin P /\ i <= S.alloc /\ S.called[i] = 0
        BY <1>1, <1>5, <3>1, <3>2 DEF Counted
      <4>2. f[i] = 1
        BY <1>3, <3>2, <4>1
      <4> QED
        BY <4>1, <4>2
    <3>3. CASE i \notin ids \cap S.pending
      <4>1. f[i] = S.called[i] /\ (i \in P <=> i \in S.pending)
        BY <1>3, <1>5, <3>3
      <4> QED
        BY <3>1, <4>1
    <3> QED
      BY <3>2, <3>3
  <2> QED
    BY <1>1, <1>8, <2>1, <2>2 DEF Counted
<1> QED
  BY <1>1, <1>5, <1>7, <1>8, <1>9, <1>10 DEF Sane

\* A callback that is called may send one request more.
LEMMA FurtherSane ==
  ASSUME NEW S, NEW T, Sane(T), Watched(T), NEW y \in Further(S, T)
  PROVE  Sane(y) /\ Watched(y)
<1>1. y = T \/ (T.alloc < MaxIds /\ y = requested(T))
  BY DEF Further
<1> QED
  BY <1>1, RequestedSane

\* What the transport and the other side do leaves the asking side alone.
LEMMA OtherSide ==
  ASSUME NEW S, Sane(S), Watched(S), NEW n \in SUBSET Messages, NEW b \in SUBSET Ids,
         NEW a \in SUBSET Ids, NEW R, RingOK(R),
         NEW y, y = [S EXCEPT !.net = n, !.tobe = b, !.asked = a, !.resps = R]
  PROVE  Sane(y) /\ Watched(y)
<1>1. S \in RpcType /\ Counted(S) /\ RingOK(S.reqs) /\ R \in RingType
  BY DEF Sane, RingOK
<1>2. y \in RpcType /\ y.alloc = S.alloc /\ y.pending = S.pending /\ y.reqs = S.reqs
      /\ y.dropped = S.dropped /\ y.called = S.called /\ y.resps = R
  BY <1>1 DEF RpcType
<1>3. y.watch <=> S.watch
  BY <1>1 DEF RpcType
<1>4. Counted(y)
  BY <1>1, <1>2 DEF Counted
<1> QED
  BY <1>1, <1>2, <1>3, <1>4 DEF Sane, Watched

\* The asking side: a request, an answer in whatever order, a tick of its monitor, and the
\* end and the next life of the object.
LEMMA AskingInv ==
  ASSUME RpcInv,
         \/ request \/ onRequestTimeout \/ rpcCleanup \/ rpcInitialize
         \/ \E id \in Ids : onRecvRespond(id)
  PROVE  RpcInv'
<1>0. PICK S : S = rpc
  OBVIOUS
<1>1. PICK y : y = rpc'
  OBVIOUS
<1>2. Sane(S) /\ Watched(S) /\ S \in RpcType /\ Counted(S) /\ RingOK(S.reqs) /\ RingOK(S.resps)
  BY <1>0 DEF RpcInv, Sane
<1>3. S.alloc \in Nat /\ S.pending \subseteq Ids /\ S.dropped \subseteq Ids /\ S.net \subseteq Messages
      /\ S.tobe \subseteq Ids /\ S.asked \subseteq Ids
  BY <1>2 DEF RpcType
<1> SUFFICES Sane(y) /\ Watched(y)
  BY <1>1 DEF RpcInv
<1>4. CASE request
  BY <1>0, <1>1, <1>2, <1>4, RequestedSane DEF request
<1>5. ASSUME NEW id \in Ids, onRecvRespond(id) PROVE Sane(y) /\ Watched(y)
  <2>1. PICK T \in {S, [S EXCEPT !.net = S.net \ {<<"respond", id>>}]} : y \in Further(T, settled(T, {id}))
    BY <1>0, <1>1, <1>5 DEF onRecvRespond
  <2>2. Sane(T) /\ Watched(T)
    <3>1. CASE T = S
      BY <1>2, <3>1
    <3>2. CASE T = [S EXCEPT !.net = S.net \ {<<"respond", id>>}]
      <4>1. PICK n \in SUBSET Messages : n = S.net \ {<<"respond", id>>}
        BY <1>3
      <4>2. T \in RpcType /\ T.alloc = S.alloc /\ T.pending = S.pending /\ T.reqs = S.reqs
            /\ T.dropped = S.dropped /\ T.called = S.called /\ T.resps = S.resps
        BY <1>2, <3>2, <4>1 DEF RpcType
      <4>3. T.watch <=> S.watch
        BY <1>2, <3>2 DEF RpcType
      <4>4. Counted(T)
        BY <1>2, <4>2 DEF Counted
      <4> QED
        BY <1>2, <4>2, <4>3, <4>4 DEF Sane, Watched
    <3> QED
      BY <2>1, <3>1, <3>2
  <2>3. PICK U : U = settled(T, {id})
    OBVIOUS
  <2>4. Sane(U) /\ U.pending = T.pending \ {id} /\ U.reqs = T.reqs /\ (U.watch <=> T.watch)
    BY <2>2, <2>3, SettledSane
  <2>5. Watched(U)
    BY <2>2, <2>4 DEF Watched
  <2> QED
    BY <2>1, <2>3, <2>4, <2>5, FurtherSane
<1>6. CASE onRequestTimeout
  <2>1. PICK R, D : R = ringTick(S.reqs) /\ D = ToSet(ringDue(S.reqs))
    OBVIOUS
  <2>2. RingOK(R) /\ R \in RingType /\ \A u : Held(S.reqs, u) => u \in D \/ Held(R, u)
    BY <1>2, <2>1, RingTickOK DEF RingOK
  <2>3. PICK T : T = [S EXCEPT !.reqs = R]
    OBVIOUS
  <2>4. T \in RpcType /\ T.alloc = S.alloc /\ T.pending = S.pending /\ T.reqs = R
        /\ T.dropped = S.dropped /\ T.called = S.called /\ T.resps = S.resps
    BY <1>2, <2>2, <2>3 DEF RpcType
  <2>5. T.watch <=> S.watch
    BY <1>2, <2>3 DEF RpcType
  <2>6. Sane(T)
    <3>1. Counted(T)
      BY <1>2, <2>4 DEF Counted
    <3> QED
      BY <1>2, <2>2, <2>4, <3>1 DEF Sane
  <2>7. CASE S.watch
    <3>1. y \in Further(T, settled(T, D))
      BY <1>0, <1>1, <1>6, <2>1, <2>3, <2>7 DEF onRequestTimeout
    <3>2. PICK U : U = settled(T, D)
      OBVIOUS
    <3>3. Sane(U) /\ U.pending = T.pending \ D /\ U.reqs = T.reqs
      BY <2>6, <3>2, SettledSane
    <3>4. Watched(U)
      BY <1>2, <2>2, <2>4, <2>7, <3>3 DEF Watched
    <3> QED
      BY <3>1, <3>2, <3>3, <3>4, FurtherSane
  <2>8. CASE ~S.watch
    <3>1. y = T
      BY <1>0, <1>1, <1>6, <2>1, <2>3, <2>8 DEF onRequestTimeout
    <3> QED
      BY <2>5, <2>6, <2>8, <3>1 DEF Watched
  <2> QED
    BY <2>7, <2>8
<1>7. CASE rpcCleanup
  <2>1. PICK R : R = NewRing
    OBVIOUS
  <2>2. RingOK(R) /\ R \in RingType
    BY <2>1, NewRingOK DEF RingOK
  <2>3. PICK d \in SUBSET Ids : d = S.dropped \cup S.pending
    BY <1>3
  <2>4. y = [S EXCEPT !.up = FALSE, !.watch = FALSE, !.reqs = R, !.pending = {}, !.dropped = d]
    BY <1>0, <1>1, <1>7, <2>1, <2>3 DEF rpcCleanup
  <2>5. y \in RpcType /\ y.alloc = S.alloc /\ y.pending = {} /\ y.reqs = R
        /\ y.dropped = d /\ y.called = S.called /\ y.resps = S.resps
    BY <1>2, <2>2, <2>4 DEF RpcType
  <2>6. Counted(y)
    BY <1>2, <2>3, <2>5 DEF Counted
  <2> QED
    BY <1>2, <2>2, <2>5, <2>6 DEF Sane, Watched
<1>8. CASE rpcInitialize
  <2>1. y = [S EXCEPT !.up = TRUE]
    BY <1>0, <1>1, <1>8 DEF rpcInitialize
  <2>2. y \in RpcType /\ y.alloc = S.alloc /\ y.pending = S.pending /\ y.reqs = S.reqs
        /\ y.dropped = S.dropped /\ y.called = S.called /\ y.resps = S.resps
    BY <1>2, <2>1 DEF RpcType
  <2>3. y.watch <=> S.watch
    BY <1>2, <2>1 DEF RpcType
  <2>4. Counted(y)
    BY <1>2, <2>2 DEF Counted
  <2> QED
    BY <1>2, <2>2, <2>3, <2>4 DEF Sane, Watched
<1> QED
  BY <1>4, <1>5, <1>6, <1>7, <1>8

\* The answering side and the transport.
LEMMA AnsweringInv ==
  ASSUME RpcInv, onRespondTimeout \/ lose \/ \E id \in Ids : onRecvRequest(id) \/ respond(id)
  PROVE  RpcInv'
<1>0. PICK S : S = rpc
  OBVIOUS
<1>1. PICK y : y = rpc'
  OBVIOUS
<1>2. Sane(S) /\ Watched(S) /\ S \in RpcType /\ RingOK(S.resps)
  BY <1>0 DEF RpcInv, Sane
<1>3. S.net \subseteq Messages /\ S.tobe \subseteq Ids /\ S.asked \subseteq Ids
  BY <1>2 DEF RpcType
<1>4. \E n \in SUBSET Messages, b \in SUBSET Ids, a \in SUBSET Ids : \E R :
        RingOK(R) /\ y = [S EXCEPT !.net = n, !.tobe = b, !.asked = a, !.resps = R]
  <2> DEFINE Goal == \E n \in SUBSET Messages, b \in SUBSET Ids, a \in SUBSET Ids : \E R :
                       RingOK(R) /\ y = [S EXCEPT !.net = n, !.tobe = b, !.asked = a, !.resps = R]
  <2>a. \A id \in Ids : <<"respond", id>> \in Messages /\ id \in Nat
    BY RpcAssumption DEF Messages, Ids
  <2>1. ASSUME NEW id \in Ids, onRecvRequest(id) PROVE Goal
    <3>1. PICK n \in SUBSET Messages : n \in {S.net, S.net \ {<<"request", id>>}} /\
            LET T == [S EXCEPT !.net = n]
            IN \/ y = [T EXCEPT !.net = @ \cup {<<"respond", id>>}]
               \/ y = Answered(T, id)
               \/ y = [T EXCEPT !.tobe = @ \cup {id}, !.asked = @ \cup {id}, !.resps = ringAdd(@, id)]
      <4>1. PICK T \in {S, [S EXCEPT !.net = S.net \ {<<"request", id>>}]} :
              \/ y = [T EXCEPT !.net = @ \cup {<<"respond", id>>}]
              \/ y = Answered(T, id)
              \/ y = [T EXCEPT !.tobe = @ \cup {id}, !.asked = @ \cup {id}, !.resps = ringAdd(@, id)]
        BY <1>0, <1>1, <2>1 DEF onRecvRequest
      <4>2. S = [S EXCEPT !.net = S.net]
        BY <1>2 DEF RpcType
      <4>3. PICK n \in SUBSET Messages : n \in {S.net, S.net \ {<<"request", id>>}} /\ T = [S EXCEPT !.net = n]
        BY <1>3, <4>1, <4>2
      <4> QED
        BY <4>1, <4>3
    <3>2. PICK T : T = [S EXCEPT !.net = n]
      OBVIOUS
    <3>3. PICK m \in SUBSET Messages : m = n \cup {<<"respond", id>>}
      BY <2>a
    <3>4. CASE y = [T EXCEPT !.net = @ \cup {<<"respond", id>>}]
      <4>1. y = [S EXCEPT !.net = m, !.tobe = S.tobe, !.asked = S.asked, !.resps = S.resps]
        BY <1>2, <3>2, <3>3, <3>4 DEF RpcType
      <4> QED
        BY <1>2, <1>3, <4>1
    <3>5. CASE y = Answered(T, id)
      <4>1. PICK b \in SUBSET Ids : b = S.tobe \ {id}
        BY <1>3
      <4>2. y = [S EXCEPT !.net = m, !.tobe = b, !.asked = S.asked, !.resps = S.resps]
        BY <1>2, <3>2, <3>3, <3>5, <4>1 DEF RpcType, Answered
      <4> QED
        BY <1>2, <1>3, <4>2
    <3>6. CASE y = [T EXCEPT !.tobe = @ \cup {id}, !.asked = @ \cup {id}, !.resps = ringAdd(@, id)]
      <4>1. PICK b \in SUBSET Ids, a \in SUBSET Ids : b = S.tobe \cup {id} /\ a = S.asked \cup {id}
        BY <1>3
      <4>2. PICK R : R = ringAdd(S.resps, id)
        OBVIOUS
      <4>3. RingOK(R)
        BY <1>2, <2>a, <4>2, RingAddOK
      <4>4. y = [S EXCEPT !.net = n, !.tobe = b, !.asked = a, !.resps = R]
        BY <1>2, <3>2, <3>6, <4>1, <4>2 DEF RpcType
      <4> QED
        BY <4>3, <4>4
    <3> QED
      BY <3>1, <3>2, <3>4, <3>5, <3>6
  <2>2. ASSUME NEW id \in Ids, respond(id) PROVE Goal
    <3>1. PICK m \in SUBSET Messages, b \in SUBSET Ids :
            m = S.net \cup {<<"respond", id>>} /\ b = S.tobe \ {id}
      BY <1>3, <2>a
    <3>2. y = [S EXCEPT !.net = m, !.tobe = b, !.asked = S.asked, !.resps = S.resps]
      BY <1>0, <1>1, <1>2, <2>2, <3>1 DEF RpcType, respond, Answered
    <3> QED
      BY <1>2, <1>3, <3>2
  <2>3. CASE onRespondTimeout
    <3>1. PICK b \in SUBSET Ids : b = S.tobe \ ToSet(ringDue(S.resps))
      BY <1>3
    <3>2. PICK R : R = ringTick(S.resps)
      OBVIOUS
    <3>3. RingOK(R)
      BY <1>2, <3>2, RingTickOK
    <3>4. y = [S EXCEPT !.net = S.net, !.tobe = b, !.asked = S.asked, !.resps = R]
      BY <1>0, <1>1, <1>2, <2>3, <3>1, <3>2 DEF RpcType, onRespondTimeout
    <3> QED
      BY <1>3, <3>3, <3>4
  <2>4. CASE lose
    <3>1. PICK m \in S.net : y = [S EXCEPT !.net = S.net \ {m}]
      BY <1>0, <1>1, <2>4 DEF lose
    <3>2. PICK n \in SUBSET Messages : n = S.net \ {m}
      BY <1>3
    <3>3. y = [S EXCEPT !.net = n, !.tobe = S.tobe, !.asked = S.asked, !.resps = S.resps]
      BY <1>2, <3>1, <3>2 DEF RpcType
    <3> QED
      BY <1>2, <1>3, <3>3
  <2> QED
    BY <2>1, <2>2, <2>3, <2>4
<1>5. Sane(y) /\ Watched(y)
  BY <1>2, <1>4, OtherSide
<1> QED
  BY <1>1, <1>5 DEF RpcInv

\* Every step of the two sides and the transport.
LEMMA RpcInvNext == RpcInv /\ [RpcNext]_rpc => RpcInv'
<1> SUFFICES ASSUME RpcInv, [RpcNext]_rpc PROVE RpcInv'
  OBVIOUS
<1>1. ASSUME NEW id \in Ids, onRecvRequest(id) \/ onRecvRespond(id) \/ respond(id) PROVE RpcInv'
  BY <1>1, AskingInv, AnsweringInv DEF Ids
<1>2. CASE request \/ onRequestTimeout \/ rpcCleanup \/ rpcInitialize
  BY <1>2, AskingInv
<1>3. CASE onRespondTimeout \/ lose
  BY <1>3, AnsweringInv
<1>4. CASE UNCHANGED rpc
  BY <1>4 DEF RpcInv
<1> QED
  BY <1>1, <1>2, <1>3, <1>4 DEF RpcNext, Ids

\* Whatever the transport loses, repeats and reorders, and however many requests and slots
\* there are: the callback of a request is called at most once, never after cleanup()
\* forgot it, and a request in the table is in a ring whose timer runs.
THEOREM RpcCalledOnce == RpcSpec => []RpcOnce
<1>1. RpcInv => RpcOnce
  <2> SUFFICES ASSUME RpcInv, NEW id \in 1 .. rpc.alloc
               PROVE /\ rpc.called[id] = IF id \in rpc.pending \cup rpc.dropped THEN 0 ELSE 1
                     /\ id \in rpc.pending /\ rpc.watch =>
                          rpc.reqs.timer /\ \E i \in DOMAIN rpc.reqs.slots : id \in ToSet(rpc.reqs.slots[i])
    BY DEF RpcOnce
  <2>1. rpc.alloc \in Nat /\ rpc.alloc <= MaxIds /\ RingOK(rpc.reqs)
    BY DEF RpcInv, Sane, RpcType, Counted
  <2>2. id \in Ids /\ id <= rpc.alloc
    BY <2>1, RpcAssumption DEF Ids
  <2>3. rpc.called[id] = IF id \in rpc.pending \cup rpc.dropped THEN 0 ELSE 1
    BY <2>2 DEF RpcInv, Sane, Counted
  <2>4. id \in rpc.pending /\ rpc.watch => Held(rpc.reqs, id)
    BY DEF RpcInv, Watched
  <2>5. Held(rpc.reqs, id) => rpc.reqs.timer
    BY <2>1, HeldTimed
  <2> QED
    BY <2>3, <2>4, <2>5 DEF Held
<1> QED
  BY <1>1, RpcInvInit, RpcInvNext, PTL DEF RpcSpec

-----------------------------------------------------------------------------
(* DNS                                                                     *)

Verdicts == {"ok", "name", "server", "alldnsfail", "timeout"}
DnsType ==
  [servers : SUBSET DnsServers, alloc : Nat, open : SUBSET ReqIds, fails : [ReqIds -> Nat],
   udp : BOOLEAN, ring : RingType, due : Seq(Nat), sent : [ReqIds -> SUBSET DnsServers],
   failed : [ReqIds -> SUBSET DnsServers], doubled : SUBSET ReqIds, moved : SUBSET ReqIds,
   result : [ReqIds -> Seq(Verdicts)]]

\* A question that was not asked yet is blank.
Blank(S, q) == S.failed[q] = {} /\ S.fails[q] = 0 /\ S.result[q] = <<>>

\* The failures of a question are counted, one for each server that failed it unless one
\* repeated itself, and only servers it was sent to fail it.
Tallied(S, q) ==
  /\ S.failed[q] \subseteq S.sent[q]
  /\ q \notin S.doubled => S.fails[q] = Cardinality(S.failed[q])
  /\ q \in S.open \ S.moved => S.sent[q] = S.servers

\* An open question is not settled, another one at most once.
SettledOnce(S, q) ==
  /\ q \in S.open => S.result[q] = <<>>
  /\ Len(S.result[q]) <= 1
  /\ S.result[q] = <<"alldnsfail">> /\ q \notin S.doubled \cup S.moved => S.failed[q] = S.sent[q]

Question(S, q) ==
  /\ q \in S.open => q <= S.alloc
  /\ q > S.alloc => Blank(S, q)
  /\ Tallied(S, q) /\ SettledOnce(S, q)

DnsSane(S) ==
  /\ S \in DnsType /\ RingOK(S.ring) /\ (S.udp <=> S.open # {})
  /\ \A q \in ReqIds : Question(S, q)

\* An open question, but for those of X, is about to be called by a tick or is in the ring.
Awaited(S, X) == \A q \in S.open \ X : q \in ToSet(S.due) \/ Held(S.ring, q)

DnsInv == DnsSane(dns) /\ Awaited(dns, {})

\* No question was asked.
LEMMA DnsInvInit == DnsInit => DnsInv
<1> SUFFICES ASSUME DnsInit PROVE DnsInv
  OBVIOUS
<1>1. PICK R : R = NewRing
  OBVIOUS
<1>2. RingOK(R) /\ R \in RingType
  BY <1>1, NewRingOK DEF RingOK
<1>3. PICK f \in [ReqIds -> Nat] : f = [q \in ReqIds |-> 0]
  OBVIOUS
<1>4. PICK g \in [ReqIds -> SUBSET DnsServers] : g = [q \in ReqIds |-> {}]
  OBVIOUS
<1>5. PICK h \in [ReqIds -> Seq(Verdicts)] : h = [q \in ReqIds |-> <<>>]
  <2>1. <<>> \in Seq(Verdicts)
    OBVIOUS
  <2> QED
    BY <2>1
<1>6. dns = [servers |-> {}, alloc |-> 0, open |-> {}, fails |-> f, udp |-> FALSE, ring |-> R,
             due |-> <<>>, sent |-> g, failed |-> g, doubled |-> {}, moved |-> {}, result |-> h]
  BY <1>1, <1>3, <1>4, <1>5 DEF DnsInit
<1>7. dns \in DnsType
  BY <1>2, <1>6 DEF DnsType
<1>8. dns.alloc = 0 /\ dns.open = {} /\ dns.fails = f /\ dns.ring = R /\ dns.sent = g
      /\ dns.failed = g /\ dns.result = h /\ ~dns.udp
  BY <1>6
<1>9. ASSUME NEW q \in ReqIds PROVE Question(dns, q)
  <2>1. f[q] = 0 /\ g[q] = {} /\ h[q] = <<>> /\ Len(h[q]) = 0 /\ Cardinality(g[q]) = 0
    BY <1>3, <1>4, <1>5, FS_EmptySet
  <2>2. <<>> # <<"alldnsfail">>
    OBVIOUS
  <2> QED
    BY <1>8, <2>1, <2>2 DEF Question, Blank, Tallied, SettledOnce
<1> QED
  BY <1>2, <1>7, <1>8, <1>9 DEF DnsInv, DnsSane, Awaited

\* request(): a new question, blank but for the servers it was sent to, open and in the ring.
LEMMA AskedSane ==
  ASSUME NEW S, DnsSane(S), CanAsk(S), NEW X, Awaited(S, X)
  PROVE  /\ DnsSane(asked(S)) /\ Awaited(asked(S), X)
         /\ S.open \subseteq asked(S).open /\ asked(S).due = S.due
         /\ asked(S).doubled = S.doubled /\ asked(S).moved = S.moved
         /\ asked(S).failed = S.failed /\ asked(S).result = S.result
         /\ \A p \in S.open : asked(S).sent[p] = S.sent[p]
<1>1. S \in DnsType /\ RingOK(S.ring) /\ \A q \in ReqIds : Question(S, q)
  BY DEF DnsSane
<1>2. S.alloc \in Nat /\ S.open \subseteq ReqIds /\ S.servers \in SUBSET DnsServers
      /\ S.sent \in [ReqIds -> SUBSET DnsServers] /\ S.result \in [ReqIds -> Seq(Verdicts)]
  BY <1>1 DEF DnsType
<1>3. PICK n \in Nat : n = S.alloc + 1
  BY <1>2
<1>4. n \in ReqIds /\ n > S.alloc /\ n \notin S.open
  <2>1. n \in ReqIds /\ n > S.alloc
    BY <1>2, <1>3, DnsAssumption DEF CanAsk, ReqIds
  <2>2. n \in S.open => n <= S.alloc
    BY <1>1, <2>1 DEF Question
  <2> QED
    BY <1>2, <2>1, <2>2
<1>5. PICK R : R = ringAdd(S.ring, n)
  OBVIOUS
<1>6. RingOK(R) /\ Held(R, n) /\ (\A u : Held(S.ring, u) => Held(R, u)) /\ R \in RingType
  BY <1>1, <1>5, RingAddOK DEF RingOK
<1>7. PICK O \in SUBSET ReqIds : O = S.open \cup {n}
  BY <1>2, <1>4
<1>8. PICK g \in [ReqIds -> SUBSET DnsServers] : g = [S.sent EXCEPT ![n] = S.servers]
  BY <1>2
<1>9. PICK b \in BOOLEAN : b = (S.udp \/ S.open = {})
  OBVIOUS
<1>10. PICK y : y = [S EXCEPT !.alloc = n, !.open = O, !.udp = b, !.ring = R, !.sent = g]
  OBVIOUS
<1>11. asked(S) = y
  BY <1>3, <1>5, <1>7, <1>8, <1>9, <1>10 DEF asked
<1>12. y \in DnsType /\ y.alloc = n /\ y.open = O /\ y.ring = R /\ y.sent = g /\ y.due = S.due
       /\ y.fails = S.fails /\ y.failed = S.failed /\ y.doubled = S.doubled /\ y.moved = S.moved
       /\ y.result = S.result /\ y.servers = S.servers
  BY <1>1, <1>6, <1>10 DEF DnsType
<1>13. y.udp
  <2>1. y.udp = b
    BY <1>1, <1>10 DEF DnsType
  <2> QED
    BY <1>9, <2>1 DEF DnsSane
<1>14. ASSUME NEW q \in ReqIds PROVE Question(y, q)
  <2>0. q \in Nat
    BY DnsAssumption DEF ReqIds
  <2>1. Question(S, q)
    BY <1>1
  <2>2. CASE q = n
    <3>1. Blank(S, q)
      BY <1>4, <2>1, <2>2 DEF Question
    <3>2. g[q] = S.servers /\ q <= n /\ ~(q > n)
      BY <1>2, <1>4, <1>8, <2>0, <2>2
    <3>3. S.failed[q] = {} /\ S.fails[q] = 0 /\ S.result[q] = <<>>
      BY <3>1 DEF Blank
    <3>4. Len(S.result[q]) <= 1 /\ S.result[q] # <<"alldnsfail">> /\ Cardinality(S.failed[q]) = 0
      BY <3>3, FS_EmptySet
    <3> QED
      BY <1>12, <3>2, <3>3, <3>4 DEF Question, Tallied, SettledOnce
  <2>3. CASE q # n
    <3>1. g[q] = S.sent[q] /\ (q \in O <=> q \in S.open)
      BY <1>2, <1>7, <1>8, <2>3
    <3>2. (q <= S.alloc => q <= n) /\ (q > n => q > S.alloc)
      BY <1>2, <1>3, <2>0
    <3>3. Blank(S, q) => Blank(y, q)
      BY <1>12 DEF Blank
    <3>4. Tallied(y, q)
      BY <1>12, <2>1, <3>1 DEF Question, Tallied
    <3>5. SettledOnce(y, q)
      BY <1>12, <2>1, <3>1 DEF Question, SettledOnce
    <3> QED
      BY <1>12, <2>1, <3>1, <3>2, <3>3, <3>4, <3>5 DEF Question
  <2> QED
    BY <2>2, <2>3
<1>15. DnsSane(y)
  BY <1>6, <1>7, <1>12, <1>13, <1>14 DEF DnsSane
<1>16. Awaited(y, X)
  BY <1>6, <1>7, <1>12 DEF Awaited
<1>17. \A p \in S.open : g[p] = S.sent[p]
  BY <1>2, <1>4, <1>8
<1> QED
  BY <1>7, <1>11, <1>12, <1>15, <1>16, <1>17

\* deleteRequest(): the question is not open any more.
LEMMA DeletedSane ==
  ASSUME NEW S, DnsSane(S), NEW q, NEW X, Awaited(S, X), X \subseteq {q}
  PROVE  DnsSane(deleteRequest(S, q)) /\ Awaited(deleteRequest(S, q), {})
<1>1. S \in DnsType /\ RingOK(S.ring) /\ \A p \in ReqIds : Question(S, p)
  BY DEF DnsSane
<1>2. PICK O \in SUBSET ReqIds : O = S.open \ {q}
  BY <1>1 DEF DnsType
<1>3. PICK b \in BOOLEAN : b = (S.udp /\ O # {})
  OBVIOUS
<1>4. PICK y : y = [S EXCEPT !.open = O, !.udp = b]
  OBVIOUS
<1>5. deleteRequest(S, q) = y
  BY <1>2, <1>3, <1>4 DEF deleteRequest
<1>6. y \in DnsType /\ y.alloc = S.alloc /\ y.open = O /\ y.ring = S.ring /\ y.sent = S.sent
      /\ y.due = S.due /\ y.fails = S.fails /\ y.failed = S.failed /\ y.doubled = S.doubled
      /\ y.moved = S.moved /\ y.result = S.result /\ y.servers = S.servers
  BY <1>1, <1>4 DEF DnsType
<1>7. y.udp <=> O # {}
  <2>1. y.udp = b
    BY <1>1, <1>4 DEF DnsType
  <2>2. O # {} => S.udp
    BY <1>2 DEF DnsSane
  <2> QED
    BY <1>3, <2>1, <2>2
<1>8. ASSUME NEW p \in ReqIds PROVE Question(y, p)
  BY <1>1, <1>2, <1>6 DEF Question, Blank, Tallied, SettledOnce
<1>9. Awaited(y, {})
  BY <1>2, <1>6 DEF Awaited
<1> QED
  BY <1>1, <1>5, <1>6, <1>7, <1>8, <1>9 DEF DnsSane

\* The callback of an open question is given a verdict and the question is deleted.
LEMMA SettledDns ==
  ASSUME NEW S, DnsSane(S), NEW q \in S.open, NEW X, Awaited(S, X), X \subseteq {q},
         NEW how \in Verdicts,
         how = "alldnsfail" /\ q \notin S.doubled \cup S.moved => S.failed[q] = S.sent[q]
  PROVE  LET y == deleteRequest([S EXCEPT !.result[q] = Append(@, how)], q)
         IN DnsSane(y) /\ Awaited(y, {})
<1>1. S \in DnsType /\ RingOK(S.ring) /\ \A p \in ReqIds : Question(S, p)
  BY DEF DnsSane
<1>2. S.open \in SUBSET ReqIds /\ S.result \in [ReqIds -> Seq(Verdicts)] /\ q \in ReqIds
  BY <1>1 DEF DnsType
<1>3. PICK O \in SUBSET ReqIds : O = S.open \ {q}
  BY <1>2
<1>4. PICK b \in BOOLEAN : b = (S.udp /\ O # {})
  OBVIOUS
<1>5. S.result[q] = <<>>
  BY <1>1, <1>2 DEF Question, SettledOnce
<1>6. PICK v \in Seq(Verdicts) : v = <<how>> /\ v = Append(S.result[q], how) /\ Len(v) = 1
  <2>1. Append(<<>>, how) = <<how>> /\ <<how>> \in Seq(Verdicts) /\ Len(<<how>>) = 1
    OBVIOUS
  <2> QED
    BY <1>5, <2>1
<1>7. PICK h \in [ReqIds -> Seq(Verdicts)] : h = [S.result EXCEPT ![q] = v]
  BY <1>2
<1>8. PICK y : y = [S EXCEPT !.open = O, !.udp = b, !.result = h]
  OBVIOUS
<1>9. deleteRequest([S EXCEPT !.result[q] = Append(@, how)], q) = y
  <2>1. PICK T : T = [S EXCEPT !.result = h]
    OBVIOUS
  <2>2. [S EXCEPT !.result[q] = Append(@, how)] = T
    BY <1>6, <1>7, <2>1
  <2>3. T.open = S.open /\ T.udp = S.udp
    BY <1>1, <2>1 DEF DnsType
  <2>4. deleteRequest(T, q) = [T EXCEPT !.open = O, !.udp = b]
    BY <1>3, <1>4, <2>3 DEF deleteRequest
  <2>5. [T EXCEPT !.open = O, !.udp = b] = y
    BY <1>1, <1>8, <2>1 DEF DnsType
  <2> QED
    BY <2>2, <2>4, <2>5
<1>10. y \in DnsType /\ y.alloc = S.alloc /\ y.open = O /\ y.ring = S.ring /\ y.sent = S.sent
      /\ y.due = S.due /\ y.fails = S.fails /\ y.failed = S.failed /\ y.doubled = S.doubled
      /\ y.moved = S.moved /\ y.result = h /\ y.servers = S.servers
  BY <1>1, <1>8 DEF DnsType
<1>11. y.udp <=> O # {}
  <2>1. y.udp = b
    BY <1>1, <1>8 DEF DnsType
  <2>2. O # {} => S.udp
    BY <1>3 DEF DnsSane
  <2> QED
    BY <1>4, <2>1, <2>2
<1>12. ASSUME NEW p \in ReqIds PROVE Question(y, p)
  <2>1. Question(S, p)
    BY <1>1
  <2>2. p \in O => p \in S.open
    BY <1>3
  <2>3. Tallied(y, p)
    BY <1>10, <2>1, <2>2 DEF Question, Tallied
  <2>4. CASE p = q
    <3>1. h[p] = v /\ p \notin O /\ p \in S.open
      BY <1>2, <1>3, <1>7, <2>4
    <3>2. ~(p > S.alloc)
      <4>1. p <= S.alloc /\ p \in Nat /\ S.alloc \in Nat
        BY <1>1, <2>1, <3>1, DnsAssumption DEF Question, ReqIds, DnsType
      <4> QED
        BY <4>1
    <3>3. v = <<"alldnsfail">> => how = "alldnsfail"
      BY <1>6
    <3>a. Len(h[p]) <= 1
      BY <1>6, <3>1
    <3>b. h[p] = <<"alldnsfail">> /\ p \notin S.doubled \cup S.moved => S.failed[p] = S.sent[p]
      BY <2>4, <3>1, <3>3
    <3>4. SettledOnce(y, p)
      BY <1>10, <3>1, <3>a, <3>b DEF SettledOnce
    <3> QED
      BY <1>10, <2>3, <3>1, <3>2, <3>4 DEF Question
  <2>5. CASE p # q
    <3>1. h[p] = S.result[p]
      BY <1>2, <1>7, <2>5
    <3>2. Blank(S, p) => Blank(y, p)
      BY <1>10, <3>1 DEF Blank
    <3>3. SettledOnce(y, p)
      BY <1>10, <2>1, <2>2, <3>1 DEF Question, SettledOnce
    <3> QED
      BY <1>10, <2>1, <2>2, <2>3, <3>2, <3>3 DEF Question
  <2> QED
    BY <2>4, <2>5
<1>13. Awaited(y, {})
  BY <1>3, <1>10 DEF Awaited
<1> QED
  BY <1>1, <1>9, <1>10, <1>11, <1>12, <1>13 DEF DnsSane

\* The callback may ask a further question before its own is deleted.
LEMMA AnsweredSane ==
  ASSUME NEW S, DnsSane(S), NEW q \in S.open, NEW X, Awaited(S, X), X \subseteq {q},
         NEW how \in Verdicts,
         how = "alldnsfail" /\ q \notin S.doubled \cup S.moved => S.failed[q] = S.sent[q],
         NEW y \in answered(S, q, how)
  PROVE  DnsSane(y) /\ Awaited(y, {})
<1>0. S \in DnsType
  BY DEF DnsSane
<1>1. PICK T : T = [S EXCEPT !.result[q] = Append(@, how)]
  OBVIOUS
<1>2. T.servers = S.servers /\ T.alloc = S.alloc /\ T.open = S.open /\ T.udp = S.udp /\ T.ring = S.ring
      /\ T.sent = S.sent
  BY <1>0, <1>1 DEF DnsType
<1>3. y = deleteRequest(T, q) \/ (CanAsk(T) /\ y = deleteRequest(asked(T), q))
  BY <1>1 DEF answered
<1>4. CASE y = deleteRequest(T, q)
  BY <1>1, <1>4, SettledDns
<1>5. CASE CanAsk(T) /\ y = deleteRequest(asked(T), q)
  <2>1. CanAsk(S)
    BY <1>2, <1>5 DEF CanAsk
  <2>2. PICK U : U = asked(S)
    OBVIOUS
  <2>3. /\ DnsSane(U) /\ Awaited(U, X) /\ q \in U.open /\ U.doubled = S.doubled
        /\ U.moved = S.moved /\ U.failed = S.failed /\ U.sent[q] = S.sent[q]
    BY <2>1, <2>2, AskedSane
  <2>4. asked(T) = [U EXCEPT !.result[q] = Append(@, how)]
    <3>1. PICK n, O, b, R, g :
            /\ n = S.alloc + 1 /\ O = S.open \cup {n} /\ b = (S.udp \/ S.open = {})
            /\ R = ringAdd(S.ring, n) /\ g = [S.sent EXCEPT ![n] = S.servers]
      OBVIOUS
    <3>2. U = [S EXCEPT !.alloc = n, !.open = O, !.udp = b, !.ring = R, !.sent = g]
      BY <2>2, <3>1 DEF asked
    <3>3. asked(T) = [T EXCEPT !.alloc = n, !.open = O, !.udp = b, !.ring = R, !.sent = g]
      BY <1>2, <3>1 DEF asked
    <3>4. PICK h : h = [S.result EXCEPT ![q] = Append(S.result[q], how)]
      OBVIOUS
    <3>5. T = [S EXCEPT !.result = h]
      BY <1>1, <3>4
    <3>6. U.result = S.result
      BY <1>0, <3>2 DEF DnsType
    <3>7. [U EXCEPT !.result[q] = Append(@, how)] = [U EXCEPT !.result = h]
      BY <3>4, <3>6
    <3>8. [T EXCEPT !.alloc = n, !.open = O, !.udp = b, !.ring = R, !.sent = g]
            = [U EXCEPT !.result = h]
      BY <1>0, <3>2, <3>5 DEF DnsType
    <3> QED
      BY <3>3, <3>7, <3>8
  <2>5. how = "alldnsfail" /\ q \notin U.doubled \cup U.moved => U.failed[q] = U.sent[q]
    BY <2>3
  <2> QED
    BY <1>5, <2>3, <2>4, <2>5, SettledDns
<1> QED
  BY <1>3, <1>4, <1>5

\* What onUdpRecv() notes when server s fails question q.
Failing(S, q, s) ==
  [S EXCEPT !.fails[q] = @ + 1, !.failed[q] = @ \cup {s},
            !.doubled = IF s \in S.failed[q] THEN @ \cup {q} ELSE @]

\* A server fails a question: counted, and by a server it was sent to.
LEMMA FailedSane ==
  ASSUME NEW S, DnsSane(S), NEW q \in S.open, NEW s \in S.sent[q], Awaited(S, {}), NEW y,
         y = Failing(S, q, s)
  PROVE  /\ DnsSane(y) /\ Awaited(y, {}) /\ y.open = S.open /\ y.servers = S.servers
         /\ ~(y.fails[q] < Cardinality(y.servers)) /\ q \notin y.doubled \cup y.moved =>
              y.failed[q] = y.sent[q]
<1>1. S \in DnsType /\ RingOK(S.ring) /\ \A p \in ReqIds : Question(S, p)
  BY DEF DnsSane
<1>2. /\ S.open \in SUBSET ReqIds /\ q \in ReqIds /\ S.fails \in [ReqIds -> Nat]
      /\ S.sent \in [ReqIds -> SUBSET DnsServers] /\ S.failed \in [ReqIds -> SUBSET DnsServers]
      /\ S.doubled \in SUBSET ReqIds /\ S.servers \in SUBSET DnsServers
  BY <1>1 DEF DnsType
<1>3. PICK f \in [ReqIds -> Nat] : f = [S.fails EXCEPT ![q] = S.fails[q] + 1]
  <2>1. PICK n \in Nat : n = S.fails[q] + 1
    BY <1>2
  <2>2. [S.fails EXCEPT ![q] = n] \in [ReqIds -> Nat]
    BY <1>2
  <2> QED
    BY <2>1, <2>2
<1>4. PICK g \in [ReqIds -> SUBSET DnsServers] : g = [S.failed EXCEPT ![q] = S.failed[q] \cup {s}]
  BY <1>2
<1>5. PICK D \in SUBSET ReqIds : D = IF s \in S.failed[q] THEN S.doubled \cup {q} ELSE S.doubled
  BY <1>2
<1>6. y = [S EXCEPT !.fails = f, !.failed = g, !.doubled = D]
  BY <1>3, <1>4, <1>5 DEF Failing
<1>7. y \in DnsType /\ y.alloc = S.alloc /\ y.open = S.open /\ y.ring = S.ring /\ y.sent = S.sent
      /\ y.due = S.due /\ y.fails = f /\ y.failed = g /\ y.doubled = D
      /\ y.moved = S.moved /\ y.result = S.result /\ y.servers = S.servers
  BY <1>1, <1>6 DEF DnsType
<1>8. y.udp <=> S.udp
  BY <1>1, <1>6 DEF DnsType
<1>9. f[q] = S.fails[q] + 1 /\ g[q] = S.failed[q] \cup {s} /\ S.fails[q] \in Nat
  BY <1>2, <1>3, <1>4
<1>10. IsFiniteSet(S.failed[q]) /\ IsFiniteSet(S.sent[q]) /\ IsFiniteSet(S.servers)
  <2>1. S.failed[q] \in SUBSET DnsServers /\ S.sent[q] \in SUBSET DnsServers
    BY <1>2
  <2> QED
    BY <1>2, <2>1, DnsAssumption, FS_Subset
<1>11. Question(S, q)
  BY <1>1, <1>2
<1>12. Tallied(y, q)
  <2>1. g[q] \subseteq S.sent[q]
    BY <1>9, <1>11 DEF Question, Tallied
  <2>2. ASSUME q \notin D PROVE f[q] = Cardinality(g[q])
    <3>1. s \notin S.failed[q] /\ q \notin S.doubled
      BY <1>5, <2>2
    <3>2. S.fails[q] = Cardinality(S.failed[q])
      BY <1>11, <3>1 DEF Question, Tallied
    <3>3. Cardinality(S.failed[q] \cup {s}) = Cardinality(S.failed[q]) + 1
      BY <1>10, <3>1, FS_AddElement
    <3> QED
      BY <1>9, <3>2, <3>3
  <2>3. q \in S.open \ S.moved => S.sent[q] = S.servers
    BY <1>11 DEF Question, Tallied
  <2> QED
    BY <1>7, <2>1, <2>2, <2>3 DEF Tallied
<1>13. ASSUME NEW p \in ReqIds PROVE Question(y, p)
  <2>1. Question(S, p)
    BY <1>1
  <2>2. CASE p = q
    <3>1. S.result[p] = <<>> /\ p <= S.alloc /\ Len(S.result[p]) <= 1
      BY <2>1, <2>2 DEF Question, SettledOnce
    <3>2. ~(p > S.alloc)
      <4>1. p \in Nat /\ S.alloc \in Nat
        BY <1>1, DnsAssumption DEF ReqIds, DnsType
      <4> QED
        BY <3>1, <4>1
    <3>3. <<>> # <<"alldnsfail">>
      OBVIOUS
    <3>4. SettledOnce(y, p)
      BY <1>7, <3>1, <3>3 DEF SettledOnce
    <3> QED
      BY <1>7, <1>12, <2>2, <3>1, <3>2, <3>4 DEF Question
  <2>3. CASE p # q
    <3>1. f[p] = S.fails[p] /\ g[p] = S.failed[p] /\ (p \in D <=> p \in S.doubled)
      BY <1>2, <1>3, <1>4, <1>5, <2>3
    <3>2. Blank(S, p) => Blank(y, p)
      BY <1>7, <3>1 DEF Blank
    <3>3. Tallied(y, p)
      BY <1>7, <2>1, <3>1 DEF Question, Tallied
    <3>4. SettledOnce(y, p)
      BY <1>7, <2>1, <3>1 DEF Question, SettledOnce
    <3> QED
      BY <1>7, <2>1, <3>2, <3>3, <3>4 DEF Question
  <2> QED
    BY <2>2, <2>3
<1>14. DnsSane(y) /\ Awaited(y, {})
  BY <1>1, <1>7, <1>8, <1>13 DEF DnsSane, Awaited
<1>15. ASSUME ~(f[q] < Cardinality(S.servers)), q \notin D \cup S.moved PROVE g[q] = S.sent[q]
  <2>1. /\ f[q] = Cardinality(g[q]) /\ g[q] \in SUBSET S.sent[q] /\ S.sent[q] = S.servers
    BY <1>7, <1>12, <1>15 DEF Tallied
  <2>2. Cardinality(g[q]) <= Cardinality(S.sent[q]) /\ (Cardinality(S.sent[q]) = Cardinality(g[q]) => S.sent[q] = g[q])
    BY <1>10, <2>1, FS_Subset
  <2>3. Cardinality(S.sent[q]) \in Nat /\ f[q] \in Nat
    BY <1>2, <1>10, FS_CardinalityType
  <2> QED
    BY <1>15, <2>1, <2>2, <2>3
<1> QED
  BY <1>7, <1>14, <1>15

\* A tick: what it takes out of the ring waits to be called.
LEMMA DnsTickInv ==
  ASSUME DnsInv, dnsTick
  PROVE  DnsInv'
<1>0. PICK S : S = dns
  OBVIOUS
<1>1. PICK y : y = dns'
  OBVIOUS
<1>2. DnsSane(S) /\ Awaited(S, {}) /\ S \in DnsType /\ RingOK(S.ring) /\ S.due = <<>>
  BY <1>0 DEF DnsInv, DnsSane, dnsTick
<1>3. PICK R : R = ringTick(S.ring)
  OBVIOUS
<1>4. PICK D \in Seq(Nat) : D = ringDue(S.ring)
  <2>1. S.ring.slots \in [Slots -> Seq(Nat)]
    BY <1>2 DEF RingOK, RingType
  <2>2. SlotAfter(1) \in Slots
    BY CheckTimesAssumption DEF SlotAfter, Slots
  <2> QED
    BY <2>1, <2>2 DEF ringDue
<1>5. RingOK(R) /\ R \in RingType /\ \A u : Held(S.ring, u) => u \in ToSet(D) \/ Held(R, u)
  BY <1>2, <1>3, <1>4, RingTickOK DEF RingOK
<1>6. y = [S EXCEPT !.ring = R, !.due = D]
  BY <1>0, <1>1, <1>3, <1>4 DEF dnsTick
<1>7. y \in DnsType /\ y.alloc = S.alloc /\ y.open = S.open /\ y.ring = R /\ y.sent = S.sent
      /\ y.due = D /\ y.fails = S.fails /\ y.failed = S.failed /\ y.doubled = S.doubled
      /\ y.moved = S.moved /\ y.result = S.result /\ y.servers = S.servers
  BY <1>2, <1>5, <1>6 DEF DnsType
<1>8. y.udp <=> S.udp
  BY <1>2, <1>6 DEF DnsType
<1>9. \A q \in ReqIds : Question(y, q)
  BY <1>2, <1>7 DEF DnsSane, Question, Blank, Tallied, SettledOnce
<1>10. DnsSane(y)
  BY <1>2, <1>5, <1>7, <1>8, <1>9 DEF DnsSane
<1>11. ToSet(<<>>) = {}
  BY DEF ToSet
<1>12. Awaited(y, {})
  BY <1>2, <1>5, <1>7, <1>11 DEF Awaited
<1> QED
  BY <1>1, <1>10, <1>12 DEF DnsInv

\* The callback for the next value of the tick.
LEMMA DnsTimeoutInv ==
  ASSUME DnsInv, onDnsTimeout
  PROVE  DnsInv'
<1>0. PICK S : S = dns
  OBVIOUS
<1>1. PICK y : y = dns'
  OBVIOUS
<1>2. DnsSane(S) /\ Awaited(S, {}) /\ S \in DnsType /\ S.due # <<>>
  BY <1>0 DEF DnsInv, DnsSane, onDnsTimeout
<1>3. PICK d \in Seq(Nat) : d = S.due /\ d # <<>>
  BY <1>2 DEF DnsType
<1>4. PICK q \in Nat : q = Head(d)
  BY <1>3
<1>5. PICK t \in Seq(Nat) : t = Tail(d)
  <2>1. Tail(d) \in Seq(Nat)
    BY <1>3
  <2> QED
    BY <2>1
<1>6. ASSUME NEW u \in ToSet(d), u # q PROVE u \in ToSet(t)
  <2>0. DOMAIN d = 1 .. Len(d)
    BY <1>3
  <2>1. PICK k \in 1 .. Len(d) : d[k] = u
    BY <2>0, Zenon DEF ToSet
  <2>2. k # 1
    BY <1>3, <1>4, <1>6, <2>1
  <2>3. k - 1 \in 1 .. Len(t) /\ t[k - 1] = d[k]
    BY <1>3, <1>5, <2>1, <2>2
  <2> QED
    BY <2>1, <2>3 DEF ToSet
<1>7. PICK T : T = [S EXCEPT !.due = t]
  OBVIOUS
<1>8. y \in timedOut(T, q)
  BY <1>0, <1>1, <1>3, <1>4, <1>5, <1>7 DEF onDnsTimeout
<1>9. T \in DnsType /\ T.alloc = S.alloc /\ T.open = S.open /\ T.ring = S.ring /\ T.sent = S.sent
      /\ T.due = t /\ T.fails = S.fails /\ T.failed = S.failed /\ T.doubled = S.doubled
      /\ T.moved = S.moved /\ T.result = S.result /\ T.servers = S.servers
  BY <1>2, <1>7 DEF DnsType
<1>10. T.udp <=> S.udp
  BY <1>2, <1>7 DEF DnsType
<1>11. DnsSane(T)
  <2>1. \A p \in ReqIds : Question(T, p)
    BY <1>2, <1>9 DEF DnsSane, Question, Blank, Tallied, SettledOnce
  <2> QED
    BY <1>2, <1>9, <1>10, <2>1 DEF DnsSane
<1>12. Awaited(T, {q})
  BY <1>2, <1>3, <1>6, <1>9 DEF Awaited
<1>13. CASE q \in T.open
  <2>1. y \in answered(T, q, "timeout")
    BY <1>8, <1>13 DEF timedOut
  <2>2. "timeout" \in Verdicts /\ "timeout" # "alldnsfail"
    BY DEF Verdicts
  <2>3. DnsSane(y) /\ Awaited(y, {})
    BY <1>11, <1>12, <1>13, <2>1, <2>2, AnsweredSane
  <2> QED
    BY <1>1, <2>3 DEF DnsInv
<1>14. CASE q \notin T.open
  <2>1. y = T
    BY <1>8, <1>14 DEF timedOut
  <2>2. Awaited(T, {})
    BY <1>12, <1>14 DEF Awaited
  <2> QED
    BY <1>1, <1>11, <2>1, <2>2 DEF DnsInv
<1> QED
  BY <1>13, <1>14

\* A datagram.
LEMMA UdpInv ==
  ASSUME DnsInv, NEW q \in ReqIds, NEW s \in DnsServers, NEW how \in {"ok", "name", "server"},
         onUdpRecv(q, s, how)
  PROVE  DnsInv'
<1>0. PICK S : S = dns
  OBVIOUS
<1>1. PICK y : y = dns'
  OBVIOUS
<1>2. DnsSane(S) /\ Awaited(S, {}) /\ q \in S.open /\ s \in S.sent[q]
  BY <1>0 DEF DnsInv, onUdpRecv
<1> SUFFICES DnsSane(y) /\ Awaited(y, {})
  BY <1>1 DEF DnsInv
<1>3. CASE how # "server"
  <2>1. y \in answered(S, q, how)
    BY <1>0, <1>1, <1>3 DEF onUdpRecv
  <2>2. how \in Verdicts /\ how # "alldnsfail"
    BY DEF Verdicts
  <2> QED
    BY <1>2, <2>1, <2>2, AnsweredSane
<1>4. CASE how = "server"
  <2>1. PICK T : T = Failing(S, q, s)
    OBVIOUS
  <2>2. /\ DnsSane(T) /\ Awaited(T, {}) /\ T.open = S.open
        /\ ~(T.fails[q] < Cardinality(T.servers)) /\ q \notin T.doubled \cup T.moved =>
             T.failed[q] = T.sent[q]
    BY <1>2, <2>1, FailedSane
  <2>3. \/ y = T
        \/ ~(T.fails[q] < Cardinality(T.servers)) /\ y \in answered(T, q, "alldnsfail")
    BY <1>0, <1>1, <1>4, <2>1 DEF onUdpRecv, Failing
  <2>4. CASE y = T
    BY <2>2, <2>4
  <2>5. CASE ~(T.fails[q] < Cardinality(T.servers)) /\ y \in answered(T, q, "alldnsfail")
    <3>1. "alldnsfail" \in Verdicts
      BY DEF Verdicts
    <3>2. q \in T.open /\ {} \subseteq {q}
      BY <1>2, <2>2
    <3>3. "alldnsfail" = "alldnsfail" /\ q \notin T.doubled \cup T.moved => T.failed[q] = T.sent[q]
      BY <2>2, <2>5
    <3> QED
      BY <2>2, <2>5, <3>1, <3>2, <3>3, AnsweredSane
  <2> QED
    BY <2>3, <2>4, <2>5
<1> QED
  BY <1>3, <1>4

\* The list of servers changes: the open questions were sent to others.
LEMMA ServersInv ==
  ASSUME DnsInv, NEW servers \in SUBSET DnsServers, setDnsIPAddresses(servers)
  PROVE  DnsInv'
<1>0. PICK S : S = dns
  OBVIOUS
<1>1. PICK y : y = dns'
  OBVIOUS
<1>2. DnsSane(S) /\ Awaited(S, {}) /\ S \in DnsType
  BY <1>0 DEF DnsInv, DnsSane
<1>3. PICK M \in SUBSET ReqIds : M = S.moved \cup S.open
  BY <1>2 DEF DnsType
<1>4. y = [S EXCEPT !.servers = servers, !.moved = M]
  BY <1>0, <1>1, <1>3 DEF setDnsIPAddresses
<1>5. y \in DnsType /\ y.alloc = S.alloc /\ y.open = S.open /\ y.ring = S.ring /\ y.sent = S.sent
      /\ y.due = S.due /\ y.fails = S.fails /\ y.failed = S.failed /\ y.doubled = S.doubled
      /\ y.moved = M /\ y.result = S.result
  BY <1>2, <1>4 DEF DnsType
<1>6. y.udp <=> S.udp
  BY <1>2, <1>4 DEF DnsType
<1>7. ASSUME NEW q \in ReqIds PROVE Question(y, q)
  <2>1. Question(S, q)
    BY <1>2 DEF DnsSane
  <2>2. Tallied(y, q)
    BY <1>3, <1>5, <2>1 DEF Question, Tallied
  <2>3. SettledOnce(y, q)
    BY <1>3, <1>5, <2>1 DEF Question, SettledOnce
  <2> QED
    BY <1>5, <2>1, <2>2, <2>3 DEF Question, Blank
<1>8. DnsSane(y) /\ Awaited(y, {})
  BY <1>2, <1>5, <1>6, <1>7 DEF DnsSane, Awaited
<1> QED
  BY <1>1, <1>8 DEF DnsInv

\* Every step of the user, the network and the monitor.
LEMMA DnsInvNext == DnsInv /\ [DnsNext]_dns => DnsInv'
<1> SUFFICES ASSUME DnsInv, [DnsNext]_dns PROVE DnsInv'
  OBVIOUS
<1>1. CASE dnsRequest
  <2>1. PICK S, y : S = dns /\ y = dns'
    OBVIOUS
  <2>2. DnsSane(S) /\ Awaited(S, {}) /\ CanAsk(S) /\ y = asked(S)
    BY <1>1, <2>1 DEF DnsInv, dnsRequest
  <2>3. DnsSane(y) /\ Awaited(y, {})
    BY <2>2, AskedSane
  <2> QED
    BY <2>1, <2>3 DEF DnsInv
<1>2. ASSUME NEW q \in ReqIds, dnsCancel(q) PROVE DnsInv'
  <2>1. PICK S, y : S = dns /\ y = dns'
    OBVIOUS
  <2>2. DnsSane(S) /\ Awaited(S, {}) /\ y = deleteRequest(S, q) /\ {} \subseteq {q}
    BY <1>2, <2>1 DEF DnsInv, dnsCancel
  <2>3. DnsSane(y) /\ Awaited(y, {})
    BY <2>2, DeletedSane
  <2> QED
    BY <2>1, <2>3 DEF DnsInv
<1>3. CASE UNCHANGED dns
  BY <1>3 DEF DnsInv
<1> QED
  BY <1>1, <1>2, <1>3, DnsTickInv, DnsTimeoutInv, UdpInv, ServersInv DEF DnsNext

\* Whatever datagrams are lost, repeated and late, whatever callbacks ask and cancel, and
\* however many questions, servers and slots there are: a question is settled at most once,
\* an open one can still be answered and will time out, and "all servers failed" is said
\* only when each server failed it, unless one repeated itself or the servers changed.
THEOREM DnsSettles == DnsSpec => []DnsSettledOnce
<1>1. DnsInv => DnsSettledOnce
  <2> SUFFICES ASSUME DnsInv PROVE DnsSettledOnce
    OBVIOUS
  <2>1. dns.udp <=> dns.open # {}
    BY DEF DnsInv, DnsSane
  <2>2. ASSUME NEW q \in ReqIds
        PROVE  /\ Len(dns.result[q]) <= (IF q \in dns.open THEN 0 ELSE 1)
               /\ dns.result[q] = <<"alldnsfail">> /\ q \notin dns.doubled \cup dns.moved =>
                    dns.failed[q] = dns.sent[q]
    <3>1. SettledOnce(dns, q)
      BY DEF DnsInv, DnsSane, Question
    <3>2. Len(<<>>) = 0
      OBVIOUS
    <3> QED
      BY <3>1, <3>2 DEF SettledOnce
  <2>3. ASSUME NEW q \in dns.open \ ToSet(dns.due)
        PROVE  dns.ring.timer /\ \E i \in DOMAIN dns.ring.slots : q \in ToSet(dns.ring.slots[i])
    <3>1. RingOK(dns.ring) /\ Held(dns.ring, q)
      BY DEF DnsInv, DnsSane, Awaited
    <3>2. dns.ring.timer
      BY <3>1, HeldTimed
    <3> QED
      BY <3>1, <3>2 DEF Held
  <2> QED
    BY <2>1, <2>2, <2>3 DEF DnsSettledOnce
<1> QED
  BY <1>1, DnsInvInit, DnsInvNext, PTL DEF DnsSpec


-----------------------------------------------------------------------------
(* Coroutines                                                               *)

RoutineStates == {"new", "suspend", "ready", "running", "dead"}
Calls == {"start", "body", "wait", "yield", "join", "lock", "acquire", "cond", "broadcast"}
Tokens == Routines \cup {Nobody}
CoType ==
  [prim : Prims, st : [Routines -> RoutineStates], started : SUBSET Routines,
   canceled : SUBSET Routines, join : [Routines -> Tokens], target : [Routines -> Tokens],
   at : [Routines -> Calls], curr : Tokens, ready : Seq(Routines), batch : Seq(Routines),
   pending : BOOLEAN, cleaning : BOOLEAN, tokens : Seq(Routines), hold : Tokens,
   count : Int, conds : SUBSET Conds, odd : SUBSET Routines, crashed : BOOLEAN]

\* A routine that has not ended, that nobody cancelled and that is not odd: the others may be
\* woken and switched to at any time.
Calm(S, r) == r \notin S.canceled \cup S.odd /\ S.st[r] # "dead"

\* Who is ready will run.
Queued(S) ==
  \A r \in Routines :
    S.st[r] = "ready" =>
      r \in ToSet(S.batch) \/ (r \in ToSet(S.ready) /\ S.pending) \/ S.cleaning

\* A routine that was not created yet.
Fresh(S) ==
  \A r \in Routines :
    S.st[r] = "new" => S.at[r] = "start" /\ S.join[r] = Nobody /\ r \notin S.canceled

\* The current routine lives, and runs unless it is cancelled.
Current(S) ==
  S.curr # Nobody =>
    /\ S.st[S.curr] \in {"running", "ready"}
    /\ Calm(S, S.curr) => S.st[S.curr] = "running"

\* While cleanup() runs everyone alive is cancelled, or was created meanwhile.
Swept(S) ==
  S.cleaning =>
    S.batch = <<>> /\ \A r \in Routines : Alive(S, r) => r \in S.canceled \cup S.odd

\* A calm routine is in a queue at most once.
Once(S, q) == \A i, j \in DOMAIN q : Calm(S, q[i]) /\ q[i] = q[j] => i = j

\* The calm routines in the queues of the scheduler are ready, and in one of them only.
Lines(S) ==
  /\ Once(S, S.batch) /\ Once(S, S.ready)
  /\ \A i \in DOMAIN S.batch : Calm(S, S.batch[i]) =>
       S.st[S.batch[i]] = "ready" /\ \A j \in DOMAIN S.ready : S.ready[j] # S.batch[i]
  /\ \A i \in DOMAIN S.ready : Calm(S, S.ready[i]) => S.st[S.ready[i]] = "ready"

\* The calm routines whose tokens the object keeps are suspended in one of its calls.
Waits(S) ==
  /\ Once(S, S.tokens)
  /\ \A i \in DOMAIN S.tokens : Calm(S, S.tokens[i]) =>
       S.st[S.tokens[i]] = "suspend" /\ S.at[S.tokens[i]] \in {"lock", "acquire", "broadcast"}

\* The calm routine whose token a condition keeps is suspended in it, and no routine is in
\* lock() of a condition.
Locked(S) ==
  S.prim \in {"all", "any"} =>
    /\ \A r \in Routines : S.at[r] # "lock"
    /\ S.hold # Nobody /\ Calm(S, S.hold) => S.st[S.hold] = "suspend" /\ S.at[S.hold] = "cond"

\* The join_token of a routine that lives is of one suspended in join() for it.
JoinKept(S) ==
  \A t \in Routines : Alive(S, t) /\ S.join[t] # Nobody /\ Calm(S, S.join[t]) =>
    /\ S.st[S.join[t]] = "suspend" /\ S.at[S.join[t]] = "join" /\ S.target[S.join[t]] = t

\* Who is in join() is suspended with its token in place, or the other one has ended.
Joining(S, R) ==
  \A r \in R : S.at[r] = "join" /\ Calm(S, r) =>
    /\ S.target[r] \in Routines
    /\ S.st[r] = "suspend" => Alive(S, S.target[r]) /\ S.join[S.target[r]] = r
    /\ S.st[r] # "suspend" => S.st[S.target[r]] = "dead"

\* All but what is said of join() itself.
Ordered(S) ==
  /\ S \in CoType /\ Queued(S) /\ Fresh(S) /\ Current(S) /\ Swept(S)
  /\ Lines(S) /\ Waits(S) /\ Locked(S) /\ JoinKept(S)

CoInv(S) == Ordered(S) /\ Joining(S, Routines)
CoSafe == CoInv(co)

-----------------------------------------------------------------------------
(* Queues of tokens                                                        *)

\* The empty queue.
LEMMA NoTokens == <<>> \in Seq(Routines)
OBVIOUS

\* A queue that grows.
LEMMA TokenAppended ==
  ASSUME NEW q \in Seq(Routines), NEW r \in Routines
  PROVE  /\ Append(q, r) \in Seq(Routines) /\ ToSet(Append(q, r)) = ToSet(q) \cup {r}
         /\ \A i \in DOMAIN Append(q, r) :
              \/ i \in DOMAIN q /\ i # Len(q) + 1 /\ Append(q, r)[i] = q[i]
              \/ i = Len(q) + 1 /\ Append(q, r)[i] = r
<1>1. Append(q, r) \in Seq(Routines) /\ Len(q) \in Nat /\ DOMAIN q = 1 .. Len(q)
      /\ DOMAIN Append(q, r) = 1 .. Len(q) + 1
  OBVIOUS
<1>2. ASSUME NEW i \in DOMAIN Append(q, r)
      PROVE \/ i \in DOMAIN q /\ i # Len(q) + 1 /\ Append(q, r)[i] = q[i]
            \/ i = Len(q) + 1 /\ Append(q, r)[i] = r
  BY <1>1
<1>3. ASSUME NEW i \in DOMAIN q
      PROVE i \in DOMAIN Append(q, r) /\ Append(q, r)[i] = q[i]
  BY <1>1
<1>4. Len(q) + 1 \in DOMAIN Append(q, r) /\ Append(q, r)[Len(q) + 1] = r
  BY <1>1
<1> QED
  BY <1>1, <1>2, <1>3, <1>4 DEF ToSet

\* A queue that loses its head.
LEMMA TokenTaken ==
  ASSUME NEW q \in Seq(Routines), q # <<>>
  PROVE  /\ Tail(q) \in Seq(Routines) /\ Head(q) \in Routines
         /\ ToSet(q) = ToSet(Tail(q)) \cup {Head(q)}
         /\ 1 \in DOMAIN q /\ q[1] = Head(q)
         /\ \A i \in DOMAIN Tail(q) : i \in Int /\ i + 1 \in DOMAIN q /\ i + 1 # 1 /\ Tail(q)[i] = q[i + 1]
<1>1. Tail(q) \in Seq(Routines) /\ Head(q) \in Routines /\ Len(q) \in Nat /\ Len(q) > 0
      /\ DOMAIN q = 1 .. Len(q) /\ DOMAIN Tail(q) = 1 .. Len(q) - 1 /\ q[1] = Head(q)
  OBVIOUS
<1>2. ASSUME NEW i \in DOMAIN Tail(q)
      PROVE i \in Int /\ i + 1 \in DOMAIN q /\ i + 1 # 1 /\ Tail(q)[i] = q[i + 1]
  BY <1>1
<1>3. ASSUME NEW i \in DOMAIN q, i # 1
      PROVE i - 1 \in DOMAIN Tail(q) /\ Tail(q)[i - 1] = q[i]
  BY <1>1, <1>3
<1>4. ToSet(q) = ToSet(Tail(q)) \cup {Head(q)}
  <2>1. ASSUME NEW x \in ToSet(q) PROVE x \in ToSet(Tail(q)) \cup {Head(q)}
    <3>1. PICK i \in DOMAIN q : x = q[i]
      BY DEF ToSet
    <3>2. CASE i = 1
      BY <1>1, <3>1, <3>2
    <3>3. CASE i # 1
      BY <1>3, <3>1, <3>3 DEF ToSet
    <3> QED
      BY <3>2, <3>3
  <2>2. ASSUME NEW x \in ToSet(Tail(q)) PROVE x \in ToSet(q)
    BY <1>2 DEF ToSet
  <2>3. Head(q) \in ToSet(q)
    <3>1. 1 \in DOMAIN q
      BY <1>1
    <3> QED
      BY <1>1, <3>1 DEF ToSet
  <2> QED
    BY <2>1, <2>2, <2>3
<1> QED
  BY <1>1, <1>2, <1>4

\* Two queues, one behind the other.
LEMMA TokensJoined ==
  ASSUME NEW a \in Seq(Routines), NEW w \in Seq(Routines)
  PROVE  /\ a \o w \in Seq(Routines) /\ Len(a) \in Nat
         /\ \A i \in DOMAIN (a \o w) :
              \/ i \in DOMAIN a /\ (a \o w)[i] = a[i]
              \/ /\ i - Len(a) \in 1 .. Len(w) /\ (a \o w)[i] = w[i - Len(a)] /\ i \in Int
                 /\ i > Len(a)
         /\ \A i \in DOMAIN a : i \in DOMAIN (a \o w) /\ (a \o w)[i] = a[i] /\ i \in Int /\ i <= Len(a)
         /\ \A i \in 1 .. Len(w) : i + Len(a) \in DOMAIN (a \o w) /\ (a \o w)[i + Len(a)] = w[i]
         /\ \A i \in DOMAIN (a \o w) : (a \o w)[i] \in Routines
<1>1. /\ a \o w \in Seq(Routines) /\ Len(a) \in Nat /\ Len(w) \in Nat
      /\ Len(a \o w) = Len(a) + Len(w) /\ DOMAIN a = 1 .. Len(a) /\ DOMAIN w = 1 .. Len(w)
      /\ DOMAIN (a \o w) = 1 .. Len(a) + Len(w)
  OBVIOUS
<1>2. \A i \in 1 .. Len(a) + Len(w) : (a \o w)[i] = IF i <= Len(a) THEN a[i] ELSE w[i - Len(a)]
  OBVIOUS
<1>3. \A i \in DOMAIN (a \o w) : (a \o w)[i] \in Routines
  BY <1>1
<1> QED
  BY <1>1, <1>2, <1>3

-----------------------------------------------------------------------------
(* The scheduler's own steps                                               *)

\* Nobody waits for r to sleep on: it may be made ready.
Wakeable(S, r) ==
  /\ S.st[r] # "new"
  /\ Calm(S, r) =>
       /\ r # S.curr /\ r \notin ToSet(S.tokens)
       /\ S.prim \in {"all", "any"} => S.hold # r
       /\ \A t \in Routines : Alive(S, t) => S.join[t] # r
       /\ S.at[r] = "join" => S.target[r] \in Routines /\ S.st[S.target[r]] = "dead"

\* makeRoutineReady().
LEMMA MadeReady ==
  ASSUME NEW S, NEW r \in Routines, Ordered(S), Joining(S, Routines \ {r}), Wakeable(S, r)
  PROVE  CoInv(makeRoutineReady(S, r))
<1>1. S \in CoType
  BY DEF Ordered
<1>2. CASE S.st[r] \in {"ready", "dead"}
  <2>1. makeRoutineReady(S, r) = S
    BY <1>2 DEF makeRoutineReady
  <2>2. Joining(S, Routines)
    BY <1>2 DEF Joining, Wakeable, Calm
  <2> QED
    BY <2>1, <2>2 DEF CoInv
<1>3. CASE S.st[r] \notin {"ready", "dead"}
  <2>1. PICK y : y = makeRoutineReady(S, r)
    OBVIOUS
  <2>2. y = [S EXCEPT !.st[r] = "ready", !.ready = Append(@, r), !.pending = TRUE]
    BY <1>3, <2>1 DEF makeRoutineReady
  <2>3. Append(S.ready, r) \in Seq(Routines) /\ S.ready \in Seq(Routines)
    BY <1>1, TokenAppended DEF CoType
  <2>4. /\ y \in CoType /\ y.prim = S.prim /\ y.st = [S.st EXCEPT ![r] = "ready"]
        /\ y.canceled = S.canceled /\ y.odd = S.odd /\ y.join = S.join /\ y.target = S.target
        /\ y.at = S.at
        /\ y.curr = S.curr /\ y.ready = Append(S.ready, r) /\ y.batch = S.batch
        /\ y.pending = TRUE /\ y.cleaning = S.cleaning /\ y.tokens = S.tokens /\ y.hold = S.hold
    BY <1>1, <2>2, <2>3 DEF CoType, RoutineStates
  <2>5. S.st \in [Routines -> RoutineStates] /\ S.curr \in Tokens /\ S.hold \in Tokens
        /\ S.join \in [Routines -> Tokens] /\ S.tokens \in Seq(Routines) /\ S.batch \in Seq(Routines)
    BY <1>1 DEF CoType
  <2>6. /\ y.st[r] = "ready"
        /\ \A q \in Routines : q # r => y.st[q] = S.st[q]
        /\ \A q \in Routines : Calm(y, q) <=> Calm(S, q)
        /\ \A q \in Routines : Alive(y, q) <=> Alive(S, q)
    BY <1>3, <2>4, <2>5 DEF Calm, Alive, Wakeable
  <2>7. Queued(y)
    BY <2>3, <2>4, <2>6, TokenAppended DEF Queued, Ordered
  <2>8. Fresh(y)
    BY <2>4, <2>6 DEF Fresh, Ordered
  <2>9. Current(y)
    <3> SUFFICES ASSUME y.curr # Nobody
                 PROVE  y.st[y.curr] \in {"running", "ready"} /\ (Calm(y, y.curr) => y.st[y.curr] = "running")
      BY DEF Current
    <3>1. S.curr \in Routines /\ S.st[S.curr] \in {"running", "ready"}
          /\ (Calm(S, S.curr) => S.st[S.curr] = "running" /\ S.curr # r)
      BY <2>4, <2>5 DEF Current, Ordered, Tokens, Wakeable
    <3> QED
      BY <3>1, <2>4, <2>6
  <2>10. Swept(y)
    BY <2>4, <2>6 DEF Swept, Ordered
  <2>11. Lines(y)
    <3>1. ASSUME Calm(S, r)
          PROVE (\A i \in DOMAIN S.ready : S.ready[i] # r) /\ \A i \in DOMAIN S.batch : S.batch[i] # r
      BY <1>3, <3>1 DEF Ordered, Lines
    <3>2. Once(y, y.batch)
      BY <2>4, <2>5, <2>6 DEF Once, Ordered, Lines
    <3>3. Once(y, y.ready)
      BY <2>3, <2>4, <2>6, <3>1, TokenAppended DEF Once, Ordered, Lines
    <3>4. ASSUME NEW i \in DOMAIN y.batch, Calm(y, y.batch[i])
          PROVE y.st[y.batch[i]] = "ready" /\ \A j \in DOMAIN y.ready : y.ready[j] # y.batch[i]
      <4>1. S.batch[i] \in Routines /\ Calm(S, S.batch[i]) /\ S.batch[i] # r
            /\ S.st[S.batch[i]] = "ready" /\ \A j \in DOMAIN S.ready : S.ready[j] # S.batch[i]
        BY <2>4, <2>5, <2>6, <3>1, <3>4 DEF Ordered, Lines
      <4> QED
        BY <4>1, <2>3, <2>4, <2>6, TokenAppended
    <3>5. ASSUME NEW i \in DOMAIN y.ready, Calm(y, y.ready[i])
          PROVE y.st[y.ready[i]] = "ready"
      <4>1. CASE y.ready[i] = r
        BY <2>6, <4>1
      <4>2. CASE y.ready[i] # r
        <5>1. i \in DOMAIN S.ready /\ y.ready[i] = S.ready[i]
          BY <2>3, <2>4, <4>2, TokenAppended
        <5>2. S.ready[i] \in Routines /\ Calm(S, S.ready[i])
          BY <2>3, <2>6, <3>5, <5>1
        <5> QED
          BY <2>6, <4>2, <5>1, <5>2 DEF Ordered, Lines
      <4> QED
        BY <4>1, <4>2
    <3> QED
      BY <3>2, <3>3, <3>4, <3>5 DEF Lines
  <2>12. Waits(y)
    <3>1. Once(y, y.tokens)
      BY <2>4, <2>5, <2>6 DEF Once, Ordered, Waits
    <3>2. ASSUME NEW i \in DOMAIN y.tokens, Calm(y, y.tokens[i])
          PROVE y.st[y.tokens[i]] = "suspend" /\ y.at[y.tokens[i]] \in {"lock", "acquire", "broadcast"}
      <4>1. S.tokens[i] \in Routines /\ Calm(S, S.tokens[i]) /\ S.tokens[i] \in ToSet(S.tokens)
        BY <2>4, <2>5, <2>6, <3>2 DEF ToSet
      <4>2. S.tokens[i] # r
        BY <4>1 DEF Wakeable
      <4> QED
        BY <4>1, <4>2, <2>4, <2>6 DEF Ordered, Waits
    <3> QED
      BY <3>1, <3>2 DEF Waits
  <2>13. Locked(y)
    BY <2>4, <2>5, <2>6 DEF Locked, Ordered, Tokens, Wakeable
  <2>14. JoinKept(y)
    BY <2>4, <2>5, <2>6 DEF JoinKept, Ordered, Tokens, Wakeable
  <2>15. Joining(y, Routines)
    BY <2>4, <2>5, <2>6 DEF Joining, Wakeable, Alive
  <2> QED
    BY <2>1, <2>4, <2>7, <2>8, <2>9, <2>10, <2>11, <2>12, <2>13, <2>14, <2>15 DEF CoInv, Ordered
<1> QED
  BY <1>2, <1>3

\* The fields the invariant speaks of, but for the object's.
SameScheduler(S, y) ==
  /\ y.prim = S.prim /\ y.canceled = S.canceled /\ y.ready = S.ready /\ y.batch = S.batch
  /\ y.pending = S.pending /\ y.cleaning = S.cleaning /\ y.odd = S.odd

\* A step that changes neither the routines nor the queues.
LEMMA Stays ==
  ASSUME NEW S, NEW y, CoInv(S), y \in CoType, SameScheduler(S, y),
         y.st = S.st, y.at = S.at, y.join = S.join, y.target = S.target, y.curr = S.curr,
         y.tokens = S.tokens,
         y.hold = S.hold \/ y.hold = Nobody \/ S.prim \notin {"all", "any"}
  PROVE  CoInv(y)
<1>1. /\ \A q : Calm(y, q) <=> Calm(S, q)
      /\ \A q : Alive(y, q) <=> Alive(S, q)
  BY DEF Calm, Alive, SameScheduler
<1>2. Queued(y) /\ Fresh(y) /\ Current(y) /\ Swept(y)
  BY <1>1 DEF CoInv, Ordered, Queued, Fresh, Current, Swept, SameScheduler
<1>3. Lines(y) /\ Waits(y)
  BY <1>1 DEF CoInv, Ordered, Lines, Waits, Once, SameScheduler
<1>4. Locked(y)
  BY <1>1 DEF CoInv, Ordered, Locked, SameScheduler
<1>5. JoinKept(y) /\ Joining(y, Routines)
  BY <1>1 DEF CoInv, Ordered, JoinKept, Joining
<1> QED
  BY <1>2, <1>3, <1>4, <1>5 DEF CoInv, Ordered

\* The current routine goes from one call to another, or leaves the thread.  Its token is queued, or it holds
\* the condition, without sleeping only if it is cancelled.
LEMMA Moves ==
  ASSUME NEW S, NEW y, NEW r \in Routines, NEW a \in Calls, CoInv(S), y \in CoType,
         SameScheduler(S, y), S.curr = r, y.curr = r \/ y.curr = Nobody, a # "join",
         S.prim \in {"all", "any"} => a # "lock",
         y.st = S.st, y.join = S.join, y.target = S.target, y.at = [S.at EXCEPT ![r] = a],
         y.tokens = S.tokens \/ (y.tokens = Append(S.tokens, r) /\ r \in S.canceled),
         y.hold = S.hold \/ S.prim \notin {"all", "any"} \/ (y.hold = r /\ r \in S.canceled)
  PROVE  CoInv(y)
<1>0. S \in CoType
  BY DEF CoInv, Ordered
<1>1. S.at \in [Routines -> Calls] /\ S.tokens \in Seq(Routines) /\ S.join \in [Routines -> Tokens]
      /\ S.hold \in Tokens
  BY <1>0 DEF CoType
<1>2. /\ \A q : Calm(y, q) <=> Calm(S, q)
      /\ \A q : Alive(y, q) <=> Alive(S, q)
      /\ \A q \in Routines : q # r => y.at[q] = S.at[q]
      /\ y.at[r] = a
  BY <1>1 DEF Calm, Alive, SameScheduler
<1>3. r # Nobody
  BY RoutinesAssumption
<1>4. S.st[r] \in {"running", "ready"} /\ (Calm(S, r) => S.st[r] = "running")
  BY <1>3 DEF CoInv, Ordered, Current
<1>5. Queued(y) /\ Current(y) /\ Swept(y)
  BY <1>2 DEF CoInv, Ordered, Queued, Current, Swept, SameScheduler
<1>6. Fresh(y)
  BY <1>2, <1>4 DEF CoInv, Ordered, Fresh, SameScheduler
<1>7. Lines(y)
  BY <1>2 DEF CoInv, Ordered, Lines, Once, SameScheduler
<1>8. Waits(y)
  <2>1. CASE y.tokens = S.tokens
    <3>1. ASSUME NEW i \in DOMAIN S.tokens, Calm(S, S.tokens[i])
          PROVE S.tokens[i] \in Routines /\ S.tokens[i] # r
      BY <1>1, <1>4, <3>1 DEF CoInv, Ordered, Waits
    <3> QED
      BY <1>2, <2>1, <3>1 DEF CoInv, Ordered, Waits, Once
  <2>2. CASE y.tokens = Append(S.tokens, r) /\ r \in S.canceled
    <3>1. ~Calm(S, r)
      BY <2>2 DEF Calm
    <3>2. ASSUME NEW i \in DOMAIN y.tokens, Calm(y, y.tokens[i])
          PROVE i \in DOMAIN S.tokens /\ y.tokens[i] = S.tokens[i] /\ Calm(S, S.tokens[i])
                /\ S.tokens[i] \in Routines /\ S.tokens[i] # r
      BY <1>1, <1>2, <2>2, <3>1, <3>2, TokenAppended
    <3>3. Once(y, y.tokens)
      BY <1>2, <3>2 DEF CoInv, Ordered, Waits, Once
    <3> QED
      BY <1>2, <3>2, <3>3 DEF CoInv, Ordered, Waits
  <2> QED
    BY <2>1, <2>2
<1>9. Locked(y)
  BY <1>1, <1>2, <1>4 DEF CoInv, Ordered, Locked, Tokens, SameScheduler, Calm
<1>10. JoinKept(y)
  BY <1>1, <1>2, <1>4 DEF CoInv, Ordered, JoinKept, Tokens
<1>11. Joining(y, Routines)
  BY <1>1, <1>2, <1>4 DEF CoInv, Joining
<1> QED
  BY <1>5, <1>6, <1>7, <1>8, <1>9, <1>10, <1>11 DEF CoInv, Ordered

\* The current routine, not cancelled, suspends itself in call a: in one of the object's
\* calls, in a condition that keeps its token, or in join().
LEMMA Sleeps ==
  ASSUME NEW S, NEW y, NEW r \in Routines, NEW a \in Calls, CoInv(S), y \in CoType,
         SameScheduler(S, y), S.curr = r, y.curr = Nobody, r \notin S.canceled,
         S.prim \in {"all", "any"} => a # "lock",
         y.st = [S.st EXCEPT ![r] = "suspend"], y.at = [S.at EXCEPT ![r] = a],
         y.tokens = S.tokens
           \/ (y.tokens = Append(S.tokens, r) /\ a \in {"lock", "acquire", "broadcast"}),
         y.hold = S.hold \/ (y.hold = r /\ a = "cond"),
         \/ a # "join" /\ y.join = S.join /\ y.target = S.target
         \/ a = "join" /\ \E t \in Routines :
              /\ t # r /\ Alive(S, t) /\ S.join[t] = Nobody
              /\ y.join = [S.join EXCEPT ![t] = r] /\ y.target = [S.target EXCEPT ![r] = t]
  PROVE  CoInv(y)
<1>0. S \in CoType
  BY DEF CoInv, Ordered
<1>1. S.at \in [Routines -> Calls] /\ S.tokens \in Seq(Routines) /\ S.join \in [Routines -> Tokens]
      /\ S.hold \in Tokens /\ S.target \in [Routines -> Tokens] /\ S.st \in [Routines -> RoutineStates]
      /\ S.batch \in Seq(Routines) /\ S.ready \in Seq(Routines)
  BY <1>0 DEF CoType
<1>2. r # Nobody
  BY RoutinesAssumption
<1>3. S.st[r] \in {"running", "ready"} /\ (Calm(S, r) => S.st[r] = "running")
  BY <1>2 DEF CoInv, Ordered, Current
<1>4. /\ \A q \in Routines : Calm(y, q) <=> Calm(S, q)
      /\ \A q \in Routines : Alive(y, q) <=> Alive(S, q)
      /\ \A q \in Routines : q # r => y.at[q] = S.at[q] /\ y.st[q] = S.st[q]
      /\ y.at[r] = a /\ y.st[r] = "suspend"
  BY <1>1, <1>3 DEF Calm, Alive, SameScheduler
<1>5. Queued(y)
  BY <1>4 DEF CoInv, Ordered, Queued, SameScheduler
<1>6. Current(y) /\ Fresh(y)
  <2>1. Current(y)
    BY DEF Current
  <2>2. ASSUME NEW q \in Routines, y.st[q] = "new"
        PROVE  y.at[q] = "start" /\ y.join[q] = Nobody /\ q \notin y.canceled
    <3>1. q # r /\ S.st[q] = "new" /\ ~Alive(S, q)
      BY <1>4, <2>2 DEF Alive
    <3>2. y.join[q] = S.join[q]
      BY <1>1, <3>1
    <3> QED
      BY <1>4, <3>1, <3>2 DEF CoInv, Ordered, Fresh, SameScheduler
  <2> QED
    BY <2>1, <2>2 DEF Fresh
<1>7. Swept(y)
  BY <1>4 DEF CoInv, Ordered, Swept, SameScheduler
<1>8. Lines(y)
  <2>1. ASSUME NEW i \in DOMAIN S.batch, Calm(S, S.batch[i])
        PROVE S.batch[i] \in Routines /\ S.batch[i] # r
    BY <1>1, <1>3, <2>1 DEF CoInv, Ordered, Lines
  <2>2. ASSUME NEW i \in DOMAIN S.ready, Calm(S, S.ready[i])
        PROVE S.ready[i] \in Routines /\ S.ready[i] # r
    BY <1>1, <1>3, <2>2 DEF CoInv, Ordered, Lines
  <2>3. /\ \A i \in DOMAIN S.batch : Calm(y, S.batch[i]) <=> Calm(S, S.batch[i])
        /\ \A i \in DOMAIN S.ready : Calm(y, S.ready[i]) <=> Calm(S, S.ready[i])
    BY <1>1, <1>4
  <2> QED
    BY <1>4, <2>1, <2>2, <2>3 DEF CoInv, Ordered, Lines, Once, SameScheduler
<1>9. Waits(y)
  <2>1. ASSUME NEW i \in DOMAIN S.tokens, Calm(S, S.tokens[i])
        PROVE S.tokens[i] \in Routines /\ S.tokens[i] # r
    BY <1>1, <1>3, <2>1 DEF CoInv, Ordered, Waits
  <2>2. CASE y.tokens = S.tokens
    <3>1. \A i \in DOMAIN S.tokens : Calm(y, S.tokens[i]) <=> Calm(S, S.tokens[i])
      BY <1>1, <1>4
    <3> QED
      BY <1>4, <2>1, <2>2, <3>1 DEF CoInv, Ordered, Waits, Once
  <2>3. CASE y.tokens = Append(S.tokens, r) /\ a \in {"lock", "acquire", "broadcast"}
    <3>1. ASSUME NEW i \in DOMAIN y.tokens, Calm(y, y.tokens[i])
          PROVE \/ i = Len(S.tokens) + 1 /\ y.tokens[i] = r
                \/ /\ i \in DOMAIN S.tokens /\ i # Len(S.tokens) + 1 /\ y.tokens[i] = S.tokens[i]
                   /\ Calm(S, S.tokens[i]) /\ S.tokens[i] \in Routines /\ S.tokens[i] # r
      BY <1>1, <1>4, <2>1, <2>3, <3>1, TokenAppended
    <3>2. Once(y, y.tokens)
      BY <3>1 DEF CoInv, Ordered, Waits, Once
    <3> QED
      BY <1>4, <2>3, <3>1, <3>2 DEF CoInv, Ordered, Waits
  <2> QED
    BY <2>2, <2>3
<1>10. Locked(y)
  BY <1>1, <1>3, <1>4 DEF CoInv, Ordered, Locked, Tokens, SameScheduler
<1>11. ASSUME NEW t \in Routines, Alive(S, t), S.join[t] # Nobody, Calm(S, S.join[t])
       PROVE S.join[t] \in Routines /\ S.join[t] # r
  BY <1>1, <1>3, <1>11 DEF CoInv, Ordered, JoinKept, Tokens
<1>12. CASE a # "join" /\ y.join = S.join /\ y.target = S.target
  <2>1. JoinKept(y)
    <3>1. \A t \in Routines : S.join[t] # Nobody => (Calm(y, S.join[t]) <=> Calm(S, S.join[t]))
      BY <1>1, <1>4 DEF Tokens
    <3> QED
      BY <1>4, <1>11, <1>12, <3>1 DEF CoInv, Ordered, JoinKept
  <2>2. Joining(y, Routines)
    BY <1>4, <1>12, <1>3 DEF CoInv, Joining
  <2> QED
    BY <2>1, <2>2, <1>5, <1>6, <1>7, <1>8, <1>9, <1>10 DEF CoInv, Ordered
<1>13. CASE a = "join" /\ \E t \in Routines :
              /\ t # r /\ Alive(S, t) /\ S.join[t] = Nobody
              /\ y.join = [S.join EXCEPT ![t] = r] /\ y.target = [S.target EXCEPT ![r] = t]
  <2>1. PICK t \in Routines :
              /\ t # r /\ Alive(S, t) /\ S.join[t] = Nobody
              /\ y.join = [S.join EXCEPT ![t] = r] /\ y.target = [S.target EXCEPT ![r] = t]
    BY <1>13
  <2>2. /\ y.join[t] = r /\ y.target[r] = t
        /\ \A q \in Routines : q # t => y.join[q] = S.join[q]
        /\ \A q \in Routines : q # r => y.target[q] = S.target[q]
    BY <1>1, <2>1
  <2>3. JoinKept(y)
    <3> SUFFICES ASSUME NEW u \in Routines, Alive(y, u), y.join[u] # Nobody, Calm(y, y.join[u])
                 PROVE /\ y.st[y.join[u]] = "suspend" /\ y.at[y.join[u]] = "join"
                       /\ y.target[y.join[u]] = u
      BY DEF JoinKept
    <3>1. CASE u = t
      BY <1>4, <1>13, <2>2, <3>1
    <3>2. CASE u # t
      <4>1. y.join[u] = S.join[u] /\ S.join[u] \in Routines
        BY <1>1, <2>2, <3>2 DEF Tokens
      <4>2. Alive(S, u) /\ Calm(S, S.join[u]) /\ S.join[u] # r
        BY <1>4, <1>11, <4>1
      <4>3. S.st[S.join[u]] = "suspend" /\ S.at[S.join[u]] = "join" /\ S.target[S.join[u]] = u
        BY <4>1, <4>2 DEF CoInv, Ordered, JoinKept
      <4> QED
        BY <1>4, <2>2, <4>1, <4>2, <4>3
    <3> QED
      BY <3>1, <3>2
  <2>4. Joining(y, Routines)
    <3> SUFFICES ASSUME NEW q \in Routines, y.at[q] = "join", Calm(y, q)
                 PROVE /\ y.target[q] \in Routines
                       /\ y.st[q] = "suspend" => Alive(y, y.target[q]) /\ y.join[y.target[q]] = q
                       /\ y.st[q] # "suspend" => y.st[y.target[q]] = "dead"
      BY DEF Joining
    <3>1. CASE q = r
      BY <1>4, <2>1, <2>2, <3>1
    <3>2. CASE q # r
      <4>1. /\ S.target[q] \in Routines /\ y.target[q] = S.target[q] /\ y.st[q] = S.st[q]
            /\ S.st[q] = "suspend" => Alive(S, S.target[q]) /\ S.join[S.target[q]] = q
            /\ S.st[q] # "suspend" => S.st[S.target[q]] = "dead"
        BY <1>4, <2>2, <3>2 DEF CoInv, Joining
      <4>2. q # Nobody
        BY RoutinesAssumption
      <4>3. S.st[q] = "suspend" => S.target[q] # t
        BY <2>1, <4>1, <4>2
      <4> QED
        BY <1>3, <1>4, <2>2, <4>1, <4>3
    <3> QED
      BY <3>1, <3>2
  <2> QED
    BY <2>3, <2>4, <1>5, <1>6, <1>7, <1>8, <1>9, <1>10 DEF CoInv, Ordered
<1> QED
  BY <1>12, <1>13

\* A scheduler as it is made.
LEMMA NewSchedulers ==
  ASSUME NEW p \in Prims
  PROVE  NewScheduler(p) \in CoType
<1>1. /\ [r \in Routines |-> "new"] \in [Routines -> RoutineStates]
      /\ [r \in Routines |-> Nobody] \in [Routines -> Tokens]
      /\ [r \in Routines |-> "start"] \in [Routines -> Calls]
      /\ Nobody \in Tokens /\ {} \in SUBSET Routines /\ {} \in SUBSET Conds /\ 0 \in Int
      /\ FALSE \in BOOLEAN
  BY DEF RoutineStates, Calls, Tokens
<1> QED
  BY <1>1, NoTokens DEF NewScheduler, CoType

\* A scheduler without routines, whose queues keep tokens of odd ones only.
LEMMA Anew ==
  ASSUME NEW y \in CoType, y.st = [r \in Routines |-> "new"],
         y.at = [r \in Routines |-> "start"], y.join = [r \in Routines |-> Nobody],
         y.canceled = {}, y.curr = Nobody, y.batch = <<>>, y.cleaning = FALSE,
         \A r \in Routines : Calm(y, r) =>
           r \notin ToSet(y.ready) \cup ToSet(y.tokens) \cup {y.hold}
  PROVE  CoInv(y)
<1>1. Queued(y) /\ Fresh(y) /\ Current(y) /\ Swept(y)
  BY DEF Queued, Fresh, Current, Swept
<1>2. /\ \A i \in DOMAIN y.ready : y.ready[i] \in Routines /\ ~Calm(y, y.ready[i])
      /\ \A i \in DOMAIN y.tokens : y.tokens[i] \in Routines /\ ~Calm(y, y.tokens[i])
  BY DEF CoType, ToSet
<1>3. y.hold # Nobody => ~Calm(y, y.hold)
  BY DEF CoType, Tokens
<1>4. Lines(y) /\ Waits(y) /\ Locked(y)
  BY <1>2, <1>3 DEF Lines, Waits, Once, Locked
<1>5. JoinKept(y) /\ Joining(y, Routines)
  BY DEF JoinKept, Joining
<1> QED
  BY <1>1, <1>4, <1>5 DEF CoInv, Ordered

\* switchToRoutine(), from schedule() or from cleanup().
LEMMA Switches ==
  ASSUME NEW S, NEW y, NEW r \in Routines, CoInv(S), y \in CoType, S.curr = Nobody, Alive(S, r),
         y.prim = S.prim, y.canceled = S.canceled, y.odd = S.odd, y.ready = S.ready, y.pending = S.pending,
         y.cleaning = S.cleaning, y.join = S.join, y.target = S.target, y.tokens = S.tokens,
         y.hold = S.hold, y.curr = r, y.st = [S.st EXCEPT ![r] = "running"],
         y.at = [S.at EXCEPT ![r] = IF @ = "start" THEN "body" ELSE @],
         \/ S.batch # <<>> /\ r = Head(S.batch) /\ y.batch = Tail(S.batch)
         \/ S.cleaning /\ y.batch = S.batch
  PROVE  CoInv(y)
<1>0. S \in CoType
  BY DEF CoInv, Ordered
<1>1. S.at \in [Routines -> Calls] /\ S.tokens \in Seq(Routines) /\ S.join \in [Routines -> Tokens]
      /\ S.hold \in Tokens /\ S.target \in [Routines -> Tokens] /\ S.st \in [Routines -> RoutineStates]
      /\ S.batch \in Seq(Routines) /\ S.ready \in Seq(Routines) /\ y.batch \in Seq(Routines)
  BY <1>0 DEF CoType
<1>2. /\ \A q \in Routines : Calm(y, q) <=> Calm(S, q)
      /\ \A q \in Routines : Alive(y, q) <=> Alive(S, q)
      /\ \A q \in Routines : q # r => y.at[q] = S.at[q] /\ y.st[q] = S.st[q]
      /\ y.st[r] = "running"
      /\ y.at[r] = S.at[r] \/ (S.at[r] = "start" /\ y.at[r] = "body")
  BY <1>1 DEF Calm, Alive
<1>3. /\ Calm(S, r) => S.st[r] = "ready" /\ r \notin ToSet(S.ready) /\ r \notin ToSet(y.batch)
      /\ \A i \in DOMAIN y.batch : \E j \in DOMAIN S.batch : y.batch[i] = S.batch[j]
      /\ Once(y, y.batch)
      /\ ToSet(S.batch) \subseteq ToSet(y.batch) \cup {r}
  <2>1. CASE S.batch # <<>> /\ r = Head(S.batch) /\ y.batch = Tail(S.batch)
    <3>1. /\ ToSet(S.batch) = ToSet(y.batch) \cup {r} /\ 1 \in DOMAIN S.batch /\ S.batch[1] = r
          /\ \A i \in DOMAIN y.batch : i \in Int /\ i + 1 \in DOMAIN S.batch /\ i + 1 # 1
                                       /\ y.batch[i] = S.batch[i + 1]
      BY <1>1, <2>1, TokenTaken
    <3>2. ASSUME Calm(S, r)
          PROVE S.st[r] = "ready" /\ r \notin ToSet(S.ready) /\ r \notin ToSet(y.batch)
      <4>1. S.st[r] = "ready" /\ r \notin ToSet(S.ready)
        BY <3>1, <3>2 DEF CoInv, Ordered, Lines, ToSet
      <4>2. \A i \in DOMAIN y.batch : y.batch[i] # r
        BY <3>1, <3>2 DEF CoInv, Ordered, Lines, Once
      <4> QED
        BY <4>1, <4>2 DEF ToSet
    <3>3. ASSUME NEW i \in DOMAIN y.batch, NEW j \in DOMAIN y.batch, Calm(y, y.batch[i]),
                 y.batch[i] = y.batch[j]
          PROVE i = j
      <4>1. S.batch[i + 1] = S.batch[j + 1] /\ Calm(S, S.batch[i + 1])
        BY <1>1, <1>2, <3>1, <3>3
      <4>2. i + 1 = j + 1
        BY <3>1, <4>1 DEF CoInv, Ordered, Lines, Once
      <4> QED
        BY <3>1, <4>2
    <3> QED
      BY <3>1, <3>2, <3>3 DEF Once
  <2>2. CASE S.cleaning /\ y.batch = S.batch
    BY <1>0, <2>2 DEF CoInv, Ordered, Swept, Calm, Once, ToSet
  <2> QED
    BY <2>1, <2>2
<1>4. Queued(y)
  BY <1>2, <1>3 DEF CoInv, Ordered, Queued
<1>5. Fresh(y)
  BY <1>2 DEF CoInv, Ordered, Fresh
<1>6. Current(y)
  BY <1>2 DEF Current
<1>7. Swept(y)
  <2>1. ASSUME S.cleaning PROVE y.batch = <<>>
    BY <2>1 DEF CoInv, Ordered, Swept
  <2> QED
    BY <1>2, <2>1 DEF CoInv, Ordered, Swept
<1>8. Lines(y)
  <2>1. ASSUME NEW i \in DOMAIN S.ready, Calm(y, S.ready[i])
        PROVE S.ready[i] \in Routines /\ S.ready[i] # r /\ Calm(S, S.ready[i])
    BY <1>1, <1>2, <1>3, <2>1 DEF ToSet
  <2>2. Once(y, y.ready)
    BY <2>1 DEF CoInv, Ordered, Lines, Once
  <2>3. ASSUME NEW i \in DOMAIN y.batch, Calm(y, y.batch[i])
        PROVE y.st[y.batch[i]] = "ready" /\ \A j \in DOMAIN y.ready : y.ready[j] # y.batch[i]
    <3>1. y.batch[i] \in Routines /\ y.batch[i] # r /\ Calm(S, y.batch[i])
      BY <1>1, <1>2, <1>3, <2>3 DEF ToSet
    <3>2. PICK j \in DOMAIN S.batch : y.batch[i] = S.batch[j]
      BY <1>3
    <3> QED
      BY <1>2, <3>1, <3>2 DEF CoInv, Ordered, Lines
  <2> QED
    BY <1>2, <1>3, <2>1, <2>2, <2>3 DEF CoInv, Ordered, Lines
<1>9. Waits(y)
  <2>1. ASSUME NEW i \in DOMAIN S.tokens, Calm(y, S.tokens[i])
        PROVE S.tokens[i] \in Routines /\ S.tokens[i] # r /\ Calm(S, S.tokens[i])
    <3>1. S.tokens[i] \in Routines /\ Calm(S, S.tokens[i])
      BY <1>1, <1>2, <2>1
    <3> QED
      BY <1>3, <3>1 DEF CoInv, Ordered, Waits
  <2> QED
    BY <1>2, <2>1 DEF CoInv, Ordered, Waits, Once
<1>10. Locked(y)
  BY <1>1, <1>2, <1>3 DEF CoInv, Ordered, Locked, Tokens
<1>11. JoinKept(y)
  BY <1>1, <1>2, <1>3 DEF CoInv, Ordered, JoinKept, Tokens
<1>12. Joining(y, Routines)
  BY <1>2, <1>3 DEF CoInv, Joining, Alive
<1> QED
  BY <1>4, <1>5, <1>6, <1>7, <1>8, <1>9, <1>10, <1>11, <1>12 DEF CoInv, Ordered

\* schedule() takes the whole queue as its batch.
LEMMA Schedules ==
  ASSUME CoInv(co), schedule
  PROVE  CoInv(co')
<1> DEFINE S == co
           y == co'
<1>0. S \in CoType /\ y = [S EXCEPT !.batch = S.ready, !.ready = <<>>, !.pending = FALSE]
      /\ S.curr = Nobody /\ S.batch = <<>> /\ ~S.cleaning
  BY DEF CoInv, Ordered, schedule, Idle
<1>1. /\ y \in CoType /\ y.prim = S.prim /\ y.canceled = S.canceled /\ y.batch = S.ready
      /\ y.odd = S.odd
      /\ y.ready = <<>> /\ y.cleaning = S.cleaning /\ y.st = S.st
      /\ y.at = S.at /\ y.join = S.join /\ y.target = S.target /\ y.curr = S.curr
      /\ y.tokens = S.tokens /\ y.hold = S.hold
  BY <1>0 DEF CoType
<1> HIDE DEF S, y
<1>2. /\ \A q : Calm(y, q) <=> Calm(S, q)
      /\ \A q : Alive(y, q) <=> Alive(S, q)
  BY <1>1 DEF Calm, Alive
<1>3. CoInv(S)
  BY DEF S
<1>4. ToSet(S.batch) = {}
  BY <1>0 DEF ToSet
<1>5. Queued(y) /\ Fresh(y) /\ Current(y) /\ Swept(y)
  BY <1>0, <1>1, <1>2, <1>3, <1>4 DEF CoInv, Ordered, Queued, Fresh, Current, Swept
<1>6. Lines(y) /\ Waits(y)
  BY <1>1, <1>2, <1>3 DEF CoInv, Ordered, Lines, Waits, Once
<1>7. Locked(y) /\ JoinKept(y) /\ Joining(y, Routines)
  BY <1>1, <1>2, <1>3 DEF CoInv, Ordered, Locked, JoinKept, Joining
<1>8. CoInv(y)
  BY <1>1, <1>5, <1>6, <1>7 DEF CoInv, Ordered
<1> QED
  BY <1>8 DEF y

\* One step of the batch: a routine that is gone is passed over.
LEMMA Dispatches ==
  ASSUME CoInv(co), dispatch
  PROVE  CoInv(co')
<1> DEFINE r == Head(co.batch)
           z == [co EXCEPT !.batch = Tail(@)]
<1>0. co \in CoType /\ co.curr = Nobody /\ co.batch # <<>>
      /\ co' = IF Alive(co, r) THEN switchTo(z, r) ELSE z
  BY DEF CoInv, Ordered, dispatch
<1>1. co.batch \in Seq(Routines) /\ co.st \in [Routines -> RoutineStates]
      /\ co.at \in [Routines -> Calls] /\ co.started \in SUBSET Routines
  BY <1>0 DEF CoType
<1>2. /\ Tail(co.batch) \in Seq(Routines) /\ r \in Routines
      /\ ToSet(co.batch) = ToSet(Tail(co.batch)) \cup {r}
      /\ \A i \in DOMAIN Tail(co.batch) : i \in Int /\ i + 1 \in DOMAIN co.batch
                                          /\ Tail(co.batch)[i] = co.batch[i + 1]
  BY <1>0, <1>1, TokenTaken
<1>3. /\ z \in CoType /\ z.batch = Tail(co.batch)
      /\ z.odd = co.odd /\ z.prim = co.prim /\ z.canceled = co.canceled /\ z.ready = co.ready /\ z.pending = co.pending
      /\ z.cleaning = co.cleaning /\ z.join = co.join /\ z.target = co.target /\ z.tokens = co.tokens
      /\ z.hold = co.hold /\ z.curr = co.curr /\ z.st = co.st /\ z.at = co.at /\ z.started = co.started
  BY <1>0, <1>2 DEF CoType
<1>4. CASE Alive(co, r)
  <2>1. PICK y : y = switchTo(z, r)
    OBVIOUS
  <2>2. PICK b \in Calls : b = IF z.at[r] = "start" THEN "body" ELSE z.at[r]
    BY <1>1, <1>2, <1>3 DEF Calls
  <2>3. y = [z EXCEPT !.curr = r, !.st[r] = "running", !.started = @ \cup {r}, !.at[r] = b]
    BY <2>1, <2>2 DEF switchTo
  <2>a. PICK st \in [Routines -> RoutineStates] : st = [z.st EXCEPT ![r] = "running"]
    BY <1>1, <1>2, <1>3 DEF RoutineStates
  <2>b. PICK at \in [Routines -> Calls] : at = [z.at EXCEPT ![r] = b]
    BY <1>1, <1>2, <1>3, <2>2
  <2>c. PICK started \in SUBSET Routines : started = z.started \cup {r}
    BY <1>1, <1>2, <1>3 DEF CoType
  <2>d. y = [z EXCEPT !.curr = r, !.st = st, !.started = started, !.at = at]
    BY <1>2, <1>3, <2>3, <2>a, <2>b, <2>c DEF CoType
  <2>4. /\ y \in CoType /\ y.batch = z.batch
        /\ y.odd = z.odd /\ y.prim = z.prim /\ y.canceled = z.canceled /\ y.ready = z.ready /\ y.pending = z.pending
        /\ y.cleaning = z.cleaning /\ y.join = z.join /\ y.target = z.target /\ y.tokens = z.tokens
        /\ y.hold = z.hold /\ y.curr = r /\ y.st = [z.st EXCEPT ![r] = "running"]
        /\ y.at = [z.at EXCEPT ![r] = b]
    BY <1>2, <1>3, <2>a, <2>b, <2>d DEF CoType, Tokens
  <2>5. y.at = [co.at EXCEPT ![r] = IF @ = "start" THEN "body" ELSE @]
    BY <1>3, <2>2, <2>4
  <2>6. CoInv(y)
    <3> HIDE DEF r, z
    <3>1. r = Head(co.batch)
      BY DEF r
    <3> QED
      BY <1>0, <1>2, <1>3, <1>4, <2>4, <2>5, <3>1, Switches
  <2> QED
    BY <1>0, <1>4, <2>1, <2>6
<1>5. CASE ~Alive(co, r)
  <2> HIDE DEF r, z
  <2>1. /\ \A q : Calm(z, q) <=> Calm(co, q)
        /\ \A q : Alive(z, q) <=> Alive(co, q)
    BY <1>3 DEF Calm, Alive
  <2>2. Queued(z)
    BY <1>2, <1>3, <1>5 DEF CoInv, Ordered, Queued, Alive
  <2>3. Fresh(z) /\ Current(z)
    BY <1>3, <2>1 DEF CoInv, Ordered, Fresh, Current
  <2>4. Swept(z)
    BY <1>0, <1>3, <2>1 DEF CoInv, Ordered, Swept
  <2>5. Lines(z)
    <3>1. Once(z, z.batch)
      <4> SUFFICES ASSUME NEW i \in DOMAIN z.batch, NEW j \in DOMAIN z.batch, Calm(z, z.batch[i]),
                          z.batch[i] = z.batch[j]
                   PROVE i = j
        BY DEF Once
      <4>1. co.batch[i + 1] = co.batch[j + 1] /\ Calm(co, co.batch[i + 1])
        BY <1>2, <1>3, <2>1
      <4>2. i + 1 = j + 1
        BY <1>2, <1>3, <4>1 DEF CoInv, Ordered, Lines, Once
      <4> QED
        BY <1>2, <1>3, <4>2
    <3>2. Once(z, z.ready)
      BY <1>3, <2>1 DEF CoInv, Ordered, Lines, Once
    <3>3. ASSUME NEW i \in DOMAIN z.batch, Calm(z, z.batch[i])
          PROVE z.st[z.batch[i]] = "ready" /\ \A j \in DOMAIN z.ready : z.ready[j] # z.batch[i]
      <4>1. i + 1 \in DOMAIN co.batch /\ z.batch[i] = co.batch[i + 1]
        BY <1>2, <1>3
      <4> QED
        BY <1>3, <2>1, <3>3, <4>1 DEF CoInv, Ordered, Lines
    <3> QED
      BY <1>3, <2>1, <3>1, <3>2, <3>3 DEF CoInv, Ordered, Lines
  <2>6. Waits(z) /\ Locked(z)
    BY <1>3, <2>1 DEF CoInv, Ordered, Waits, Once, Locked
  <2>7. JoinKept(z) /\ Joining(z, Routines)
    BY <1>3, <2>1 DEF CoInv, Ordered, JoinKept, Joining
  <2> QED
    BY <1>0, <1>3, <1>5, <2>2, <2>3, <2>4, <2>5, <2>6, <2>7 DEF CoInv, Ordered
<1> QED
  BY <1>4, <1>5

\* cleanup() cancels everyone that has started and deletes the others.
LEMMA CleansUp ==
  ASSUME CoInv(co), cleanup
  PROVE  CoInv(co')
<1> DEFINE y == co'
<1>0. co \in CoType /\ co.curr = Nobody /\ co.batch = <<>>
  BY DEF CoInv, Ordered, cleanup, Idle
<1>1. co.st \in [Routines -> RoutineStates]
  BY <1>0 DEF CoType
<1>2. PICK f \in [Routines -> RoutineStates] :
        f = [q \in Routines |-> IF Alive(co, q) /\ q \notin co.started THEN "dead" ELSE co.st[q]]
  BY <1>1 DEF RoutineStates
<1>3. PICK c \in SUBSET Routines : c = {q \in Routines : Alive(co, q)} \cap co.started
  OBVIOUS
<1>4. y = [co EXCEPT !.cleaning = TRUE, !.canceled = c, !.st = f]
  BY <1>2, <1>3 DEF cleanup
<1>5. /\ y \in CoType /\ y.prim = co.prim /\ y.canceled = c /\ y.batch = co.batch
      /\ y.odd = co.odd
      /\ y.ready = co.ready /\ y.cleaning = TRUE /\ y.st = f
      /\ y.at = co.at /\ y.join = co.join /\ y.target = co.target /\ y.curr = co.curr
      /\ y.tokens = co.tokens /\ y.hold = co.hold
  BY <1>0, <1>4 DEF CoType
<1> HIDE DEF y
<1>6. \A q \in Routines : /\ Alive(y, q) => q \in y.canceled \cup y.odd
                          /\ Calm(y, q) => /\ y.st[q] = "new" /\ co.st[q] = "new"
                                        /\ q \notin co.odd /\ q \notin c
  BY <1>1, <1>2, <1>3, <1>5 DEF Alive, Calm, RoutineStates
<1>7. \A q \in Routines : Calm(y, q) => y.at[q] = "start"
  BY <1>5, <1>6 DEF CoInv, Ordered, Fresh
<1>8. Queued(y) /\ Current(y) /\ Swept(y)
  BY <1>0, <1>5, <1>6 DEF Queued, Current, Swept
<1>9. Fresh(y)
  BY <1>1, <1>2, <1>3, <1>5 DEF CoInv, Ordered, Fresh, Alive
<1>10. co.batch \in Seq(Routines) /\ co.ready \in Seq(Routines) /\ co.tokens \in Seq(Routines)
       /\ co.hold \in Tokens /\ co.join \in [Routines -> Tokens]
  BY <1>0 DEF CoType
<1>11. ASSUME NEW q \in Routines, Calm(y, q)
       PROVE /\ \A i \in DOMAIN co.tokens : co.tokens[i] # q
             /\ \A i \in DOMAIN co.ready : co.ready[i] # q
             /\ co.prim \in {"all", "any"} => co.hold # q
             /\ \A t \in Routines : Alive(co, t) => co.join[t] # q
  <2>1. Calm(co, q) /\ co.st[q] = "new" /\ q # Nobody
    BY <1>6, <1>11, RoutinesAssumption DEF CoInv, Ordered, Fresh, Calm
  <2>2. (\A i \in DOMAIN co.tokens : co.tokens[i] # q) /\ \A i \in DOMAIN co.ready : co.ready[i] # q
    BY <2>1 DEF CoInv, Ordered, Waits, Lines
  <2>3. /\ co.prim \in {"all", "any"} => co.hold # q
        /\ \A t \in Routines : Alive(co, t) => co.join[t] # q
    BY <2>1 DEF CoInv, Ordered, Locked, JoinKept
  <2> QED
    BY <2>2, <2>3
<1>12. Lines(y) /\ Waits(y)
  BY <1>0, <1>5, <1>10, <1>11 DEF Lines, Waits, Once
<1>13. Locked(y)
  BY <1>5, <1>10, <1>11 DEF CoInv, Ordered, Locked, Tokens
<1>14. JoinKept(y)
  <2>1. \A t \in Routines : Alive(y, t) => Alive(co, t)
    BY <1>1, <1>2, <1>5 DEF Alive
  <2> QED
    BY <1>5, <1>10, <1>11, <2>1 DEF JoinKept, Tokens
<1>15. Joining(y, Routines)
  BY <1>7 DEF Joining
<1>16. CoInv(y)
  BY <1>5, <1>8, <1>9, <1>12, <1>13, <1>14, <1>15 DEF CoInv, Ordered
<1> QED
  BY <1>16 DEF y

\* cleanup() makes the routines end one after the other.
LEMMA CleansNext ==
  ASSUME CoInv(co), cleanupNext
  PROVE  CoInv(co')
<1>0. co \in CoType /\ co.curr = Nobody /\ co.cleaning
  BY DEF CoInv, Ordered, cleanupNext
<1>1. co.st \in [Routines -> RoutineStates] /\ co.at \in [Routines -> Calls]
  BY <1>0 DEF CoType
<1>2. ASSUME NEW r \in Routines, Alive(co, r), co' = switchTo(co, r)
      PROVE  CoInv(co')
  <2>1. PICK y : y = switchTo(co, r)
    OBVIOUS
  <2>2. PICK b \in Calls : b = IF co.at[r] = "start" THEN "body" ELSE co.at[r]
    BY <1>1 DEF Calls
  <2>3. y = [co EXCEPT !.curr = r, !.st[r] = "running", !.started = @ \cup {r}, !.at[r] = b]
    BY <2>1, <2>2 DEF switchTo
  <2>a. PICK st \in [Routines -> RoutineStates] : st = [co.st EXCEPT ![r] = "running"]
    BY <1>1, <1>2 DEF RoutineStates
  <2>b. PICK at \in [Routines -> Calls] : at = [co.at EXCEPT ![r] = b]
    BY <1>1, <1>2, <2>2
  <2>c. PICK started \in SUBSET Routines : started = co.started \cup {r}
    BY <1>0, <1>2 DEF CoType
  <2>d. y = [co EXCEPT !.curr = r, !.st = st, !.started = started, !.at = at]
    BY <1>0, <2>3, <2>a, <2>b, <2>c DEF CoType
  <2>4. /\ y \in CoType /\ y.batch = co.batch
        /\ y.odd = co.odd /\ y.prim = co.prim /\ y.canceled = co.canceled
        /\ y.ready = co.ready /\ y.pending = co.pending
        /\ y.cleaning = co.cleaning /\ y.join = co.join /\ y.target = co.target /\ y.tokens = co.tokens
        /\ y.hold = co.hold /\ y.curr = r /\ y.st = [co.st EXCEPT ![r] = "running"]
        /\ y.at = [co.at EXCEPT ![r] = b]
    BY <1>0, <2>a, <2>b, <2>d DEF CoType, Tokens
  <2>5. y.at = [co.at EXCEPT ![r] = IF @ = "start" THEN "body" ELSE @]
    BY <2>2, <2>4
  <2> QED
    BY <1>0, <1>2, <2>1, <2>4, <2>5, Switches
<1>3. ASSUME co' = cleared(co)
      PROVE  CoInv(co')
  <2>1. PICK left \in SUBSET Routines :
          left = Routines \cap (ToSet(co.ready) \cup ToSet(co.tokens) \cup {co.hold})
    OBVIOUS
  <2>2. PICK z : z \in CoType /\ z = NewScheduler(co.prim)
    BY <1>0, NewSchedulers DEF CoType
  <2>3. PICK y : y = [z EXCEPT !.ready = co.ready, !.pending = co.pending, !.tokens = co.tokens,
                               !.hold = co.hold, !.count = co.count, !.conds = co.conds,
                               !.odd = left]
    OBVIOUS
  <2>4. co' = y
    BY <1>3, <2>1, <2>2, <2>3 DEF cleared
  <2>5. /\ y \in CoType /\ y.st = z.st /\ y.at = z.at /\ y.join = z.join
        /\ y.canceled = z.canceled /\ y.curr = z.curr /\ y.batch = z.batch
        /\ y.cleaning = z.cleaning /\ y.ready = co.ready /\ y.tokens = co.tokens
        /\ y.hold = co.hold /\ y.odd = left
    BY <1>0, <2>2, <2>3 DEF CoType
  <2>6. /\ y.st = [r \in Routines |-> "new"] /\ y.at = [r \in Routines |-> "start"]
        /\ y.join = [r \in Routines |-> Nobody] /\ y.canceled = {} /\ y.curr = Nobody
        /\ y.batch = <<>> /\ y.cleaning = FALSE
    BY <2>2, <2>5 DEF NewScheduler
  <2>7. ASSUME NEW r \in Routines, Calm(y, r)
        PROVE  r \notin ToSet(y.ready) \cup ToSet(y.tokens) \cup {y.hold}
    BY <2>1, <2>5, <2>7 DEF Calm
  <2> QED
    BY <2>4, <2>5, <2>6, <2>7, Anew
<1> QED
  BY <1>2, <1>3 DEF cleanupNext

-----------------------------------------------------------------------------
(* Calls about a routine, by another one or from outside                   *)

\* create(): the routine sleeps, or is ready at once.
LEMMA Creates ==
  ASSUME CoInv(co), NEW r \in Routines, NEW now \in BOOLEAN, create(r, now)
  PROVE  CoInv(co')
<1>0. co \in CoType /\ co.st[r] = "new"
  BY DEF CoInv, Ordered, create
<1>d. PICK d \in SUBSET Routines : d = IF co.cleaning THEN co.odd \cup {r} ELSE co.odd
  BY <1>0 DEF CoType
<1>1. PICK y : y = [co EXCEPT !.st[r] = "suspend", !.odd = d]
  OBVIOUS
<1>2. /\ y \in CoType /\ y.st = [co.st EXCEPT ![r] = "suspend"] /\ y.odd = d
      /\ y.prim = co.prim /\ y.canceled = co.canceled /\ y.ready = co.ready /\ y.batch = co.batch
      /\ y.pending = co.pending /\ y.cleaning = co.cleaning
      /\ y.join = co.join /\ y.target = co.target /\ y.tokens = co.tokens
      /\ y.hold = co.hold /\ y.curr = co.curr /\ y.at = co.at
  BY <1>0, <1>1 DEF CoType, RoutineStates
<1>3. co.st \in [Routines -> RoutineStates] /\ co.hold \in Tokens /\ co.join \in [Routines -> Tokens]
      /\ co.curr \in Tokens /\ co.tokens \in Seq(Routines) /\ co.batch \in Seq(Routines)
      /\ co.ready \in Seq(Routines)
  BY <1>0 DEF CoType
<1>4. /\ \A q \in Routines : Calm(y, q) => Calm(co, q)
      /\ \A q \in Routines : q # r => (Alive(y, q) <=> Alive(co, q)) /\ y.st[q] = co.st[q]
      /\ Alive(y, r) /\ y.st[r] = "suspend"
  BY <1>0, <1>d, <1>2, <1>3 DEF Calm, Alive
<1>5. co.at[r] = "start" /\ co.join[r] = Nobody /\ ~Alive(co, r)
  BY <1>0 DEF CoInv, Ordered, Fresh, Alive
<1>6. /\ Calm(y, r) => /\ \A i \in DOMAIN co.tokens : co.tokens[i] # r
                       /\ \A i \in DOMAIN co.batch : co.batch[i] # r
                       /\ \A i \in DOMAIN co.ready : co.ready[i] # r
      /\ co.curr # r
  BY <1>0, <1>4, RoutinesAssumption DEF CoInv, Ordered, Waits, Lines, Current
<1>7. Calm(y, r) => /\ co.prim \in {"all", "any"} => co.hold # r
                    /\ \A t \in Routines : Alive(y, t) => co.join[t] # r
  <2>1. r # Nobody
    BY RoutinesAssumption
  <2> QED
    BY <1>0, <1>4, <1>5, <2>1 DEF CoInv, Ordered, Locked, JoinKept
<1>8. Queued(y) /\ Fresh(y)
  BY <1>2, <1>4 DEF CoInv, Ordered, Queued, Fresh
<1>9. Current(y)
  BY <1>2, <1>3, <1>4, <1>6 DEF CoInv, Ordered, Current, Tokens
<1>10. Swept(y)
  BY <1>2, <1>4, <1>d DEF CoInv, Ordered, Swept
<1>11. Lines(y) /\ Waits(y)
  <2>1. ASSUME NEW q \in Routines, Calm(y, q),
               \/ \E i \in DOMAIN co.batch : co.batch[i] = q
               \/ \E i \in DOMAIN co.ready : co.ready[i] = q
               \/ \E i \in DOMAIN co.tokens : co.tokens[i] = q
        PROVE  Calm(co, q) /\ y.st[q] = co.st[q]
    BY <1>4, <1>6, <2>1
  <2>2. /\ \A i \in DOMAIN co.batch : Calm(y, co.batch[i]) =>
             Calm(co, co.batch[i]) /\ y.st[co.batch[i]] = co.st[co.batch[i]]
        /\ \A i \in DOMAIN co.ready : Calm(y, co.ready[i]) =>
             Calm(co, co.ready[i]) /\ y.st[co.ready[i]] = co.st[co.ready[i]]
        /\ \A i \in DOMAIN co.tokens : Calm(y, co.tokens[i]) =>
             Calm(co, co.tokens[i]) /\ y.st[co.tokens[i]] = co.st[co.tokens[i]]
    BY <1>3, <2>1
  <2>3. Lines(y)
    BY <1>2, <2>2 DEF CoInv, Ordered, Lines, Once
  <2>4. Waits(y)
    BY <1>2, <2>2 DEF CoInv, Ordered, Waits, Once
  <2> QED
    BY <2>3, <2>4
<1>12. Locked(y)
  BY <1>2, <1>3, <1>4, <1>7 DEF CoInv, Ordered, Locked, Tokens
<1>13. JoinKept(y)
  BY <1>2, <1>3, <1>4, <1>5, <1>7 DEF CoInv, Ordered, JoinKept, Tokens
<1>14. Joining(y, Routines)
  <2> SUFFICES ASSUME NEW q \in Routines, y.at[q] = "join", Calm(y, q)
               PROVE /\ y.target[q] \in Routines
                     /\ y.st[q] = "suspend" => Alive(y, y.target[q]) /\ y.join[y.target[q]] = q
                     /\ y.st[q] # "suspend" => y.st[y.target[q]] = "dead"
    BY DEF Joining
  <2>1. q # r /\ y.st[q] = co.st[q]
    BY <1>2, <1>4, <1>5
  <2>2. /\ co.target[q] \in Routines
        /\ co.st[q] = "suspend" => Alive(co, co.target[q]) /\ co.join[co.target[q]] = q
        /\ co.st[q] # "suspend" => co.st[co.target[q]] = "dead"
    BY <1>2, <1>4 DEF CoInv, Joining
  <2> QED
    BY <1>0, <1>2, <1>4, <2>1, <2>2
<1>15. CoInv(y)
  BY <1>2, <1>8, <1>9, <1>10, <1>11, <1>12, <1>13, <1>14 DEF CoInv, Ordered
<1>16. Wakeable(y, r)
  BY <1>2, <1>4, <1>5, <1>6, <1>7 DEF Wakeable, ToSet
<1>17. Ordered(y) /\ Joining(y, Routines \ {r})
  BY <1>15 DEF CoInv, Joining
<1>18. CoInv(makeRoutineReady(y, r))
  BY <1>16, <1>17, MadeReady
<1> QED
  BY <1>1, <1>d, <1>15, <1>18 DEF create

\* What resume() wakes, if it lives, may be woken.
LEMMA Resumes ==
  ASSUME NEW S, NEW r \in Tokens, CoInv(S), r # Nobody /\ Alive(S, r) => Wakeable(S, r)
  PROVE  CoInv(resume(S, r))
<1>1. CASE r # Nobody /\ Alive(S, r)
  <2>1. r \in Routines /\ Ordered(S) /\ Joining(S, Routines \ {r})
    BY <1>1 DEF Tokens, CoInv, Joining
  <2> QED
    BY <1>1, <2>1, MadeReady DEF resume
<1>2. CASE ~(r # Nobody /\ Alive(S, r))
  BY <1>2 DEF resume
<1> QED
  BY <1>1, <1>2

\* resume() by hand, of a routine in no primitive.
LEMMA ResumesByHand ==
  ASSUME CoInv(co), NEW r \in Routines, resumeByHand(r)
  PROVE  CoInv(co')
<1>1. Alive(co, r) /\ r # co.curr /\ co.at[r] \in {"start", "wait"} /\ co' = resume(co, r)
  BY DEF resumeByHand
<1>2. r # Nobody
  BY RoutinesAssumption
<1>3. Wakeable(co, r)
  <2>1. co.st[r] # "new"
    BY <1>1 DEF Alive
  <2>2. ASSUME Calm(co, r) PROVE r \notin ToSet(co.tokens)
    BY <1>1, <2>2 DEF CoInv, Ordered, Waits, ToSet
  <2>3. ASSUME Calm(co, r)
        PROVE /\ co.prim \in {"all", "any"} => co.hold # r
              /\ \A t \in Routines : Alive(co, t) => co.join[t] # r
    BY <1>1, <1>2, <2>3 DEF CoInv, Ordered, Locked, JoinKept
  <2> QED
    BY <1>1, <2>1, <2>2, <2>3 DEF Wakeable
<1> QED
  BY <1>1, <1>3, Resumes DEF Tokens

\* A cancelled routine may be woken wherever it is.
LEMMA Cancels ==
  ASSUME CoInv(co), NEW r \in Routines, cancel(r)
  PROVE  CoInv(co')
<1>0. co \in CoType /\ Alive(co, r)
  BY DEF CoInv, Ordered, cancel
<1>1. PICK y : y = [co EXCEPT !.canceled = @ \cup {r}]
  OBVIOUS
<1>2. /\ y \in CoType /\ y.batch = co.batch /\ y.cleaning = co.cleaning /\ y.pending = co.pending
      /\ y.odd = co.odd /\ y.prim = co.prim /\ y.canceled = co.canceled \cup {r} /\ y.ready = co.ready
      /\ y.join = co.join /\ y.target = co.target /\ y.tokens = co.tokens
      /\ y.hold = co.hold /\ y.curr = co.curr /\ y.st = co.st /\ y.at = co.at
  BY <1>0, <1>1 DEF CoType
<1>3. /\ \A q : Calm(y, q) => Calm(co, q)
      /\ \A q : Alive(y, q) <=> Alive(co, q)
      /\ ~Calm(y, r)
  BY <1>2 DEF Calm, Alive
<1>4. Queued(y) /\ Current(y) /\ Swept(y)
  BY <1>2, <1>3 DEF CoInv, Ordered, Queued, Current, Swept
<1>5. Fresh(y)
  BY <1>0, <1>2 DEF CoInv, Ordered, Fresh, Alive
<1>6. Lines(y) /\ Waits(y)
  BY <1>2, <1>3 DEF CoInv, Ordered, Lines, Waits, Once
<1>7. Locked(y) /\ JoinKept(y) /\ Joining(y, Routines)
  BY <1>2, <1>3 DEF CoInv, Ordered, Locked, JoinKept, Joining
<1>8. Wakeable(y, r)
  BY <1>0, <1>2, <1>3 DEF Wakeable, Alive
<1>9. Ordered(y) /\ Joining(y, Routines \ {r})
  BY <1>2, <1>4, <1>5, <1>6, <1>7 DEF Ordered, Joining
<1>10. co' = makeRoutineReady(y, r)
  BY <1>1 DEF cancel
<1> QED
  BY <1>8, <1>9, <1>10, MadeReady

\* entry() returns and the one in join() is woken.
LEMMA Finishes ==
  ASSUME CoInv(co), NEW r \in Routines, finish(r)
  PROVE  CoInv(co')
<1>0. co \in CoType /\ co.curr = r
  BY DEF CoInv, Ordered, finish, Body
<1>1. PICK y : y = [co EXCEPT !.st[r] = "dead", !.curr = Nobody]
  OBVIOUS
<1>2. /\ y \in CoType /\ SameScheduler(co, y) /\ y.st = [co.st EXCEPT ![r] = "dead"]
      /\ y.join = co.join /\ y.target = co.target /\ y.tokens = co.tokens
      /\ y.hold = co.hold /\ y.curr = Nobody /\ y.at = co.at
  BY <1>0, <1>1 DEF CoType, RoutineStates, SameScheduler, Tokens
<1>3. co.st \in [Routines -> RoutineStates] /\ co.hold \in Tokens /\ co.join \in [Routines -> Tokens]
      /\ co.tokens \in Seq(Routines) /\ co.batch \in Seq(Routines) /\ co.ready \in Seq(Routines)
  BY <1>0 DEF CoType
<1>4. /\ \A q \in Routines : Calm(y, q) => Calm(co, q) /\ q # r
      /\ \A q \in Routines : q # r => (Alive(y, q) <=> Alive(co, q)) /\ y.st[q] = co.st[q]
      /\ ~Alive(y, r) /\ y.st[r] = "dead"
  BY <1>2, <1>3 DEF Calm, Alive, SameScheduler
<1>5. r # Nobody /\ co.st[r] \in {"running", "ready"} /\ Alive(co, r)
  BY <1>0, RoutinesAssumption DEF CoInv, Ordered, Current, Alive
<1>6. Queued(y) /\ Fresh(y) /\ Current(y) /\ Swept(y)
  BY <1>2, <1>4 DEF CoInv, Ordered, Queued, Fresh, Current, Swept, SameScheduler
<1>7. Lines(y) /\ Waits(y)
  <2>1. /\ \A i \in DOMAIN co.batch : co.batch[i] \in Routines
        /\ \A i \in DOMAIN co.ready : co.ready[i] \in Routines
        /\ \A i \in DOMAIN co.tokens : co.tokens[i] \in Routines
    BY <1>3
  <2>2. Lines(y)
    BY <1>2, <1>4, <2>1 DEF CoInv, Ordered, Lines, Once, SameScheduler
  <2>3. Waits(y)
    BY <1>2, <1>4, <2>1 DEF CoInv, Ordered, Waits, Once, SameScheduler
  <2> QED
    BY <2>2, <2>3
<1>8. Locked(y)
  BY <1>2, <1>3, <1>4 DEF CoInv, Ordered, Locked, Tokens, SameScheduler
<1>9. JoinKept(y)
  BY <1>2, <1>3, <1>4 DEF CoInv, Ordered, JoinKept, Tokens
<1>10. Ordered(y)
  BY <1>2, <1>6, <1>7, <1>8, <1>9 DEF Ordered
<1>11. PICK k \in Tokens : k = co.join[r]
  BY <1>3
<1>12. Joining(y, Routines \ {k})
  <2> SUFFICES ASSUME NEW q \in Routines, q # k, y.at[q] = "join", Calm(y, q)
               PROVE /\ y.target[q] \in Routines
                     /\ y.st[q] = "suspend" => Alive(y, y.target[q]) /\ y.join[y.target[q]] = q
                     /\ y.st[q] # "suspend" => y.st[y.target[q]] = "dead"
    BY DEF Joining
  <2>1. q # r /\ y.st[q] = co.st[q]
    BY <1>4
  <2>2. /\ co.target[q] \in Routines
        /\ co.st[q] = "suspend" => Alive(co, co.target[q]) /\ co.join[co.target[q]] = q
        /\ co.st[q] # "suspend" => co.st[co.target[q]] = "dead"
    BY <1>2, <1>4 DEF CoInv, Joining
  <2> QED
    BY <1>2, <1>4, <1>11, <2>1, <2>2
<1>13. co' = resume(y, k)
  BY <1>1, <1>11 DEF finish
<1>14. CASE k # Nobody /\ Alive(y, k)
  <2>1. k \in Routines /\ k # r
    BY <1>4, <1>14 DEF Tokens
  <2>2. ASSUME Calm(y, k)
        PROVE  co.st[k] = "suspend" /\ co.at[k] = "join" /\ co.target[k] = r /\ Calm(co, k)
    BY <1>4, <1>5, <1>11, <2>1, <2>2, <1>14 DEF CoInv, Ordered, JoinKept
  <2>3. ASSUME Calm(y, k)
        PROVE  /\ y.curr # k /\ k \notin ToSet(y.tokens)
               /\ y.prim \in {"all", "any"} => y.hold # k
               /\ \A t \in Routines : Alive(y, t) => y.join[t] # k
               /\ y.target[k] \in Routines /\ y.st[y.target[k]] = "dead"
    <3>1. y.curr # k /\ y.target[k] \in Routines /\ y.st[y.target[k]] = "dead"
      BY <1>2, <1>4, <1>14, <2>2, <2>3
    <3>2. k \notin ToSet(co.tokens) /\ (co.prim \in {"all", "any"} => co.hold # k)
      BY <1>14, <2>2, <2>3 DEF CoInv, Ordered, Waits, Locked, ToSet
    <3>3. ASSUME NEW t \in Routines, Alive(y, t) PROVE y.join[t] # k
      BY <1>2, <1>4, <1>14, <2>2, <2>3, <3>3 DEF CoInv, Ordered, JoinKept
    <3> QED
      BY <1>2, <3>1, <3>2, <3>3 DEF SameScheduler
  <2>4. Wakeable(y, k)
    BY <1>14, <2>3 DEF Wakeable, Alive
  <2>5. CoInv(makeRoutineReady(y, k))
    BY <1>10, <1>12, <2>1, <2>4, MadeReady
  <2> QED
    BY <1>13, <1>14, <2>5 DEF resume
<1>15. CASE ~(k # Nobody /\ Alive(y, k))
  <2>1. co' = y
    BY <1>13, <1>15 DEF resume
  <2>2. ASSUME k \in Routines PROVE ~(y.at[k] = "join" /\ Calm(y, k))
    <3>1. k # Nobody
      BY <2>2, RoutinesAssumption
    <3>2. y.st[k] = "new" \/ y.st[k] = "dead"
      BY <1>15, <3>1 DEF Alive
    <3> QED
      BY <1>6, <2>2, <3>2 DEF Fresh, Calm
  <2>3. Joining(y, Routines)
    BY <1>12, <2>2 DEF Joining
  <2> QED
    BY <1>10, <2>1, <2>3 DEF CoInv
<1> QED
  BY <1>14, <1>15

-----------------------------------------------------------------------------
(* Calls of the current routine                                            *)

\* yield(): ready again, and off the thread.
LEMMA Yields ==
  ASSUME CoInv(co), NEW r \in Routines, yield(r)
  PROVE  CoInv(co')
<1>0. co \in CoType /\ co.curr = r /\ r \notin co.canceled
  BY DEF CoInv, Ordered, yield, Body
<1>1. r # Nobody /\ co.st[r] \in {"running", "ready"} /\ (Calm(co, r) => co.st[r] = "running")
  BY <1>0, RoutinesAssumption DEF CoInv, Ordered, Current
<1>2. PICK y : y = [co EXCEPT !.at[r] = "yield", !.curr = Nobody]
  OBVIOUS
<1>3. /\ y \in CoType /\ SameScheduler(co, y) /\ y.st = co.st /\ y.at = [co.at EXCEPT ![r] = "yield"]
      /\ y.join = co.join /\ y.target = co.target /\ y.tokens = co.tokens
      /\ y.hold = co.hold /\ y.curr = Nobody
  BY <1>0, <1>2 DEF CoType, Calls, SameScheduler, Tokens
<1>4. CoInv(y)
  <2>1. "yield" \in Calls /\ "yield" # "join" /\ "yield" # "lock"
    BY DEF Calls
  <2> QED
    BY <1>0, <1>3, <2>1, Moves
<1>5. co' = makeRoutineReady(y, r)
  BY <1>0, <1>1, <1>2 DEF yield, makeRoutineReady, CoType
<1>6. Wakeable(y, r)
  <2>1. ASSUME Calm(co, r)
        PROVE  r \notin ToSet(co.tokens) /\ (co.prim \in {"all", "any"} => co.hold # r)
    BY <1>1, <2>1 DEF CoInv, Ordered, Waits, Locked, ToSet
  <2>2. ASSUME Calm(co, r) PROVE \A t \in Routines : Alive(co, t) => co.join[t] # r
    BY <1>1, <2>2 DEF CoInv, Ordered, JoinKept
  <2>3. y.at[r] = "yield"
    BY <1>0, <1>3 DEF CoType
  <2>4. Calm(y, r) => Calm(co, r)
    BY <1>3 DEF Calm, SameScheduler
  <2> QED
    BY <1>1, <1>3, <2>1, <2>2, <2>3, <2>4 DEF Wakeable, Alive, SameScheduler
<1>7. Ordered(y) /\ Joining(y, Routines \ {r})
  BY <1>4 DEF CoInv, Joining
<1> QED
  BY <1>5, <1>6, <1>7, MadeReady

\* wait() in call a, the object's part of the call done before.
LEMMA Waiting ==
  ASSUME NEW S, NEW z, NEW r \in Routines, NEW a \in Calls, CoInv(S), z \in CoType,
         SameScheduler(S, z), S.curr = r, z.curr = r, a # "join", z.st = S.st, z.at = S.at,
         z.join = S.join, z.target = S.target, S.prim \in {"all", "any"} => a # "lock",
         z.tokens = S.tokens
           \/ (z.tokens = Append(S.tokens, r) /\ a \in {"lock", "acquire", "broadcast"}),
         z.hold = S.hold \/ (z.hold = r /\ a = "cond")
  PROVE  CoInv(wait(z, a))
<1>1. PICK y : y = wait(z, a)
  OBVIOUS
<1>2. CASE r \in S.canceled
  <2>1. y = [z EXCEPT !.at[r] = a]
    BY <1>1, <1>2 DEF wait, SameScheduler
  <2>2. /\ y \in CoType /\ SameScheduler(z, y) /\ y.st = z.st /\ y.at = [z.at EXCEPT ![r] = a]
        /\ y.join = z.join /\ y.target = z.target /\ y.tokens = z.tokens
        /\ y.hold = z.hold /\ y.curr = r
    BY <2>1 DEF CoType, SameScheduler
  <2>3. SameScheduler(S, y)
    BY <2>2 DEF SameScheduler
  <2>4. /\ y.tokens = S.tokens \/ (y.tokens = Append(S.tokens, r) /\ r \in S.canceled)
        /\ y.hold = S.hold \/ S.prim \notin {"all", "any"} \/ (y.hold = r /\ r \in S.canceled)
        /\ y.at = [S.at EXCEPT ![r] = a] /\ y.st = S.st /\ y.join = S.join /\ y.target = S.target
    BY <1>2, <2>2
  <2>5. CoInv(y)
    BY <2>2, <2>3, <2>4, Moves
  <2> QED
    BY <1>1, <2>5
<1>3. CASE r \notin S.canceled
  <2>1. y = [z EXCEPT !.at[r] = a, !.st[r] = "suspend", !.curr = Nobody]
    BY <1>1, <1>3 DEF wait, SameScheduler
  <2>2. /\ y \in CoType /\ SameScheduler(z, y) /\ y.st = [z.st EXCEPT ![r] = "suspend"]
        /\ y.at = [z.at EXCEPT ![r] = a] /\ y.join = z.join /\ y.target = z.target
        /\ y.tokens = z.tokens /\ y.hold = z.hold /\ y.curr = Nobody
    BY <2>1 DEF CoType, SameScheduler, RoutineStates, Tokens
  <2>3. SameScheduler(S, y)
    BY <2>2 DEF SameScheduler
  <2>4. /\ y.st = [S.st EXCEPT ![r] = "suspend"] /\ y.at = [S.at EXCEPT ![r] = a]
        /\ y.tokens = S.tokens
             \/ (y.tokens = Append(S.tokens, r) /\ a \in {"lock", "acquire", "broadcast"})
        /\ y.hold = S.hold \/ (y.hold = r /\ a = "cond")
        /\ a # "join" /\ y.join = S.join /\ y.target = S.target
    BY <2>2
  <2>5. CoInv(y)
    BY <1>3, <2>2, <2>3, <2>4, Sleeps
  <2> QED
    BY <1>1, <2>5
<1> QED
  BY <1>2, <1>3

\* wait() itself.
LEMMA WaitsItself ==
  ASSUME CoInv(co), NEW r \in Routines, waitCall(r)
  PROVE  CoInv(co')
<1>1. co \in CoType /\ co.curr = r /\ co' = wait(co, "wait")
  BY DEF CoInv, Ordered, waitCall, Body
<1>2. "wait" \in Calls /\ "wait" # "join" /\ "wait" # "lock" /\ SameScheduler(co, co)
  BY DEF Calls, SameScheduler
<1> QED
  BY <1>1, <1>2, Waiting

\* join() leaves its token with the other routine.
LEMMA Joins ==
  ASSUME CoInv(co), NEW r \in Routines, NEW t \in Routines, join(r, t)
  PROVE  CoInv(co')
<1>0. co \in CoType /\ co.curr = r /\ r \notin co.canceled /\ t # r /\ Alive(co, t)
      /\ co.join[t] = Nobody
  BY DEF CoInv, Ordered, join, Body
<1>1. PICK z : z = [co EXCEPT !.join[t] = r, !.target[r] = t]
  OBVIOUS
<1>2. /\ z \in CoType /\ SameScheduler(co, z) /\ z.st = co.st /\ z.at = co.at
      /\ z.join = [co.join EXCEPT ![t] = r] /\ z.target = [co.target EXCEPT ![r] = t]
      /\ z.tokens = co.tokens /\ z.hold = co.hold /\ z.curr = r
  BY <1>0, <1>1 DEF CoType, SameScheduler, Tokens
<1>3. PICK y : y = co'
  OBVIOUS
<1>4. y = [z EXCEPT !.at[r] = "join", !.st[r] = "suspend", !.curr = Nobody]
  BY <1>0, <1>1, <1>2, <1>3 DEF join, wait, SameScheduler
<1>5. /\ y \in CoType /\ SameScheduler(z, y) /\ y.st = [z.st EXCEPT ![r] = "suspend"]
      /\ y.at = [z.at EXCEPT ![r] = "join"] /\ y.join = z.join /\ y.target = z.target
      /\ y.tokens = z.tokens /\ y.hold = z.hold /\ y.curr = Nobody
  BY <1>2, <1>4 DEF CoType, SameScheduler, RoutineStates, Tokens, Calls
<1>6. SameScheduler(co, y) /\ "join" \in Calls /\ "join" # "lock"
  BY <1>2, <1>5 DEF SameScheduler, Calls
<1>7. /\ y.st = [co.st EXCEPT ![r] = "suspend"] /\ y.at = [co.at EXCEPT ![r] = "join"]
      /\ y.tokens = co.tokens /\ y.hold = co.hold /\ y.curr = Nobody /\ y \in CoType
      /\ \E u \in Routines :
           /\ u # r /\ Alive(co, u) /\ co.join[u] = Nobody
           /\ y.join = [co.join EXCEPT ![u] = r] /\ y.target = [co.target EXCEPT ![r] = u]
  BY <1>0, <1>2, <1>5
<1>8. CoInv(y)
  BY <1>0, <1>6, <1>7, Sleeps
<1> QED
  BY <1>3, <1>8

-----------------------------------------------------------------------------
(* The primitives                                                          *)

\* The head of the object's queue is woken.
LEMMA WakesFirst ==
  ASSUME NEW S, CoInv(S)
  PROVE  CoInv(WakeFirst(S))
<1>0. S \in CoType
  BY DEF CoInv, Ordered
<1>1. CASE S.tokens = <<>>
  BY <1>1 DEF WakeFirst
<1>2. CASE S.tokens # <<>>
  <2>1. PICK r : r = Head(S.tokens)
    OBVIOUS
  <2>2. PICK y : y = [S EXCEPT !.tokens = Tail(@)]
    OBVIOUS
  <2>3. S.tokens \in Seq(Routines)
    BY <1>0 DEF CoType
  <2>4. /\ Tail(S.tokens) \in Seq(Routines) /\ r \in Routines
        /\ 1 \in DOMAIN S.tokens /\ S.tokens[1] = r
        /\ \A i \in DOMAIN Tail(S.tokens) : i \in Int /\ i + 1 \in DOMAIN S.tokens /\ i + 1 # 1
                                            /\ Tail(S.tokens)[i] = S.tokens[i + 1]
    BY <1>2, <2>1, <2>3, TokenTaken
  <2>5. /\ y \in CoType /\ SameScheduler(S, y) /\ y.st = S.st /\ y.at = S.at /\ y.join = S.join
        /\ y.target = S.target /\ y.tokens = Tail(S.tokens) /\ y.hold = S.hold /\ y.curr = S.curr
    BY <1>0, <2>2, <2>4 DEF CoType, SameScheduler
  <2>6. /\ \A q : Calm(y, q) <=> Calm(S, q)
        /\ \A q : Alive(y, q) <=> Alive(S, q)
    BY <2>5 DEF Calm, Alive, SameScheduler
  <2>7. Queued(y) /\ Fresh(y) /\ Current(y) /\ Swept(y)
    BY <2>5, <2>6 DEF CoInv, Ordered, Queued, Fresh, Current, Swept, SameScheduler
  <2>8. Lines(y) /\ Locked(y) /\ JoinKept(y) /\ Joining(y, Routines)
    BY <2>5, <2>6 DEF CoInv, Ordered, Lines, Once, Locked, JoinKept, Joining, SameScheduler
  <2>9. Waits(y)
    <3>1. ASSUME NEW i \in DOMAIN y.tokens, NEW j \in DOMAIN y.tokens, Calm(y, y.tokens[i]),
                 y.tokens[i] = y.tokens[j]
          PROVE i = j
      <4>1. i + 1 = j + 1
        BY <2>4, <2>5, <2>6, <3>1 DEF CoInv, Ordered, Waits, Once
      <4> QED
        BY <2>4, <2>5, <4>1
    <3>2. ASSUME NEW i \in DOMAIN y.tokens, Calm(y, y.tokens[i])
          PROVE y.st[y.tokens[i]] = "suspend" /\ y.at[y.tokens[i]] \in {"lock", "acquire", "broadcast"}
      BY <2>4, <2>5, <2>6, <3>2 DEF CoInv, Ordered, Waits
    <3> QED
      BY <3>1, <3>2 DEF Waits, Once
  <2>10. CoInv(y)
    BY <2>5, <2>7, <2>8, <2>9 DEF CoInv, Ordered
  <2>11. ASSUME Alive(y, r) PROVE Wakeable(y, r)
    <3>1. y.st[r] # "new" /\ r # Nobody
      BY <2>4, <2>11, RoutinesAssumption DEF Alive
    <3>2. ASSUME Calm(y, r)
          PROVE S.st[r] = "suspend" /\ S.at[r] \in {"lock", "acquire", "broadcast"} /\ Calm(S, r)
      BY <2>4, <2>6, <3>2 DEF CoInv, Ordered, Waits
    <3>3. ASSUME Calm(y, r), NEW i \in DOMAIN y.tokens PROVE y.tokens[i] # r
      BY <2>4, <2>5, <3>2, <3>3 DEF CoInv, Ordered, Waits, Once
    <3>4. ASSUME Calm(y, r)
          PROVE r # S.curr /\ (S.prim \in {"all", "any"} => S.hold # r)
      BY <3>1, <3>2, <3>4 DEF CoInv, Ordered, Current, Locked
    <3>5. ASSUME Calm(y, r), NEW t \in Routines, Alive(S, t) PROVE S.join[t] # r
      BY <3>1, <3>2, <3>5 DEF CoInv, Ordered, JoinKept
    <3>6. ASSUME Calm(y, r) PROVE S.at[r] # "join"
      BY <3>2, <3>6
    <3> QED
      BY <2>5, <2>6, <3>1, <3>3, <3>4, <3>5, <3>6 DEF Wakeable, ToSet, SameScheduler
  <2>12. WakeFirst(S) = resume(y, r)
    BY <1>2, <2>1, <2>2 DEF WakeFirst
  <2> QED
    BY <2>4, <2>10, <2>11, <2>12, Resumes DEF Tokens
<1> QED
  BY <1>1, <1>2

\* The token is queued and the routine waits.
LEMMA Queues ==
  ASSUME CoInv(co), NEW r \in Routines, co.curr = r, NEW a \in {"lock", "acquire", "broadcast"},
         co.prim \in {"all", "any"} => a # "lock"
  PROVE  CoInv(Queue(co, a))
<1>0. co \in CoType
  BY DEF CoInv, Ordered
<1>1. PICK z : z = [co EXCEPT !.tokens = Append(@, r)]
  OBVIOUS
<1>2. Append(co.tokens, r) \in Seq(Routines)
  BY <1>0 DEF CoType
<1>3. /\ z \in CoType /\ SameScheduler(co, z) /\ z.st = co.st /\ z.at = co.at /\ z.join = co.join
      /\ z.target = co.target /\ z.tokens = Append(co.tokens, r) /\ z.hold = co.hold /\ z.curr = r
  BY <1>0, <1>1, <1>2 DEF CoType, SameScheduler
<1>4. a \in Calls /\ a # "join"
  BY DEF Calls
<1>5. Queue(co, a) = wait(z, a)
  BY <1>1 DEF Queue
<1>6. CoInv(wait(z, a))
  BY <1>3, <1>4, Waiting
<1> QED
  BY <1>5, <1>6

\* lock().
LEMMA Locks ==
  ASSUME CoInv(co), NEW r \in Routines, lock(r)
  PROVE  CoInv(co')
<1>0. co \in CoType /\ co.curr = r /\ co.prim = "mutex"
  BY DEF CoInv, Ordered, lock, Body, Prim
<1>1. CASE co.hold = Nobody
  <2>1. PICK y : y = [co EXCEPT !.hold = r]
    OBVIOUS
  <2>2. /\ y \in CoType /\ SameScheduler(co, y) /\ y.st = co.st /\ y.at = co.at /\ y.join = co.join
        /\ y.target = co.target /\ y.tokens = co.tokens /\ y.curr = co.curr
    BY <1>0, <2>1 DEF CoType, SameScheduler, Tokens
  <2>3. co' = y
    BY <1>1, <2>1 DEF lock
  <2> QED
    BY <1>0, <2>2, <2>3, Stays
<1>2. CASE co.hold # Nobody
  <2>1. co' = Queue(co, "lock")
    BY <1>2 DEF lock
  <2> QED
    BY <1>0, <2>1, Queues
<1> QED
  BY <1>1, <1>2

\* unlock().
LEMMA Unlocks ==
  ASSUME CoInv(co), NEW r \in Routines, unlock(r)
  PROVE  CoInv(co')
<1>0. co \in CoType
  BY DEF CoInv, Ordered
<1>1. PICK y : y = [co EXCEPT !.hold = Nobody]
  OBVIOUS
<1>2. /\ y \in CoType /\ SameScheduler(co, y) /\ y.st = co.st /\ y.at = co.at /\ y.join = co.join
      /\ y.target = co.target /\ y.tokens = co.tokens /\ y.curr = co.curr /\ y.hold = Nobody
  BY <1>0, <1>1 DEF CoType, SameScheduler, Tokens
<1>3. CoInv(y)
  BY <1>2, Stays
<1>4. co' = WakeFirst(y)
  BY <1>1 DEF unlock
<1> QED
  BY <1>3, <1>4, WakesFirst

\* What the invariant does not speak of: the resources and the conditions.
LEMMA Counts ==
  ASSUME NEW S, CoInv(S), NEW n \in Int
  PROVE  CoInv([S EXCEPT !.count = n])
<1>0. S \in CoType
  BY DEF CoInv, Ordered
<1>1. PICK y : y = [S EXCEPT !.count = n]
  OBVIOUS
<1>2. /\ y \in CoType /\ SameScheduler(S, y) /\ y.st = S.st /\ y.at = S.at /\ y.join = S.join
      /\ y.target = S.target /\ y.tokens = S.tokens /\ y.curr = S.curr /\ y.hold = S.hold
  BY <1>0, <1>1 DEF CoType, SameScheduler
<1> QED
  BY <1>1, <1>2, Stays

LEMMA Conditions ==
  ASSUME NEW S, CoInv(S), NEW c \in SUBSET Conds
  PROVE  CoInv([S EXCEPT !.conds = c])
<1>0. S \in CoType
  BY DEF CoInv, Ordered
<1>1. PICK y : y = [S EXCEPT !.conds = c]
  OBVIOUS
<1>2. /\ y \in CoType /\ SameScheduler(S, y) /\ y.st = S.st /\ y.at = S.at /\ y.join = S.join
      /\ y.target = S.target /\ y.tokens = S.tokens /\ y.curr = S.curr /\ y.hold = S.hold
  BY <1>0, <1>1 DEF CoType, SameScheduler
<1> QED
  BY <1>1, <1>2, Stays

\* acquire() and operator >>.
LEMMA Takes ==
  ASSUME CoInv(co), NEW r \in Routines, Take(r)
  PROVE  CoInv(co')
<1>0. co.curr = r /\ co.count \in Int
  BY DEF CoInv, Ordered, Take, Body, CoType
<1>1. CASE co.count = 0
  <2>1. co' = Queue(co, "acquire") /\ "acquire" # "lock"
    BY <1>1 DEF Take
  <2> QED
    BY <1>0, <2>1, Queues
<1>2. CASE co.count # 0
  <2>1. co.count - 1 \in Int /\ co' = [co EXCEPT !.count = co.count - 1]
    BY <1>0, <1>2 DEF Take
  <2> QED
    BY <2>1, Counts
<1> QED
  BY <1>1, <1>2

\* release() and operator <<.
LEMMA Gives ==
  ASSUME CoInv(co), Give
  PROVE  CoInv(co')
<1>1. PICK y : y = IF co.count = 0 THEN WakeFirst(co) ELSE co
  OBVIOUS
<1>2. CoInv(y)
  BY <1>1, WakesFirst
<1>3. y.count \in Int /\ y.count + 1 \in Int
  BY <1>2 DEF CoInv, Ordered, CoType
<1>4. co' = [y EXCEPT !.count = y.count + 1]
  BY <1>1 DEF Give
<1> QED
  BY <1>2, <1>3, <1>4, Counts

\* Condition::wait().
LEMMA CondWaits ==
  ASSUME CoInv(co), NEW r \in Routines, condWait(r)
  PROVE  CoInv(co')
<1>0. co \in CoType /\ co.curr = r
  BY DEF CoInv, Ordered, condWait, Body
<1>1. PICK z : z = [co EXCEPT !.hold = r]
  OBVIOUS
<1>2. /\ z \in CoType /\ SameScheduler(co, z) /\ z.st = co.st /\ z.at = co.at /\ z.join = co.join
      /\ z.target = co.target /\ z.tokens = co.tokens /\ z.hold = r /\ z.curr = r
  BY <1>0, <1>1 DEF CoType, SameScheduler, Tokens
<1>3. "cond" \in Calls /\ "cond" # "join" /\ "cond" # "lock"
  BY DEF Calls
<1>4. CoInv(wait(z, "cond"))
  BY <1>0, <1>2, <1>3, Waiting
<1> QED
  BY <1>1, <1>4 DEF condWait

\* Condition::post().
LEMMA CondPosts ==
  ASSUME CoInv(co), NEW v \in Conds, condPost(v)
  PROVE  CoInv(co')
<1>0. co \in CoType /\ v \in co.conds
  BY DEF CoInv, Ordered, condPost
<1>1. PICK left \in SUBSET Conds : left = IF Prim("all") THEN co.conds \ {v} ELSE {}
  BY <1>0 DEF CoType
<1>2. CASE left # {}
  <2>1. co' = [co EXCEPT !.conds = left]
    BY <1>1, <1>2 DEF condPost
  <2> QED
    BY <2>1, Conditions
<1>3. CASE left = {}
  <2>1. PICK h \in Tokens : h = co.hold
    BY <1>0 DEF CoType
  <2>2. PICK y : y = [co EXCEPT !.conds = {}, !.hold = Nobody]
    OBVIOUS
  <2>3. /\ y \in CoType /\ SameScheduler(co, y) /\ y.st = co.st /\ y.at = co.at /\ y.join = co.join
        /\ y.target = co.target /\ y.tokens = co.tokens /\ y.curr = co.curr /\ y.hold = Nobody
    BY <1>0, <2>2 DEF CoType, SameScheduler, Tokens
  <2>4. CoInv(y)
    BY <2>3, Stays
  <2>5. co' = [resume(co, h) EXCEPT !.conds = {}, !.hold = Nobody]
    BY <1>1, <1>3, <2>1 DEF condPost
  <2>6. co' = resume(y, h)
    <3>1. CASE h # Nobody /\ Alive(co, h) /\ co.st[h] \notin {"ready", "dead"}
      BY <1>0, <2>2, <2>3, <2>5, <3>1 DEF resume, makeRoutineReady, Alive, CoType
    <3>2. CASE ~(h # Nobody /\ Alive(co, h) /\ co.st[h] \notin {"ready", "dead"})
      BY <1>0, <2>2, <2>3, <2>5, <3>2 DEF resume, makeRoutineReady, Alive
    <3> QED
      BY <3>1, <3>2
  <2>7. ASSUME h # Nobody, Alive(y, h) PROVE Wakeable(y, h)
    <3>1. co.prim \in {"all", "any"} /\ y.st[h] # "new" /\ h \in Routines
      BY <2>7 DEF condPost, Prim, Alive, Tokens
    <3>2. ASSUME Calm(y, h) PROVE co.st[h] = "suspend" /\ co.at[h] = "cond" /\ Calm(co, h)
      BY <2>1, <2>3, <2>7, <3>1, <3>2 DEF CoInv, Ordered, Locked, Calm, SameScheduler
    <3>3. ASSUME Calm(y, h) PROVE h # co.curr /\ h \notin ToSet(co.tokens)
      BY <2>7, <3>2, <3>3 DEF CoInv, Ordered, Current, Waits, ToSet
    <3>4. ASSUME Calm(y, h), NEW t \in Routines, Alive(co, t) PROVE co.join[t] # h
      BY <2>7, <3>2, <3>4 DEF CoInv, Ordered, JoinKept
    <3>5. ASSUME Calm(y, h) PROVE co.at[h] # "join"
      BY <3>2, <3>5
    <3> QED
      BY <2>3, <2>7, <3>1, <3>3, <3>4, <3>5 DEF Wakeable, SameScheduler, Alive
  <2> QED
    BY <2>4, <2>6, <2>7, Resumes
<1> QED
  BY <1>2, <1>3

\* Broadcast::post(): everyone that waits is ready, once.
LEMMA BroadcastPosts ==
  ASSUME CoInv(co), broadcastPost
  PROVE  CoInv(co')
<1> DEFINE y == co'
<1>0. co \in CoType /\ co.prim = "broadcast"
  BY DEF CoInv, Ordered, broadcastPost, Prim
<1> DEFINE woken == {r \in ToSet(co.tokens) : Alive(co, r) /\ co.st[r] # "ready"}
<1>2. PICK n \in 0 .. Len(co.tokens) : \E w \in [1 .. n -> woken] :
          /\ ToSet(w) = woken
          /\ \A i, j \in 1 .. n : i < j =>
               \E k \in DOMAIN co.tokens :
                 co.tokens[k] = w[i] /\ \A l \in 1 .. k : co.tokens[l] # w[j]
          /\ co' = [co EXCEPT !.st = [r \in Routines |-> IF r \in woken THEN "ready" ELSE @[r]],
                              !.ready = @ \o w, !.pending = @ \/ woken # {}, !.tokens = <<>>]
  BY DEF broadcastPost
<1>3. PICK w \in [1 .. n -> woken] :
          /\ ToSet(w) = woken
          /\ \A i, j \in 1 .. n : i < j =>
               \E k \in DOMAIN co.tokens :
                 co.tokens[k] = w[i] /\ \A l \in 1 .. k : co.tokens[l] # w[j]
          /\ co' = [co EXCEPT !.st = [r \in Routines |-> IF r \in woken THEN "ready" ELSE @[r]],
                              !.ready = @ \o w, !.pending = @ \/ woken # {}, !.tokens = <<>>]
  BY <1>2
<1>1. woken = {r \in ToSet(co.tokens) : Alive(co, r) /\ co.st[r] # "ready"}
  OBVIOUS
<1> HIDE DEF woken
<1>4. co.st \in [Routines -> RoutineStates] /\ co.hold \in Tokens /\ co.join \in [Routines -> Tokens]
      /\ co.tokens \in Seq(Routines) /\ co.batch \in Seq(Routines) /\ co.ready \in Seq(Routines)
      /\ co.curr \in Tokens /\ co.pending \in BOOLEAN
  BY <1>0 DEF CoType
<1>5. woken \subseteq Routines
  BY <1>1, <1>4 DEF ToSet
<1>6. n \in Nat /\ w \in Seq(Routines) /\ Len(w) = n /\ DOMAIN w = 1 .. n
  <2>1. Len(co.tokens) \in Nat /\ n \in Nat
    BY <1>4
  <2>2. w \in [1 .. n -> Routines]
    BY <1>5
  <2> QED
    BY <2>1, <2>2
<1>7. PICK b \in BOOLEAN : b = (co.pending \/ woken # {})
  OBVIOUS
<1>8. PICK f \in [Routines -> RoutineStates] :
        f = [r \in Routines |-> IF r \in woken THEN "ready" ELSE co.st[r]]
  BY <1>4 DEF RoutineStates
<1>9. PICK q \in Seq(Routines) : q = co.ready \o w
  <2>1. co.ready \o w \in Seq(Routines)
    BY <1>4, <1>6, TokensJoined
  <2> QED
    BY <2>1
<1>e. PICK e \in Seq(Routines) : e = <<>>
  BY NoTokens
<1>10. y = [co EXCEPT !.st = f, !.ready = q, !.pending = b, !.tokens = e]
  BY <1>3, <1>7, <1>8, <1>9, <1>e
<1> HIDE DEF y
<1>11. /\ y \in CoType /\ y.prim = co.prim /\ y.canceled = co.canceled /\ y.batch = co.batch
       /\ y.odd = co.odd
       /\ y.ready = q /\ y.cleaning = co.cleaning /\ y.st = f /\ y.pending = b
       /\ y.at = co.at /\ y.join = co.join /\ y.target = co.target /\ y.curr = co.curr
       /\ y.tokens = <<>> /\ y.hold = co.hold
  <2>1. f \in [Routines -> RoutineStates] /\ q \in Seq(Routines) /\ b \in BOOLEAN /\ e \in Seq(Routines)
    OBVIOUS
  <2>2. y \in CoType
    BY ONLY <1>0, <1>10, <2>1 DEF CoType
  <2> QED
    BY ONLY <1>0, <1>10, <1>e, <2>2 DEF CoType
<1>12. /\ \A i \in DOMAIN q : q[i] \in Routines
       /\ \A i \in DOMAIN q : \/ i \in DOMAIN co.ready /\ q[i] = co.ready[i]
                              \/ i - Len(co.ready) \in 1 .. n /\ q[i] = w[i - Len(co.ready)] /\ i \in Int
                                 /\ i > Len(co.ready)
       /\ \A i \in DOMAIN co.ready : i \in DOMAIN q /\ q[i] = co.ready[i] /\ i \in Int /\ i <= Len(co.ready)
       /\ \A i \in 1 .. n : i + Len(co.ready) \in DOMAIN q /\ q[i + Len(co.ready)] = w[i]
       /\ Len(co.ready) \in Nat
  <2>1. PICK a \in Seq(Routines) : a = co.ready
    BY <1>4
  <2>2. PICK v \in Seq(Routines) : v = w
    BY <1>6
  <2>3. /\ a \o v \in Seq(Routines) /\ Len(a) \in Nat
        /\ \A i \in DOMAIN (a \o v) :
             \/ i \in DOMAIN a /\ (a \o v)[i] = a[i]
             \/ /\ i - Len(a) \in 1 .. Len(v) /\ (a \o v)[i] = v[i - Len(a)] /\ i \in Int
                /\ i > Len(a)
        /\ \A i \in DOMAIN a : i \in DOMAIN (a \o v) /\ (a \o v)[i] = a[i] /\ i \in Int /\ i <= Len(a)
        /\ \A i \in 1 .. Len(v) : i + Len(a) \in DOMAIN (a \o v) /\ (a \o v)[i + Len(a)] = v[i]
        /\ \A i \in DOMAIN (a \o v) : (a \o v)[i] \in Routines
    BY TokensJoined, Zenon
  <2>4. a \o v = q /\ Len(v) = n
    BY <1>6, <1>9, <2>1, <2>2, Zenon
  <2> QED
    BY <2>1, <2>2, <2>3, <2>4, Zenon
<1>13. ASSUME NEW i \in 1 .. n, NEW j \in 1 .. n, w[i] = w[j] PROVE i = j
  <2>1. \A k \in DOMAIN co.tokens : k \in 1 .. k
    BY <1>4
  <2>2. ~(i < j) /\ ~(j < i)
    BY <1>3, <1>13, <2>1
  <2> QED
    BY <1>6, <2>2
<1>14. /\ \A r \in Routines : Calm(y, r) <=> Calm(co, r)
       /\ \A r \in Routines : Alive(y, r) <=> Alive(co, r)
       /\ \A r \in Routines : r \notin woken => y.st[r] = co.st[r]
       /\ \A r \in woken : y.st[r] = "ready" /\ Alive(co, r) /\ co.st[r] # "ready" /\ r \in Routines
  BY <1>1, <1>4, <1>5, <1>8, <1>11 DEF Calm, Alive
<1>15. ASSUME NEW r \in woken, Calm(co, r)
       PROVE co.st[r] = "suspend" /\ co.at[r] \in {"lock", "acquire", "broadcast"}
  <2>1. PICK i \in DOMAIN co.tokens : co.tokens[i] = r
    BY <1>1 DEF ToSet
  <2> QED
    BY <1>15, <2>1 DEF CoInv, Ordered, Waits
<1>16. Queued(y)
  <2> SUFFICES ASSUME NEW r \in Routines, y.st[r] = "ready"
               PROVE r \in ToSet(y.batch) \/ (r \in ToSet(y.ready) /\ y.pending) \/ y.cleaning
    BY DEF Queued
  <2>1. CASE r \in woken
    <3>1. PICK i \in 1 .. n : w[i] = r
      BY <1>3, <1>6, <2>1 DEF ToSet
    <3>2. r \in ToSet(q)
      BY <1>12, <3>1 DEF ToSet
    <3>3. y.pending
      BY <1>7, <1>11, <2>1
    <3> QED
      BY <1>11, <3>2, <3>3
  <2>2. CASE r \notin woken
    <3>1. r \in ToSet(co.batch) \/ (r \in ToSet(co.ready) /\ co.pending) \/ co.cleaning
      BY <1>14, <2>2 DEF CoInv, Ordered, Queued
    <3>2. ToSet(co.ready) \subseteq ToSet(q)
      BY <1>12 DEF ToSet
    <3> QED
      BY <1>7, <1>11, <3>1, <3>2
  <2> QED
    BY <2>1, <2>2
<1>17. Fresh(y)
  BY <1>11, <1>14 DEF CoInv, Ordered, Fresh
<1>18. Current(y)
  <2> SUFFICES ASSUME y.curr # Nobody
               PROVE y.st[y.curr] \in {"running", "ready"} /\ (Calm(y, y.curr) => y.st[y.curr] = "running")
    BY DEF Current
  <2>1. co.curr \in Routines /\ co.st[co.curr] \in {"running", "ready"}
        /\ (Calm(co, co.curr) => co.st[co.curr] = "running")
    BY <1>4, <1>11 DEF CoInv, Ordered, Current, Tokens
  <2> QED
    BY <1>11, <1>14, <1>15, <2>1
<1>19. Swept(y)
  BY <1>11, <1>14 DEF CoInv, Ordered, Swept
<1>20. ASSUME NEW r \in woken, Calm(co, r)
       PROVE (\A i \in DOMAIN co.ready : co.ready[i] # r) /\ \A i \in DOMAIN co.batch : co.batch[i] # r
  BY <1>15, <1>20 DEF CoInv, Ordered, Lines
<1>21. Once(y, y.ready)
  <2> SUFFICES ASSUME NEW i \in DOMAIN q, NEW j \in DOMAIN q, Calm(co, q[i]), q[i] = q[j]
               PROVE i = j
    BY <1>11, <1>12, <1>14 DEF Once
  <2>1. CASE i \in DOMAIN co.ready /\ j \in DOMAIN co.ready
    BY <1>12, <2>1 DEF CoInv, Ordered, Lines, Once
  <2>2. CASE i \notin DOMAIN co.ready
    <3>1. i - Len(co.ready) \in 1 .. n /\ q[i] = w[i - Len(co.ready)] /\ i \in Int
      BY <1>12, <2>2
    <3>2. q[i] \in woken
      BY <3>1
    <3>3. j \notin DOMAIN co.ready
      BY <1>12, <1>20, <3>2
    <3>4. j - Len(co.ready) \in 1 .. n /\ q[j] = w[j - Len(co.ready)] /\ j \in Int
      BY <1>12, <3>3
    <3>5. i - Len(co.ready) = j - Len(co.ready)
      BY <1>13, <3>1, <3>4
    <3> QED
      BY <1>12, <3>1, <3>4, <3>5
  <2>3. CASE j \notin DOMAIN co.ready
    <3>1. j - Len(co.ready) \in 1 .. n /\ q[j] = w[j - Len(co.ready)] /\ j \in Int
      BY <1>12, <2>3
    <3>2. q[j] \in woken
      BY <3>1
    <3>3. i \notin DOMAIN co.ready
      BY <1>12, <1>20, <3>2
    <3> QED
      BY <2>2, <3>3
  <2> QED
    BY <2>1, <2>2, <2>3
<1>22. Lines(y)
  <2>1. Once(y, y.batch)
    BY <1>4, <1>11, <1>14 DEF CoInv, Ordered, Lines, Once
  <2>2. ASSUME NEW i \in DOMAIN y.batch, Calm(y, y.batch[i])
        PROVE y.st[y.batch[i]] = "ready" /\ \A j \in DOMAIN y.ready : y.ready[j] # y.batch[i]
    <3>1. co.batch[i] \in Routines /\ Calm(co, co.batch[i]) /\ i \in DOMAIN co.batch
      BY <1>4, <1>11, <1>14, <2>2
    <3>2. co.batch[i] \notin woken /\ co.st[co.batch[i]] = "ready"
          /\ \A j \in DOMAIN co.ready : co.ready[j] # co.batch[i]
      BY <1>20, <3>1 DEF CoInv, Ordered, Lines
    <3>3. ASSUME NEW j \in DOMAIN q PROVE q[j] # co.batch[i]
      <4>1. CASE j \in DOMAIN co.ready
        BY <1>12, <3>2, <4>1
      <4>2. CASE j \notin DOMAIN co.ready
        <5>1. q[j] \in woken
          BY <1>12, <4>2
        <5> QED
          BY <3>2, <5>1
      <4> QED
        BY <4>1, <4>2
    <3> QED
      BY <1>11, <1>14, <3>1, <3>2, <3>3
  <2>3. ASSUME NEW i \in DOMAIN q, Calm(y, q[i]) PROVE y.st[q[i]] = "ready"
    <3>1. CASE i \in DOMAIN co.ready
      <4>1. q[i] = co.ready[i] /\ q[i] \in Routines /\ Calm(co, co.ready[i])
        BY <1>4, <1>12, <1>14, <2>3, <3>1
      <4>2. co.st[q[i]] = "ready"
        BY <3>1, <4>1 DEF CoInv, Ordered, Lines
      <4> QED
        BY <1>14, <4>1, <4>2
    <3>2. CASE i \notin DOMAIN co.ready
      BY <1>12, <1>14, <3>2
    <3> QED
      BY <3>1, <3>2
  <2> QED
    BY <1>11, <1>21, <2>1, <2>2, <2>3 DEF Lines
<1>23. Waits(y)
  BY <1>11 DEF Waits, Once
<1>24. Locked(y)
  BY <1>0, <1>11 DEF Locked
<1>25. JoinKept(y)
  <2> SUFFICES ASSUME NEW t \in Routines, Alive(y, t), y.join[t] # Nobody, Calm(y, y.join[t])
               PROVE /\ y.st[y.join[t]] = "suspend" /\ y.at[y.join[t]] = "join"
                     /\ y.target[y.join[t]] = t
    BY DEF JoinKept
  <2>1. co.join[t] \in Routines /\ Calm(co, co.join[t]) /\ Alive(co, t)
    BY <1>4, <1>11, <1>14 DEF Tokens
  <2>2. co.st[co.join[t]] = "suspend" /\ co.at[co.join[t]] = "join" /\ co.target[co.join[t]] = t
    BY <1>11, <2>1 DEF CoInv, Ordered, JoinKept
  <2>3. co.join[t] \notin woken
    BY <1>15, <2>1, <2>2
  <2> QED
    BY <1>11, <1>14, <2>1, <2>2, <2>3
<1>26. Joining(y, Routines)
  <2> SUFFICES ASSUME NEW r \in Routines, y.at[r] = "join", Calm(y, r)
               PROVE /\ y.target[r] \in Routines
                     /\ y.st[r] = "suspend" => Alive(y, y.target[r]) /\ y.join[y.target[r]] = r
                     /\ y.st[r] # "suspend" => y.st[y.target[r]] = "dead"
    BY DEF Joining
  <2>1. r \notin woken /\ y.st[r] = co.st[r]
    BY <1>11, <1>14, <1>15
  <2>2. /\ co.target[r] \in Routines
        /\ co.st[r] = "suspend" => Alive(co, co.target[r]) /\ co.join[co.target[r]] = r
        /\ co.st[r] # "suspend" => co.st[co.target[r]] = "dead"
    BY <1>11, <1>14 DEF CoInv, Joining
  <2>3. co.st[co.target[r]] = "dead" => co.target[r] \notin woken
    BY <1>14 DEF Alive
  <2> QED
    BY <1>11, <1>14, <2>1, <2>2, <2>3
<1>27. CoInv(y)
  BY <1>11, <1>16, <1>17, <1>18, <1>19, <1>22, <1>23, <1>24, <1>25, <1>26 DEF CoInv, Ordered
<1> QED
  BY <1>27 DEF y

\* The current routine is back from wait(): it goes on with its call, which may wait again.
LEMMA GoesOn ==
  ASSUME CoInv(co), NEW r \in Routines, goOn(r)
  PROVE  CoInv(co')
<1>0. co \in CoType /\ co.curr = r /\ co.at[r] # "body"
  BY DEF CoInv, Ordered, goOn
<1>1. "body" \in Calls /\ "body" # "join" /\ "body" # "lock" /\ SameScheduler(co, co)
  BY DEF Calls, SameScheduler
<1>2. ASSUME NEW h \in Tokens, h = co.hold \/ co.prim \notin {"all", "any"}, NEW n \in Int,
             NEW c \in SUBSET Conds
      PROVE  CoInv([co EXCEPT !.at[r] = "body", !.hold = h, !.count = n, !.conds = c])
  <2>1. PICK y : y = [co EXCEPT !.at[r] = "body", !.hold = h, !.count = n, !.conds = c]
    OBVIOUS
  <2>2. /\ y \in CoType /\ SameScheduler(co, y) /\ y.st = co.st /\ y.at = [co.at EXCEPT ![r] = "body"]
        /\ y.join = co.join /\ y.target = co.target /\ y.tokens = co.tokens /\ y.curr = r /\ y.hold = h
    BY <1>0, <1>1, <2>1 DEF CoType, SameScheduler
  <2>3. y.hold = co.hold \/ co.prim \notin {"all", "any"}
    BY <1>2, <2>2
  <2>4. PICK a \in Calls : a = "body"
    BY <1>1
  <2>5. /\ a # "join" /\ a # "lock" /\ y.at = [co.at EXCEPT ![r] = a] /\ y.st = co.st
        /\ y.join = co.join /\ y.target = co.target /\ y.tokens = co.tokens /\ y.curr = r
        /\ y \in CoType /\ SameScheduler(co, y) /\ co.curr = r
    BY <1>0, <1>1, <2>2, <2>4
  <2>6. CoInv(y)
    BY <2>3, <2>5, Moves
  <2> QED
    BY <2>1, <2>6
<1>3. co.hold \in Tokens /\ co.count \in Int /\ co.conds \in SUBSET Conds /\ r \in Tokens /\ {} \in SUBSET Conds
      /\ co.count - 1 \in Int
  BY <1>0 DEF CoType, Tokens
<1>4. co = [co EXCEPT !.hold = co.hold, !.count = co.count, !.conds = co.conds]
  BY <1>0 DEF CoType
<1>5. CoInv([co EXCEPT !.at[r] = "body"])
  <2>1. [co EXCEPT !.at[r] = "body"]
          = [co EXCEPT !.at[r] = "body", !.hold = co.hold, !.count = co.count, !.conds = co.conds]
    BY <1>0 DEF CoType
  <2> QED
    BY <1>2, <1>3, <2>1
<1>6. CASE co.at[r] = "lock"
  <2>1. co' = locked(co)
    BY <1>0, <1>6 DEF goOn
  <2>2. CASE r \in co.canceled
    BY <1>0, <1>5, <2>1, <2>2 DEF locked
  <2>3. co.prim \notin {"all", "any"}
    BY <1>6 DEF CoInv, Ordered, Locked
  <2>4. CASE r \notin co.canceled /\ co.hold # Nobody
    <3>1. co' = wait(co, "lock") /\ "lock" \in Calls /\ "lock" # "join"
      BY <1>0, <2>1, <2>4 DEF locked, Calls
    <3> QED
      BY <1>0, <1>1, <2>3, <3>1, Waiting
  <2>5. CASE r \notin co.canceled /\ co.hold = Nobody
    <3>1. co' = [co EXCEPT !.at[r] = "body", !.hold = r, !.count = co.count, !.conds = co.conds]
      BY <1>0, <2>1, <2>5 DEF locked, CoType
    <3> QED
      BY <1>2, <1>3, <2>3, <3>1
  <2> QED
    BY <2>2, <2>4, <2>5
<1>7. CASE co.at[r] = "acquire"
  <2>1. co' = acquired(co)
    BY <1>0, <1>7 DEF goOn
  <2>2. CASE r \in co.canceled
    BY <1>0, <1>5, <2>1, <2>2 DEF acquired
  <2>3. CASE r \notin co.canceled /\ co.count = 0
    <3>1. co' = wait(co, "acquire") /\ "acquire" \in Calls /\ "acquire" # "join" /\ "acquire" # "lock"
      BY <1>0, <2>1, <2>3 DEF acquired, Calls
    <3> QED
      BY <1>0, <1>1, <3>1, Waiting
  <2>4. CASE r \notin co.canceled /\ co.count # 0
    <3>1. co' = [co EXCEPT !.at[r] = "body", !.hold = co.hold, !.count = co.count - 1, !.conds = co.conds]
      BY <1>0, <2>1, <2>4 DEF acquired, CoType
    <3> QED
      BY <1>2, <1>3, <3>1
  <2> QED
    BY <2>2, <2>3, <2>4
<1>8. CASE co.at[r] = "cond"
  <2>1. co' = [co EXCEPT !.at[r] = "body", !.hold = co.hold, !.count = co.count, !.conds = {}]
    BY <1>0, <1>8 DEF goOn, CoType
  <2> QED
    BY <1>2, <1>3, <2>1
<1>9. CASE co.at[r] \notin {"lock", "acquire", "cond"}
  <2>1. co' = [co EXCEPT !.at[r] = "body"]
    BY <1>9 DEF goOn
  <2> QED
    BY <1>5, <2>1
<1> QED
  BY <1>6, <1>7, <1>8, <1>9

-----------------------------------------------------------------------------
(* The theorems                                                            *)

\* A new scheduler.
LEMMA CoInvInit == CoInit => CoSafe
<1> SUFFICES ASSUME NEW p \in Prims, co = NewScheduler(p) PROVE CoInv(co)
  BY DEF CoInit, CoSafe
<1>1. co \in CoType
  BY NewSchedulers
<1>2. /\ co.st = [r \in Routines |-> "new"] /\ co.at = [r \in Routines |-> "start"]
      /\ co.join = [r \in Routines |-> Nobody] /\ co.canceled = {} /\ co.curr = Nobody
      /\ co.batch = <<>> /\ co.cleaning = FALSE
      /\ co.ready = <<>> /\ co.tokens = <<>> /\ co.hold = Nobody
  BY DEF NewScheduler
<1>3. \A r \in Routines : r \notin ToSet(co.ready) \cup ToSet(co.tokens) \cup {co.hold}
  BY <1>2, RoutinesAssumption DEF ToSet
<1> QED
  BY <1>1, <1>2, <1>3, Anew

\* cells_ moves under the foreach() of cleanup().
LEMMA CreatesUnderForeach ==
  ASSUME CoInv(co), createUnderForeach
  PROVE  CoInv(co')
<1>1. co.prim \in Prims
  BY DEF CoInv, Ordered, CoType
<1>2. PICK z : z \in CoType /\ z = NewScheduler(co.prim)
  BY <1>1, NewSchedulers
<1>3. PICK y : y = [z EXCEPT !.crashed = TRUE]
  OBVIOUS
<1>4. /\ y \in CoType /\ y.st = z.st /\ y.at = z.at /\ y.join = z.join
      /\ y.canceled = z.canceled /\ y.curr = z.curr /\ y.batch = z.batch
      /\ y.cleaning = z.cleaning /\ y.ready = z.ready /\ y.tokens = z.tokens /\ y.hold = z.hold
  BY <1>2, <1>3 DEF CoType
<1>5. /\ y.st = [r \in Routines |-> "new"] /\ y.at = [r \in Routines |-> "start"]
      /\ y.join = [r \in Routines |-> Nobody] /\ y.canceled = {} /\ y.curr = Nobody
      /\ y.batch = <<>> /\ y.cleaning = FALSE
      /\ y.ready = <<>> /\ y.tokens = <<>> /\ y.hold = Nobody
  BY <1>2, <1>4 DEF NewScheduler
<1>6. \A r \in Routines : r \notin ToSet(y.ready) \cup ToSet(y.tokens) \cup {y.hold}
  BY <1>5, RoutinesAssumption DEF ToSet
<1>7. CoInv(y)
  BY <1>4, <1>5, <1>6, Anew
<1>8. co' = y
  BY <1>2, <1>3 DEF createUnderForeach
<1> QED
  BY <1>7, <1>8

\* Every step of the routines, of the scheduler and of the loop's thread.
LEMMA CoInvNext == CoSafe /\ [CoNext]_co => CoSafe'
<1> SUFFICES ASSUME CoInv(co), [CoNext]_co PROVE CoInv(co')
  BY DEF CoSafe
<1>1. CASE schedule \/ dispatch \/ cleanup \/ cleanupNext \/ createUnderForeach
  BY <1>1, Schedules, Dispatches, CleansUp, CleansNext, CreatesUnderForeach
<1>2. CASE release \/ send \/ broadcastPost
  BY <1>2, Gives, BroadcastPosts DEF release, send
<1>3. ASSUME NEW v \in Conds, condAdd(v) \/ condPost(v) PROVE CoInv(co')
  <2>1. CASE condAdd(v)
    <3>1. co.conds \cup {v} \in SUBSET Conds
      BY DEF CoInv, Ordered, CoType
    <3>2. co' = [co EXCEPT !.conds = co.conds \cup {v}]
      BY <2>1 DEF condAdd
    <3> QED
      BY <3>1, <3>2, Conditions
  <2> QED
    BY <1>3, <2>1, CondPosts
<1>4. ASSUME NEW r \in Routines,
             create(r, TRUE) \/ create(r, FALSE) \/ resumeByHand(r) \/ cancel(r)
      PROVE CoInv(co')
  BY <1>4, Creates, ResumesByHand, Cancels
<1>5. ASSUME NEW r \in Routines, yield(r) \/ waitCall(r) \/ finish(r) \/ goOn(r)
      PROVE CoInv(co')
  BY <1>5, Yields, WaitsItself, Finishes, GoesOn
<1>6. ASSUME NEW r \in Routines,
             lock(r) \/ unlock(r) \/ acquire(r) \/ receive(r) \/ condWait(r) \/ broadcastWait(r)
      PROVE CoInv(co')
  <2>1. CASE broadcastWait(r)
    <3>1. co.curr = r /\ co' = Queue(co, "broadcast") /\ "broadcast" # "lock"
      BY <2>1 DEF broadcastWait, Body
    <3> QED
      BY <3>1, Queues
  <2> QED
    BY <1>6, <2>1, Locks, Unlocks, Takes, CondWaits DEF acquire, receive
<1>7. ASSUME NEW r \in Routines, NEW t \in Routines, join(r, t) PROVE CoInv(co')
  BY <1>7, Joins
<1>8. CASE UNCHANGED co
  BY <1>8
<1> QED
  BY <1>1, <1>2, <1>3, <1>4, <1>5, <1>6, <1>7, <1>8 DEF CoNext

\* For any number of routines, whatever they call and however they are resumed, cancelled
\* and cleaned up: a routine that is ready will run, for makeRoutineReady() never leaves one
\* in the queue without a schedule() on its way (Scheduler, scheduler.cpp).
THEOREM ReadyRoutinesRun == CoSpec => []ReadyRuns
<1>1. CoSafe => ReadyRuns
  BY DEF CoSafe, CoInv, Ordered, Queued, ReadyRuns
<1> QED
  BY <1>1, CoInvInit, CoInvNext, PTL DEF CoSpec

\* For any number of routines: join() neither returns before the other routine has ended nor
\* sleeps on after it, unless the one in join() is cancelled (Scheduler::join()), or cleanup()
\* may wake it on its own account: it was created while cleanup() ran, or its token is one
\* that an earlier cleanup() left in a queue.
THEOREM JoinsHonestly == CoSpec => []JoinHonest
<1>1. CoSafe => JoinHonest
  <2> SUFFICES ASSUME CoInv(co), NEW r \in Routines, co.at[r] = "join", Alive(co, r),
                      r \notin co.canceled \cup co.odd
               PROVE  co.st[r] = "suspend" <=> Alive(co, co.target[r])
    BY DEF JoinHonest, CoSafe
  <2>1. Calm(co, r)
    BY DEF Calm, Alive
  <2> QED
    BY <2>1 DEF CoInv, Joining, Alive
<1> QED
  BY <1>1, CoInvInit, CoInvNext, PTL DEF CoSpec

-----------------------------------------------------------------------------
(* The TCP client                                                          *)

ClientType ==
  [state : {"none", "inited", "connecting", "connected"}, conn : BOOLEAN, reconnect : BOOLEAN,
   ctor : {"none", "inited", "connecting", "delay"}, write : BOOLEAN, timer : BOOLEAN,
   gaveup : BOOLEAN, broken : BOOLEAN]

\* Nothing is armed by a connector that is not at work.
Armed(S) == (S.write => S.ctor = "connecting") /\ (S.timer => S.ctor = "delay")

\* A connector that works does so for its client, one at rest is ready to start unless it
\* gave up, and what ClientInStep says of one that did not give up.
Paired(S) ==
  /\ S.conn <=> S.state = "connected"
  /\ S.ctor \in {"connecting", "delay"} => S.state = "connecting"
  /\ S.state = "none" => S.ctor = "none"
  /\ ~S.gaveup =>
       /\ S.ctor = "connecting" => S.write
       /\ S.ctor = "delay" => S.timer
       /\ S.state = "connecting" => S.ctor \in {"connecting", "delay"}
       /\ S.state # "none" => S.ctor # "none"
       /\ ~S.broken

ClientInv(S) == S \in ClientType /\ Armed(S) /\ Paired(S)
ClientSafe == ClientInv(cl)

\* connect() by a client that is connecting, with nothing armed.
LEMMA EnterConnecting ==
  ASSUME NEW S \in ClientType, ~S.write, ~S.timer, S.state = "connecting", ~S.conn, ~S.broken,
         NEW T \in enterConnectingState(S)
  PROVE  ClientInv(T)
<1>1. S.conn = FALSE /\ S.write = FALSE /\ S.timer = FALSE /\ S.broken = FALSE
  BY DEF ClientType
<1>2. CASE T = [S EXCEPT !.gaveup = TRUE]
  BY <1>1, <1>2 DEF ClientType, ClientInv, Armed, Paired
<1>3. CASE T = [S EXCEPT !.write = TRUE, !.ctor = "connecting"]
  BY <1>1, <1>3 DEF ClientType, ClientInv, Armed, Paired
<1>4. CASE T = [S EXCEPT !.timer = TRUE, !.ctor = "delay"]
  BY <1>1, <1>4 DEF ClientType, ClientInv, Armed, Paired
<1>5. CASE T = [S EXCEPT !.ctor = "none", !.gaveup = TRUE]
  BY <1>1, <1>5 DEF ClientType, ClientInv, Armed, Paired
<1> QED
  BY <1>2, <1>3, <1>4, <1>5 DEF enterConnectingState, onConnectFail

\* start() of a client that has no connection.
LEMMA ClientStarted ==
  ASSUME NEW S, ClientInv(S), S.state = "inited", ~S.broken, NEW T \in clientStarted(S)
  PROVE  ClientInv(T)
<1>1. PICK R : R = [S EXCEPT !.state = "connecting"]
  OBVIOUS
<1>2. /\ R \in ClientType /\ R.state = "connecting" /\ R.ctor = S.ctor /\ R.gaveup = S.gaveup
      /\ R.conn = FALSE /\ R.write = FALSE /\ R.timer = FALSE /\ R.broken = FALSE
      /\ R.ctor \in {"none", "inited"} /\ (R.ctor = "none" => R.gaveup)
  BY <1>1 DEF ClientInv, ClientType, Armed, Paired
<1>3. CASE R.ctor # "inited"
  <2>1. T = R
    BY <1>1, <1>3 DEF clientStarted, connectorStart
  <2> QED
    BY <1>2, <1>3, <2>1 DEF ClientInv, Armed, Paired
<1>4. CASE R.ctor = "inited"
  <2>1. PICK Q : Q = [R EXCEPT !.gaveup = FALSE]
    OBVIOUS
  <2>2. T \in enterConnectingState(Q)
    BY <1>1, <1>4, <2>1 DEF clientStarted, connectorStart
  <2>3. Q \in ClientType /\ ~Q.write /\ ~Q.timer /\ Q.state = "connecting" /\ ~Q.conn /\ ~Q.broken
    BY <1>2, <2>1 DEF ClientType
  <2> QED
    BY <2>2, <2>3, EnterConnecting
<1> QED
  BY <1>3, <1>4

\* stop() leaves a client with nothing armed.
LEMMA ClientStopped ==
  ASSUME NEW S, ClientInv(S), ~S.broken
  PROVE  /\ ClientInv(clientStopped(S)) /\ clientStopped(S).state \in {"none", "inited"}
         /\ clientStopped(S).ctor \in {"none", "inited"}
<1>1. S \in ClientType /\ Armed(S) /\ Paired(S) /\ S.broken = FALSE
  BY DEF ClientInv, ClientType
<1>2. CASE S.state = "connecting"
  <2>1. PICK R : R = [S EXCEPT !.state = "inited"]
    OBVIOUS
  <2>2. clientStopped(S) = connectorStop(R)
    BY <1>2, <2>1 DEF clientStopped
  <2>3. /\ R \in ClientType /\ R.state = "inited" /\ R.ctor = S.ctor /\ R.conn = FALSE
        /\ R.write = S.write /\ R.timer = S.timer /\ R.gaveup = S.gaveup /\ R.broken = FALSE
    BY <1>1, <1>2, <2>1 DEF ClientType, Paired
  <2>4. CASE R.ctor = "connecting"
    <3>1. connectorStop(R) = [R EXCEPT !.write = FALSE, !.ctor = "inited"]
      BY <2>3, <2>4 DEF connectorStop, exitConnectingState, ClientType
    <3>2. PICK T : T = [R EXCEPT !.write = FALSE, !.ctor = "inited"]
      OBVIOUS
    <3>3. /\ T \in ClientType /\ T.write = FALSE /\ T.ctor = "inited" /\ T.timer = S.timer
          /\ T.state = "inited" /\ T.conn = FALSE /\ T.broken = FALSE
      BY <2>3, <3>2 DEF ClientType
    <3>4. T.timer = FALSE
      BY <1>1, <2>3, <2>4, <3>3 DEF Armed, ClientType
    <3> QED
      BY <2>2, <3>1, <3>2, <3>3, <3>4 DEF ClientInv, Armed, Paired
  <2>5. CASE R.ctor = "delay"
    <3>1. PICK b \in BOOLEAN : b = ~R.timer
      BY <2>3 DEF ClientType
    <3>2. connectorStop(R) = [R EXCEPT !.timer = FALSE, !.broken = b, !.ctor = "inited"]
      BY <2>3, <2>5, <3>1 DEF connectorStop, exitReconnectDelayState, ClientType
    <3>3. PICK T : T = [R EXCEPT !.timer = FALSE, !.broken = b, !.ctor = "inited"]
      OBVIOUS
    <3>4. /\ T \in ClientType /\ T.write = S.write /\ T.ctor = "inited" /\ T.timer = FALSE
          /\ T.state = "inited" /\ T.conn = FALSE /\ T.broken = b /\ T.gaveup = S.gaveup
      BY <2>3, <3>3 DEF ClientType
    <3>5. T.write = FALSE
      BY <1>1, <2>3, <2>5, <3>4 DEF Armed, ClientType
    <3>6. ~T.gaveup => ~T.broken
      BY <1>1, <2>3, <2>5, <3>1, <3>4 DEF Paired
    <3> QED
      BY <2>2, <3>2, <3>3, <3>4, <3>5, <3>6 DEF ClientInv, Armed, Paired
  <2>6. CASE R.ctor \notin {"connecting", "delay"}
    <3>1. connectorStop(R) = R
      BY <2>6 DEF connectorStop
    <3>2. R.ctor \in {"none", "inited"}
      BY <2>3, <2>6 DEF ClientType
    <3> QED
      BY <1>1, <1>2, <2>2, <2>3, <3>1, <3>2 DEF ClientInv, Armed, Paired
  <2> QED
    BY <2>4, <2>5, <2>6
<1>3. CASE S.state = "connected"
  <2>1. PICK T : T = [S EXCEPT !.conn = FALSE, !.state = "inited"]
    OBVIOUS
  <2>2. clientStopped(S) = T
    BY <1>3, <2>1 DEF clientStopped
  <2>3. /\ T \in ClientType /\ T.conn = FALSE /\ T.state = "inited" /\ T.ctor = S.ctor
        /\ T.write = S.write /\ T.timer = S.timer /\ T.gaveup = S.gaveup /\ T.broken = FALSE
    BY <1>1, <2>1 DEF ClientType
  <2>4. S.ctor \in {"none", "inited"}
    BY <1>1, <1>3 DEF Paired, ClientType
  <2> QED
    BY <1>1, <1>3, <2>2, <2>3, <2>4 DEF ClientInv, Armed, Paired
<1>4. CASE S.state \notin {"connecting", "connected"}
  <2>1. clientStopped(S) = S
    BY <1>4 DEF clientStopped
  <2> QED
    BY <1>1, <1>4, <2>1 DEF ClientInv, Paired, ClientType
<1> QED
  BY <1>2, <1>3, <1>4

LEMMA CleanupClient ==
  ASSUME ClientInv(cl), clientCleanup
  PROVE  ClientInv(cl')
<1>1. PICK S : S = clientStopped(cl)
  OBVIOUS
<1>2. ClientInv(S) /\ S.state \in {"none", "inited"} /\ S.ctor \in {"none", "inited"}
  BY <1>1, ClientStopped DEF clientCleanup, Sound
<1>3. /\ S \in ClientType /\ S.write = FALSE /\ S.timer = FALSE /\ S.conn = FALSE
      /\ (~S.gaveup => ~S.broken)
  BY <1>2 DEF ClientInv, ClientType, Armed, Paired
<1>4. PICK R : R = connectorCleanup(S)
  OBVIOUS
<1>5. R = [S EXCEPT !.ctor = "none"]
  <2>1. CASE S.ctor = "none"
    BY <1>3, <1>4, <2>1 DEF connectorCleanup, ClientType
  <2>2. CASE S.ctor = "inited"
    BY <1>3, <1>4, <2>2 DEF connectorCleanup, connectorStop, ClientType
  <2> QED
    BY <1>2, <2>1, <2>2
<1>6. cl' = [R EXCEPT !.reconnect = TRUE, !.state = "none"]
  BY <1>1, <1>4 DEF clientCleanup
<1>7. cl' = [S EXCEPT !.ctor = "none", !.reconnect = TRUE, !.state = "none"]
  BY <1>3, <1>5, <1>6 DEF ClientType
<1>8. /\ cl' \in ClientType /\ cl'.ctor = "none" /\ cl'.state = "none" /\ cl'.write = FALSE
      /\ cl'.timer = FALSE /\ cl'.conn = FALSE /\ cl'.gaveup = S.gaveup /\ cl'.broken = S.broken
  BY <1>3, <1>7 DEF ClientType
<1> QED
  BY <1>3, <1>8 DEF ClientInv, Armed, Paired

LEMMA SocketWritable ==
  ASSUME ClientInv(cl), onSocketWritable
  PROVE  ClientInv(cl')
<1>1. /\ cl \in ClientType /\ Armed(cl) /\ Paired(cl) /\ cl.broken = FALSE /\ cl.write = TRUE
  BY DEF ClientInv, ClientType, onSocketWritable, Sound
<1>2. cl.ctor = "connecting" /\ cl.state = "connecting" /\ cl.conn = FALSE /\ cl.timer = FALSE
  BY <1>1 DEF Armed, Paired, ClientType
<1>3. CASE cl' = [cl EXCEPT !.write = FALSE, !.ctor = "inited", !.conn = TRUE, !.state = "connected"]
  <2>1. /\ cl' \in ClientType /\ cl'.write = FALSE /\ cl'.ctor = "inited" /\ cl'.conn = TRUE
        /\ cl'.state = "connected" /\ cl'.timer = FALSE /\ cl'.broken = FALSE
    BY <1>1, <1>2, <1>3 DEF ClientType
  <2> QED
    BY <2>1 DEF ClientInv, Armed, Paired
<1>4. CASE cl' = [cl EXCEPT !.write = FALSE, !.timer = TRUE, !.ctor = "delay"]
  <2>1. /\ cl' \in ClientType /\ cl'.write = FALSE /\ cl'.ctor = "delay" /\ cl'.conn = FALSE
        /\ cl'.state = "connecting" /\ cl'.timer = TRUE /\ cl'.broken = FALSE
    BY <1>1, <1>2, <1>4 DEF ClientType
  <2> QED
    BY <2>1 DEF ClientInv, Armed, Paired
<1>5. CASE cl' = [cl EXCEPT !.write = FALSE, !.gaveup = TRUE]
  <2>1. /\ cl' \in ClientType /\ cl'.write = FALSE /\ cl'.ctor = "connecting" /\ cl'.conn = FALSE
        /\ cl'.state = "connecting" /\ cl'.timer = FALSE /\ cl'.gaveup = TRUE
    BY <1>1, <1>2, <1>5 DEF ClientType
  <2> QED
    BY <2>1 DEF ClientInv, Armed, Paired
<1>6. PICK S : S = exitConnectingState(cl)
  OBVIOUS
<1>7. S = [cl EXCEPT !.write = FALSE]
  BY <1>6 DEF exitConnectingState
<1>8. \/ cl' = [S EXCEPT !.ctor = "inited", !.conn = TRUE, !.state = "connected"]
      \/ cl' = [S EXCEPT !.timer = TRUE, !.ctor = "delay"]
      \/ cl' = [cl EXCEPT !.write = FALSE, !.gaveup = TRUE]
  BY <1>6 DEF onSocketWritable, onConnectFail
<1> QED
  BY <1>1, <1>3, <1>4, <1>5, <1>7, <1>8 DEF ClientType

LEMMA DelayTimeout ==
  ASSUME ClientInv(cl), onDelayTimeout
  PROVE  ClientInv(cl')
<1>1. /\ cl \in ClientType /\ Armed(cl) /\ Paired(cl) /\ cl.broken = FALSE /\ cl.timer = TRUE
  BY DEF ClientInv, ClientType, onDelayTimeout, Sound
<1>2. cl.ctor = "delay" /\ cl.state = "connecting" /\ cl.conn = FALSE /\ cl.write = FALSE
  BY <1>1 DEF Armed, Paired, ClientType
<1>3. PICK S : S = exitReconnectDelayState(cl)
  OBVIOUS
<1>4. S = [cl EXCEPT !.timer = FALSE, !.broken = FALSE]
  BY <1>1, <1>3 DEF exitReconnectDelayState
<1>5. S \in ClientType /\ ~S.write /\ ~S.timer /\ S.state = "connecting" /\ ~S.conn /\ ~S.broken
  BY <1>1, <1>2, <1>4 DEF ClientType
<1> QED
  BY <1>3, <1>5, EnterConnecting DEF onDelayTimeout

LEMMA TcpDisconnected ==
  ASSUME ClientInv(cl), onTcpDisconnected
  PROVE  ClientInv(cl')
<1>1. /\ cl \in ClientType /\ Armed(cl) /\ Paired(cl) /\ cl.broken = FALSE /\ cl.conn = TRUE
      /\ cl.state = "connected" /\ cl.ctor \in {"none", "inited"}
  BY DEF ClientInv, ClientType, onTcpDisconnected, Sound, Paired
<1>2. PICK S : S = [cl EXCEPT !.conn = FALSE, !.state = "inited"]
  OBVIOUS
<1>3. /\ S \in ClientType /\ S.conn = FALSE /\ S.state = "inited" /\ S.ctor = cl.ctor
      /\ S.write = cl.write /\ S.timer = cl.timer /\ S.gaveup = cl.gaveup /\ S.broken = FALSE
  BY <1>1, <1>2 DEF ClientType
<1>4. ClientInv(S) /\ ~S.broken
  BY <1>1, <1>3 DEF ClientInv, Armed, Paired
<1>5. cl' \in clientStarted(S) \/ cl' = S
  BY <1>2 DEF onTcpDisconnected
<1> QED
  BY <1>3, <1>4, <1>5, ClientStarted

LEMMA InitializeClient ==
  ASSUME ClientInv(cl), NEW good \in BOOLEAN, clientInitialize(good)
  PROVE  ClientInv(cl')
<1>1. /\ cl \in ClientType /\ Armed(cl) /\ Paired(cl) /\ cl.state = "none" /\ cl.ctor = "none"
      /\ cl.broken = FALSE
  BY DEF ClientInv, ClientType, clientInitialize, Paired, Sound
<1>2. PICK c, g : /\ c = IF good THEN "inited" ELSE "none"
                  /\ g = (cl.gaveup \/ ~good)
  OBVIOUS
<1>3. cl' = [cl EXCEPT !.state = "inited", !.gaveup = g, !.ctor = c]
  BY <1>1, <1>2 DEF clientInitialize
<1>4. g \in BOOLEAN /\ c \in {"none", "inited"} /\ (c = "none" => g)
  BY <1>1, <1>2 DEF ClientType
<1>5. /\ cl' \in ClientType /\ cl'.state = "inited" /\ cl'.ctor = c /\ cl'.conn = cl.conn
      /\ cl'.write = cl.write /\ cl'.timer = cl.timer /\ cl'.broken = FALSE /\ cl'.gaveup = g
  BY <1>1, <1>3, <1>4 DEF ClientType
<1> QED
  BY <1>1, <1>4, <1>5 DEF ClientInv, Armed, Paired

LEMMA AutoReconnect ==
  ASSUME ClientInv(cl), NEW b \in BOOLEAN, setAutoReconnect(b)
  PROVE  ClientInv(cl')
<1>1. cl \in ClientType /\ Armed(cl) /\ Paired(cl)
  BY DEF ClientInv
<1>2. /\ cl' \in ClientType /\ cl'.state = cl.state /\ cl'.ctor = cl.ctor /\ cl'.conn = cl.conn
      /\ cl'.write = cl.write /\ cl'.timer = cl.timer /\ cl'.broken = cl.broken
      /\ cl'.gaveup = cl.gaveup
  BY <1>1 DEF ClientType, setAutoReconnect
<1> QED
  BY <1>1, <1>2 DEF ClientInv, Armed, Paired

\* Client and connector stay in step, whatever the sockets, the timer and the user do.
THEOREM TcpClientInStep == TcpClientSpec => []ClientInStep
<1>1. TcpClientInit => ClientSafe
  BY DEF TcpClientInit, ClientSafe, ClientInv, ClientType, Armed, Paired
<1>2. ClientSafe /\ [TcpClientNext]_cl => ClientSafe'
  <2> SUFFICES ASSUME ClientInv(cl), [TcpClientNext]_cl PROVE ClientInv(cl')
    BY DEF ClientSafe
  <2>1. CASE \E good \in BOOLEAN : clientInitialize(good)
    BY <2>1, InitializeClient
  <2>2. CASE clientStart
    BY <2>2, ClientStarted DEF clientStart, Sound
  <2>3. CASE clientStop
    BY <2>3, ClientStopped DEF clientStop, Sound
  <2>4. CASE clientCleanup
    BY <2>4, CleanupClient
  <2>5. CASE onSocketWritable
    BY <2>5, SocketWritable
  <2>6. CASE onDelayTimeout
    BY <2>6, DelayTimeout
  <2>7. CASE onTcpDisconnected
    BY <2>7, TcpDisconnected
  <2>8. CASE \E b \in BOOLEAN : setAutoReconnect(b)
    BY <2>8, AutoReconnect
  <2>9. CASE UNCHANGED cl
    BY <2>9
  <2> QED
    BY <2>1, <2>2, <2>3, <2>4, <2>5, <2>6, <2>7, <2>8, <2>9 DEF TcpClientNext
<1>3. ClientSafe => ClientInStep
  BY DEF ClientSafe, ClientInv, Armed, Paired, ClientInStep
<1> QED
  BY <1>1, <1>2, <1>3, PTL DEF TcpClientSpec
=============================================================================
