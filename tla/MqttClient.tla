----------------------------- MODULE MqttClient -----------------------------
(***************************************************************************)
(* mqtt::Client: the state machine around libmosquitto.  Connecting blocks,*)
(* so a thread of its own does it and posts the result to the loop with    *)
(* runInLoop(); a timer that ticks every second drives what else there is. *)
(*                                                                         *)
(* libmosquitto is external: connecting succeeds or fails, the broker      *)
(* accepts or not, the connection is lost at any time; its callbacks come  *)
(* from mosquitto_loop_read(), _write() and _misc(), so only through an    *)
(* enabled event or the timer.  Each socket it makes has a number.         *)
(***************************************************************************)
EXTENDS Integers, SequencesExt

CONSTANTS MaxWait,      \* bound: seconds to wait before connecting again
          MaxPosted,    \* bound: results in the loop's queue
          MaxSockets    \* bound: sockets made

ASSUME WaitAssumption == MaxWait \in Nat

VARIABLE mq

\* wait: auto_reconnect_wait_sec; auto: auto_reconnect_enable
MqttInit ==
  \E auto \in BOOLEAN, sec \in 0 .. MaxWait :
    mq = [auto |-> auto, wait |-> sec,
          state |-> "none", timer |-> FALSE, remain |-> 0,
          thread |-> "null",        \* sp_thread: null, running, or done (not joined yet)
          first |-> FALSE,          \* it was made by start(), not by a tick
          ret |-> FALSE,            \* what it got
          posted |-> <<>>,          \* its results in the loop's queue: [ret, first]
          made |-> 0,               \* sockets made
          sock |-> 0,               \* mosquitto_socket(); 0 for none
          read |-> 0,               \* the socket the read event is enabled for; 0 for none
          revived |-> FALSE]        \* history: the broker's answer came after stop()

Connected(S) == S.state \in {"tcp", "mqtt"}

-----------------------------------------------------------------------------
(* The connecting thread                                                   *)

newThread(S, isfirst) == [S EXCEPT !.thread = "running", !.first = isfirst]

\* mosquitto_connect_async() or _reconnect_async() returns, then runInLoop()
connectDone(S, ok) ==
  LET n == IF ok THEN S.made + 1 ELSE S.made
  IN [S EXCEPT !.thread = "done", !.ret = ok, !.made = n, !.sock = IF ok THEN n ELSE 0,
               !.posted = Append(@, [ret |-> ok, first |-> S.first])]

CanConnect == mq.made < MaxSockets /\ Len(mq.posted) < MaxPosted

mqttThread(ok) ==
  /\ mq.thread = "running" /\ CanConnect
  /\ mq' = connectDone(mq, ok)

\* join() of a thread that is still connecting waits for it
Joined(S) ==
  IF S.thread # "running" THEN {[S EXCEPT !.thread = "null"]}
  ELSE {[connectDone(S, ok) EXCEPT !.thread = "null"] : ok \in BOOLEAN}

-----------------------------------------------------------------------------
(* Calls of the user                                                       *)

mqttInitialize == mq.state = "none" /\ mq' = [mq EXCEPT !.state = "inited"]

\* mosquitto_reinitialise() closes the socket of the former life
mqttStart ==
  /\ mq.state \in {"inited", "end"}
  /\ mq' = newThread([mq EXCEPT !.state = "connecting", !.sock = 0], TRUE)

stoppedFrom(S) ==
  IF Connected(S) THEN {S} ELSE IF S.thread = "null" THEN {S} ELSE Joined(S)

mqttStop ==
  /\ mq.state \notin {"none", "inited", "end"}
  /\ mq.thread = "running" => CanConnect
  /\ mq' \in {[S EXCEPT !.timer = FALSE, !.state = "inited", !.revived = FALSE] : S \in stoppedFrom(mq)}

mqttCleanup ==
  /\ mq.state # "none"
  /\ mq.thread = "running" => CanConnect
  /\ IF mq.state \in {"inited", "end"} THEN mq' = [mq EXCEPT !.state = "none", !.revived = FALSE]
     ELSE mq' \in {[S EXCEPT !.timer = FALSE, !.state = "none", !.revived = FALSE] : S \in stoppedFrom(mq)}

-----------------------------------------------------------------------------
(* Callbacks of the loop                                                   *)

tryReconnect(S) ==
  CASE ~S.auto               -> [S EXCEPT !.state = "end"]
    [] S.auto /\ S.wait > 0  -> [S EXCEPT !.remain = S.wait, !.state = "waiting"]
    [] OTHER                 -> [S EXCEPT !.remain = 0, !.state = "connecting"]

\* enableSocketRead() does nothing for an event that is enabled already
enableSocketRead(S) == IF S.sock = 0 \/ S.read # 0 THEN S ELSE [S EXCEPT !.read = S.sock]

\* stop() with the thread joined already; it does nothing in state end
stoppedEarly(S) ==
  IF S.state = "end" THEN S ELSE [S EXCEPT !.timer = FALSE, !.state = "inited"]

\* onTcpConnectDone(): ignored when the thread is gone; the thread it joins need not be
\* the one the result is from.  The connect_fail callback may call stop().
onTcpConnectDone(S, f) ==
  IF S.thread = "null" THEN {S}
  ELSE UNION {IF f.ret THEN {[enableSocketRead(T) EXCEPT !.state = "tcp"]}
              ELSE {tryReconnect(T), stoppedEarly(tryReconnect(T))} :
                T \in Joined(S)}

\* mutant: the timer is not started after the first connect
mqttPostedNoTimer ==
  LET f == Head(mq.posted)
  IN /\ mq.posted # <<>>
     /\ mq.thread = "running" => CanConnect
     /\ mq' \in onTcpConnectDone([mq EXCEPT !.posted = Tail(@)], f)

\* the posted function: enableTimer() follows for a result of start(), come what may
mqttPosted ==
  LET f == Head(mq.posted)
  IN /\ mq.posted # <<>>
     /\ mq.thread = "running" => CanConnect
     /\ mq' \in {[S EXCEPT !.timer = @ \/ f.first] :
                   S \in onTcpConnectDone([mq EXCEPT !.posted = Tail(@)], f)}

\* onTimerTick(), when it does something
mqttTick ==
  /\ mq.timer
  /\ \/ mq.state = "connecting" /\ mq.thread = "null" /\ mq' = newThread(mq, FALSE)
     \/ /\ mq.state = "waiting" /\ mq.remain > 0
        /\ mq' = [mq EXCEPT !.remain = @ - 1, !.state = IF mq.remain = 1 THEN "connecting" ELSE @]
     \/ mq.state = "end" /\ mq' = [mq EXCEPT !.timer = FALSE]

\* libmosquitto has a chance to call back: by the read event, or by loop_misc()
Served == mq.sock # 0 /\ (mq.read = mq.sock \/ (mq.timer /\ Connected(mq)))

onConnected ==
  /\ Served /\ mq.state # "mqtt"
  /\ mq' = [mq EXCEPT !.state = "mqtt", !.revived = @ \/ mq.state # "tcp"]

\* handleDisconnectEvent(): the connection is lost, or was given up by stop()
onDisconnected ==
  LET S == [mq EXCEPT !.sock = 0, !.read = 0]
  IN /\ Served
     /\ mq' = IF Connected(mq) THEN tryReconnect(S) ELSE S

MqttNext ==
  \/ mqttInitialize \/ mqttStart \/ mqttStop \/ mqttCleanup
  \/ mqttPosted \/ mqttTick \/ onConnected \/ onDisconnected
  \/ \E ok \in BOOLEAN : mqttThread(ok)

MqttSpec == MqttInit /\ [][MqttNext]_mq

-----------------------------------------------------------------------------
(* Properties                                                              *)

\* A client that has to connect never falls asleep: while it connects or waits to connect
\* again, its thread is at work, or a result is on its way, or the timer runs (and has
\* seconds left to count).  And whenever start() is accepted the former thread was joined:
\* to delete it otherwise would end the program.  Stops, starts, lost connections and late
\* results in between do not change either; only the broker's answer to a client that was
\* stopped does, which brings it back to life without its timer.
MqttMoves ==
  LET coming == mq.thread # "null" \/ \E i \in DOMAIN mq.posted : mq.posted[i].first
  IN ~mq.revived =>
       /\ mq.state = "connecting" => coming \/ mq.timer
       /\ mq.state = "waiting"    => mq.remain > 0 /\ (coming \/ mq.timer)
       /\ mq.state \in {"inited", "end"} => mq.thread = "null"
=============================================================================
