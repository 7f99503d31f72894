------------------------------ MODULE TcpClient ------------------------------
(***************************************************************************)
(* network::TcpClient and the TcpConnector it owns.  The connector makes a *)
(* socket, waits until it is writable, and after a failure waits for a     *)
(* timer before it tries again; the client starts it again whenever the    *)
(* connection is lost.  Sockets and the far end are external: a step takes *)
(* any result they may give.  TcpClient sets neither a number of tries nor *)
(* a connect-fail callback, so the connector tries for ever.               *)
(***************************************************************************)

VARIABLE cl

\* conn: sp_connection; ctor: the connector's state; write, timer: its events are there and
\* enabled.  gaveup: the connector stopped trying by itself since its last start(), for
\* want of a socket, of SO_ERROR, or of a good address, or never had an address to try.  broken: a null pointer was used.
TcpClientInit ==
  cl = [state |-> "none", conn |-> FALSE, reconnect |-> TRUE,
        ctor |-> "none", write |-> FALSE, timer |-> FALSE, gaveup |-> FALSE, broken |-> FALSE]

Sound == ~cl.broken

-----------------------------------------------------------------------------
(* TcpConnector: functions from the state to the next ones                 *)

\* enterReconnectDelayState(), as there is no limit to the tries
onConnectFail(S) == [S EXCEPT !.timer = TRUE, !.ctor = "delay"]

\* no socket; connected or in progress; a temporary error; any other error
enterConnectingState(S) ==
  {[S EXCEPT !.gaveup = TRUE],
   [S EXCEPT !.write = TRUE, !.ctor = "connecting"],
   onConnectFail(S),
   [S EXCEPT !.ctor = "none", !.gaveup = TRUE]}

exitConnectingState(S) == [S EXCEPT !.write = FALSE]

\* the timer is deleted by onDelayTimeout() too; without it this is a null pointer
exitReconnectDelayState(S) == [S EXCEPT !.timer = FALSE, !.broken = ~S.timer]

connectorStart(S) ==
  IF S.ctor # "inited" THEN {S}
  ELSE enterConnectingState([S EXCEPT !.gaveup = FALSE])

\* mutant: stop() forgets the timer of the delay
connectorStopTimerOn(S) ==
  CASE S.ctor = "connecting" -> [exitConnectingState(S) EXCEPT !.ctor = "inited"]
    [] S.ctor = "delay"      -> [S EXCEPT !.ctor = "inited"]
    [] OTHER -> S

connectorStop(S) ==
  CASE S.ctor = "connecting" -> [exitConnectingState(S) EXCEPT !.ctor = "inited"]
    [] S.ctor = "delay"      -> [exitReconnectDelayState(S) EXCEPT !.ctor = "inited"]
    [] OTHER -> S

connectorCleanup(S) ==
  IF S.ctor = "none" THEN S
  ELSE [connectorStop(S) EXCEPT !.ctor = "none"]

-----------------------------------------------------------------------------
(* TcpClient                                                               *)

\* with an address that could not be parsed the connector stays as it is
clientInitialize(good) ==
  /\ Sound /\ cl.state = "none"
  /\ cl' = [cl EXCEPT !.state = "inited", !.gaveup = @ \/ ~good,
                      !.ctor = IF @ = "none" /\ good THEN "inited" ELSE @]

setAutoReconnect(b) == Sound /\ cl' = [cl EXCEPT !.reconnect = b]

clientStarted(S) == connectorStart([S EXCEPT !.state = "connecting"])

clientStart == Sound /\ cl.state = "inited" /\ cl' \in clientStarted(cl)

clientStopped(S) ==
  CASE S.state = "connecting" -> connectorStop([S EXCEPT !.state = "inited"])
    [] S.state = "connected"  -> [S EXCEPT !.conn = FALSE, !.state = "inited"]
    [] OTHER -> S

clientStop == Sound /\ cl.state \in {"connecting", "connected"} /\ cl' = clientStopped(cl)

clientCleanup ==
  /\ Sound /\ cl.state # "none"
  /\ cl' = [connectorCleanup(clientStopped(cl)) EXCEPT !.reconnect = TRUE, !.state = "none"]

\* the one-shot write event fires: connected, refused, or SO_ERROR cannot be read
onSocketWritable ==
  LET S == exitConnectingState(cl)
  IN /\ Sound /\ cl.write
     /\ \/ cl' = [S EXCEPT !.ctor = "inited", !.conn = TRUE, !.state = "connected"]
        \/ cl' = onConnectFail(S)
        \/ cl' = [cl EXCEPT !.write = FALSE, !.gaveup = TRUE]

onDelayTimeout ==
  /\ Sound /\ cl.timer
  /\ cl' \in enterConnectingState(exitReconnectDelayState(cl))

\* the connection is lost; disconnected_cb may then call stop(), which is a step of its own
onTcpDisconnected ==
  LET S == [cl EXCEPT !.conn = FALSE, !.state = "inited"]
  IN /\ Sound /\ cl.conn
     /\ IF cl.reconnect THEN cl' \in clientStarted(S) ELSE cl' = S

TcpClientNext ==
  \/ clientStart \/ clientStop \/ clientCleanup
  \/ onSocketWritable \/ onDelayTimeout \/ onTcpDisconnected
  \/ \E b \in BOOLEAN : clientInitialize(b) \/ setAutoReconnect(b)

TcpClientSpec == TcpClientInit /\ [][TcpClientNext]_cl

-----------------------------------------------------------------------------
(* Properties                                                              *)

\* Client and connector stay in step through starts, stops, losses and retries: there is a
\* connection exactly when the client is connected; a connector that connects or waits has
\* its event or timer armed, and nothing is armed otherwise; and a client that is
\* connecting has a connector at work.  The exceptions are those the code has no answer
\* for: the connector gave up without a word or was given no address, and only then can a
\* connecting client have no connector at work, or stop() meet a null timer.
ClientInStep ==
  /\ cl.conn <=> cl.state = "connected"
  /\ cl.write => cl.ctor = "connecting"
  /\ cl.timer => cl.ctor = "delay"
  /\ cl.ctor \in {"connecting", "delay"} => cl.state = "connecting"
  /\ \/ cl.gaveup
     \/ /\ cl.ctor = "connecting" => cl.write
        /\ cl.ctor = "delay" => cl.timer
        /\ cl.state = "connecting" => cl.ctor \in {"connecting", "delay"}
        /\ ~cl.broken
=============================================================================
