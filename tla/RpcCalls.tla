------------------------------ MODULE RpcCalls ------------------------------
(***************************************************************************)
(* jsonrpc::Rpc on both sides of a connection, with the TimeoutMonitor     *)
(* each of its two tables has.  The transport under Proto is external: it  *)
(* loses, repeats and reorders messages.  A step is a callback of the loop *)
(* or a call of the user; a request callback may send a further request.   *)
(***************************************************************************)
EXTENDS TimeoutMonitor

CONSTANT MaxIds         \* bound: requests sent (id_alloc_)

ASSUME RpcAssumption == MaxIds \in Nat

VARIABLE rpc

RpcInit ==
  rpc = [alloc   |-> 0,         \* id_alloc_
         pending |-> {},        \* request_callback_
         up      |-> TRUE,      \* between initialize() and cleanup()
         watch   |-> TRUE,      \* request_timeout_ has its callback: only the constructor sets it
         called  |-> [i \in 1 .. MaxIds |-> 0],   \* history: calls of each callback
         dropped |-> {},        \* history: requests cleanup() forgot
         reqs    |-> NewRing,   \* request_timeout_
         net     |-> {},        \* messages under way, "request" or "respond"; kept when repeated
         tobe    |-> {},        \* tobe_respond_ of the other side
         asked   |-> {},        \* history: requests its service answers later; bound: once each
         resps   |-> NewRing]   \* respond_timeout_

-----------------------------------------------------------------------------
(* The side that asks                                                      *)

\* request(): the callback is entered and watched before the message is sent
requested(S) ==
  LET id == S.alloc + 1
  IN [S EXCEPT !.alloc = id, !.pending = @ \cup {id}, !.reqs = ringAdd(@, id),
               !.net = @ \cup {<<"request", id>>}]

request == rpc.up /\ rpc.alloc < MaxIds /\ rpc' = requested(rpc)

\* mutant: the callback stays in the table after it was called
settledOpen(S, ids) ==
  [S EXCEPT !.called = [i \in 1 .. MaxIds |->
                          IF i \in ids \cap S.pending THEN S.called[i] + 1 ELSE S.called[i]]]

\* onRecvRespond() and onRequestTimeout(), for each of the ids: a callback that is still in
\* the table is called and forgotten
settled(S, ids) ==
  [S EXCEPT !.called = [i \in 1 .. MaxIds |->
                          IF i \in ids \cap S.pending THEN S.called[i] + 1 ELSE S.called[i]],
            !.pending = @ \ ids]

\* a callback that is called may send one more request
Further(S, T) == {T} \cup (IF T.called # S.called /\ T.alloc < MaxIds THEN {requested(T)} ELSE {})

onRecvRespond(id) ==
  /\ rpc.up /\ <<"respond", id>> \in rpc.net
  /\ \E S \in {rpc, [rpc EXCEPT !.net = @ \ {<<"respond", id>>}]} :
       rpc' \in Further(S, settled(S, {id}))

onRequestTimeout ==
  LET S == [rpc EXCEPT !.reqs = ringTick(@)]
  IN /\ rpc.reqs.timer
     /\ rpc' \in IF rpc.watch
                  THEN Further(S, settled(S, ToSet(ringDue(rpc.reqs))))
                  ELSE {S}

\* cleanup() also takes the monitor's callback away, and initialize() does not set it again
rpcCleanup ==
  /\ rpc.up
  /\ rpc' = [rpc EXCEPT !.up = FALSE, !.watch = FALSE, !.reqs = NewRing,
                        !.pending = {}, !.dropped = @ \cup rpc.pending]

rpcInitialize == ~rpc.up /\ rpc' = [rpc EXCEPT !.up = TRUE]

-----------------------------------------------------------------------------
(* The side that answers                                                   *)

Answered(S, id) ==
  [S EXCEPT !.net = @ \cup {<<"respond", id>>}, !.tobe = @ \ {id}]

\* onRecvRequest(): no such method, an answer at once, or one that comes later
onRecvRequest(id) ==
  /\ <<"request", id>> \in rpc.net
  /\ \E S \in {rpc, [rpc EXCEPT !.net = @ \ {<<"request", id>>}]} :
       \/ rpc' = [S EXCEPT !.net = @ \cup {<<"respond", id>>}]
       \/ rpc' = Answered(S, id)
       \/ /\ id \notin rpc.asked
          /\ rpc' = [S EXCEPT !.tobe = @ \cup {id}, !.asked = @ \cup {id}, !.resps = ringAdd(@, id)]

\* respond(), in time or after respond_timeout_ gave up: it is sent all the same
respond(id) ==
  /\ id \in rpc.asked
  /\ rpc' = Answered(rpc, id)

onRespondTimeout ==
  /\ rpc.resps.timer
  /\ rpc' = [rpc EXCEPT !.resps = ringTick(@), !.tobe = @ \ ToSet(ringDue(rpc.resps))]

\* the transport loses a message
lose == \E m \in rpc.net : rpc' = [rpc EXCEPT !.net = @ \ {m}]

RpcNext ==
  \/ request \/ onRequestTimeout \/ onRespondTimeout \/ lose
  \/ rpcCleanup \/ rpcInitialize
  \/ \E id \in 1 .. MaxIds : onRecvRequest(id) \/ onRecvRespond(id) \/ respond(id)

RpcSpec == RpcInit /\ [][RpcNext]_rpc

\* the loop goes on calling the timer it has
RpcFairness == WF_rpc(onRequestTimeout)

-----------------------------------------------------------------------------
(* Properties                                                              *)

\* Whatever the transport does, the callback of a request is called at most once, not at
\* all when cleanup() forgot it, and as long as it is in the table it is in the ring whose
\* timer runs, unless the callback of the monitor is gone since a cleanup().
RpcOnce ==
  \A id \in 1 .. rpc.alloc :
    /\ rpc.called[id] = IF id \in rpc.pending \cup rpc.dropped THEN 0 ELSE 1
    /\ id \in rpc.pending /\ rpc.watch =>
         rpc.reqs.timer /\ \E i \in DOMAIN rpc.reqs.slots : id \in ToSet(rpc.reqs.slots[i])

\* Every request is settled, by an answer or by its timeout, if the loop goes on calling
\* the timer of the monitor; not so after cleanup() and initialize(), when nothing times out.
RpcSettled ==
  \A id \in 1 .. MaxIds : (id \in rpc.pending /\ rpc.watch) ~> (id \notin rpc.pending)
=============================================================================
