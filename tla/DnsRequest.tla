----------------------------- MODULE DnsRequest -----------------------------
(***************************************************************************)
(* network::DnsRequest: a question goes to every server in one UDP socket, *)
(* which is enabled while questions are open; the first useful answer, the *)
(* failure of all servers or the TimeoutMonitor settles it.  The network   *)
(* is external: datagrams are lost, repeated and late, so any server may   *)
(* answer any question it was ever sent, any number of times.              *)
(***************************************************************************)
EXTENDS TimeoutMonitor

CONSTANTS DnsServers,   \* the servers that may be configured
          MaxReqs       \* bound: questions asked (req_id_alloc_)

ASSUME DnsAssumption == IsFiniteSet(DnsServers) /\ MaxReqs \in Nat

VARIABLE dns

ReqIds == 1 .. MaxReqs

DnsInit ==
  dns = [servers |-> {},                                \* dns_ip_vec_
         alloc   |-> 0,                                 \* req_id_alloc_
         open    |-> {},                                \* requests_
         fails   |-> [q \in ReqIds |-> 0],              \* their response_count
         udp     |-> FALSE,                             \* the socket is enabled
         ring    |-> NewRing,                           \* timeout_monitor_
         due     |-> <<>>,                              \* what a tick took out and has to call
         sent    |-> [q \in ReqIds |-> {}],             \* history: the servers q was sent to
         failed  |-> [q \in ReqIds |-> {}],             \* history: the servers that failed q
         doubled |-> {},                                \* history: failed twice by one server
         moved   |-> {},                                \* history: open while servers changed
         result  |-> [q \in ReqIds |-> <<>>]]           \* history: what its callback was given

setDnsIPAddresses(servers) ==
  dns' = [dns EXCEPT !.servers = servers, !.moved = @ \cup dns.open]

\* request() and addRequest()
asked(S) ==
  LET q == S.alloc + 1
  IN [S EXCEPT !.alloc = q, !.open = @ \cup {q}, !.udp = @ \/ S.open = {},
               !.ring = ringAdd(@, q), !.sent[q] = S.servers]

CanAsk(S) == S.servers # {} /\ S.alloc < MaxReqs

dnsRequest == CanAsk(dns) /\ dns' = asked(dns)

\* mutant: the socket is disabled with any question that is settled
deleteRequestOff(S, q) == [S EXCEPT !.open = @ \ {q}, !.udp = FALSE]

deleteRequest(S, q) ==
  LET left == S.open \ {q}
  IN [S EXCEPT !.open = left, !.udp = @ /\ left # {}]

dnsCancel(q) == q \in dns.open /\ dns' = deleteRequest(dns, q)

\* the callback, which may ask a further question, and then the end of the request
answered(S, q, how) ==
  LET T == [S EXCEPT !.result[q] = Append(@, how)]
  IN {deleteRequest(U, q) : U \in {T} \cup (IF CanAsk(T) THEN {asked(T)} ELSE {})}

\* onUdpRecv(): an answer, a verdict on the name or the question, or trouble of server s
onUdpRecv(q, s, how) ==
  /\ dns.due = <<>> /\ dns.udp /\ q \in dns.open /\ s \in dns.sent[q]
  /\ IF how # "server" THEN dns' \in answered(dns, q, how)
     ELSE LET S == [dns EXCEPT !.fails[q] = @ + 1, !.failed[q] = @ \cup {s},
                               !.doubled = IF s \in dns.failed[q] THEN @ \cup {q} ELSE @]
          IN IF S.fails[q] < Cardinality(S.servers) THEN dns' = S
             ELSE dns' \in answered(S, q, "alldnsfail")

\* one that was settled before is not found
timedOut(S, q) == IF q \in S.open THEN answered(S, q, "timeout") ELSE {S}

\* onTimerTick() of the monitor: the callbacks follow, one by one
dnsTick ==
  /\ dns.ring.timer /\ dns.due = <<>>
  /\ dns' = [dns EXCEPT !.ring = ringTick(@), !.due = ringDue(dns.ring)]

onDnsTimeout ==
  /\ dns.due # <<>>
  /\ dns' \in timedOut([dns EXCEPT !.due = Tail(@)], Head(dns.due))

\* The user's calls come at any time, also between the callbacks of a tick (from inside
\* them); a datagram is read when the tick is over.
DnsNext ==
  \/ \E servers \in SUBSET DnsServers : setDnsIPAddresses(servers)
  \/ dnsRequest \/ dnsTick \/ onDnsTimeout
  \/ \E q \in ReqIds : dnsCancel(q)
  \/ \E q \in ReqIds, s \in DnsServers, how \in {"ok", "name", "server"} : onUdpRecv(q, s, how)

DnsSpec == DnsInit /\ [][DnsNext]_dns

-----------------------------------------------------------------------------
(* Properties                                                              *)

\* Whatever arrives, in whatever order, a question is settled at most once, an open one is
\* not settled, can still be answered (the socket is enabled) and will time out (a tick is
\* about to call it, or it is in a ring whose timer runs); with no open question the socket is off.  "All servers failed" is said
\* only when each server it was sent to did, unless one repeated itself or the list of
\* servers changed meanwhile, as the code counts failures and not servers.
DnsSettledOnce ==
  /\ dns.udp <=> dns.open # {}
  /\ \A q \in ReqIds :
       /\ Len(dns.result[q]) <= (IF q \in dns.open THEN 0 ELSE 1)
       /\ q \in dns.open \ ToSet(dns.due) =>
            dns.ring.timer /\ \E i \in DOMAIN dns.ring.slots : q \in ToSet(dns.ring.slots[i])
       /\ dns.result[q] = <<"alldnsfail">> /\ q \notin dns.doubled \cup dns.moved =>
            dns.failed[q] = dns.sent[q]
=============================================================================
