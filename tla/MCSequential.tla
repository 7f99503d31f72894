---------------------------- MODULE MCSequential ----------------------------
(***************************************************************************)
(* Components that live in one thread and are driven by calls and events   *)
(* in any order, side by side in one run: each initial state picks the one *)
(* that moves.                                                             *)
(***************************************************************************)
EXTENDS StateMachine, DnsRequest, HttpParser, Buffer, Alarm, Coroutine, TcpClient, MqttClient, ModuleTree

VARIABLE part

\* bound: routes, event functions and states that own the sub-machine, together
FewParts == RouteCount + EventCount + Cardinality(sm.top.sub) <= 3

Init ==
  /\ part \in {"machine", "dns", "parser", "buffer", "alarm", "coroutine", "tcp", "mqtt", "modules"}
  /\ BufferInit /\ (part # "buffer" => bu.buf["left"].mem = <<>>)
  /\ AlarmInit /\ (part # "alarm" => al.kind = "oneshot")
  /\ CoInit /\ (part # "coroutine" => co.prim = "mutex")
  /\ MqttInit /\ (part # "mqtt" => mq.auto /\ mq.wait = 0)
  /\ MachineInit /\ DnsInit /\ HttpParserInit /\ TcpClientInit /\ ModuleInit

vars == <<part, sm, dns, hp, bu, al, co, cl, mq, mo>>

Next ==
  \/ part = "machine" /\ MachineNext /\ FewParts' /\ UNCHANGED <<part, dns, hp, bu, al, co, cl, mq, mo>>
  \/ part = "dns" /\ DnsNext /\ UNCHANGED <<part, sm, hp, bu, al, co, cl, mq, mo>>
  \/ part = "parser" /\ HttpParserNext /\ UNCHANGED <<part, sm, dns, bu, al, co, cl, mq, mo>>
  \/ part = "buffer" /\ BufferNext /\ UNCHANGED <<part, sm, dns, hp, al, co, cl, mq, mo>>
  \/ part = "alarm" /\ AlarmNext /\ UNCHANGED <<part, sm, dns, hp, bu, co, cl, mq, mo>>
  \/ part = "coroutine" /\ CoNext /\ UNCHANGED <<part, sm, dns, hp, bu, al, cl, mq, mo>>
  \/ part = "tcp" /\ TcpClientNext /\ UNCHANGED <<part, sm, dns, hp, bu, al, co, mq, mo>>
  \/ part = "mqtt" /\ MqttNext /\ UNCHANGED <<part, sm, dns, hp, bu, al, co, cl, mo>>
  \/ part = "modules" /\ ModuleNext /\ UNCHANGED <<part, sm, dns, hp, bu, al, co, cl, mq>>

Spec == Init /\ [][Next]_vars
=============================================================================
