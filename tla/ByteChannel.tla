----------------------------- MODULE ByteChannel -----------------------------
(***************************************************************************)
(* What util::AsyncPipe promises, whatever its threads and buffers do: a   *)
(* channel that accepts bytes while it is up, hands them over in chunks    *)
(* that continue one another, and goes down only when nothing is left.     *)
(* The k-th byte accepted is the number k.                                 *)
(***************************************************************************)
EXTENDS Naturals, Sequences

CONSTANTS MaxChunk,    \* bytes accepted at a time
          NoChunk      \* no chunk is being handed over

VARIABLES
  phase,      \* "down", "up" or "closing"
  sent,       \* bytes accepted so far
  received,   \* bytes handed over so far
  chunk       \* the chunk in the callback, or NoChunk

chanVars == <<phase, sent, received, chunk>>

Init == phase = "down" /\ sent = 0 /\ received = 0 /\ chunk = NoChunk

Open  == phase = "down" /\ phase' = "up" /\ UNCHANGED <<sent, received, chunk>>
Close == phase = "up" /\ phase' = "closing" /\ UNCHANGED <<sent, received, chunk>>

\* Bytes are accepted only while the channel is up.
Accept ==
  /\ phase = "up"
  /\ \E n \in 1..MaxChunk : sent' = sent + n
  /\ UNCHANGED <<phase, received, chunk>>

\* The callback gets the bytes that follow those it had, at least one.
Take ==
  /\ phase # "down" /\ chunk = NoChunk
  /\ \E n \in 1..(sent - received) : chunk' = [i \in 1..n |-> received + i]
  /\ UNCHANGED <<phase, sent, received>>

Deliver ==
  /\ chunk # NoChunk
  /\ received' = received + Len(chunk) /\ chunk' = NoChunk
  /\ UNCHANGED <<phase, sent>>

\* Everything was handed over.
Down ==
  /\ phase = "closing" /\ chunk = NoChunk /\ received = sent
  /\ phase' = "down"
  /\ UNCHANGED <<sent, received, chunk>>

Next == Open \/ Close \/ Accept \/ Take \/ Deliver \/ Down
Spec == Init /\ [][Next]_chanVars
=============================================================================
