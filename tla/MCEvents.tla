------------------------------ MODULE MCEvents ------------------------------
(***************************************************************************)
(* The three kinds of events of a loop share no state (they meet only in the   *)
(* order of an iteration), so one run explores them side by side: each initial   *)
(* state picks the kind that moves.                                           *)
(***************************************************************************)
EXTENDS Timers, FdEvents, Signals

VARIABLE part

vars == <<part, timerVars, fdVars, signalVars>>

MCConfigs == {<<1, "persist">>, <<2, "oneshot">>}
MCLoopOf  == [e \in SigEvs |-> IF e = "s2" THEN "l2" ELSE "l1"]

\* bound: of the signal events one at a time is one-shot, and one is ever odd
FewSignals == /\ Cardinality({e \in SigEvs : se[e].once}) <= 1
              /\ Cardinality({e \in SigEvs : se[e].odd}) <= 1

Init ==
  /\ part \in {"timers", "fds", "signals"}
  /\ TimerInit /\ FdInit /\ SignalInit

Next ==
  \/ part = "timers" /\ TimerNext /\ UNCHANGED <<part, fdVars, signalVars>>
  \/ part = "fds" /\ FdNext /\ UNCHANGED <<part, timerVars, signalVars>>
  \/ part = "signals" /\ SignalNext /\ FewSignals' /\ UNCHANGED <<part, timerVars, fdVars>>
  \/ crashed /\ UNCHANGED vars        \* the process is gone

Spec == Init /\ [][Next]_vars /\ TimerFairness
=============================================================================
