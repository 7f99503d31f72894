--------------------------- MODULE TimeoutMonitor ---------------------------
(***************************************************************************)
(* eventx::TimeoutMonitor: a ring of slots and a timer that turns it by    *)
(* one slot a second.  A value is put in the current slot and taken out    *)
(* when the ring is back at it.  The timer runs while there are values.    *)
(* Its users are the jsonrpc and DNS modules; a value never leaves early.  *)
(***************************************************************************)
EXTENDS Integers, FiniteSets, SequencesExt

CONSTANT CheckTimes     \* check_times of initialize(): the slots of the ring

ASSUME CheckTimesAssumption == CheckTimes \in Nat \ {0}

\* the slots are numbered from the current one on
SlotAfter(i) == IF i = CheckTimes THEN 1 ELSE i + 1

NewRing == [slots |-> [i \in 1 .. CheckTimes |-> <<>>], number |-> 0, timer |-> FALSE]

ringAdd(R, v) ==
  [R EXCEPT !.slots[1] = Append(@, v), !.number = @ + 1, !.timer = @ \/ R.number = 0]

\* what the next tick takes out
ringDue(R) == R.slots[SlotAfter(1)]

\* mutant: the timer is stopped when values are due, though other slots hold values
ringTickStop(R) ==
  LET due == ringDue(R)
      turned == [i \in 1 .. CheckTimes |-> R.slots[SlotAfter(i)]]
  IN [slots |-> [turned EXCEPT ![1] = <<>>], number |-> R.number - Len(due),
      timer |-> R.timer /\ due = <<>>]

\* onTimerTick() up to the callbacks, which are called for ringDue()
ringTick(R) ==
  LET due == ringDue(R)
      turned == [i \in 1 .. CheckTimes |-> R.slots[SlotAfter(i)]]
  IN [slots |-> [turned EXCEPT ![1] = <<>>], number |-> R.number - Len(due),
      timer |-> R.timer /\ R.number # Len(due)]
=============================================================================
