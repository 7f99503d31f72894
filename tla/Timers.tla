------------------------------- MODULE Timers -------------------------------
(***************************************************************************)
(* Timers of event::CommonLoop: the minimum heap of Timer objects, their     *)
(* tokens, the TimerEvent objects users hold, and the part of an iteration    *)
(* that matters to them: epoll_wait() with a timeout, handleExpiredTimers(),  *)
(* the other callbacks, handleNextFunc().                                    *)
(*                                                                         *)
(* Everything runs in the loop's thread.  A user callback is a series of      *)
(* operations on timer events; the clock may advance between any two steps.   *)
(* The heap is the set of its Timer objects: its front is a minimal one.       *)
(***************************************************************************)
EXTENDS Integers, FiniteSets

CONSTANTS Events,      \* TimerEvent objects
          ExitEvent,   \* sp_exit_timer_, which only exitLoop() touches
          Configs,     \* what initialize() is given: pairs of interval (ms) and mode
          ExitWaits,   \* what exitLoop() is given, other than 0
          MaxClock,    \* bound: last value of the steady clock
          IntBits      \* width of epoll_wait()'s timeout argument

\* An interval of 0 in persistent mode would keep handleExpiredTimers() in its
\* loop for ever, and one of 2^31 ms or more does not fit epoll_wait()'s int.
ASSUME TimerAssumption ==
  /\ IsFiniteSet(Events) /\ ExitEvent \in Events
  /\ MaxClock \in Nat /\ IntBits \in Nat \ {0}
  /\ Configs \subseteq (1..(2^(IntBits - 1) - 1)) \X {"oneshot", "persist"}
  /\ ExitWaits \subseteq 1..(2^(IntBits - 1) - 1)

Forever == -1
NoToken == 0
TimerNone    == "none"
Users   == Events \ {ExitEvent}
Tokens  == 1..(Cardinality(Events) + 1)

VARIABLES
  clock,     \* steady_clock, from 1: it is never 0
  ev,        \* ev[e]: the TimerEventImpl; due is a history variable, when it must fire
  heap,      \* timer_min_heap_ and timer_cabinet_: the live Timer objects
  next,      \* hasNextFunc(): the free of a deleted Timer's object waits in run()'s queue
  lp         \* the loop: phase, the now of this pass, epoll_wait()'s deadline,
             \* the event whose callback runs, keep_running_

timerVars == <<clock, ev, heap, next, lp>>

NewEvent == [inited |-> FALSE, enabled |-> FALSE, mode |-> "oneshot",
             interval |-> 0, token |-> NoToken, due |-> 0]

TimerStopped  == [phase |-> "stopped", now |-> 0, deadline |-> 0, cb |-> TimerNone, keep |-> FALSE]

TimerInit ==
  /\ clock = 1 /\ heap = {} /\ next = FALSE /\ lp = TimerStopped
  /\ ev = [e \in Events |-> NewEvent]

\* timer_min_heap_.front(): TimerCmp orders by expiry; ties are left open
Fronts(h) == {t \in h : \A u \in h : t.expired <= u.expired}

FreshTokens == {k \in Tokens : \A t \in heap : t.token # k}
NextToken   == CHOOSE k \in FreshTokens : \A j \in FreshTokens : k <= j

-----------------------------------------------------------------------------
(* Operations on the heap                                                  *)

addTimer(h, e, x) ==
  h \cup {[token |-> NextToken, owner |-> e, expired |-> clock + x.interval,
           interval |-> x.interval, repeat |-> IF x.mode = "oneshot" THEN 1 ELSE 0]}

\* mutant: the expiry of the deleted timer is not set to 0 before the heap is rebuilt
deleteTimerKeep(token) ==
  IF \E t \in heap : t.token = token THEN heap \ {CHOOSE f \in Fronts(heap) : TRUE} ELSE heap

\* deleteTimer(): the expiry is set to 0, the heap is rebuilt and its front popped
deleteTimer(token) ==
  LET zeroed == {IF t.token = token THEN [t EXCEPT !.expired = 0] ELSE t : t \in heap}
  IN IF \E t \in heap : t.token = token
     THEN zeroed \ {CHOOSE f \in Fronts(zeroed) : TRUE} ELSE heap

-----------------------------------------------------------------------------
(* TimerEventImpl; user code runs in a callback or outside the loop         *)

TimerInUserCode == lp.phase \in {"stopped", "callback", "others"}

\* disable(): the Timer leaves the heap; its object is freed by a function given to run()
\* (the stale token_ is never read before enable() replaces it)
TimerOff(x)      == [x EXCEPT !.enabled = FALSE, !.token = NoToken, !.due = 0]
TimerArmed(e)    == ev[e].inited /\ ev[e].enabled
HeapLess(e) == IF TimerArmed(e) THEN deleteTimer(ev[e].token) ELSE heap
timerDisable(e)  == next' = (next \/ TimerArmed(e))

TimerDisable(e) ==
  /\ TimerInUserCode /\ timerDisable(e)
  /\ heap' = HeapLess(e)
  /\ ev' = [ev EXCEPT ![e] = TimerOff(@)]
  /\ UNCHANGED <<clock, lp>>

TimerInitialize(e, i, m) ==
  /\ TimerInUserCode /\ timerDisable(e)
  /\ heap' = HeapLess(e)
  /\ ev' = [ev EXCEPT ![e] = [TimerOff(@) EXCEPT !.inited = TRUE, !.interval = i, !.mode = m]]
  /\ UNCHANGED <<clock, lp>>

\* the destructor asserts that the event's own callback is not running
TimerDelete(e) ==
  /\ TimerInUserCode /\ lp.cb # e /\ timerDisable(e)
  /\ heap' = HeapLess(e)
  /\ ev' = [ev EXCEPT ![e] = NewEvent]
  /\ UNCHANGED <<clock, lp>>

TimerEnabled(x) == [x EXCEPT !.enabled = TRUE, !.token = NextToken, !.due = clock + x.interval]

TimerEnable(e) ==
  /\ TimerInUserCode /\ ev[e].inited /\ ~ev[e].enabled
  /\ heap' = addTimer(heap, e, ev[e])
  /\ ev' = [ev EXCEPT ![e] = TimerEnabled(@)]
  /\ UNCHANGED <<clock, next, lp>>

\* exitLoop(): a pending exit timer is disabled and deleted; without a wait time the
\* loop is stopped, with one a new one-shot timer is made, initialized and enabled
ExitNow ==
  /\ TimerInUserCode /\ lp.cb # ExitEvent /\ timerDisable(ExitEvent)
  /\ heap' = HeapLess(ExitEvent)
  /\ ev' = [ev EXCEPT ![ExitEvent] = NewEvent]
  /\ lp' = [lp EXCEPT !.keep = FALSE]
  /\ UNCHANGED clock

ExitLater(i) ==
  LET x == [NewEvent EXCEPT !.inited = TRUE, !.interval = i]
  IN /\ TimerInUserCode /\ lp.cb # ExitEvent /\ timerDisable(ExitEvent)
     /\ heap' = addTimer(HeapLess(ExitEvent), ExitEvent, x)
     /\ ev' = [ev EXCEPT ![ExitEvent] = TimerEnabled(x)]
     /\ UNCHANGED <<clock, lp>>

-----------------------------------------------------------------------------
(* The loop                                                                *)

\* the conversion of getWaitTime()'s int64_t to epoll_wait()'s int
ToInt(w) == LET m == w % 2^IntBits
            IN IF m >= 2^(IntBits - 1) THEN m - 2^IntBits ELSE m

\* mutant: the timeout is taken from some timer, not from the front of the heap
getWaitTimeLast ==
  IF next THEN 0
  ELSE IF heap = {} THEN Forever
  ELSE ToInt((CHOOSE t \in heap : \A u \in heap : t.expired >= u.expired).expired - clock)

getWaitTime ==
  IF next THEN 0
  ELSE IF heap = {} THEN Forever
  ELSE LET w == (CHOOSE t \in Fronts(heap) : TRUE).expired - clock
       IN ToInt(IF w < 0 THEN 0 ELSE w)

Waiting(l, w) == [l EXCEPT !.phase = "wait", !.deadline = IF w < 0 THEN Forever ELSE clock + w]

\* runLoop(), with either mode
TimerStart(forever) ==
  /\ lp.phase = "stopped"
  /\ lp' = [Waiting(lp, getWaitTime) EXCEPT !.keep = forever]
  /\ UNCHANGED <<clock, ev, heap, next>>

\* epoll_wait() returns: its time is over, or some descriptor is ready
TimerWake ==
  /\ lp.phase = "wait"
  /\ lp' = [lp EXCEPT !.phase = "pass", !.now = clock, !.deadline = 0]
  /\ UNCHANGED <<clock, ev, heap, next>>

TimerTimeout == lp.deadline # Forever /\ clock >= lp.deadline /\ TimerWake
TimerReady   == TimerWake

\* one turn of handleExpiredTimers(): the front is popped and freed or pushed back
\* with its next expiry, then its callback is TimerEventImpl::onEvent()
Expire(t) ==
  LET e    == t.owner
      once == t.repeat = 1
  IN /\ lp.phase = "pass" /\ t \in Fronts(heap) /\ t.expired <= lp.now
     /\ heap' = (heap \ {t}) \cup
                  IF once THEN {} ELSE {[t EXCEPT !.expired = @ + t.interval]}
     /\ ev' = IF ev[e].mode = "oneshot"
              THEN [ev EXCEPT ![e] = TimerOff(@)]
              ELSE [ev EXCEPT ![e].due = @ + ev[e].interval]
     /\ lp' = [lp EXCEPT !.phase = "callback", !.cb = e,
                         !.keep = @ /\ e # ExitEvent]     \* its callback is stopLoop()
     /\ UNCHANGED <<clock, next>>

TimerReturn ==
  /\ lp.phase = "callback"
  /\ lp' = [lp EXCEPT !.phase = "pass", !.cb = TimerNone]
  /\ UNCHANGED <<clock, ev, heap, next>>

\* the pass is over; the callbacks of descriptors and deferred functions come next
TimerOthers ==
  /\ lp.phase = "pass" /\ \A t \in heap : t.expired > lp.now
  /\ lp' = [lp EXCEPT !.phase = "others", !.now = 0]
  /\ UNCHANGED <<clock, ev, heap, next>>

\* handleNextFunc() frees the objects of deleted timers; then the next iteration,
\* or runThisAfterLoop()
TimerEndIteration ==
  /\ lp.phase = "others"
  /\ next' = FALSE /\ UNCHANGED <<clock, ev, heap>>
  /\ lp' = IF lp.keep THEN Waiting(lp, getWaitTime') ELSE TimerStopped

TimerTick ==
  /\ clock < MaxClock /\ clock' = clock + 1
  /\ UNCHANGED <<ev, heap, next, lp>>

TimerUserOp ==
  \/ \E e \in Users : TimerDisable(e) \/ TimerDelete(e) \/ TimerEnable(e)
  \/ \E e \in Users, c \in Configs : TimerInitialize(e, c[1], c[2])
  \/ ExitNow
  \/ \E i \in ExitWaits : ExitLater(i)

TimerLoopStep == TimerTimeout \/ (\E t \in heap : Expire(t)) \/ TimerReturn \/ TimerOthers \/ TimerEndIteration

TimerNext == TimerUserOp \/ TimerLoopStep \/ TimerReady \/ TimerTick \/ \E b \in BOOLEAN : TimerStart(b)

\* user callbacks return, the loop's thread is scheduled, time passes
TimerFairness == WF_timerVars(TimerLoopStep) /\ WF_timerVars(TimerTick)

TimerSpec == TimerInit /\ [][TimerNext]_timerVars

-----------------------------------------------------------------------------
(* Properties                                                              *)

\* An event is enabled exactly when one live Timer is its own, holds its token and
\* will fire at its due time: whatever callbacks delete, re-arm or re-initialize
\* during a pass, deleteTimer() never removes a neighbour from the rebuilt heap.
TimerQueued ==
  \A e \in Events :
    LET own == {t \in heap : t.owner = e}
    IN IF ev[e].enabled
       THEN /\ Cardinality(own) = 1
            /\ \A t \in own : t.token = ev[e].token /\ t.expired = ev[e].due
       ELSE own = {}

\* While the loop runs, an enabled timer fires or is disabled: epoll_wait() never
\* sleeps past the earliest expiry, and a pass does not skip a due timer.
TimerFires ==
  \A e \in Events :
    (lp.phase # "stopped" /\ ev[e].enabled /\ ev[e].due <= MaxClock)
      ~> (lp.cb = e \/ ~ev[e].enabled \/ ev[e].due > MaxClock \/ lp.phase = "stopped")
=============================================================================
