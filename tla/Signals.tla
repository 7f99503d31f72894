------------------------------ MODULE Signals -------------------------------
(***************************************************************************)
(* Signal events of event::CommonLoop.  Each loop keeps the subscribers of    *)
(* each signal and a pipe; the process keeps, for each signal, the loops to     *)
(* tell and the handler it replaced.  The signal handler writes the number to   *)
(* the pipe of every such loop, and the loop reads it and calls its own          *)
(* subscribers.                                                             *)
(*                                                                         *)
(* The loops run in threads of their own.  subscribeSignal() and               *)
(* unsubscribeSignal() change the process-wide table under a lock with the        *)
(* signals of their thread blocked; the handler takes no lock and is one step    *)
(* here, which is exact as long as no other thread receives the signal while     *)
(* the table changes.                                                        *)
(***************************************************************************)
EXTENDS Integers, FiniteSets, Sequences

CONSTANTS SigLoops,    \* loops, each with its thread
          SigEvs,      \* SignalEvent objects
          loopOf,      \* the loop of each
          Signos,      \* signal numbers
          BadSignos,   \* those sigaction() refuses (SIGKILL, SIGSTOP)
          SigSets,     \* the sets of numbers an event is initialized to
          PipeCap      \* bound: numbers a pipe holds; a write to a full one is lost

ASSUME SignalAssumption ==
  /\ loopOf \in [SigEvs -> SigLoops]
  /\ Signos \subseteq Nat /\ BadSignos \subseteq Signos
  /\ SigSets \subseteq SUBSET Signos /\ PipeCap \in Nat

VARIABLES
  se,        \* se[e]: the SignalEventImpl: sigset_, one-shot or not, is_enabled_
  subs,      \* subs[l][s]: all_signals_subscribers_ of loop l
  spipe,     \* spipe[l]: the pipe: open or not, the numbers in it
  sctx,      \* sctx[s]: _signal_ctxs_[s].write_fds, as loops
  handler,   \* handler[s]: what sigaction() last installed
  disp,      \* disp[l]: onSignal(): numbers read, subscribers still to call, the callback
  wiped,     \* signals whose handler of the application gave way to SIG_DFL
  crashed    \* the process met a null sp_signal_read_event_

signalVars == <<se, subs, spipe, sctx, handler, disp, wiped, crashed>>

\* "odd" is history: the event was initialized while it was enabled, or enable() failed
NewSigEvent == [sigs |-> {}, once |-> FALSE, enabled |-> FALSE, odd |-> FALSE]
NoDisp      == [read |-> <<>>, todo |-> {}, cb |-> "none"]
Closed      == [open |-> FALSE, buf |-> <<>>]

SignalInit ==
  /\ se = [e \in SigEvs |-> NewSigEvent]
  /\ subs = [l \in SigLoops |-> [s \in Signos |-> {}]]
  /\ spipe = [l \in SigLoops |-> Closed]
  /\ sctx = [s \in Signos |-> {}] /\ handler = [s \in Signos |-> "app"]
  /\ disp = [l \in SigLoops |-> NoDisp]
  /\ wiped = {} /\ crashed = FALSE

\* user code of loop l: in a callback, or in some other callback of the loop
InLoop(l) == disp[l] = NoDisp \/ disp[l].cb # "none"

-----------------------------------------------------------------------------
(* subscribeSignal(), unsubscribeSignal()                                   *)

\* mutant: the old handler comes back when this loop has no subscriber left, other loops or not
RerouteAlone(l, nu) ==
  /\ subs' = [subs EXCEPT ![l] = nu]
  /\ sctx' = [s \in Signos |-> IF nu[s] = {} THEN sctx[s] \ {l} ELSE sctx[s] \cup {l}]
  /\ handler' = [s \in Signos |->
       CASE subs[l][s] = {} /\ nu[s] # {} /\ sctx[s] = {} -> "tbox"
         [] subs[l][s] # {} /\ nu[s] = {} -> "app"
         [] OTHER -> handler[s]]
  /\ spipe' = [spipe EXCEPT ![l] =
       IF \A s \in Signos : nu[s] = {} THEN Closed ELSE [@ EXCEPT !.open = TRUE]]

\* the tables once loop l has the subscribers nu: the loop is in write_fds of a signal
\* and the handler is installed while someone subscribes; the pipe is opened for the
\* first subscriber and closed after the last
Reroute(l, nu) ==
  /\ subs' = [subs EXCEPT ![l] = nu]
  /\ sctx' = [s \in Signos |-> IF nu[s] = {} THEN sctx[s] \ {l} ELSE sctx[s] \cup {l}]
  /\ handler' = [s \in Signos |->
       CASE subs[l][s] = {} /\ nu[s] # {} /\ sctx[s] = {} -> "tbox"      \* sigaction()
         [] subs[l][s] # {} /\ nu[s] = {} /\ sctx[s] = {l} -> "app"      \* the old one again
         [] OTHER -> handler[s]]
  /\ spipe' = [spipe EXCEPT ![l] =
       IF \A s \in Signos : nu[s] = {} THEN Closed ELSE [@ EXCEPT !.open = TRUE]]

Add(e, S) == [s \in Signos |-> subs[loopOf[e]][s] \cup IF s \in S THEN {e} ELSE {}]
Less(e, S) == [s \in Signos |-> subs[loopOf[e]][s] \ IF s \in S THEN {e} ELSE {}]

-----------------------------------------------------------------------------
(* SignalEventImpl                                                         *)

\* the forms of initialize(): a number or a list is added to the set, a set replaces it,
\* also while the event is enabled and subscribed to the old one
SigInitialize(e, S, once) ==
  /\ InLoop(loopOf[e])
  /\ se' = [se EXCEPT ![e].sigs = S, ![e].once = once, ![e].odd = @ \/ se[e].enabled]
  /\ UNCHANGED <<subs, spipe, sctx, handler, disp, wiped, crashed>>

\* enable() subscribes in ascending order and gives up at the first number that
\* sigaction() refuses: the earlier ones stay subscribed though it is not enabled
SigEnable(e) ==
  LET bad    == se[e].sigs \cap BadSignos
      before == {s \in se[e].sigs : \A b \in bad : s < b}
  IN /\ InLoop(loopOf[e])
     /\ Reroute(loopOf[e], Add(e, before))
     /\ se' = [se EXCEPT ![e].enabled = @ \/ bad = {}, ![e].odd = @ \/ bad # {}]
     /\ UNCHANGED <<disp, wiped, crashed>>

\* unsubscribeSignal() meets a loop without any subscriber, and so without a pipe: none
\* from the start, or after the smaller numbers of the set
NoReadEvent(e) ==
  \E s \in se[e].sigs : \A t \in Signos :
    subs[loopOf[e]][t] \ (IF t \in se[e].sigs /\ t < s THEN {e} ELSE {}) = {}

\* disable(): the numbers of the set as it is now.  For one that nobody in the process
\* is subscribed to, the record made by _signal_ctxs_[signo] holds SIG_DFL, and this is
\* "restored"
Unsubscribe(e) ==
  /\ IF NoReadEvent(e)
     THEN crashed' = TRUE /\ UNCHANGED <<subs, spipe, sctx, handler, wiped>>
     ELSE /\ Reroute(loopOf[e], Less(e, se[e].sigs))
          /\ wiped' = wiped \cup {s \in se[e].sigs \ BadSignos : sctx[s] = {}}
          /\ UNCHANGED crashed
  /\ se' = [se EXCEPT ![e].enabled = FALSE]

SigDisable(e) ==
  /\ InLoop(loopOf[e]) /\ se[e].enabled
  /\ Unsubscribe(e)
  /\ UNCHANGED disp

-----------------------------------------------------------------------------
(* SignalHandlerFunc(), CommonLoop::onSignal()                              *)

Raise(s) ==
  /\ handler[s] = "tbox"
  /\ spipe' = [l \in SigLoops |->
       IF l \in sctx[s] /\ Len(spipe[l].buf) < PipeCap
       THEN [spipe[l] EXCEPT !.buf = Append(@, s)] ELSE spipe[l]]
  /\ UNCHANGED <<se, subs, sctx, handler, disp, wiped, crashed>>

\* read(): all the numbers at once (ten at most; the bound on the pipe is below)
OnSignal(l) ==
  /\ spipe[l].open /\ spipe[l].buf # <<>> /\ disp[l] = NoDisp
  /\ disp' = [disp EXCEPT ![l].read = spipe[l].buf]
  /\ spipe' = [spipe EXCEPT ![l].buf = <<>>]
  /\ UNCHANGED <<se, subs, sctx, handler, wiped, crashed>>

\* the next number: a copy of its subscribers is called
NextSigno(l) ==
  /\ disp[l].read # <<>> /\ disp[l].todo = {} /\ disp[l].cb = "none"
  /\ disp' = [disp EXCEPT ![l].read = Tail(@), ![l].todo = subs[l][Head(disp[l].read)]]
  /\ UNCHANGED <<se, subs, spipe, sctx, handler, wiped, crashed>>

\* SignalEventImpl::onSignal(): a one-shot event is disabled before its callback
Notify(l, e) ==
  /\ e \in disp[l].todo /\ disp[l].cb = "none"
  /\ disp' = [disp EXCEPT ![l].todo = @ \ {e}, ![l].cb = e]
  /\ IF se[e].once /\ se[e].enabled
     THEN Unsubscribe(e)
     ELSE UNCHANGED <<se, subs, spipe, sctx, handler, wiped, crashed>>

SigReturn(l) ==
  /\ disp[l].cb # "none"
  /\ disp' = [disp EXCEPT ![l].cb = "none"]
  /\ UNCHANGED <<se, subs, spipe, sctx, handler, wiped, crashed>>

SignalNext ==
  /\ ~crashed
  /\ \/ \E e \in SigEvs : SigEnable(e) \/ SigDisable(e)
     \/ \E e \in SigEvs, S \in SigSets, o \in BOOLEAN : SigInitialize(e, S, o)
     \/ \E s \in Signos : Raise(s)
     \/ \E l \in SigLoops : OnSignal(l) \/ NextSigno(l) \/ SigReturn(l)
     \/ \E l \in SigLoops, e \in SigEvs : Notify(l, e)

SignalSpec == SignalInit /\ [][SignalNext]_signalVars

-----------------------------------------------------------------------------
(* Properties                                                              *)

\* The process-wide table, the installed handlers and the pipes follow the loops'
\* subscriptions, while callbacks of several loops come and go: a loop with a subscriber
\* is told, one without is not written to (its pipe is closed), and the handler is
\* installed while somebody is subscribed.
TablesFollow ==
  /\ \A s \in Signos : /\ sctx[s] = {l \in SigLoops : subs[l][s] # {}}
                       /\ handler[s] = "tbox" <=> sctx[s] # {}
  /\ \A l \in SigLoops : spipe[l].open <=> \E s \in Signos : subs[l][s] # {}

\* An event is subscribed to its numbers while it is enabled, and to none when it is not.
Subscribed(e) ==
  \A s \in Signos : e \in subs[loopOf[e]][s] <=> se[e].enabled /\ s \in se[e].sigs

\* Both, and the application gets its own handlers back.  An event that was initialized
\* while it was enabled, or whose enable() failed half way, is not subscribed to what
\* it says; without such an event SIG_DFL is never installed and the process goes on.
SignalRouting ==
  /\ TablesFollow
  /\ \A e \in SigEvs : se[e].odd \/ Subscribed(e)
  /\ wiped # {} \/ crashed => \E e \in SigEvs : se[e].odd
=============================================================================
