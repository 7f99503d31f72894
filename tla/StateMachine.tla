----------------------------- MODULE StateMachine -----------------------------
(***************************************************************************)
(* flow::StateMachine: a machine built by newState(), addRoute(),          *)
(* addEvent() and setSubStateMachine(), and driven by start(), stop(),     *)
(* restart() and run(event).  The model has one machine ("top") that may   *)
(* give some of its states the machine "sub"; events go to the sub-machine *)
(* first and to the machine itself only when the sub-machine terminates.   *)
(*                                                                         *)
(* A call is one step.  A call that a callback makes on its own machine is *)
(* refused (cb_level_).  While start() and run() call the sub-machine      *)
(* cb_level_ of the machine is 0, so the sub-machine's callbacks may call  *)
(* the machine (calledOnce); they may not while a move starts it anew.     *)
(* The user drives the sub-machine through the machine only.  Guards and   *)
(* event functions are the user's: their results are chosen freely.        *)
(* inside records the states whose enter action ran without the exit       *)
(* action having run since.                                                *)
(***************************************************************************)
EXTENDS Integers, Sequences, FiniteSetsExt

CONSTANTS TopStates, SubStates,   \* the identifiers newState() may be given
          EventIds,               \* the events run() may be given
          MaxRoutes, MaxEvents    \* bounds on addRoute() and addEvent()

VARIABLE sm

NULL_STATE_ID == -1
TERM_STATE_ID == 0
ANY_EVENT_ID == 0

\* -1 names no state; the final state is the library's own (a user may define
\* a state 0 to give it actions, which is not modelled)
ASSUME MachineAssumption ==
  {NULL_STATE_ID, TERM_STATE_ID} \cap (TopStates \cup SubStates) = {}

AllIds == {TERM_STATE_ID} \cup TopStates \cup SubStates

NewMachine ==
  [is_running |-> FALSE, curr |-> NULL_STATE_ID,
   init |-> NULL_STATE_ID, states |-> {}, routes |-> [s \in AllIds |-> <<>>],
   events |-> [s \in AllIds |-> {}], sub |-> {}, inside |-> {}]

\* left: the sub-machine was running when stop() left it behind
\* crashed: run() came back from the sub-machine to a machine that has no
\* current state any more, or one without a sub-machine, and went on
MachineInit == sm = [top |-> NewMachine, sub |-> NewMachine, left |-> FALSE, crashed |-> FALSE]

Ids(m) == IF m = "top" THEN TopStates ELSE SubStates

-------------------------------------------------------------------------------
(* Building: refused while the machine is running. *)

RouteCount == MapThenSumSet(LAMBDA ms : Len(sm[ms[1]].routes[ms[2]]), {"top", "sub"} \X AllIds)

EventCount == MapThenSumSet(LAMBDA ms : Cardinality(sm[ms[1]].events[ms[2]]),
                            {"top", "sub"} \X AllIds)

newState(m, s) ==
  /\ ~sm[m].is_running
  /\ s \notin sm[m].states
  /\ sm' = [sm EXCEPT ![m].states = @ \cup {s},
                      ![m].init = IF @ = NULL_STATE_ID THEN s ELSE @]

addRoute(m, from, e, to, guarded) ==
  /\ ~sm[m].is_running
  /\ RouteCount < MaxRoutes
  /\ from \in sm[m].states
  /\ to = TERM_STATE_ID \/ to \in sm[m].states
  /\ sm' = [sm EXCEPT ![m].routes[from] =
                         Append(@, [event |-> e, next |-> to, guarded |-> guarded])]

addEvent(m, s, e) ==
  /\ ~sm[m].is_running
  /\ EventCount < MaxEvents
  /\ s \in sm[m].states
  /\ e \notin sm[m].events[s]
  /\ sm' = [sm EXCEPT ![m].events[s] = @ \cup {e}]

setSubStateMachine(s) ==
  /\ ~sm.top.is_running
  /\ s \in sm.top.states
  /\ sm' = [sm EXCEPT !.top.sub = @ \cup {s}]

setInitState(m, s) == sm' = [sm EXCEPT ![m].init = s]

-------------------------------------------------------------------------------
(* One machine by itself: its value before a call to its values after. *)

started(M) ==
  IF M.is_running \/ M.init \notin M.states THEN M
  ELSE [M EXCEPT !.is_running = TRUE, !.curr = M.init, !.inside = @ \cup {M.init}]

stopped(M) ==
  IF ~M.is_running THEN M
  ELSE [M EXCEPT !.is_running = FALSE, !.inside = @ \ {M.curr}, !.curr = NULL_STATE_ID]

isTerminated(M) == M.curr = TERM_STATE_ID

\* What the event function of the current state may return, if there is one.
EventResults(M, e) ==
  IF {e, ANY_EVENT_ID} \cap M.events[M.curr] # {}
    THEN AllIds \cup {NULL_STATE_ID} ELSE {NULL_STATE_ID}

\* The states find_if() may lead to: the first route that matches and whose
\* guard holds; NULL_STATE_ID when there is none.
Routed(M, e) ==
  LET rs == M.routes[M.curr]
      fits(i) == rs[i].event \in {ANY_EVENT_ID, e}
      opens(n) == \A i \in 1 .. n : fits(i) => rs[i].guarded
  IN {rs[i].next : i \in {j \in DOMAIN rs : fits(j) /\ opens(j - 1)}}
       \cup (IF opens(Len(rs)) THEN {NULL_STATE_ID} ELSE {})

\* Where run() takes the machine from the event functions on; NULL_STATE_ID
\* when it stays, an identifier that names no state included.
targets(M, e) ==
  LET found == (EventResults(M, e) \ {NULL_STATE_ID})
                 \cup (IF NULL_STATE_ID \in EventResults(M, e) THEN Routed(M, e) ELSE {})
      known == M.states \cup {TERM_STATE_ID}
  IN (found \cap known) \cup (IF found \subseteq known THEN {} ELSE {NULL_STATE_ID})

moved(M, s) ==
  IF s = NULL_STATE_ID THEN M
  ELSE [M EXCEPT !.inside = (@ \ {M.curr}) \cup {s}, !.curr = s]

\* run() of a machine that has no sub-machine.
runAlone(M, e) == IF M.is_running THEN {moved(M, s) : s \in targets(M, e)} ELSE {M}

-------------------------------------------------------------------------------
(* The two machines together. *)

hasSub(M) == M.curr \in M.sub

\* P is sm, or a value of it within a call.
stopTop(P) ==
  IF ~P.top.is_running THEN P
  ELSE [P EXCEPT !.top = stopped(@), !.left = P.sub.is_running]

\* What one call on the machine makes of P in a callback of the sub-machine,
\* which is running and refuses start(), stop() and run() meanwhile.
calledOnce(P) ==
  {P, stopTop(P), [P EXCEPT !.top = started(@)]}
    \cup {[P EXCEPT !.top.init = s] : s \in TopStates}
    \cup (IF P.top.is_running /\ (hasSub(P.top) => isTerminated(P.sub))
            THEN {[P EXCEPT !.top = moved(@, s)] : s \in UNION {targets(P.top, e) : e \in EventIds}}
            ELSE {})

\* bound: three calls on the machine within one call on its sub-machine
called(P) ==
  UNION {calledOnce(Q) : Q \in UNION {calledOnce(R) : R \in calledOnce(P)}}

\* run() of a running machine calls some function of the user.
reacts(M, e) ==
  \/ {e, ANY_EVENT_ID} \cap M.events[M.curr] # {}
  \/ \E i \in DOMAIN M.routes[M.curr] : M.routes[M.curr][i].event \in {ANY_EVENT_ID, e}

\* start() of a machine that is not running
startTop(P) ==
  LET T == started(P.top)
      Q == [[P EXCEPT !.top = T] EXCEPT !.sub = started(@)]
  IN IF ~hasSub(T) THEN {[P EXCEPT !.top = T]}
     ELSE IF P.sub.is_running \/ ~Q.sub.is_running THEN {Q}
     ELSE called(Q)

machineStart ==
  /\ ~sm.top.is_running
  /\ sm.top.init \in sm.top.states
  /\ sm' \in startTop(sm)

machineStop ==
  /\ sm.top.is_running
  /\ sm' = stopTop(sm)

machineRestart ==
  /\ sm.top.is_running
  /\ sm' \in startTop(stopTop(sm))

\* The machine takes event e itself; its sub-machine was stopped when it had
\* terminated, and starts anew with the state that owns it.
runTop(P, e) ==
  \E s \in targets(P.top, e) :
    LET T == moved(P.top, s)
        left == P.left /\ P.sub.is_running
    IN IF s # NULL_STATE_ID /\ hasSub(T)
         THEN \E S \in runAlone(started(P.sub), e) :
                sm' = [top |-> T, sub |-> S, left |-> left, crashed |-> FALSE]
         ELSE sm' = [top |-> T, sub |-> P.sub, left |-> left, crashed |-> FALSE]

\* The values a crash leaves are of no interest.
machineCrash == sm' = [top |-> NewMachine, sub |-> NewMachine, left |-> FALSE, crashed |-> TRUE]

\* What the call on the sub-machine within run(e) leaves.
ranSub(e) ==
  UNION {LET P == [sm EXCEPT !.sub = S]
         IN IF sm.sub.is_running /\ reacts(sm.sub, e) THEN called(P) ELSE {P}
         : S \in runAlone(sm.sub, e)}

\* mutant: a terminated sub-machine is not stopped before the machine goes on
machineRunOn(e) ==
  /\ sm.top.is_running
  /\ IF hasSub(sm.top)
       THEN \E P \in ranSub(e) :
              IF ~hasSub(P.top) THEN machineCrash
              ELSE IF ~isTerminated(P.sub) THEN sm' = P
              ELSE runTop(P, e)
       ELSE runTop(sm, e)

machineRun(e) ==
  /\ sm.top.is_running
  /\ IF hasSub(sm.top)
       THEN \E P \in ranSub(e) :
              IF ~hasSub(P.top) THEN machineCrash
              ELSE IF ~isTerminated(P.sub) THEN sm' = P
              ELSE runTop([P EXCEPT !.sub = stopped(@)], e)
       ELSE runTop(sm, e)

MachineNext ==
  /\ ~sm.crashed
  /\ \/ \E m \in {"top", "sub"} : \E s \in Ids(m) :
          \/ newState(m, s)
          \/ setInitState(m, s)
          \/ \E e \in EventIds \cup {ANY_EVENT_ID} :
               \/ addEvent(m, s, e)
               \/ \E to \in {TERM_STATE_ID} \cup Ids(m), g \in BOOLEAN : addRoute(m, s, e, to, g)
     \/ \E s \in TopStates : setSubStateMachine(s)
     \/ machineStart
     \/ machineStop
     \/ machineRestart
     \/ \E e \in EventIds : machineRun(e)

MachineSpec == MachineInit /\ [][MachineNext]_sm

-------------------------------------------------------------------------------
(* Enter and exit actions pair up, whatever the callbacks of the sub-machine
   call on its machine: the state a running machine is in is the only one
   entered and not left, and a stopped machine is in none.  The sub-machine
   runs only while its machine is in a state that owns it, unless stop() or
   restart() left it running (neither stops it). *)
MachineScope ==
  /\ \A m \in {"top", "sub"} :
       sm[m].inside = IF sm[m].is_running THEN {sm[m].curr} ELSE {}
  /\ sm.sub.is_running => \/ sm.top.is_running /\ hasSub(sm.top)
                          \/ sm.left
===============================================================================
