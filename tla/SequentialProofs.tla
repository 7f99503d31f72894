--------------------------- MODULE SequentialProofs ---------------------------
(***************************************************************************)
(* Proofs about components that live in one thread: the state machine with *)
(* its sub-machine, for any states, routes and events; the buffer, for any *)
(* bytes and block sizes; the alarms, for any length of a day, zones and   *)
(* calendars; the executor of actions, for any number of them; and the     *)
(* tree of modules, for any modules.                                       *)
(***************************************************************************)
EXTENDS StateMachine, Buffer, Alarm, ActionExecutor, ModuleTree, SequenceTheorems, WellFoundedInduction, TLAPS

-------------------------------------------------------------------------------
(* The state machine *)

EventType == EventIds \cup {ANY_EVENT_ID}
RouteType == [event : EventType, next : AllIds, guarded : BOOLEAN]
MachineType ==
  [is_running : BOOLEAN, curr : AllIds \cup {NULL_STATE_ID}, init : AllIds \cup {NULL_STATE_ID},
   states : SUBSET AllIds, routes : [AllIds -> Seq(RouteType)],
   events : [AllIds -> SUBSET EventType], sub : SUBSET TopStates, inside : SUBSET AllIds]

\* A machine by itself: what it entered and did not leave is where it is, and
\* that is a state it has, or the final one; a stopped machine is nowhere.
Scoped(M) ==
  /\ M \in MachineType
  /\ M.is_running => M.inside = {M.curr}
  /\ M.is_running => M.curr \in M.states \cup {TERM_STATE_ID}
  /\ TERM_STATE_ID \notin M.states
  /\ ~M.is_running => M.inside = {}
  /\ ~M.is_running => M.curr = NULL_STATE_ID

PairType == [top : MachineType, sub : MachineType, left : BOOLEAN, crashed : BOOLEAN]
Sane(P) == P \in PairType /\ Scoped(P.top) /\ Scoped(P.sub)

\* The sub-machine runs within a state that owns it, unless stop() left it running.
Owned(P) == P.sub.is_running => P.left \/ (P.top.is_running /\ hasSub(P.top))

MachineInv == Sane(sm) /\ Owned(sm)

\* Within a call of the sub-machine: a machine may leave the state that owns it
\* only when the sub-machine has terminated.
Within(P) == Sane(P) /\ P.sub.is_running /\ (Owned(P) \/ isTerminated(P.sub))

\* Two machines with no state, not running.
LEMMA NewMachines ==
  ASSUME NEW c \in BOOLEAN, NEW P,
         P = [top |-> NewMachine, sub |-> NewMachine, left |-> FALSE, crashed |-> c]
  PROVE  Sane(P) /\ Owned(P)
<1>1. NewMachine \in MachineType
  BY DEF NewMachine, MachineType
<1>2. Scoped(NewMachine) /\ ~NewMachine.is_running
  BY <1>1 DEF Scoped, NewMachine
<1> QED
  BY <1>1, <1>2 DEF Sane, Owned, PairType

LEMMA MachineInvInit == MachineInit => MachineInv
BY NewMachines DEF MachineInit, MachineInv

\* start() enters the initial state, or changes nothing.
LEMMA StartedScoped ==
  ASSUME NEW M, Scoped(M)
  PROVE  /\ Scoped(started(M))
         /\ M.is_running => started(M) = M
         /\ started(M).sub = M.sub
<1>1. CASE M.is_running \/ M.init \notin M.states
  BY <1>1 DEF started, Scoped
<1>2. CASE ~(M.is_running \/ M.init \notin M.states)
  <2>1. PICK y \in MachineType : y = started(M)
    BY <1>2 DEF started, Scoped, MachineType
  <2>2. y.is_running = TRUE /\ y.curr = M.init /\ y.states = M.states /\ y.sub = M.sub
    BY <2>1, <1>2 DEF started, Scoped, MachineType
  <2>3. y.inside = {M.init}
    BY <2>1, <1>2 DEF started, Scoped, MachineType
  <2> QED
    BY <2>1, <2>2, <2>3, <1>2 DEF Scoped
<1> QED
  BY <1>1, <1>2

\* stop() leaves the current state and every other.
LEMMA StoppedScoped ==
  ASSUME NEW M, Scoped(M)
  PROVE  /\ Scoped(stopped(M))
         /\ ~stopped(M).is_running
         /\ stopped(M).sub = M.sub
<1>1. CASE ~M.is_running
  BY <1>1 DEF stopped, Scoped
<1>2. CASE M.is_running
  <2>1. PICK y \in MachineType : y = stopped(M)
    BY <1>2 DEF stopped, Scoped, MachineType
  <2>2. y.is_running = FALSE /\ y.curr = NULL_STATE_ID /\ y.sub = M.sub /\ y.states = M.states
    BY <2>1, <1>2 DEF stopped, Scoped, MachineType
  <2>3. y.inside = {}
    BY <2>1, <1>2 DEF stopped, Scoped, MachineType
  <2> QED
    BY <2>1, <2>2, <2>3, <1>2 DEF Scoped
<1> QED
  BY <1>1, <1>2

\* A move of run() leaves one state and enters one that exists, or is none.
LEMMA MovedScoped ==
  ASSUME NEW M, Scoped(M), M.is_running, NEW e, NEW s \in targets(M, e)
  PROVE  /\ Scoped(moved(M, s))
         /\ moved(M, s).is_running
         /\ moved(M, s).sub = M.sub
<1>1. s \in M.states \cup {TERM_STATE_ID, NULL_STATE_ID}
  BY DEF targets
<1>2. CASE s = NULL_STATE_ID
  BY <1>2 DEF moved
<1>3. CASE s # NULL_STATE_ID
  <2>0. s \in AllIds
    BY <1>1, <1>3 DEF Scoped, MachineType, AllIds
  <2>1. PICK y \in MachineType : y = moved(M, s)
    BY <1>3, <2>0 DEF moved, Scoped, MachineType
  <2>2. y.is_running = TRUE /\ y.curr = s /\ y.sub = M.sub /\ y.states = M.states
    BY <2>1, <1>3 DEF moved, Scoped, MachineType
  <2>3. y.inside = {s}
    BY <2>1, <1>3 DEF moved, Scoped, MachineType
  <2> QED
    BY <2>1, <2>2, <2>3, <1>1, <1>3 DEF Scoped
<1> QED
  BY <1>2, <1>3

\* run() of a machine without sub-machine keeps it sound, and starts or stops nothing.
LEMMA RunAloneScoped ==
  ASSUME NEW M, Scoped(M), NEW e, NEW R \in runAlone(M, e)
  PROVE  Scoped(R) /\ (R.is_running <=> M.is_running)
<1>1. CASE M.is_running
  <2>1. PICK s \in targets(M, e) : R = moved(M, s)
    BY <1>1 DEF runAlone
  <2> QED
    BY <1>1, <2>1, MovedScoped
<1>2. CASE ~M.is_running
  BY <1>2 DEF runAlone
<1> QED
  BY <1>1, <1>2

\* A machine that is built further while it is not running.
LEMMA Rebuilt ==
  ASSUME NEW M, Scoped(M), NEW y \in MachineType, y.is_running = M.is_running,
         y.curr = M.curr, y.inside = M.inside, M.states \subseteq y.states,
         TERM_STATE_ID \notin y.states
  PROVE  Scoped(y)
BY DEF Scoped

\* The calls that build a machine change no running one but its initial state.
LEMMA BuildStep ==
  ASSUME MachineInv, NEW m \in {"top", "sub"}, NEW y \in MachineType,
         sm' = [sm EXCEPT ![m] = y],
         y.is_running = sm[m].is_running, y.curr = sm[m].curr, y.inside = sm[m].inside,
         y.sub = sm[m].sub \/ ~sm[m].is_running, sm[m].states \subseteq y.states,
         TERM_STATE_ID \notin y.states
  PROVE  MachineInv'
<1>0. Sane(sm) /\ Owned(sm)
  BY DEF MachineInv
<1>1. CASE m = "top"
  <2>1. sm' \in PairType /\ sm'.top = y /\ sm'.sub = sm.sub /\ sm'.left = sm.left
    BY <1>0, <1>1 DEF Sane, PairType
  <2>2. Scoped(y)
    BY <1>0, <1>1, Rebuilt DEF Sane
  <2>3. Owned(sm)'
    BY <1>0, <1>1, <2>1 DEF Owned, hasSub
  <2> QED
    BY <1>0, <2>1, <2>2, <2>3 DEF MachineInv, Sane
<1>2. CASE m = "sub"
  <2>1. sm' \in PairType /\ sm'.sub = y /\ sm'.top = sm.top /\ sm'.left = sm.left
    BY <1>0, <1>2 DEF Sane, PairType
  <2>2. Scoped(y)
    BY <1>0, <1>2, Rebuilt DEF Sane
  <2>3. Owned(sm)'
    BY <1>0, <1>2, <2>1 DEF Owned, hasSub
  <2> QED
    BY <1>0, <2>1, <2>2, <2>3 DEF MachineInv, Sane
<1> QED
  BY <1>1, <1>2

\* newState(), addRoute(), addEvent(), setInitState() and setSubStateMachine().
LEMMA BuildInv ==
  ASSUME MachineInv, NEW m \in {"top", "sub"}, NEW s \in Ids(m), NEW e \in EventType,
         NEW to \in {TERM_STATE_ID} \cup Ids(m), NEW g \in BOOLEAN,
         \/ newState(m, s) \/ setInitState(m, s) \/ addEvent(m, s, e)
         \/ addRoute(m, s, e, to, g) \/ (s \in TopStates /\ setSubStateMachine(s))
  PROVE  MachineInv'
<1>0. s \in AllIds /\ to \in AllIds
  BY DEF Ids, AllIds
<1>p. sm \in PairType
  BY DEF MachineInv, Sane
<1>a. PICK M \in MachineType : M = sm[m]
  BY <1>p DEF PairType
<1>b. TERM_STATE_ID \notin sm[m].states /\ TERM_STATE_ID \notin sm.top.states /\ s # TERM_STATE_ID
  BY MachineAssumption DEF MachineInv, Sane, Scoped, Ids
<1>1. CASE newState(m, s)
  <2> DEFINE y == [M EXCEPT !.states = M.states \cup {s},
                            !.init = IF M.init = NULL_STATE_ID THEN s ELSE M.init]
  <2>1. sm' = [sm EXCEPT ![m] = y]
    BY <1>1, <1>a, <1>p DEF newState, PairType
  <2>2. y \in MachineType
    BY <1>0 DEF MachineType
  <2>3. y.is_running = M.is_running /\ y.curr = M.curr /\ y.inside = M.inside /\ y.sub = M.sub
        /\ M.states \subseteq y.states /\ TERM_STATE_ID \notin y.states
    BY <1>a, <1>b DEF MachineType
  <2> HIDE DEF y
  <2> QED
    BY <1>a, <2>1, <2>2, <2>3, BuildStep
<1>2. CASE setInitState(m, s)
  <2> DEFINE y == [M EXCEPT !.init = s]
  <2>1. sm' = [sm EXCEPT ![m] = y]
    BY <1>2, <1>a, <1>p DEF setInitState, PairType
  <2>2. y \in MachineType
    BY <1>0 DEF MachineType
  <2>3. y.is_running = M.is_running /\ y.curr = M.curr /\ y.inside = M.inside /\ y.sub = M.sub
        /\ M.states \subseteq y.states /\ TERM_STATE_ID \notin y.states
    BY <1>a, <1>b DEF MachineType
  <2> HIDE DEF y
  <2> QED
    BY <1>a, <2>1, <2>2, <2>3, BuildStep
<1>3. CASE addEvent(m, s, e)
  <2> DEFINE y == [M EXCEPT !.events = [M.events EXCEPT ![s] = M.events[s] \cup {e}]]
  <2>1. sm' = [sm EXCEPT ![m] = y]
    BY <1>3, <1>a, <1>p DEF addEvent, PairType
  <2>2. y \in MachineType
    BY <1>0 DEF MachineType
  <2>3. y.is_running = M.is_running /\ y.curr = M.curr /\ y.inside = M.inside /\ y.sub = M.sub
        /\ M.states \subseteq y.states /\ TERM_STATE_ID \notin y.states
    BY <1>a, <1>b DEF MachineType
  <2> HIDE DEF y
  <2> QED
    BY <1>a, <2>1, <2>2, <2>3, BuildStep
<1>4. CASE addRoute(m, s, e, to, g)
  <2> DEFINE r == [event |-> e, next |-> to, guarded |-> g]
             y == [M EXCEPT !.routes = [M.routes EXCEPT ![s] = Append(M.routes[s], r)]]
  <2>1. sm' = [sm EXCEPT ![m] = y]
    BY <1>4, <1>a, <1>p DEF addRoute, PairType
  <2>2. y \in MachineType
    <3>1. r \in RouteType
      BY <1>0 DEF RouteType
    <3>2. M.routes[s] \in Seq(RouteType)
      BY <1>0 DEF MachineType
    <3>3. Append(M.routes[s], r) \in Seq(RouteType)
      BY <3>1, <3>2
    <3> QED
      BY <1>0, <3>3 DEF MachineType
  <2>3. y.is_running = M.is_running /\ y.curr = M.curr /\ y.inside = M.inside /\ y.sub = M.sub
        /\ M.states \subseteq y.states /\ TERM_STATE_ID \notin y.states
    BY <1>a, <1>b DEF MachineType
  <2> HIDE DEF y
  <2> QED
    BY <1>a, <2>1, <2>2, <2>3, BuildStep
<1>5. CASE s \in TopStates /\ setSubStateMachine(s)
  <2>a. PICK P \in MachineType : P = sm.top
    BY <1>p DEF PairType
  <2> DEFINE y == [P EXCEPT !.sub = P.sub \cup {s}]
  <2>1. sm' = [sm EXCEPT !["top"] = y]
    BY <1>5, <2>a, <1>p DEF setSubStateMachine, PairType
  <2>2. y \in MachineType
    BY <1>5 DEF MachineType
  <2>3. y.is_running = P.is_running /\ y.curr = P.curr /\ y.inside = P.inside
        /\ P.states \subseteq y.states /\ TERM_STATE_ID \notin y.states
    BY <1>b, <2>a DEF MachineType
  <2>4. ~sm["top"].is_running
    BY <1>5 DEF setSubStateMachine
  <2> HIDE DEF y
  <2> QED
    BY <2>a, <2>1, <2>2, <2>3, <2>4, BuildStep
<1> QED
  BY <1>1, <1>2, <1>3, <1>4, <1>5

\* stop() leaves the sub-machine as it is.
LEMMA StopTopOwned ==
  ASSUME NEW P, Sane(P), NEW Q, Q = stopTop(P)
  PROVE  /\ Sane(Q)
         /\ Owned(P) => Owned(Q)
         /\ Q.sub = P.sub
         /\ ~Q.top.is_running
<1>1. CASE ~P.top.is_running
  BY <1>1 DEF stopTop
<1>2. CASE P.top.is_running
  <2>1. PICK T : T = stopped(P.top)
    OBVIOUS
  <2>2. Scoped(T) /\ ~T.is_running /\ T \in MachineType
    BY <2>1, StoppedScoped DEF Sane, Scoped
  <2>3. P.sub.is_running \in BOOLEAN
    BY DEF Sane, PairType, MachineType
  <2>4. Q \in PairType /\ Q.top = T /\ Q.sub = P.sub /\ Q.left = P.sub.is_running
    BY <1>2, <2>1, <2>2, <2>3 DEF stopTop, Sane, PairType
  <2> QED
    BY <2>2, <2>4 DEF Sane, Owned
<1> QED
  BY <1>1, <1>2

\* Another value for the machine alone.
LEMMA WithTop ==
  ASSUME NEW P, Sane(P), NEW T, Scoped(T), NEW Q, Q = [P EXCEPT !.top = T]
  PROVE  Sane(Q) /\ Q.top = T /\ Q.sub = P.sub /\ Q.left = P.left
BY DEF Sane, PairType, Scoped

\* Another value for the sub-machine alone.
LEMMA WithSub ==
  ASSUME NEW P, Sane(P), NEW S, Scoped(S), NEW Q, Q = [P EXCEPT !.sub = S]
  PROVE  Sane(Q) /\ Q.sub = S /\ Q.top = P.top /\ Q.left = P.left
BY DEF Sane, PairType, Scoped

\* One call on the machine in a callback of its running sub-machine.
LEMMA CalledOnceWithin ==
  ASSUME NEW P, Within(P), NEW Q \in calledOnce(P)
  PROVE  Within(Q) /\ Q.sub = P.sub
<1>0. Sane(P) /\ Scoped(P.top) /\ P.sub.is_running /\ (Owned(P) \/ isTerminated(P.sub))
  BY DEF Within, Sane
<1>1. CASE Q = stopTop(P)
  BY <1>0, <1>1, StopTopOwned DEF Within
<1>2. CASE Q = [P EXCEPT !.top = started(P.top)]
  <2>1. PICK T : T = started(P.top)
    OBVIOUS
  <2>2. Scoped(T) /\ (P.top.is_running => T = P.top)
    BY <1>0, <2>1, StartedScoped
  <2>3. Sane(Q) /\ Q.top = T /\ Q.sub = P.sub /\ Q.left = P.left
    BY <1>0, <1>2, <2>1, <2>2, WithTop
  <2>4. Owned(P) => Owned(Q)
    BY <1>0, <2>2, <2>3 DEF Owned
  <2> QED
    BY <1>0, <2>3, <2>4 DEF Within
<1>3. ASSUME NEW s \in TopStates, Q = [P EXCEPT !.top.init = s]
      PROVE  Within(Q) /\ Q.sub = P.sub
  <2>0. P.top \in MachineType
    BY <1>0 DEF Scoped
  <2>1. PICK y \in MachineType : y = [P.top EXCEPT !.init = s]
    BY <2>0 DEF MachineType, AllIds
  <2>2. /\ y.is_running = P.top.is_running /\ y.curr = P.top.curr /\ y.inside = P.top.inside
        /\ y.sub = P.top.sub /\ P.top.states \subseteq y.states
        /\ TERM_STATE_ID \notin y.states
    BY <1>0, <2>0, <2>1 DEF MachineType, Scoped
  <2>3. Scoped(y)
    BY <1>0, <2>2, Rebuilt
  <2>4. Q = [P EXCEPT !.top = y]
    BY <1>3, <2>1
  <2>5. Sane(Q) /\ Q.top = y /\ Q.sub = P.sub /\ Q.left = P.left
    BY <1>0, <2>3, <2>4, WithTop
  <2>6. Owned(P) => Owned(Q)
    BY <2>2, <2>5 DEF Owned, hasSub
  <2> QED
    BY <1>0, <2>5, <2>6 DEF Within
<1>4. ASSUME P.top.is_running, hasSub(P.top) => isTerminated(P.sub), NEW e,
             NEW s \in targets(P.top, e), Q = [P EXCEPT !.top = moved(P.top, s)]
      PROVE  Within(Q) /\ Q.sub = P.sub
  <2>1. PICK T : T = moved(P.top, s)
    OBVIOUS
  <2>2. Scoped(T) /\ T.is_running
    BY <1>0, <1>4, <2>1, MovedScoped
  <2>3. Sane(Q) /\ Q.top = T /\ Q.sub = P.sub /\ Q.left = P.left
    BY <1>0, <1>4, <2>1, <2>2, WithTop
  <2>4. Owned(Q) \/ isTerminated(Q.sub)
    BY <1>0, <1>4, <2>3 DEF Owned
  <2> QED
    BY <1>0, <2>3, <2>4 DEF Within
<1> QED
  <2>1. CASE P.top.is_running /\ (hasSub(P.top) => isTerminated(P.sub))
    <3>1. CASE \E s \in UNION {targets(P.top, e) : e \in EventIds} :
                 Q = [P EXCEPT !.top = moved(P.top, s)]
      <4>1. PICK e \in EventIds :
              \E s \in targets(P.top, e) : Q = [P EXCEPT !.top = moved(P.top, s)]
        BY <3>1
      <4>2. PICK s \in targets(P.top, e) : Q = [P EXCEPT !.top = moved(P.top, s)]
        BY <4>1
      <4> QED
        BY <1>4, <2>1, <4>2
    <3> QED
      BY <1>1, <1>2, <1>3, <2>1, <3>1 DEF calledOnce, Within
  <2> QED
    BY <1>1, <1>2, <1>3, <2>1 DEF calledOnce, Within

\* All the calls made in the callbacks of one call on the sub-machine.
LEMMA CalledWithin ==
  ASSUME NEW P, Within(P), NEW Q \in called(P)
  PROVE  Within(Q) /\ Q.sub = P.sub
<1>0. PICK R \in calledOnce(P) : \E U \in calledOnce(R) : Q \in calledOnce(U)
  BY DEF called
<1>1. PICK U \in calledOnce(R) : Q \in calledOnce(U)
  BY <1>0
<1>2. Within(R) /\ R.sub = P.sub
  BY CalledOnceWithin
<1>3. Within(U) /\ U.sub = P.sub
  BY <1>1, <1>2, CalledOnceWithin
<1> QED
  BY <1>1, <1>3, CalledOnceWithin

\* A machine that is in a state which owns the sub-machine is running.
LEMMA OwnerRuns ==
  ASSUME NEW T, Scoped(T), hasSub(T)
  PROVE  T.is_running
<1>1. T.sub \subseteq TopStates /\ T.is_running \in BOOLEAN
  BY DEF Scoped, MachineType
<1> QED
  BY <1>1, MachineAssumption DEF Scoped, hasSub

\* start(), the calls of the sub-machine's enter action included.
LEMMA StartTopOwned ==
  ASSUME NEW P, Sane(P), Owned(P), ~P.top.is_running, NEW R \in startTop(P)
  PROVE  Sane(R) /\ Owned(R)
<1>0. Scoped(P.top) /\ Scoped(P.sub) /\ (P.sub.is_running => P.left)
  BY DEF Sane, Owned
<1>1. PICK T : T = started(P.top)
  OBVIOUS
<1>2. Scoped(T)
  BY <1>0, <1>1, StartedScoped
<1>3. PICK S : S = started(P.sub)
  OBVIOUS
<1>4. Scoped(S)
  BY <1>0, <1>3, StartedScoped
<1>5. PICK U : U = [P EXCEPT !.top = T]
  OBVIOUS
<1>6. Sane(U) /\ U.top = T /\ U.sub = P.sub /\ U.left = P.left
  BY <1>2, <1>5, WithTop
<1>7. PICK Q : Q = [U EXCEPT !.sub = S]
  OBVIOUS
<1>8. Sane(Q) /\ Q.sub = S /\ Q.top = T
  BY <1>4, <1>6, <1>7, WithSub
<1>9. CASE ~hasSub(T)
  <2>1. R = U
    BY <1>1, <1>5, <1>9 DEF startTop
  <2> QED
    BY <1>0, <1>6, <2>1 DEF Owned
<1>10. CASE hasSub(T)
  <2>1. T.is_running
    BY <1>2, <1>10, OwnerRuns
  <2>2. Owned(Q)
    BY <1>8, <1>10, <2>1 DEF Owned
  <2>3. U.sub = P.sub
    BY <1>6
  <2>4. Q = [[P EXCEPT !.top = T] EXCEPT !.sub = started(@)]
    BY <1>3, <1>5, <1>7, <2>3
  <2>5. R = Q \/ (~P.sub.is_running /\ Q.sub.is_running /\ R \in called(Q))
    BY <1>1, <1>10, <2>4 DEF startTop
  <2>6. CASE Q.sub.is_running /\ R \in called(Q)
    <3>1. Within(R) /\ R.sub = Q.sub
      BY <1>8, <2>2, <2>6, CalledWithin DEF Within
    <3>2. ~isTerminated(Q.sub) \/ R = Q
      <4>1. CASE R # Q
        <5>1. ~P.sub.is_running
          BY <2>5, <4>1
        <5>2. S.is_running /\ P.sub.init \in P.sub.states /\ S.curr = P.sub.init
          BY <1>0, <1>3, <1>8, <2>6, <5>1 DEF started, Scoped, MachineType
        <5>3. ~isTerminated(S)
          BY <1>0, <5>2 DEF Scoped, isTerminated
        <5> QED
          BY <1>8, <5>3
      <4> QED
        BY <4>1
    <3> QED
      BY <1>8, <2>2, <3>1, <3>2 DEF Within
  <2> QED
    BY <1>8, <2>2, <2>5, <2>6
<1> QED
  BY <1>9, <1>10

\* The calls that start and stop the machine, its sub-machine included.
LEMMA StartStopInv ==
  ASSUME MachineInv, machineStart \/ machineStop \/ machineRestart
  PROVE  MachineInv'
<1>0. Sane(sm) /\ Owned(sm)
  BY DEF MachineInv
<1>1. CASE machineStart
  BY <1>0, <1>1, StartTopOwned DEF machineStart, MachineInv
<1>2. CASE machineStop
  BY <1>0, <1>2, StopTopOwned DEF machineStop, MachineInv
<1>3. CASE machineRestart
  <2>1. PICK P : P = stopTop(sm)
    OBVIOUS
  <2>2. Sane(P) /\ Owned(P) /\ ~P.top.is_running
    BY <1>0, <2>1, StopTopOwned
  <2>3. sm' \in startTop(P)
    BY <1>3, <2>1 DEF machineRestart
  <2> QED
    BY <2>2, <2>3, StartTopOwned DEF MachineInv
<1> QED
  BY <1>1, <1>2, <1>3

\* The machine takes an event itself.
LEMMA RunTopInv ==
  ASSUME NEW P, Sane(P), NEW e, P.top.is_running, P.sub.is_running => P.left, runTop(P, e)
  PROVE  MachineInv'
<1>0. Scoped(P.top) /\ Scoped(P.sub)
  BY DEF Sane
<1>1. PICK s \in targets(P.top, e) :
        LET T == moved(P.top, s)
            left == P.left /\ P.sub.is_running
        IN IF s # NULL_STATE_ID /\ hasSub(T)
             THEN \E S \in runAlone(started(P.sub), e) :
                    sm' = [top |-> T, sub |-> S, left |-> left, crashed |-> FALSE]
             ELSE sm' = [top |-> T, sub |-> P.sub, left |-> left, crashed |-> FALSE]
  BY DEF runTop
<1>2. PICK T : T = moved(P.top, s)
  OBVIOUS
<1>3. Scoped(T) /\ T.is_running
  BY <1>0, <1>2, MovedScoped
<1>4. PICK left \in BOOLEAN : left = (P.left /\ P.sub.is_running)
  OBVIOUS
<1>5. CASE s # NULL_STATE_ID /\ hasSub(T)
  <2>1. PICK S \in runAlone(started(P.sub), e) :
          sm' = [top |-> T, sub |-> S, left |-> left, crashed |-> FALSE]
    BY <1>1, <1>2, <1>4, <1>5
  <2>2. Scoped(S)
    BY <1>0, StartedScoped, RunAloneScoped
  <2>3. T \in MachineType /\ S \in MachineType
    BY <1>3, <2>2 DEF Scoped
  <2>4. sm' \in PairType /\ sm'.top = T /\ sm'.sub = S
    BY <2>1, <2>3 DEF PairType
  <2> QED
    BY <1>3, <1>5, <2>2, <2>4 DEF MachineInv, Sane, Owned
<1>6. CASE ~(s # NULL_STATE_ID /\ hasSub(T))
  <2>1. sm' = [top |-> T, sub |-> P.sub, left |-> left, crashed |-> FALSE]
    BY <1>1, <1>2, <1>4, <1>6
  <2>2. T \in MachineType /\ P.sub \in MachineType
    BY <1>0, <1>3 DEF Scoped
  <2>3. sm' \in PairType /\ sm'.top = T /\ sm'.sub = P.sub /\ sm'.left = left
    BY <2>1, <2>2 DEF PairType
  <2> QED
    BY <1>0, <1>3, <1>4, <2>3 DEF MachineInv, Sane, Owned
<1> QED
  BY <1>5, <1>6

\* The call on the sub-machine within run(), and the calls of its callbacks.
LEMMA RanSubOwned ==
  ASSUME MachineInv, hasSub(sm.top), NEW e, NEW P \in ranSub(e)
  PROVE  Sane(P) /\ (Owned(P) \/ isTerminated(P.sub))
<1>0. Sane(sm) /\ Scoped(sm.top) /\ Scoped(sm.sub)
  BY DEF MachineInv, Sane
<1>1. PICK S \in runAlone(sm.sub, e) :
        P \in (IF sm.sub.is_running /\ reacts(sm.sub, e)
                 THEN called([sm EXCEPT !.sub = S]) ELSE {[sm EXCEPT !.sub = S]})
  BY DEF ranSub
<1>2. Scoped(S) /\ (S.is_running <=> sm.sub.is_running)
  BY <1>0, RunAloneScoped
<1>3. PICK Q : Q = [sm EXCEPT !.sub = S]
  OBVIOUS
<1>4. Sane(Q) /\ Q.sub = S /\ Q.top = sm.top
  BY <1>0, <1>2, <1>3, WithSub
<1>5. Owned(Q)
  BY <1>0, <1>4, OwnerRuns DEF Owned
<1>6. CASE sm.sub.is_running /\ reacts(sm.sub, e)
  <2>1. Within(Q)
    BY <1>2, <1>4, <1>5, <1>6 DEF Within
  <2>2. P \in called(Q)
    BY <1>1, <1>3, <1>6
  <2>3. Within(P)
    BY <2>1, <2>2, CalledWithin
  <2> QED
    BY <2>3 DEF Within
<1>7. CASE ~(sm.sub.is_running /\ reacts(sm.sub, e))
  <2>1. P = Q
    BY <1>1, <1>3, <1>7
  <2> QED
    BY <1>4, <1>5, <2>1
<1> QED
  BY <1>6, <1>7

\* run(): the sub-machine first, and the machine when it has none or it terminated.
LEMMA MachineRunInv ==
  ASSUME MachineInv, NEW e, machineRun(e)
  PROVE  MachineInv'
<1>0. Sane(sm) /\ Owned(sm)
  BY DEF MachineInv
<1>1. CASE hasSub(sm.top)
  <2>1. PICK P \in ranSub(e) :
          IF ~hasSub(P.top) THEN machineCrash
          ELSE IF ~isTerminated(P.sub) THEN sm' = P
          ELSE runTop([P EXCEPT !.sub = stopped(@)], e)
    BY <1>1 DEF machineRun
  <2>2. Sane(P) /\ (Owned(P) \/ isTerminated(P.sub))
    BY <1>1, RanSubOwned
  <2>3. CASE ~hasSub(P.top)
    BY <2>1, <2>3, NewMachines DEF machineCrash, MachineInv
  <2>4. CASE hasSub(P.top) /\ ~isTerminated(P.sub)
    BY <2>1, <2>2, <2>4 DEF MachineInv
  <2>5. CASE hasSub(P.top) /\ isTerminated(P.sub)
    <3>1. PICK Z : Z = stopped(P.sub)
      OBVIOUS
    <3>2. Scoped(Z) /\ ~Z.is_running
      BY <2>2, <3>1, StoppedScoped DEF Sane
    <3>3. PICK Q : Q = [P EXCEPT !.sub = Z]
      OBVIOUS
    <3>4. Sane(Q) /\ Q.sub = Z /\ Q.top = P.top
      BY <2>2, <3>2, <3>3, WithSub
    <3>5. runTop(Q, e)
      BY <2>1, <2>5, <3>1, <3>3
    <3>6. Q.top.is_running
      BY <2>5, <3>4, OwnerRuns DEF Sane
    <3> QED
      BY <3>2, <3>4, <3>5, <3>6, RunTopInv
  <2> QED
    BY <2>3, <2>4, <2>5
<1>2. CASE ~hasSub(sm.top)
  <2>1. sm.sub.is_running => sm.left
    BY <1>0, <1>2 DEF Owned
  <2> QED
    BY <1>0, <1>2, <2>1, RunTopInv DEF machineRun
<1> QED
  BY <1>1, <1>2

\* Every call keeps the machines sound.
LEMMA MachineInvNext == MachineInv /\ [MachineNext]_sm => MachineInv'
<1> SUFFICES ASSUME MachineInv, [MachineNext]_sm PROVE MachineInv'
  OBVIOUS
<1>1. ASSUME NEW m \in {"top", "sub"}, NEW s \in Ids(m),
             \/ newState(m, s)
             \/ setInitState(m, s)
             \/ \E e \in EventIds \cup {ANY_EVENT_ID} :
                  \/ addEvent(m, s, e)
                  \/ \E to \in {TERM_STATE_ID} \cup Ids(m), g \in BOOLEAN : addRoute(m, s, e, to, g)
      PROVE MachineInv'
  BY <1>1, BuildInv DEF EventType
<1>2. ASSUME NEW s \in TopStates, setSubStateMachine(s) PROVE MachineInv'
  BY <1>2, BuildInv DEF EventType, Ids
<1>3. CASE machineStart \/ machineStop \/ machineRestart
  BY <1>3, StartStopInv
<1>4. ASSUME NEW e \in EventIds, machineRun(e) PROVE MachineInv'
  BY <1>4, MachineRunInv
<1>5. CASE UNCHANGED sm
  BY <1>5 DEF MachineInv
<1> QED
  BY <1>1, <1>2, <1>3, <1>4, <1>5 DEF MachineNext

\* A machine and its sub-machine, whatever their states, routes, guards and events: enter
\* and exit actions pair up through start(), stop(), restart() and every transition of
\* run(), and the sub-machine runs only within a state that owns it or left by stop(),
\* calls on the machine by callbacks of its sub-machine included.
THEOREM MachineScoped == MachineSpec => []MachineScope
<1>1. MachineInv => MachineScope
  <2> SUFFICES ASSUME MachineInv PROVE MachineScope
    OBVIOUS
  <2>1. \A m \in {"top", "sub"} : Scoped(sm[m])
    BY DEF MachineInv, Sane
  <2>2. \A m \in {"top", "sub"} : sm[m].inside = IF sm[m].is_running THEN {sm[m].curr} ELSE {}
    BY <2>1 DEF Scoped
  <2>3. sm.sub.is_running => sm.left \/ (sm.top.is_running /\ hasSub(sm.top))
    BY DEF MachineInv, Owned
  <2> QED
    BY <2>2, <2>3 DEF MachineScope
<1> QED
  BY <1>1, MachineInvInit, MachineInvNext, PTL DEF MachineSpec

-------------------------------------------------------------------------------
(* The buffer *)

Cells == Bytes \cup {Garbage}
BufType == [mem : Seq(Cells), r : Nat, w : Nat]

\* The indexes of a buffer lie within its block, in order.
Sound(b) == b \in BufType /\ b.r <= b.w /\ b.w <= Len(b.mem)

BufferInv ==
  /\ bu \in [buf : [Ends -> BufType], want : [Ends -> Seq(Bytes)]]
  /\ \A e \in Ends : Sound(bu.buf[e]) /\ Readable(bu.buf[e]) = bu.want[e]

\* What a buffer gives to read.
LEMMA ReadableCells ==
  ASSUME NEW b, Sound(b)
  PROVE  /\ Readable(b) \in Seq(Cells)
         /\ Len(Readable(b)) = b.w - b.r
         /\ \A i \in 1 .. b.w - b.r : Readable(b)[i] = b.mem[b.r + i]
<1>1. b.r \in Nat /\ b.w \in Nat /\ b.mem \in Seq(Cells) /\ Len(b.mem) \in Nat
  BY DEF Sound, BufType
<1>2. PICK k \in Nat : k = b.w - b.r
  BY <1>1 DEF Sound
<1>3. \A i \in 1 .. k : b.r + i <= Len(b.mem) /\ b.r + i \in 1 .. Len(b.mem)
  BY <1>1, <1>2 DEF Sound
<1>4. Readable(b) = [i \in 1 .. k |-> IF b.r + i <= Len(b.mem) THEN b.mem[b.r + i] ELSE Garbage]
  BY <1>2 DEF Readable, readableSize
<1>5. \A i \in 1 .. k : b.mem[b.r + i] \in Cells
  BY <1>1, <1>3
<1>6. Readable(b) \in [1 .. k -> Cells]
  BY <1>3, <1>4, <1>5
<1>7. Readable(b) \in Seq(Cells) /\ Len(Readable(b)) = k
  BY <1>6, <1>2
<1> QED
  BY <1>2, <1>3, <1>4, <1>7

\* How a buffer is shown to give the bytes q to read.
LEMMA ReadableIs ==
  ASSUME NEW b, Sound(b), NEW C, NEW q \in Seq(C), Len(q) = b.w - b.r,
         \A i \in 1 .. Len(q) : q[i] = b.mem[b.r + i]
  PROVE  Readable(b) = q
<1>1. PICK p \in Seq(Cells) : p = Readable(b)
  BY ReadableCells
<1>2. Len(p) = Len(q) /\ \A i \in 1 .. Len(q) : p[i] = q[i]
  BY <1>1, ReadableCells
<1>3. p = [i \in 1 .. Len(p) |-> p[i]] /\ q = [i \in 1 .. Len(q) |-> q[i]]
  OBVIOUS
<1> QED
  BY <1>1, <1>2, <1>3

\* There is nothing to read when the indexes meet.
LEMMA NothingReadable ==
  ASSUME NEW b, Sound(b), b.w = b.r
  PROVE  Readable(b) = <<>>
<1>0. <<>> \in Seq(Cells)
  OBVIOUS
<1>1. PICK q \in Seq(Cells) : q = <<>>
  BY <1>0
<1>2. Len(q) = b.w - b.r /\ Len(q) = 0
  BY <1>1 DEF Sound, BufType
<1>3. \A i \in 1 .. Len(q) : q[i] = b.mem[b.r + i]
  BY <1>2
<1> QED
  BY <1>1, <1>2, <1>3, ReadableIs

\* memcpy() and memmove() change the bytes they are given and no other.
LEMMA CopiedCells ==
  ASSUME NEW mem \in Seq(Cells), NEW at \in Nat, NEW s \in Seq(Cells)
  PROVE  /\ Copied(mem, at, s) \in Seq(Cells)
         /\ Len(Copied(mem, at, s)) = Len(mem)
         /\ \A i \in 1 .. Len(mem) :
              Copied(mem, at, s)[i] = IF at < i /\ i <= at + Len(s) THEN s[i - at] ELSE mem[i]
<1>1. Len(mem) \in Nat /\ Len(s) \in Nat
  OBVIOUS
<1>2. \A i \in 1 .. Len(mem) : i \in at + 1 .. at + Len(s) <=> at < i /\ i <= at + Len(s)
  BY <1>1
<1>3. \A i \in 1 .. Len(mem) :
        (IF i \in at + 1 .. at + Len(s) THEN s[i - at] ELSE mem[i]) \in Cells
  <2> SUFFICES ASSUME NEW i \in 1 .. Len(mem)
               PROVE (IF i \in at + 1 .. at + Len(s) THEN s[i - at] ELSE mem[i]) \in Cells
    OBVIOUS
  <2>1. CASE i \in at + 1 .. at + Len(s)
    <3>1. i - at \in 1 .. Len(s)
      BY <1>1, <2>1
    <3>2. s[i - at] \in Cells
      BY <3>1
    <3> QED
      BY <2>1, <3>2
  <2> QED
    BY <2>1
<1>4. Copied(mem, at, s) \in [1 .. Len(mem) -> Cells]
  BY <1>3 DEF Copied
<1>5. Copied(mem, at, s) \in Seq(Cells) /\ Len(Copied(mem, at, s)) = Len(mem)
  BY <1>1, <1>4
<1> QED
  BY <1>2, <1>5 DEF Copied

\* A new block is as long as it was asked for.
LEMMA FreshCells ==
  ASSUME NEW n \in Nat
  PROVE  Fresh(n) \in Seq(Cells) /\ Len(Fresh(n)) = n
<1>1. Fresh(n) \in [1 .. n -> Cells]
  BY DEF Fresh, Cells
<1> QED
  BY <1>1

\* A new buffer has nothing to read.
LEMMA NewBufferSound ==
  ASSUME NEW n \in Nat
  PROVE  Sound(NewBuffer(n)) /\ Readable(NewBuffer(n)) = <<>>
<1>1. PICK f \in Seq(Cells) : f = Fresh(n)
  BY FreshCells
<1>2. NewBuffer(n) = [mem |-> f, r |-> 0, w |-> 0]
  BY <1>1 DEF NewBuffer
<1>3. Sound(NewBuffer(n))
  BY <1>2 DEF Sound, BufType
<1> QED
  BY <1>2, <1>3, NothingReadable

\* Forgetting what is outside the readable part leaves what there is to read.
LEMMA TidySound ==
  ASSUME NEW b, Sound(b)
  PROVE  Sound(Tidy(b)) /\ Readable(Tidy(b)) = Readable(b)
<1>1. b.r \in Nat /\ b.w \in Nat /\ b.mem \in Seq(Cells) /\ Len(b.mem) \in Nat
  BY DEF Sound, BufType
<1>2. PICK m : m = [i \in DOMAIN b.mem |-> IF i \in b.r + 1 .. b.w THEN b.mem[i] ELSE Garbage]
  OBVIOUS
<1>3. m \in [1 .. Len(b.mem) -> Cells]
  BY <1>1, <1>2 DEF Cells
<1>4. m \in Seq(Cells) /\ Len(m) = Len(b.mem)
  BY <1>1, <1>3
<1>5. Tidy(b) = [b EXCEPT !.mem = m]
  BY <1>2 DEF Tidy
<1>6. Tidy(b) \in BufType /\ Tidy(b).mem = m /\ Tidy(b).r = b.r /\ Tidy(b).w = b.w
  BY <1>4, <1>5 DEF Sound, BufType
<1>7. Sound(Tidy(b))
  BY <1>4, <1>6 DEF Sound
<1>8. \A i \in 1 .. b.w - b.r : b.r + i \in 1 .. Len(b.mem) /\ b.r + i \in b.r + 1 .. b.w
  BY <1>1 DEF Sound
<1>9. \A i \in 1 .. b.w - b.r : m[b.r + i] = b.mem[b.r + i]
  BY <1>1, <1>2, <1>8
<1>10. PICK q \in Seq(Cells) : q = Readable(b)
  BY ReadableCells
<1>11. Len(q) = b.w - b.r /\ \A i \in 1 .. Len(q) : q[i] = Tidy(b).mem[Tidy(b).r + i]
  BY <1>6, <1>9, <1>10, ReadableCells
<1> QED
  BY <1>6, <1>7, <1>10, <1>11, ReadableIs

\* What was copied into a block is read there.
LEMMA CopiedRead ==
  ASSUME NEW f \in Seq(Cells), NEW r \in Nat, NEW q \in Seq(Cells), r + Len(q) <= Len(f)
  PROVE  \A i \in 1 .. Len(q) : Copied(f, r, q)[r + i] = q[i]
<1>1. PICK l \in Nat : l = Len(q)
  OBVIOUS
<1>2. PICK k \in Nat : k = Len(f)
  OBVIOUS
<1>3. PICK m : m = Copied(f, r, q)
  OBVIOUS
<1>4. \A i \in 1 .. k : m[i] = IF r < i /\ i <= r + l THEN q[i - r] ELSE f[i]
  BY <1>1, <1>2, <1>3, CopiedCells
<1>5. r + l <= k
  BY <1>1, <1>2
<1>6. ASSUME NEW i \in 1 .. l PROVE m[r + i] = q[i]
  <2>1. r + i \in 1 .. k /\ r < r + i /\ r + i <= r + l /\ (r + i) - r = i
    BY <1>5
  <2>2. m[r + i] = q[(r + i) - r]
    BY <2>1, <1>4
  <2> QED
    BY <2>1, <2>2
<1> QED
  BY <1>1, <1>3, <1>6

\* ensureWritableSize() makes room, by a move to the front or a new block, and loses nothing.
LEMMA EnsureSound ==
  ASSUME NEW b, Sound(b), NEW n \in Nat
  PROVE  /\ Sound(ensureWritableSize(b, n))
         /\ Readable(ensureWritableSize(b, n)) = Readable(b)
         /\ n <= writableSize(ensureWritableSize(b, n))
<1>1. b \in BufType /\ b.r \in Nat /\ b.w \in Nat /\ b.mem \in Seq(Cells) /\ Len(b.mem) \in Nat
  BY DEF Sound, BufType
<1>2. PICK q \in Seq(Cells) : q = Readable(b)
  BY ReadableCells
<1>3. Len(q) = b.w - b.r /\ \A i \in 1 .. Len(q) : q[i] = b.mem[b.r + i]
  BY <1>2, ReadableCells
<1>4. CASE n = 0 \/ writableSize(b) >= n
  <2>0. ~(writableSize(b) < n)
    BY <1>1, <1>4 DEF writableSize, Sound
  <2>1. ensureWritableSize(b, n) = b
    BY <1>4, <2>0 DEF ensureWritableSize
  <2> QED
    BY <1>1, <1>4, <2>1 DEF writableSize, Sound
<1>5. CASE n # 0 /\ ~(writableSize(b) >= n) /\ writableSize(b) + b.r >= n
  <2>1. PICK m \in Seq(Cells) : m = Copied(b.mem, 0, q)
    BY <1>1, CopiedCells
  <2>2. Len(m) = Len(b.mem) /\ \A i \in 1 .. Len(q) : m[i] = q[i]
    <3>1. \A i \in 1 .. Len(q) : i \in 1 .. Len(b.mem) /\ 0 < i /\ i <= 0 + Len(q) /\ i - 0 = i
      BY <1>1, <1>3 DEF Sound
    <3>2. /\ Len(m) = Len(b.mem)
          /\ \A i \in 1 .. Len(b.mem) : m[i] = IF 0 < i /\ i <= 0 + Len(q) THEN q[i - 0] ELSE b.mem[i]
      BY <1>1, <2>1, CopiedCells
    <3> QED
      BY <3>1, <3>2
  <2>3. PICK y : y = [mem |-> m, r |-> 0, w |-> b.w - b.r]
    OBVIOUS
  <2>4. ensureWritableSize(b, n) = y
    <3>1. writableSize(b) < n
      BY <1>1, <1>5 DEF writableSize
    <3> QED
      BY <1>2, <1>5, <2>1, <2>3, <3>1 DEF ensureWritableSize
  <2>5. Sound(y)
    BY <1>1, <2>2, <2>3 DEF Sound, BufType
  <2>6. y.r = 0 /\ y.mem = m /\ y.w = b.w - b.r
    BY <2>3
  <2>7. Len(q) = y.w - y.r /\ \A i \in 1 .. Len(q) : q[i] = y.mem[y.r + i]
    BY <1>1, <1>3, <2>2, <2>6
  <2>8. Readable(y) = q
    BY <2>5, <2>7, ReadableIs
  <2>9. n <= writableSize(y)
    BY <1>1, <1>5, <2>2, <2>6 DEF writableSize
  <2> QED
    BY <1>2, <2>4, <2>5, <2>8, <2>9
<1>6. CASE n # 0 /\ ~(writableSize(b) >= n) /\ ~(writableSize(b) + b.r >= n)
  <2>0. 2 * (b.w + n) \in Nat /\ b.r + (b.w - b.r) <= 2 * (b.w + n)
    BY <1>1 DEF Sound
  <2>a. b.r + Len(q) <= 2 * (b.w + n)
    BY <1>3, <2>0
  <2>1. PICK f \in Seq(Cells) : f = Fresh(2 * (b.w + n)) /\ Len(f) = 2 * (b.w + n)
    BY <2>0, FreshCells
  <2>2. PICK m \in Seq(Cells) : m = Copied(f, b.r, q)
    BY <1>1, CopiedCells
  <2>3. Len(m) = 2 * (b.w + n) /\ \A i \in 1 .. Len(q) : m[b.r + i] = q[i]
    <3>1. Len(m) = Len(f)
      BY <1>1, <2>2, CopiedCells
    <3>2. b.r + Len(q) <= Len(f)
      BY <2>a, <2>1
    <3>3. \A i \in 1 .. Len(q) : Copied(f, b.r, q)[b.r + i] = q[i]
      BY <1>1, <3>2, CopiedRead
    <3> QED
      BY <2>1, <2>2, <3>1, <3>3
  <2>4. PICK y : y = [b EXCEPT !.mem = m]
    OBVIOUS
  <2>5. ensureWritableSize(b, n) = y
    BY <1>1, <1>2, <1>6, <2>1, <2>2, <2>4 DEF ensureWritableSize
  <2>6. y \in BufType /\ y.r = b.r /\ y.mem = m /\ y.w = b.w
    BY <1>1, <2>4 DEF BufType
  <2>7. Sound(y)
    BY <1>1, <2>3, <2>6 DEF Sound
  <2>8. Len(q) = y.w - y.r /\ \A i \in 1 .. Len(q) : q[i] = y.mem[y.r + i]
    BY <1>1, <1>3, <2>3, <2>6
  <2>9. Readable(y) = q
    BY <2>7, <2>8, ReadableIs
  <2>10. n <= writableSize(y)
    BY <1>1, <2>3, <2>6 DEF writableSize
  <2> QED
    BY <1>2, <2>5, <2>7, <2>9, <2>10
<1> QED
  BY <1>4, <1>5, <1>6

\* hasWritten() after as many bytes as fit: they follow what there was to read.
LEMMA WrittenSound ==
  ASSUME NEW b, Sound(b), NEW n \in Nat, NEW s \in Seq(Cells),
         Len(s) = IF n < writableSize(b) THEN n ELSE writableSize(b)
  PROVE  /\ Sound(hasWritten(b, s, n))
         /\ Readable(hasWritten(b, s, n)) = Readable(b) \o s
<1>1. b \in BufType /\ b.r \in Nat /\ b.w \in Nat /\ b.mem \in Seq(Cells) /\ Len(b.mem) \in Nat
      /\ b.r <= b.w /\ b.w <= Len(b.mem)
  BY DEF Sound, BufType
<1>2. PICK q \in Seq(Cells) : q = Readable(b)
  BY ReadableCells
<1>3. Len(q) = b.w - b.r /\ \A i \in 1 .. Len(q) : q[i] = b.mem[b.r + i]
  BY <1>2, ReadableCells
<1>a. Len(q) \in Nat /\ Len(s) \in Nat
  OBVIOUS
<1>4. PICK k \in Nat : k = Len(s)
  BY <1>a
<1>5. b.w + k <= Len(b.mem) /\ (IF b.w + n > Len(b.mem) THEN Len(b.mem) ELSE b.w + n) = b.w + k
  BY <1>1, <1>4, SMTT(30) DEF writableSize
<1>6. PICK m \in Seq(Cells) : m = Copied(b.mem, b.w, s)
  BY <1>1, CopiedCells
<1>7. Len(m) = Len(b.mem)
      /\ \A i \in 1 .. Len(b.mem) : m[i] = IF b.w < i /\ i <= b.w + k THEN s[i - b.w] ELSE b.mem[i]
  <2>1. /\ Len(m) = Len(b.mem)
        /\ \A i \in 1 .. Len(b.mem) :
             m[i] = IF b.w < i /\ i <= b.w + Len(s) THEN s[i - b.w] ELSE b.mem[i]
    <3>1. PICK M \in Seq(Cells), W \in Nat : M = b.mem /\ W = b.w
      BY <1>1
    <3>2. /\ Len(Copied(M, W, s)) = Len(M)
          /\ \A i \in 1 .. Len(M) :
               Copied(M, W, s)[i] = IF W < i /\ i <= W + Len(s) THEN s[i - W] ELSE M[i]
      BY CopiedCells
    <3> QED
      BY <1>6, <3>1, <3>2
  <2> QED
    BY <1>4, <2>1
<1>8. PICK y : y = [b EXCEPT !.mem = m, !.w = b.w + k]
  OBVIOUS
<1>9. hasWritten(b, s, n) = y
  BY <1>5, <1>6, <1>8 DEF hasWritten
<1>10. y \in BufType /\ y.r = b.r /\ y.mem = m /\ y.w = b.w + k
  <2>1. b.w + k \in Nat
    BY <1>1
  <2> QED
    BY <1>1, <1>8, <2>1 DEF BufType
<1>11. Sound(y)
  BY <1>1, <1>5, <1>7, <1>10 DEF Sound
<1>b. q \o s \in Seq(Cells)
  OBVIOUS
<1>12. PICK p \in Seq(Cells) : p = q \o s
  BY <1>b
<1>13. Len(p) = Len(q) + k
       /\ \A i \in 1 .. Len(p) : p[i] = IF i <= Len(q) THEN q[i] ELSE s[i - Len(q)]
  <2>1. Len(p) = Len(q) + Len(s)
    BY <1>12, ConcatProperties
  <2>2. \A i \in 1 .. Len(p) : p[i] = IF i <= Len(q) THEN q[i] ELSE s[i - Len(q)]
    BY <1>12, ConcatProperties
  <2> QED
    BY <1>4, <2>1, <2>2
<1>14. \A i \in 1 .. Len(p) : p[i] = m[b.r + i]
  <2> SUFFICES ASSUME NEW i \in 1 .. Len(p) PROVE p[i] = m[b.r + i]
    OBVIOUS
  <2>a. PICK R \in Nat, W \in Nat, L \in Nat, K \in Nat :
          R = b.r /\ W = b.w /\ L = Len(b.mem) /\ K = Len(q)
    BY <1>1, <1>a
  <2>b. K = W - R /\ W + k <= L /\ i \in 1 .. K + k
    BY <1>3, <1>5, <1>13, <2>a
  <2>c. R + i \in 1 .. L /\ (i <= K => ~(W < R + i))
        /\ (~(i <= K) => W < R + i /\ R + i <= W + k /\ (R + i) - W = i - K)
    BY <2>b
  <2>1. b.r + i \in 1 .. Len(b.mem)
    BY <2>a, <2>c
  <2>2. CASE i <= Len(q)
    <3>1. i \in 1 .. Len(q) /\ ~(b.w < b.r + i)
      BY <1>1, <1>3, <2>2
    <3> QED
      BY <1>3, <1>7, <1>13, <2>1, <2>2, <3>1
  <2>3. CASE ~(i <= Len(q))
    <3>1. b.w < b.r + i /\ b.r + i <= b.w + k /\ (b.r + i) - b.w = i - Len(q)
      BY <2>a, <2>c, <2>3
    <3> QED
      BY <1>7, <1>13, <2>1, <2>3, <3>1
  <2> QED
    BY <2>2, <2>3
<1>15. Len(p) = y.w - y.r /\ \A i \in 1 .. Len(p) : p[i] = y.mem[y.r + i]
  BY <1>1, <1>3, <1>10, <1>13, <1>14
<1>16. Readable(y) = p
  BY <1>11, <1>15, ReadableIs
<1> QED
  BY <1>2, <1>9, <1>11, <1>12, <1>16

\* hasRead() takes bytes from the front, or all there are.
LEMMA ReadSound ==
  ASSUME NEW b, Sound(b), NEW n \in Nat
  PROVE  /\ Sound(hasRead(b, n))
         /\ Readable(hasRead(b, n)) = SubSeq(Readable(b), n + 1, Len(Readable(b)))
<1>1. b \in BufType /\ b.r \in Nat /\ b.w \in Nat /\ b.mem \in Seq(Cells) /\ Len(b.mem) \in Nat
      /\ b.r <= b.w /\ b.w <= Len(b.mem)
  BY DEF Sound, BufType
<1>2. PICK q \in Seq(Cells) : q = Readable(b)
  BY ReadableCells
<1>3. Len(q) = b.w - b.r /\ \A i \in 1 .. Len(q) : q[i] = b.mem[b.r + i]
  BY <1>2, ReadableCells
<1>4. Len(q) \in Nat
  OBVIOUS
<1>5. CASE b.r + n >= b.w
  <2>1. PICK y : y = [b EXCEPT !.r = 0, !.w = 0]
    OBVIOUS
  <2>2. hasRead(b, n) = y
    BY <1>5, <2>1 DEF hasRead
  <2>3. y \in BufType /\ y.r = 0 /\ y.w = 0 /\ y.mem = b.mem
    BY <1>1, <2>1 DEF BufType
  <2>4. Sound(y)
    BY <1>1, <2>3 DEF Sound
  <2>5. Readable(y) = <<>>
    BY <2>3, <2>4, NothingReadable
  <2>6. n + 1 \in Int /\ Len(q) \in Int /\ Len(q) < n + 1
    BY <1>1, <1>3, <1>4, <1>5
  <2>7. SubSeq(q, n + 1, Len(q)) = <<>>
    BY <2>6, SubSeqEmpty
  <2> QED
    BY <1>2, <2>2, <2>4, <2>5, <2>7
<1>6. CASE ~(b.r + n >= b.w)
  <2>0. b.r + n \in Nat /\ b.r + n < b.w
    BY <1>1, <1>6
  <2>1. PICK y : y = [b EXCEPT !.r = b.r + n]
    OBVIOUS
  <2>2. hasRead(b, n) = y
    BY <1>6, <2>1 DEF hasRead
  <2>3. y \in BufType /\ y.r = b.r + n /\ y.w = b.w /\ y.mem = b.mem
    BY <1>1, <2>0, <2>1 DEF BufType
  <2>4. Sound(y)
    BY <1>1, <2>0, <2>3 DEF Sound
  <2>5. PICK m \in Int, k \in Int : m = n + 1 /\ k = Len(q)
    BY <1>4
  <2>6. \A i \in m .. k : q[i] \in Cells
    BY <2>5
  <2>7. /\ SubSeq(q, m, k) \in Seq(Cells)
        /\ Len(SubSeq(q, m, k)) = IF m <= k THEN k - m + 1 ELSE 0
        /\ \A i \in 1 .. k - m + 1 : SubSeq(q, m, k)[i] = q[m + i - 1]
    BY <2>6, SubSeqProperties
  <2>8. PICK p \in Seq(Cells) : p = SubSeq(q, m, k)
    BY <2>7
  <2>9. PICK R \in Nat, W \in Nat : R = b.r /\ W = b.w
    BY <1>1
  <2>10. k = W - R /\ m = n + 1 /\ R + n < W
    BY <1>3, <2>0, <2>5, <2>9
  <2>11. Len(p) = W - (R + n) /\ k - m + 1 = W - (R + n)
    BY <2>7, <2>8, <2>10
  <2>12. \A i \in 1 .. W - (R + n) : /\ m + i - 1 = n + i
                                     /\ n + i \in 1 .. k
                                     /\ R + (n + i) = (R + n) + i
    BY <2>10
  <2>13. \A i \in 1 .. Len(p) : p[i] = b.mem[(R + n) + i]
    <3> SUFFICES ASSUME NEW i \in 1 .. Len(p) PROVE p[i] = b.mem[(R + n) + i]
      OBVIOUS
    <3>1. p[i] = q[n + i]
      BY <2>7, <2>8, <2>11, <2>12
    <3>2. q[n + i] = b.mem[R + (n + i)]
      BY <1>3, <2>5, <2>9, <2>11, <2>12
    <3> QED
      BY <3>1, <3>2, <2>11, <2>12
  <2>14. Len(p) = y.w - y.r /\ \A i \in 1 .. Len(p) : p[i] = y.mem[y.r + i]
    BY <2>3, <2>9, <2>11, <2>13
  <2>15. Readable(y) = p
    BY <2>4, <2>14, ReadableIs
  <2> QED
    BY <1>2, <2>2, <2>4, <2>5, <2>8, <2>15
<1> QED
  BY <1>5, <1>6

\* A copy holds what there is to read and nothing else.
LEMMA CloneSound ==
  ASSUME NEW b, Sound(b)
  PROVE  Sound(Clone(b)) /\ Readable(Clone(b)) = Readable(b)
<1>1. b.r \in Nat /\ b.w \in Nat /\ b.r <= b.w
  BY DEF Sound, BufType
<1>2. PICK q \in Seq(Cells) : q = Readable(b) /\ Len(q) = b.w - b.r
  BY ReadableCells
<1>3. PICK y : y = [mem |-> q, r |-> 0, w |-> b.w - b.r]
  OBVIOUS
<1>4. Clone(b) = y
  BY <1>2, <1>3 DEF Clone, readableSize
<1>5. y.mem = q /\ y.r = 0 /\ y.w = b.w - b.r /\ y.w \in Nat
  BY <1>1, <1>3
<1>6. Sound(y)
  BY <1>1, <1>2, <1>3, <1>5 DEF Sound, BufType
<1>7. Len(q) = y.w - y.r /\ \A i \in 1 .. Len(q) : q[i] = y.mem[y.r + i]
  BY <1>1, <1>2, <1>5
<1> QED
  BY <1>2, <1>4, <1>6, <1>7, ReadableIs

\* A call that leaves a sound buffer with the bytes it should have.
LEMMA PutInv ==
  ASSUME BufferInv, NEW e \in Ends, NEW b, Sound(b), NEW v \in Seq(Bytes),
         Readable(b) = v, Put(e, b, v)
  PROVE  BufferInv'
<1>1. PICK y : y = Tidy(b)
  OBVIOUS
<1>2. Sound(y) /\ Readable(y) = v /\ y \in BufType
  BY <1>1, TidySound DEF Sound
<1>3. bu' = [bu EXCEPT !.buf[e] = y, !.want[e] = v]
  BY <1>1 DEF Put
<1>4. bu' \in [buf : [Ends -> BufType], want : [Ends -> Seq(Bytes)]]
  BY <1>2, <1>3 DEF BufferInv
<1>5. \A f \in Ends : bu'.buf[f] = (IF f = e THEN y ELSE bu.buf[f])
                      /\ bu'.want[f] = (IF f = e THEN v ELSE bu.want[f])
  BY <1>3 DEF BufferInv
<1> QED
  BY <1>2, <1>4, <1>5 DEF BufferInv

\* append() makes room for all it is given.
LEMMA AppendInv ==
  ASSUME BufferInv, NEW e \in Ends, NEW s \in Blocks, bufAppend(e, s)
  PROVE  BufferInv'
<1>1. PICK b \in BufType, q \in Seq(Bytes) : b = bu.buf[e] /\ q = bu.want[e]
  BY DEF BufferInv
<1>2. Sound(b) /\ Readable(b) = q
  BY <1>1 DEF BufferInv
<1>3. s \in Seq(Bytes) /\ s \in Seq(Cells) /\ Len(s) \in Nat
  <2>1. PICK k \in 0 .. MaxBlock : s \in [1 .. k -> Bytes]
    BY DEF Blocks
  <2>2. k \in Nat
    BY BlockAssumption
  <2>3. s \in [1 .. k -> Cells]
    BY <2>1 DEF Cells
  <2> QED
    BY <2>1, <2>2, <2>3
<1>4. PICK a : a = ensureWritableSize(b, Len(s))
  OBVIOUS
<1>5. Sound(a) /\ Readable(a) = q /\ Len(s) <= writableSize(a)
  BY <1>2, <1>3, <1>4, EnsureSound
<1>6. writableSize(a) \in Int
  BY <1>5 DEF Sound, BufType, writableSize
<1>7. Len(s) = IF Len(s) < writableSize(a) THEN Len(s) ELSE writableSize(a)
  BY <1>3, <1>5, <1>6
<1>8. PICK y : y = hasWritten(a, s, Len(s))
  OBVIOUS
<1>9. Sound(y) /\ Readable(y) = q \o s
  BY <1>3, <1>5, <1>7, <1>8, WrittenSound
<1>10. q \o s \in Seq(Bytes)
  BY <1>3
<1>11. Put(e, y, q \o s)
  BY <1>1, <1>4, <1>8 DEF bufAppend
<1> QED
  BY <1>9, <1>10, <1>11, PutInv

\* ensureWritableSize() called by the user.
LEMMA EnsureInv ==
  ASSUME BufferInv, NEW e \in Ends, NEW n \in 0 .. MaxBlock, bufEnsure(e, n)
  PROVE  BufferInv'
<1>0. n \in Nat
  BY BlockAssumption
<1>1. PICK b \in BufType, q \in Seq(Bytes) : b = bu.buf[e] /\ q = bu.want[e]
  BY DEF BufferInv
<1>2. Sound(b) /\ Readable(b) = q
  BY <1>1 DEF BufferInv
<1>3. PICK a : a = ensureWritableSize(b, n)
  OBVIOUS
<1>4. Sound(a) /\ Readable(a) = q
  BY <1>0, <1>2, <1>3, EnsureSound
<1>5. Put(e, a, q)
  BY <1>1, <1>3 DEF bufEnsure
<1> QED
  BY <1>4, <1>5, PutInv

\* A user who fills the room there is, and reports that or more.
LEMMA FillInv ==
  ASSUME BufferInv, NEW e \in Ends, NEW v \in Bytes, NEW n \in 0 .. MaxBlock, bufWrite(e, v, n)
  PROVE  BufferInv'
<1>0. n \in Nat
  BY BlockAssumption
<1>1. PICK b \in BufType, q \in Seq(Bytes) : b = bu.buf[e] /\ q = bu.want[e]
  BY DEF BufferInv
<1>2. Sound(b) /\ Readable(b) = q
  BY <1>1 DEF BufferInv
<1>3. PICK k \in Nat : k = IF n < writableSize(b) THEN n ELSE writableSize(b)
  BY <1>0, <1>2 DEF Sound, BufType, writableSize
<1>4. PICK x : x = [i \in 1 .. k |-> v]
  OBVIOUS
<1>5. x \in Seq(Bytes) /\ x \in Seq(Cells) /\ Len(x) = k
  <2>1. x \in [1 .. k -> Bytes] /\ x \in [1 .. k -> Cells]
    BY <1>4 DEF Cells
  <2> QED
    BY <2>1
<1>6. PICK y : y = hasWritten(b, x, n)
  OBVIOUS
<1>7. Sound(y) /\ Readable(y) = q \o x
  BY <1>0, <1>2, <1>3, <1>5, <1>6, WrittenSound
<1>8. q \o x \in Seq(Bytes)
  BY <1>5
<1>9. Put(e, y, q \o x)
  BY <1>1, <1>3, <1>4, <1>6 DEF bufWrite
<1> QED
  BY <1>7, <1>8, <1>9, PutInv

\* fetch() and hasRead(), hasReadAll(), reset(), shrink() and assignment from the other buffer.
LEMMA ReadInv ==
  ASSUME BufferInv, NEW e \in Ends, NEW n \in 0 .. MaxBlock,
         bufFetch(e, n) \/ bufReadAll(e) \/ bufReset(e) \/ bufShrink(e) \/ bufAssign(e)
  PROVE  BufferInv'
<1>0. n \in Nat /\ Other(e) \in Ends /\ <<>> \in Seq(Bytes)
  BY BlockAssumption DEF Other, Ends
<1>1. PICK b \in BufType, q \in Seq(Bytes) : b = bu.buf[e] /\ q = bu.want[e]
  BY DEF BufferInv
<1>2. Sound(b) /\ Readable(b) = q
  BY <1>1 DEF BufferInv
<1>3. CASE bufFetch(e, n)
  <2>1. PICK y : y = hasRead(b, n)
    OBVIOUS
  <2>2. PICK m \in Int, k \in Int : m = n + 1 /\ k = Len(q)
    BY <1>0
  <2>3. \A i \in m .. k : q[i] \in Bytes
    BY <1>0, <2>2
  <2>4. SubSeq(q, m, k) \in Seq(Bytes)
    BY <2>3, SubSeqProperties
  <2>5. Sound(y) /\ Readable(y) = SubSeq(q, m, k)
    BY <1>0, <1>2, <2>1, <2>2, ReadSound
  <2>6. Put(e, y, SubSeq(q, m, k))
    BY <1>1, <1>3, <2>1, <2>2 DEF bufFetch
  <2> QED
    BY <2>4, <2>5, <2>6, PutInv
<1>4. CASE bufReadAll(e)
  <2>1. PICK y : y = [b EXCEPT !.r = 0, !.w = 0]
    OBVIOUS
  <2>2. y \in BufType /\ y.r = 0 /\ y.w = 0 /\ y.mem = b.mem
    BY <2>1 DEF BufType
  <2>3. Sound(y)
    <3>1. b.mem \in Seq(Cells) /\ Len(b.mem) \in Nat
      BY DEF BufType
    <3> QED
      BY <2>2, <3>1 DEF Sound
  <2>4. Readable(y) = <<>>
    BY <2>2, <2>3, NothingReadable
  <2>5. Put(e, y, <<>>)
    BY <1>1, <1>4, <2>1 DEF bufReadAll
  <2> QED
    BY <1>0, <2>3, <2>4, <2>5, PutInv
<1>5. CASE bufReset(e)
  <2>1. Sound(NewBuffer(0)) /\ Readable(NewBuffer(0)) = <<>>
    BY NewBufferSound
  <2> QED
    BY <1>0, <1>5, <2>1, PutInv DEF bufReset
<1>6. CASE bufShrink(e)
  <2>1. Sound(Clone(b)) /\ Readable(Clone(b)) = q
    BY <1>2, CloneSound
  <2>2. Put(e, Clone(b), q)
    BY <1>1, <1>6 DEF bufShrink
  <2> QED
    BY <2>1, <2>2, PutInv
<1>7. CASE bufAssign(e)
  <2>1. PICK c \in BufType, p \in Seq(Bytes) : c = bu.buf[Other(e)] /\ p = bu.want[Other(e)]
    BY <1>0 DEF BufferInv
  <2>2. Sound(c) /\ Readable(c) = p
    BY <1>0, <2>1 DEF BufferInv
  <2>3. Sound(Clone(c)) /\ Readable(Clone(c)) = p
    BY <2>2, CloneSound
  <2>4. Put(e, Clone(c), p)
    BY <1>7, <2>1 DEF bufAssign
  <2> QED
    BY <2>3, <2>4, PutInv
<1> QED
  BY <1>3, <1>4, <1>5, <1>6, <1>7

\* Moves and swaps hand the block over with its indexes.
LEMMA HandOverInv ==
  ASSUME BufferInv, NEW e \in Ends, bufMove(e) \/ bufSwap
  PROVE  BufferInv'
<1>0. \A f \in Ends : Other(f) \in Ends
  BY DEF Other, Ends
<1>1. PICK z : z = NewBuffer(0)
  OBVIOUS
<1>2. Sound(z) /\ Readable(z) = <<>> /\ z \in BufType /\ <<>> \in Seq(Bytes)
  BY <1>1, NewBufferSound DEF Sound
<1>3. CASE bufMove(e)
  <2>1. bu' = [buf |-> [f \in Ends |-> IF f = e THEN bu.buf[Other(e)] ELSE z],
               want |-> [f \in Ends |-> IF f = e THEN bu.want[Other(e)] ELSE <<>>]]
    BY <1>1, <1>3 DEF bufMove
  <2>2. bu' \in [buf : [Ends -> BufType], want : [Ends -> Seq(Bytes)]]
    BY <1>0, <1>2, <2>1 DEF BufferInv
  <2>3. \A f \in Ends : bu'.buf[f] = (IF f = e THEN bu.buf[Other(e)] ELSE z)
                        /\ bu'.want[f] = (IF f = e THEN bu.want[Other(e)] ELSE <<>>)
    BY <2>1
  <2> QED
    BY <1>0, <1>2, <2>2, <2>3 DEF BufferInv
<1>4. CASE bufSwap
  <2>1. bu' = [buf |-> [f \in Ends |-> bu.buf[Other(f)]],
               want |-> [f \in Ends |-> bu.want[Other(f)]]]
    BY <1>4 DEF bufSwap
  <2>2. bu' \in [buf : [Ends -> BufType], want : [Ends -> Seq(Bytes)]]
    BY <1>0, <2>1 DEF BufferInv
  <2>3. \A f \in Ends : bu'.buf[f] = bu.buf[Other(f)] /\ bu'.want[f] = bu.want[Other(f)]
    BY <2>1
  <2> QED
    BY <1>0, <2>2, <2>3 DEF BufferInv
<1> QED
  BY <1>3, <1>4

\* Two new buffers, of whatever size.
LEMMA BufferInvInit == BufferInit => BufferInv
<1> SUFFICES ASSUME BufferInit PROVE BufferInv
  OBVIOUS
<1>1. PICK n \in 0 .. 1 :
        bu = [buf |-> [e \in Ends |-> NewBuffer(n)], want |-> [e \in Ends |-> <<>>]]
  BY DEF BufferInit
<1>2. n \in Nat
  OBVIOUS
<1>3. PICK z : z = NewBuffer(n)
  OBVIOUS
<1>4. Sound(z) /\ Readable(z) = <<>> /\ z \in BufType /\ <<>> \in Seq(Bytes)
  BY <1>2, <1>3, NewBufferSound DEF Sound
<1>5. bu \in [buf : [Ends -> BufType], want : [Ends -> Seq(Bytes)]]
  BY <1>1, <1>3, <1>4
<1>6. \A e \in Ends : bu.buf[e] = z /\ bu.want[e] = <<>>
  BY <1>1, <1>3
<1> QED
  BY <1>4, <1>5, <1>6 DEF BufferInv

\* Every call keeps both buffers sound.
LEMMA BufferInvNext == BufferInv /\ [BufferNext]_bu => BufferInv'
<1> SUFFICES ASSUME BufferInv, [BufferNext]_bu PROVE BufferInv'
  OBVIOUS
<1>0. 0 \in 0 .. MaxBlock
  BY BlockAssumption
<1>1. ASSUME bufSwap PROVE BufferInv'
  BY <1>1, HandOverInv DEF Ends
<1>2. ASSUME NEW e \in Ends, bufMove(e) PROVE BufferInv'
  BY <1>2, HandOverInv
<1>3. ASSUME NEW e \in Ends, bufReadAll(e) \/ bufReset(e) \/ bufShrink(e) \/ bufAssign(e)
      PROVE BufferInv'
  BY <1>0, <1>3, ReadInv
<1>4. ASSUME NEW e \in Ends, NEW n \in 0 .. MaxBlock, bufFetch(e, n) PROVE BufferInv'
  BY <1>4, ReadInv
<1>5. ASSUME NEW e \in Ends, NEW s \in Blocks, bufAppend(e, s) PROVE BufferInv'
  BY <1>5, AppendInv
<1>6. ASSUME NEW e \in Ends, NEW n \in 0 .. MaxBlock, bufEnsure(e, n) PROVE BufferInv'
  BY <1>6, EnsureInv
<1>7. ASSUME NEW e \in Ends, NEW v \in Bytes, NEW n \in 0 .. MaxBlock, bufWrite(e, v, n)
      PROVE BufferInv'
  BY <1>7, FillInv
<1>8. CASE UNCHANGED bu
  BY <1>8 DEF BufferInv
<1> QED
  BY <1>1, <1>2, <1>3, <1>4, <1>5, <1>6, <1>7, <1>8 DEF BufferNext

\* A buffer gives back exactly the bytes put in and not taken out, in order, through every
\* growth, move to the front, copy, shrink, move and swap, whatever their number and the
\* size of the block: no byte is lost and none is read that was never written.
THEOREM BufferKeeps == BufferSpec => []BufferFaithful
<1>1. BufferInv => BufferFaithful
  <2> SUFFICES ASSUME BufferInv, NEW e \in Ends
               PROVE LET b == bu.buf[e]
                     IN /\ 0 <= b.r /\ b.r <= b.w /\ b.w <= Len(b.mem)
                        /\ Readable(b) = bu.want[e]
    BY DEF BufferFaithful
  <2> QED
    BY DEF BufferInv, Sound, BufType
<1> QED
  BY <1>1, BufferInvInit, BufferInvNext, PTL DEF BufferSpec

-----------------------------------------------------------------------------
(* Alarms                                                                   *)

AlType ==
  [kind : Kinds, state : {"none", "inited", "running"}, secs : 0 .. Day - 1,
   days : WeekMasks \cup {{}}, work : BOOLEAN, zone : Int, target : Int, timer : Int,
   watched : BOOLEAN, mask : WeekMasks \cup {DefaultMask}, special : Specials,
   now : Nat, last : Int, stale : BOOLEAN, wrapped : BOOLEAN]

\* Only a WorkdayAlarm subscribes to the calendar, and a running one is subscribed; only a
\* running alarm has a timer; what fired lies before the target or the present.
Kept(S) ==
  /\ S \in AlType
  /\ S.watched => S.kind = "workday"
  /\ S.state = "running" /\ S.kind = "workday" => S.watched
  /\ S.timer # NoTime => S.state = "running"
  /\ S.last <= S.now \/ S.last <= S.target

\* An alarm at rest aimed at nothing that is still to come, but for one that fired early.
Rested(S) == S.state # "running" /\ ~S.stale => S.target <= S.now \/ S.target <= S.last

\* A running alarm aims at its next time.
Aimed(S) ==
  S.state = "running" /\ ~S.stale =>
    /\ S.wrapped \/ S.timer = S.target
    /\ Occurs(S, S.target) /\ S.target > S.last
    /\ \A t \in S.now + 1 .. S.target - 1 : Occurs(S, t) => t <= S.last

AlInv(S) == Kept(S) /\ Rested(S) /\ Aimed(S)
AlarmSafe == AlInv(al)

\* The larger and the smaller of two numbers.
LEMMA MaxOfTwo ==
  ASSUME NEW a \in Int, NEW b \in Int
  PROVE  Max({a, b}) \in Int /\ Max({a, b}) = IF a >= b THEN a ELSE b
<1>1. \E x \in {a, b} : \A y \in {a, b} : x >= y
  OBVIOUS
<1>2. Max({a, b}) \in {a, b} /\ \A y \in {a, b} : Max({a, b}) >= y
  BY <1>1 DEF Max
<1> QED
  BY <1>2

LEMMA MinOfTwo ==
  ASSUME NEW a \in Int, NEW b \in Int
  PROVE  Min({a, b}) \in Int /\ Min({a, b}) <= a /\ Min({a, b}) <= b
<1>1. \E x \in {a, b} : \A y \in {a, b} : x <= y
  OBVIOUS
<1>2. Min({a, b}) \in {a, b} /\ \A y \in {a, b} : Min({a, b}) <= y
  BY <1>1 DEF Min
<1> QED
  BY <1>2

-----------------------------------------------------------------------------
(* Days                                                                    *)

LEMMA DivMod ==
  ASSUME NEW a \in Int, NEW d \in Nat \ {0}
  PROVE  a \div d \in Int /\ a % d \in 0 .. d - 1 /\ a = d * (a \div d) + (a % d)
<1>1. a \div d \in Int
  OBVIOUS
<1>2. a % d \in 0 .. d - 1
  OBVIOUS
<1>3. a = d * (a \div d) + (a % d)
  OBVIOUS
<1> QED
  BY <1>1, <1>2, <1>3

\* A later day starts at least a day later.
LEMMA DaysApart ==
  ASSUME NEW d \in Nat \ {0}, NEW a \in Int, NEW b \in Int, a < b
  PROVE  d * a \in Int /\ d * b \in Int /\ d * a + d <= d * b
OBVIOUS

LEMMA DaysAdded ==
  ASSUME NEW d \in Nat \ {0}, NEW a \in Int, NEW b \in Int
  PROVE  d * a \in Int /\ d * (a + b) \in Int /\ d * (a + b) = d * a + b * d
OBVIOUS

\* A time is on one day, at one second of it.
LEMMA DayOf ==
  ASSUME NEW d \in Nat \ {0}, NEW q \in Int, NEW s \in 0 .. d - 1
  PROVE  (d * q + s) \div d = q /\ (d * q + s) % d = s
<1>1. PICK a \in Int : a = d * q + s
  OBVIOUS
<1>2. PICK p \in Int : p = a \div d
  BY DivMod
<1>3. PICK r \in 0 .. d - 1 : r = a % d
  BY DivMod
<1>4. d * q \in Int /\ d * p \in Int /\ d * q + s = d * p + r
  BY <1>1, <1>2, <1>3, DivMod
<1>5. ~(q < p)
  <2> SUFFICES ASSUME q < p PROVE FALSE
    OBVIOUS
  <2>1. d * q + d <= d * p
    BY DaysApart
  <2> QED
    BY <1>4, <2>1
<1>6. ~(p < q)
  <2> SUFFICES ASSUME p < q PROVE FALSE
    OBVIOUS
  <2>1. d * p + d <= d * q
    BY DaysApart
  <2> QED
    BY <1>4, <2>1
<1>7. q = p
  BY <1>5, <1>6
<1>8. s = r
  BY <1>4, <1>7
<1> QED
  BY <1>1, <1>2, <1>3, <1>7, <1>8

\* The times of day of the alarm S, on the day of local and later.
TimeOn(S, local, i) == (local - (local % Day)) + S.secs + i * Day
Found(S, local) ==
  {i \in 0 .. Ahead(S) - 1 : local < TimeOn(S, local, i) /\ Fits(S, local \div Day + i)}

LEMMA TimeOnDay ==
  ASSUME NEW S \in AlType, NEW local \in Int, NEW i \in Int
  PROVE  /\ TimeOn(S, local, i) \in Int
         /\ TimeOn(S, local, i) = Day * (local \div Day + i) + S.secs
         /\ TimeOn(S, local, i) \div Day = local \div Day + i
         /\ TimeOn(S, local, i) % Day = S.secs
<1>1. Day \in Nat \ {0} /\ S.secs \in 0 .. Day - 1
  BY AlarmAssumption DEF AlType
<1>2. PICK q \in Int : q = local \div Day
  BY <1>1, DivMod
<1>3. local - (local % Day) = Day * q /\ Day * q \in Int
  BY <1>1, <1>2, DivMod
<1>4. Day * (q + i) = Day * q + i * Day /\ i * Day \in Int /\ Day * (q + i) \in Int
  BY <1>1, DaysAdded
<1>5. TimeOn(S, local, i) = Day * (q + i) + S.secs
  BY <1>1, <1>3, <1>4 DEF TimeOn
<1>6. (Day * (q + i) + S.secs) \div Day = q + i /\ (Day * (q + i) + S.secs) % Day = S.secs
  <2>1. PICK k \in Int : k = q + i
    OBVIOUS
  <2>2. PICK s \in 0 .. Day - 1 : s = S.secs
    BY <1>1
  <2>3. (Day * k + s) \div Day = k /\ (Day * k + s) % Day = s
    BY <1>1, DayOf
  <2> QED
    BY <2>1, <2>2, <2>3
<1> QED
  BY <1>1, <1>2, <1>4, <1>5, <1>6

\* A set of days ahead that is not empty has a first one.
LEMMA FirstDay ==
  ASSUME NEW T, T \subseteq Nat, T # {}
  PROVE  Min(T) \in T /\ \A j \in T : Min(T) <= j
<1> DEFINE R == OpToRel(<, Nat)
<1>1. PICK k \in T : \A j \in T : ~(<<j, k>> \in R)
  BY WFMin, NatLessThanWellFounded, Zenon
<1>2. \A j \in T : ~(j < k)
  BY <1>1 DEF OpToRel
<1>3. \E x \in T : \A y \in T : x <= y
  BY <1>2
<1> QED
  BY <1>3 DEF Min

LEMMA AheadType ==
  ASSUME NEW S \in AlType
  PROVE  Ahead(S) \in Nat
BY AlarmAssumption DEF AlType, Kinds, Ahead

\* calculateNextLocalTimeSec(): what it finds is the next time the alarm is meant for.
LEMMA NextTime ==
  ASSUME NEW S \in AlType, NEW base \in Int, Found(S, base + S.zone) # {}
  PROVE  LET next == TimeOn(S, base + S.zone, Min(Found(S, base + S.zone))) - S.zone
         IN /\ next \in Int /\ next > base /\ Occurs(S, next)
            /\ \A t \in base + 1 .. next - 1 : ~Occurs(S, t)
<1>0. Day \in Nat \ {0} /\ S.zone \in Int /\ S.secs \in 0 .. Day - 1
  BY AlarmAssumption DEF AlType
<1>1. PICK local \in Int : local = base + S.zone
  BY <1>0
<1>2. PICK m : m = Min(Found(S, local))
  OBVIOUS
<1>3. Found(S, local) \subseteq Nat
  BY AheadType DEF Found
<1>4. m \in Found(S, local) /\ \A j \in Found(S, local) : m <= j
  BY <1>1, <1>2, <1>3, FirstDay
<1>5. m \in Nat /\ m <= Ahead(S) - 1 /\ local < TimeOn(S, local, m) /\ Fits(S, local \div Day + m)
  BY <1>4, AheadType DEF Found
<1>6. PICK l \in Int : l = local \div Day
  BY <1>0, DivMod
<1>7. PICK at \in Int : at = TimeOn(S, local, m)
  BY <1>5, TimeOnDay
<1>8. at = Day * (l + m) + S.secs /\ at \div Day = l + m /\ at % Day = S.secs
  BY <1>5, <1>6, <1>7, TimeOnDay
<1>9. PICK next \in Int : next = at - S.zone
  BY <1>0
<1>10. next + S.zone = at
  BY <1>0, <1>9
<1>11. Occurs(S, next)
  BY <1>5, <1>6, <1>8, <1>10 DEF Occurs
<1>12. next > base
  BY <1>0, <1>1, <1>5, <1>7, <1>9
<1>13. ASSUME NEW t \in base + 1 .. next - 1, Occurs(S, t) PROVE FALSE
  <2>1. PICK u \in Int : u = t + S.zone
    BY <1>0
  <2>2. u > local /\ u < at
    BY <1>0, <1>1, <1>9, <2>1
  <2>3. PICK d \in Int : d = u \div Day
    BY <1>0, DivMod
  <2>4. u = Day * d + S.secs /\ Fits(S, d) /\ Day * d \in Int
    <3>1. u % Day = S.secs /\ Fits(S, d)
      BY <1>13, <2>1, <2>3 DEF Occurs
    <3>2. u = Day * (u \div Day) + (u % Day)
      BY <1>0, DivMod
    <3>3. Day * d \in Int
      BY <1>0
    <3> QED
      BY <2>3, <3>1, <3>2, <3>3
  <2>5. PICK r \in 0 .. Day - 1 : local = Day * l + r
    BY <1>0, <1>6, DivMod
  <2>6. d >= l
    <3> SUFFICES ASSUME d < l PROVE FALSE
      OBVIOUS
    <3>1. Day * d + Day <= Day * l /\ Day * l \in Int
      BY <1>0, DaysApart
    <3> QED
      BY <1>0, <2>2, <2>4, <2>5, <3>1
  <2>7. PICK j \in Nat : j = d - l
    BY <2>6
  <2>8. l + j = d
    BY <2>7
  <2>9. TimeOn(S, local, j) = u
    BY <1>6, <2>4, <2>8, TimeOnDay
  <2>10. m <= j
    <3>1. CASE j <= Ahead(S) - 1
      <4>1. j \in Found(S, local)
        BY <1>6, <2>2, <2>4, <2>8, <2>9, <3>1, AheadType DEF Found
      <4> QED
        BY <1>4, <4>1
    <3>2. CASE ~(j <= Ahead(S) - 1)
      BY <1>5, <3>2, AheadType
    <3> QED
      BY <3>1, <3>2
  <2>11. l + m <= d
    BY <1>5, <2>8, <2>10
  <2>12. CASE l + m = d
    BY <1>0, <1>8, <2>2, <2>4, <2>12
  <2>13. CASE l + m < d
    <3>1. Day * (l + m) + Day <= Day * d /\ Day * (l + m) \in Int
      BY <1>0, <1>5, <2>13, DaysApart
    <3> QED
      BY <1>0, <1>8, <2>2, <2>4, <3>1
  <2> QED
    BY <1>5, <2>11, <2>12, <2>13
<1> QED
  BY <1>1, <1>2, <1>7, <1>9, <1>11, <1>12, <1>13

\* calculateNextLocalTimeSec() in terms of the days found.
LEMMA NextFound ==
  ASSUME NEW S, NEW local
  PROVE  calculateNextLocalTimeSec(S, local)
           = IF Found(S, local) = {} THEN NoTime ELSE TimeOn(S, local, Min(Found(S, local)))
BY DEF calculateNextLocalTimeSec, Found, TimeOn

\* What an alarm is meant for depends on its settings, zone and calendar only.
SameTimes(S, T) ==
  /\ T.kind = S.kind /\ T.secs = S.secs /\ T.days = S.days /\ T.work = S.work
  /\ T.zone = S.zone /\ T.mask = S.mask /\ T.special = S.special

LEMMA OccursSame ==
  ASSUME NEW S, NEW T, SameTimes(S, T), NEW t
  PROVE  Occurs(S, t) <=> Occurs(T, t)
BY DEF SameTimes, Occurs, Fits, isWorkay

\* A wait that fits the timer is not cut.
LEMMA WaitFits ==
  ASSUME NEW x \in Int, NEW w \in Nat \ {0}, 0 <= x, x < w
  PROVE  x % w = x
OBVIOUS

LEMMA WaitType ==
  ASSUME NEW x \in Int, NEW w \in Nat \ {0}
  PROVE  x % w \in Nat
OBVIOUS

\* activeTimer() of an alarm at rest aims it at its next time, or leaves it at rest.
LEMMA ActiveTimer ==
  ASSUME NEW S, Kept(S), Rested(S), S.state # "running",
         S.watched <=> S.kind = "workday"
  PROVE  AlInv(activeTimer(S))
<1>0. Wrap \in Nat \ {0}
  BY AlarmAssumption
<1>1. /\ S \in AlType /\ S.now \in Int /\ S.target \in Int /\ S.last \in Int /\ S.zone \in Int
      /\ S.stale \in BOOLEAN /\ S.now >= 0
  BY DEF Kept, AlType
<1>2. PICK base \in Int : base = Max({S.now, S.target})
  BY <1>1, MaxOfTwo
<1>3. base = IF S.now >= S.target THEN S.now ELSE S.target
  BY <1>1, <1>2, MaxOfTwo
<1>4. PICK local : local = calculateNextLocalTimeSec(S, base + S.zone)
  OBVIOUS
<1>5. CASE local = NoTime
  <2>1. activeTimer(S) = S
    BY <1>2, <1>4, <1>5 DEF activeTimer
  <2> QED
    BY <2>1 DEF AlInv, Aimed
<1>6. CASE local # NoTime
  <2>1. Found(S, base + S.zone) # {} /\ local = TimeOn(S, base + S.zone, Min(Found(S, base + S.zone)))
    BY <1>4, <1>6, NextFound
  <2>2. PICK next : next = local - S.zone
    OBVIOUS
  <2>3. /\ next \in Int /\ next > base /\ Occurs(S, next)
        /\ \A t \in base + 1 .. next - 1 : ~Occurs(S, t)
    BY <1>1, <2>1, <2>2, NextTime
  <2>6. PICK wait \in Nat : wait = (next - S.now) % Wrap
    BY <1>0, <1>1, <2>3, WaitType
  <2>a. PICK stale \in BOOLEAN : stale = (S.stale /\ S.target > S.now)
    OBVIOUS
  <2>c. (next - S.now >= Wrap) \in BOOLEAN
    BY <1>0, <1>1, <2>3, SMT
  <2>b. PICK wrapped \in BOOLEAN : wrapped = (next - S.now >= Wrap)
    BY <2>c, Zenon
  <2>4. PICK T : T = [S EXCEPT !.state = "running", !.target = next, !.stale = stale,
                               !.wrapped = wrapped, !.timer = S.now + wait]
    OBVIOUS
  <2>5. activeTimer(S) = T
    BY <1>2, <1>4, <1>6, <2>2, <2>4, <2>6, <2>a, <2>b DEF activeTimer
  <2>7. /\ T \in AlType /\ SameTimes(S, T) /\ T.state = "running" /\ T.target = next
        /\ T.stale = stale /\ T.wrapped = wrapped
        /\ T.timer = S.now + wait /\ T.now = S.now /\ T.last = S.last /\ T.watched = S.watched
    <3>1. S.now + wait \in Int
      BY <1>1
    <3>2. T \in AlType
      BY <1>1, <2>3, <2>4, <3>1 DEF AlType
    <3>3. SameTimes(S, T)
      BY <1>1, <2>4 DEF AlType, SameTimes
    <3> QED
      BY <1>1, <2>4, <3>2, <3>3 DEF AlType
  <2>8. S.last <= base
    BY <1>1, <1>3 DEF Kept
  <2>9. Kept(T)
    <3>1. T.last <= T.target
      BY <1>1, <2>3, <2>7, <2>8
    <3>2. T.kind = S.kind
      BY <2>7 DEF SameTimes
    <3> QED
      BY <2>7, <3>1, <3>2 DEF Kept
  <2>10. Rested(T)
    BY <2>7 DEF Rested
  <2>11. Aimed(T)
    <3> SUFFICES ASSUME ~T.stale
                 PROVE  /\ T.wrapped \/ T.timer = T.target
                        /\ Occurs(T, T.target) /\ T.target > T.last
                        /\ \A t \in T.now + 1 .. T.target - 1 : Occurs(T, t) => t <= T.last
      BY DEF Aimed
    <3>1. T.wrapped \/ T.timer = T.target
      <4> SUFFICES ASSUME ~T.wrapped PROVE wait = next - S.now
        BY <1>1, <2>3, <2>7
      <4>a. ~(next - S.now >= Wrap)
        BY <2>7, <2>b, Zenon
      <4>1. 0 <= next - S.now /\ next - S.now < Wrap
        BY <1>0, <1>1, <1>3, <2>3, <4>a
      <4>2. PICK x \in Int : x = next - S.now
        BY <1>1, <2>3
      <4>3. x % Wrap = x
        BY <1>0, <4>1, <4>2, WaitFits
      <4> QED
        BY <2>6, <4>2, <4>3
    <3>2. Occurs(T, T.target)
      BY <2>3, <2>7, OccursSame
    <3>3. T.target > T.last
      BY <1>1, <2>3, <2>7, <2>8
    <3>4. ASSUME NEW t \in T.now + 1 .. T.target - 1, Occurs(T, t) PROVE t <= T.last
      <4>1. Occurs(S, t)
        BY <2>7, <3>4, OccursSame
      <4>2. t \in Int /\ t > S.now /\ t < next
        BY <1>1, <2>3, <2>7
      <4>3. t <= base
        BY <2>3, <4>1, <4>2
      <4>4. S.target > S.now /\ base = S.target
        BY <1>1, <1>3, <4>2, <4>3
      <4>5. ~S.stale
        BY <1>1, <2>7, <2>a, <4>4
      <4>6. S.target <= S.last
        BY <1>1, <4>4, <4>5 DEF Rested
      <4> QED
        BY <1>1, <2>7, <4>2, <4>3, <4>4, <4>6
    <3> QED
      BY <3>1, <3>2, <3>3, <3>4
  <2> QED
    BY <2>5, <2>9, <2>10, <2>11 DEF AlInv
<1> QED
  BY <1>5, <1>6

-----------------------------------------------------------------------------
(* The actions of an alarm                                                 *)

\* A running alarm aims as before as long as only its history moves on.
LEMMA StillAimed ==
  ASSUME NEW S \in AlType, NEW T \in AlType, SameTimes(S, T), Aimed(S),
         T.state = S.state, T.target = S.target, T.timer = S.timer, T.wrapped = S.wrapped,
         T.last = S.last, T.now >= S.now, S.stale => T.stale
  PROVE  Aimed(T)
<1> SUFFICES ASSUME T.state = "running", ~T.stale
             PROVE  /\ T.wrapped \/ T.timer = T.target
                    /\ Occurs(T, T.target) /\ T.target > T.last
                    /\ \A t \in T.now + 1 .. T.target - 1 : Occurs(T, t) => t <= T.last
  BY DEF Aimed
<1>1. /\ S.wrapped \/ S.timer = S.target
      /\ Occurs(S, S.target) /\ S.target > S.last
      /\ \A t \in S.now + 1 .. S.target - 1 : Occurs(S, t) => t <= S.last
  BY DEF Aimed
<1>2. S.now \in Int /\ T.now \in Int /\ S.target \in Int /\ S.last \in Int
  BY DEF AlType
<1>3. Occurs(T, T.target)
  BY <1>1, OccursSame
<1>4. ASSUME NEW t \in T.now + 1 .. T.target - 1, Occurs(T, t) PROVE t <= T.last
  <2>1. t \in S.now + 1 .. S.target - 1
    BY <1>2
  <2>2. Occurs(S, t)
    BY <1>4, OccursSame
  <2> QED
    BY <1>1, <2>1, <2>2
<1> QED
  BY <1>1, <1>3, <1>4

LEMMA AlarmStarts ==
  ASSUME AlarmInit
  PROVE  AlInv(al)
<1>1. PICK k \in Kinds :
        al = [kind |-> k, state |-> "none", secs |-> 0, days |-> {}, work |-> TRUE,
              zone |-> SystemZone, target |-> 0, timer |-> NoTime, watched |-> FALSE,
              mask |-> DefaultMask, special |-> [d \in {} |-> TRUE], now |-> Day, last |-> 0,
              stale |-> FALSE, wrapped |-> FALSE]
  BY DEF AlarmInit
<1>2. [d \in {} |-> TRUE] \in Specials
  <2>1. [d \in {} |-> TRUE] \in [{} -> BOOLEAN]
    OBVIOUS
  <2>2. {} \in SUBSET SpecialDays
    OBVIOUS
  <2> QED
    BY <2>1, <2>2 DEF Specials
<1>3. PICK none \in Specials : none = [d \in {} |-> TRUE]
  BY <1>2
<1>4. Day \in Nat \ {0} /\ 0 \in 0 .. Day - 1 /\ SystemZone \in Int /\ NoTime \in Int
  BY AlarmAssumption DEF SystemZone, NoTime
<1>5. al = [kind |-> k, state |-> "none", secs |-> 0, days |-> {}, work |-> TRUE,
            zone |-> SystemZone, target |-> 0, timer |-> NoTime, watched |-> FALSE,
            mask |-> DefaultMask, special |-> none, now |-> Day, last |-> 0,
            stale |-> FALSE, wrapped |-> FALSE]
  BY <1>1, <1>3
<1>6. al \in AlType
  BY <1>4, <1>5 DEF AlType
<1>7. /\ al.watched = FALSE /\ al.state = "none" /\ al.timer = NoTime /\ al.last = 0
      /\ al.now = Day /\ al.target = 0
  BY <1>5
<1> QED
  BY <1>4, <1>6, <1>7 DEF AlInv, Kept, Rested, Aimed

LEMMA Initialize ==
  ASSUME AlInv(al), NEW c \in Settings, initialize(c)
  PROVE  AlInv(al')
<1>1. /\ al \in AlType /\ al.now \in Int /\ al.target \in Int /\ al.last \in Int
      /\ al.stale \in BOOLEAN /\ Kept(al) /\ Rested(al)
  BY DEF AlInv, Kept, AlType
<1>2. c.secs \in 0 .. Day - 1 /\ c.days \in WeekMasks \cup {{}} /\ c.work \in BOOLEAN
  <2>1. /\ c.secs \in 0 .. Day - 1
        /\ c.days \in IF al.kind = "weekly" THEN WeekMasks ELSE {{}}
        /\ c.work \in IF al.kind = "workday" THEN BOOLEAN ELSE {TRUE}
    BY DEF Settings
  <2> QED
    BY <2>1
<1>3. PICK seen \in Int : seen = Max({al.now, al.last})
  BY <1>1, MaxOfTwo
<1>4. (al.target > seen) \in BOOLEAN
  BY <1>1, SMT
<1>5. PICK stale \in BOOLEAN : stale = (al.stale \/ al.target > seen)
  BY <1>1, <1>4, Zenon
<1>6. al' = [al EXCEPT !.state = "inited", !.secs = c.secs, !.days = c.days, !.work = c.work,
                       !.stale = stale]
  BY <1>3, <1>5 DEF initialize
<1>7. /\ al' \in AlType /\ al'.state = "inited" /\ al'.stale = stale
      /\ al'.target = al.target /\ al'.now = al.now /\ al'.last = al.last
      /\ al'.timer = al.timer /\ al'.watched = al.watched /\ al'.kind = al.kind
  BY <1>1, <1>2, <1>6 DEF AlType
<1>8. al.state # "running"
  BY DEF initialize
<1>9. Kept(al')
  BY <1>1, <1>7, <1>8 DEF Kept
<1>10. Rested(al')
  <2> SUFFICES ASSUME ~stale PROVE al.target <= al.now \/ al.target <= al.last
    BY <1>7 DEF Rested
  <2>1. ~(al.target > seen)
    BY <1>5, Zenon
  <2> QED
    BY <1>1, <1>3, <2>1, MaxOfTwo
<1>11. Aimed(al')
  BY <1>7 DEF Aimed
<1> QED
  BY <1>9, <1>10, <1>11 DEF AlInv

LEMMA Enable ==
  ASSUME AlInv(al), enable
  PROVE  AlInv(al')
<1>1. al \in AlType /\ al.watched \in BOOLEAN /\ Kept(al) /\ Rested(al) /\ al.state = "inited"
  BY DEF AlInv, Kept, AlType, enable
<1>2. PICK watched \in BOOLEAN : watched = (al.watched \/ al.kind = "workday")
  OBVIOUS
<1>3. PICK S : S = [al EXCEPT !.watched = watched]
  OBVIOUS
<1>4. al' = activeTimer(S)
  BY <1>2, <1>3 DEF enable
<1>5. /\ S \in AlType /\ S.watched = watched /\ S.kind = al.kind /\ S.state = al.state
      /\ S.timer = al.timer /\ S.last = al.last /\ S.now = al.now /\ S.target = al.target
      /\ S.stale = al.stale
  BY <1>1, <1>3 DEF AlType
<1>6. S.watched <=> S.kind = "workday"
  BY <1>1, <1>2, <1>5 DEF Kept
<1>7. Kept(S)
  BY <1>1, <1>5, <1>6 DEF Kept
<1>8. Rested(S)
  BY <1>1, <1>5 DEF Rested
<1> QED
  BY <1>1, <1>4, <1>5, <1>6, <1>7, <1>8, ActiveTimer

\* disable() keeps the invariant, and the target.
LEMMA Disabled ==
  ASSUME NEW S, AlInv(S)
  PROVE  /\ AlInv(disabled(S)) /\ disabled(S).state # "running"
         /\ disabled(S).timer = NoTime /\ disabled(S).last = S.last
         /\ disabled(S).now = S.now
<1>1. /\ S \in AlType /\ S.now \in Int /\ S.target \in Int /\ S.stale \in BOOLEAN
      /\ Kept(S) /\ Rested(S)
  BY DEF AlInv, Kept, AlType
<1>2. CASE S.state # "running"
  <2>1. disabled(S) = S
    BY <1>2 DEF disabled
  <2> QED
    BY <1>1, <1>2, <2>1 DEF Kept
<1>3. CASE S.state = "running"
  <2>1. (S.target > S.now) \in BOOLEAN
    BY <1>1, SMT
  <2>2. PICK stale \in BOOLEAN : stale = (S.stale \/ S.target > S.now)
    BY <1>1, <2>1, Zenon
  <2>3. PICK T : T = [S EXCEPT !.state = "inited", !.timer = NoTime, !.watched = FALSE,
                               !.stale = stale]
    OBVIOUS
  <2>4. disabled(S) = T
    BY <1>3, <2>2, <2>3 DEF disabled
  <2>5. NoTime \in Int
    BY DEF NoTime
  <2>6. /\ T \in AlType /\ T.state = "inited" /\ T.timer = NoTime /\ T.watched = FALSE
        /\ T.stale = stale /\ T.target = S.target /\ T.now = S.now /\ T.last = S.last
    BY <1>1, <2>3, <2>5 DEF AlType
  <2>7. Kept(T)
    BY <1>1, <2>6 DEF Kept
  <2>8. Rested(T)
    <3> SUFFICES ASSUME ~stale PROVE S.target <= S.now
      BY <2>6 DEF Rested
    <3>1. ~(S.target > S.now)
      BY <2>2, Zenon
    <3> QED
      BY <1>1, <3>1
  <2>9. Aimed(T)
    BY <2>6 DEF Aimed
  <2> QED
    BY <2>4, <2>6, <2>7, <2>8, <2>9 DEF AlInv
<1> QED
  BY <1>2, <1>3

LEMMA Disable ==
  ASSUME AlInv(al), disable
  PROVE  AlInv(al')
BY Disabled DEF disable

LEMMA AlarmCleanup ==
  ASSUME AlInv(al), alarmCleanup
  PROVE  AlInv(al')
<1>1. al \in AlType /\ al.now \in Int /\ al.last \in Int /\ al.now >= 0
  BY DEF AlInv, Kept, AlType
<1>2. PICK D : D = disabled(al)
  OBVIOUS
<1>3. /\ D \in AlType /\ D.state # "running" /\ D.timer = NoTime /\ D.last = al.last
      /\ D.now = al.now /\ (D.watched => D.kind = "workday")
  BY <1>2, Disabled DEF AlInv, Kept
<1>4. PICK last \in Int : last = Min({al.last, al.now})
  BY <1>1, MinOfTwo
<1>5. last <= al.now
  BY <1>1, <1>4, MinOfTwo
<1>6. al' = [D EXCEPT !.zone = SystemZone, !.state = "none", !.target = 0, !.stale = FALSE,
                      !.last = last]
  BY <1>2, <1>3, <1>4 DEF alarmCleanup
<1>7. /\ al' \in AlType /\ al'.state = "none" /\ al'.target = 0 /\ al'.last = last
      /\ al'.now = al.now /\ al'.timer = NoTime /\ (al'.watched => al'.kind = "workday")
  <2>1. SystemZone \in Int
    BY DEF SystemZone
  <2>b. PICK zero \in Int : zero = 0
    OBVIOUS
  <2>c. al' = [D EXCEPT !.zone = SystemZone, !.state = "none", !.target = zero, !.stale = FALSE,
                        !.last = last]
    BY <1>6, <2>b
  <2>a. al' \in AlType
    BY <1>3, <2>1, <2>c DEF AlType
  <2>2. al' \in AlType /\ al'.state = "none" /\ al'.target = 0 /\ al'.last = last
    BY <1>3, <1>6, <2>a DEF AlType
  <2>3. /\ al'.now = D.now /\ al'.timer = D.timer /\ al'.watched = D.watched
        /\ al'.kind = D.kind
    BY <1>3, <1>6 DEF AlType
  <2> QED
    BY <1>3, <2>2, <2>3
<1> QED
  BY <1>1, <1>5, <1>7 DEF AlInv, Kept, Rested, Aimed

\* refresh() aims at the next time from the present on.
LEMMA Refreshed ==
  ASSUME NEW S, Kept(S), S.state = "running"
  PROVE  AlInv(refreshed(S))
<1>1. S \in AlType /\ S.now \in Int /\ S.last \in Int /\ S.now >= 0
  BY DEF Kept, AlType
<1>2. PICK last \in Int : last = Min({S.last, S.now})
  BY <1>1, MinOfTwo
<1>3. last <= S.now
  BY <1>1, <1>2, MinOfTwo
<1>4. PICK T : T = [S EXCEPT !.state = "inited", !.timer = NoTime, !.target = 0,
                             !.stale = FALSE, !.last = last]
  OBVIOUS
<1>5. refreshed(S) = activeTimer(T)
  BY <1>2, <1>4 DEF refreshed
<1>6. /\ T \in AlType /\ T.state = "inited" /\ T.timer = NoTime /\ T.target = 0
      /\ T.last = last /\ T.now = S.now /\ T.watched = S.watched /\ T.kind = S.kind
  <2>1. NoTime \in Int
    BY DEF NoTime
  <2>a. PICK zero \in Int : zero = 0
    OBVIOUS
  <2>b. T = [S EXCEPT !.state = "inited", !.timer = NoTime, !.target = zero,
                      !.stale = FALSE, !.last = last]
    BY <1>4, <2>a
  <2>2. T \in AlType
    BY <1>1, <2>1, <2>b DEF AlType
  <2> QED
    BY <1>1, <1>4, <2>2 DEF AlType
<1>7. T.watched <=> T.kind = "workday"
  BY <1>6 DEF Kept
<1>8. Kept(T)
  BY <1>1, <1>3, <1>6, <1>7 DEF Kept
<1>9. Rested(T)
  BY <1>1, <1>6 DEF Rested
<1> QED
  BY <1>5, <1>6, <1>7, <1>8, <1>9, ActiveTimer

LEMMA Refresh ==
  ASSUME AlInv(al), refresh
  PROVE  AlInv(al')
<1>1. CASE al.state = "running"
  BY <1>1, Refreshed DEF AlInv, refresh
<1>2. CASE al.state # "running"
  BY <1>2 DEF refresh, refreshed
<1> QED
  BY <1>1, <1>2

LEMMA SetTimezone ==
  ASSUME AlInv(al), NEW zone \in Offsets, setTimezone(zone)
  PROVE  AlInv(al')
<1>1. /\ al \in AlType /\ al.now \in Int /\ al.target \in Int /\ al.stale \in BOOLEAN
      /\ Kept(al) /\ Rested(al) /\ Aimed(al)
  BY DEF AlInv, Kept, AlType
<1>2. zone \in Int
  BY AlarmAssumption DEF Offsets
<1>3. (al.target > al.now) \in BOOLEAN
  BY <1>1, SMT
<1>4. PICK stale \in BOOLEAN :
        stale = (al.stale \/ (zone # al.zone /\ (al.state = "running" \/ al.target > al.now)))
  BY <1>1, <1>3, Zenon
<1>5. al' = [al EXCEPT !.zone = zone, !.stale = stale]
  BY <1>4 DEF setTimezone
<1>6. /\ al' \in AlType /\ al'.zone = zone /\ al'.stale = stale /\ al'.state = al.state
      /\ al'.kind = al.kind /\ al'.target = al.target /\ al'.now = al.now /\ al'.last = al.last
      /\ al'.timer = al.timer /\ al'.watched = al.watched /\ al'.wrapped = al.wrapped
  BY <1>1, <1>2, <1>5 DEF AlType
<1>7. Kept(al')
  BY <1>1, <1>6 DEF Kept
<1>8. stale \/ ~al.stale
  BY <1>1, <1>4
<1>9. Rested(al')
  BY <1>1, <1>6, <1>8 DEF Rested
<1>10. Aimed(al')
  <2>1. CASE zone = al.zone
    <3>1. SameTimes(al, al')
      BY <1>1, <1>5, <2>1 DEF AlType, SameTimes
    <3> QED
      BY <1>1, <1>6, <1>8, <3>1, StillAimed
  <2>2. CASE zone # al.zone
    BY <1>4, <1>6, <2>2 DEF Aimed
  <2> QED
    BY <2>1, <2>2
<1> QED
  BY <1>7, <1>9, <1>10 DEF AlInv

\* A change of the calendar: a subscribed alarm is refreshed, another one is not running.
LEMMA CalendarChanged ==
  ASSUME NEW S, AlInv(S), S.kind = "workday", NEW T \in AlType, NEW stale \in BOOLEAN,
         S.stale => stale, T.stale = stale,
         T.kind = S.kind, T.state = S.state, T.timer = S.timer, T.watched = S.watched,
         T.target = S.target, T.now = S.now, T.last = S.last
  PROVE  AlInv(Updated(T))
<1>1. Kept(T)
  BY DEF AlInv, Kept
<1>2. CASE T.watched
  <2>1. CASE T.state = "running"
    BY <1>1, <1>2, <2>1, Refreshed DEF Updated
  <2>2. CASE T.state # "running"
    <3>1. Updated(T) = T
      BY <2>2 DEF Updated, refreshed
    <3>2. Rested(T)
      BY DEF AlInv, Rested
    <3> QED
      BY <1>1, <2>2, <3>1, <3>2 DEF AlInv, Aimed
  <2> QED
    BY <2>1, <2>2
<1>3. CASE ~T.watched
  <2>1. Updated(T) = T
    BY <1>3 DEF Updated
  <2>2. T.state # "running"
    BY <1>3 DEF AlInv, Kept
  <2>3. Rested(T)
    BY DEF AlInv, Rested
  <2> QED
    BY <1>1, <2>1, <2>2, <2>3 DEF AlInv, Aimed
<1> QED
  BY <1>2, <1>3

LEMMA UpdateWeekMask ==
  ASSUME AlInv(al), NEW mask \in WeekMasks, updateWeekMask(mask)
  PROVE  AlInv(al')
<1>1. al \in AlType /\ al.now \in Int /\ al.target \in Int /\ al.stale \in BOOLEAN
  BY DEF AlInv, Kept, AlType
<1>2. (al.target > al.now) \in BOOLEAN
  BY <1>1, SMT
<1>3. PICK stale \in BOOLEAN : stale = (al.stale \/ (~al.watched /\ al.target > al.now))
  BY <1>1, <1>2, Zenon
<1>4. PICK T : T = [al EXCEPT !.mask = mask, !.stale = stale]
  OBVIOUS
<1>5. al' = Updated(T) /\ al.kind = "workday"
  BY <1>3, <1>4 DEF updateWeekMask
<1>6. /\ T \in AlType /\ T.stale = stale /\ T.kind = al.kind /\ T.state = al.state
      /\ T.timer = al.timer /\ T.watched = al.watched /\ T.target = al.target
      /\ T.now = al.now /\ T.last = al.last
  BY <1>1, <1>4 DEF AlType
<1>7. al.stale => stale
  BY <1>3
<1> QED
  BY <1>5, <1>6, <1>7, CalendarChanged

LEMMA UpdateSpecialDays ==
  ASSUME AlInv(al), NEW special \in Specials, updateSpecialDays(special)
  PROVE  AlInv(al')
<1>1. al \in AlType /\ al.now \in Int /\ al.target \in Int /\ al.stale \in BOOLEAN
  BY DEF AlInv, Kept, AlType
<1>2. (al.target > al.now) \in BOOLEAN
  BY <1>1, SMT
<1>3. PICK stale \in BOOLEAN : stale = (al.stale \/ (~al.watched /\ al.target > al.now))
  BY <1>1, <1>2, Zenon
<1>4. PICK T : T = [al EXCEPT !.special = special, !.stale = stale]
  OBVIOUS
<1>5. al' = Updated(T) /\ al.kind = "workday"
  BY <1>3, <1>4 DEF updateSpecialDays
<1>6. /\ T \in AlType /\ T.stale = stale /\ T.kind = al.kind /\ T.state = al.state
      /\ T.timer = al.timer /\ T.watched = al.watched /\ T.target = al.target
      /\ T.now = al.now /\ T.last = al.last
  BY <1>1, <1>4 DEF AlType
<1>7. al.stale => stale
  BY <1>3
<1> QED
  BY <1>5, <1>6, <1>7, CalendarChanged

\* The timer fires: what was aimed at is done, and a repeating alarm goes on from there.
LEMMA OnTimeExpired ==
  ASSUME AlInv(al), onTimeExpired
  PROVE  AlInv(al')
<1>1. /\ al \in AlType /\ al.now \in Int /\ al.target \in Int /\ al.last \in Int
      /\ al.stale \in BOOLEAN /\ al.wrapped \in BOOLEAN /\ Kept(al)
      /\ (al.last <= al.now \/ al.last <= al.target)
  BY DEF AlInv, Kept, AlType
<1>2. al.state = "running" /\ (al.watched <=> al.kind = "workday")
  BY <1>1 DEF Kept, onTimeExpired
<1>3. PICK stale \in BOOLEAN : stale = (al.stale \/ al.wrapped)
  BY <1>1
<1>4. PICK last \in Int : last = IF al.wrapped THEN al.last ELSE al.target
  BY <1>1
<1>5. PICK S : S = [al EXCEPT !.state = "inited", !.timer = NoTime, !.stale = stale, !.last = last]
  OBVIOUS
<1>6. al' = IF al.kind = "oneshot" THEN S ELSE activeTimer(S)
  BY <1>3, <1>4, <1>5 DEF onTimeExpired
<1>7. /\ S \in AlType /\ S.state = "inited" /\ S.timer = NoTime /\ S.stale = stale
      /\ S.last = last /\ S.now = al.now /\ S.target = al.target /\ S.watched = al.watched
      /\ S.kind = al.kind
  <2>1. NoTime \in Int
    BY DEF NoTime
  <2> QED
    BY <1>1, <1>5, <2>1 DEF AlType
<1>8. Kept(S)
  BY <1>1, <1>2, <1>4, <1>7 DEF Kept
<1>9. Rested(S)
  <2> SUFFICES ASSUME ~stale PROVE al.target <= last
    BY <1>7 DEF Rested
  <2> QED
    BY <1>1, <1>3, <1>4
<1>10. S.watched <=> S.kind = "workday"
  BY <1>2, <1>7
<1>11. Aimed(S)
  BY <1>7 DEF Aimed
<1>12. AlInv(S) /\ AlInv(activeTimer(S))
  BY <1>7, <1>8, <1>9, <1>10, <1>11, ActiveTimer DEF AlInv
<1> QED
  BY <1>6, <1>12

LEMMA AlarmTick ==
  ASSUME AlInv(al), tick
  PROVE  AlInv(al')
<1>1. /\ al \in AlType /\ al.now \in Nat /\ al.target \in Int /\ al.last \in Int
      /\ Kept(al) /\ Rested(al) /\ Aimed(al)
  BY DEF AlInv, Kept, AlType
<1>2. al' = [al EXCEPT !.now = al.now + 1]
  BY DEF tick
<1>3. /\ al' \in AlType /\ al'.now = al.now + 1 /\ al'.stale = al.stale /\ al'.state = al.state
      /\ al'.kind = al.kind /\ al'.target = al.target /\ al'.last = al.last
      /\ al'.timer = al.timer /\ al'.watched = al.watched /\ al'.wrapped = al.wrapped
  BY <1>1, <1>2 DEF AlType
<1>4. SameTimes(al, al')
  BY <1>1, <1>2 DEF AlType, SameTimes
<1>5. Kept(al')
  BY <1>1, <1>3 DEF Kept
<1>6. Rested(al')
  BY <1>1, <1>3 DEF Rested
<1>7. al'.now >= al.now
  BY <1>1, <1>3
<1>8. Aimed(al')
  BY <1>1, <1>3, <1>4, <1>7, StillAimed
<1> QED
  BY <1>5, <1>6, <1>8 DEF AlInv

LEMMA ClockSet ==
  ASSUME AlInv(al), NEW now \in {Day, MaxNow}, clockSet(now)
  PROVE  AlInv(al')
<1>1. /\ al \in AlType /\ al.now \in Int /\ al.last \in Int /\ al.timer \in Int /\ Kept(al)
  BY DEF AlInv, Kept, AlType
<1>2. now \in Nat /\ now \in Int
  BY AlarmAssumption
<1>3. PICK last \in Int : last = Min({al.last, now})
  BY <1>1, <1>2, MinOfTwo
<1>4. last <= now
  BY <1>1, <1>2, <1>3, MinOfTwo
<1>5. PICK shifted \in Int : shifted = al.timer + now - al.now
  BY <1>1, <1>2
<1>6. PICK timer \in Int : timer = IF al.timer = NoTime THEN al.timer ELSE Max({0, shifted})
  BY <1>1, <1>5, MaxOfTwo
<1>7. al' = [al EXCEPT !.now = now, !.stale = TRUE, !.last = last, !.timer = timer]
  BY <1>3, <1>5, <1>6 DEF clockSet
<1>8. /\ al' \in AlType /\ al'.now = now /\ al'.stale = TRUE /\ al'.last = last
      /\ al'.timer = timer /\ al'.state = al.state /\ al'.kind = al.kind
      /\ al'.watched = al.watched
  BY <1>1, <1>2, <1>7 DEF AlType
<1>9. al'.timer # NoTime => al'.state = "running"
  BY <1>1, <1>6, <1>8 DEF Kept
<1>10. Kept(al')
  BY <1>1, <1>4, <1>8, <1>9 DEF Kept
<1> QED
  BY <1>8, <1>10 DEF AlInv, Rested, Aimed

\* A running alarm always waits for its next time, as long as its target is of the present
\* clock, zone and settings: enable(), refresh(), the calendar, early and late timers.
THEOREM AlarmsOnTime == AlarmSpec => []AlarmOnTime
<1>1. AlarmInit => AlarmSafe
  BY AlarmStarts DEF AlarmSafe
<1>2. AlarmSafe /\ [AlarmNext]_al => AlarmSafe'
  <2> SUFFICES ASSUME AlInv(al), [AlarmNext]_al PROVE AlInv(al')
    BY DEF AlarmSafe
  <2>1. CASE \E c \in Settings : initialize(c)
    BY <2>1, Initialize
  <2>2. CASE enable
    BY <2>2, Enable
  <2>3. CASE disable
    BY <2>3, Disable
  <2>4. CASE alarmCleanup
    BY <2>4, AlarmCleanup
  <2>5. CASE refresh
    BY <2>5, Refresh
  <2>6. CASE \E zone \in Offsets : setTimezone(zone)
    BY <2>6, SetTimezone
  <2>7. CASE \E mask \in WeekMasks : updateWeekMask(mask)
    BY <2>7, UpdateWeekMask
  <2>8. CASE \E special \in Specials : updateSpecialDays(special)
    BY <2>8, UpdateSpecialDays
  <2>9. CASE onTimeExpired
    BY <2>9, OnTimeExpired
  <2>10. CASE tick
    BY <2>10, AlarmTick
  <2>11. CASE \E now \in {Day, MaxNow} : clockSet(now)
    BY <2>11, ClockSet
  <2>12. CASE UNCHANGED al
    BY <2>12
  <2> QED
    BY <2>1, <2>2, <2>3, <2>4, <2>5, <2>6, <2>7, <2>8, <2>9, <2>10, <2>11, <2>12 DEF AlarmNext
<1>3. AlarmSafe => AlarmOnTime
  <2> SUFFICES ASSUME AlInv(al), al.state = "running"
               PROVE  /\ al.watched <=> al.kind = "workday"
                      /\ ~al.stale =>
                           /\ al.wrapped \/ al.timer = al.target
                           /\ Occurs(al, al.target) /\ al.target > al.last
                           /\ \A t \in al.now + 1 .. al.target - 1 : Occurs(al, t) => t <= al.last
    BY DEF AlarmSafe, AlarmOnTime
  <2>1. al.watched <=> al.kind = "workday"
    BY DEF AlInv, Kept
  <2> QED
    BY <2>1 DEF AlInv, Aimed
<1> QED
  BY <1>1, <1>2, <1>3, PTL DEF AlarmSpec

-----------------------------------------------------------------------------
(* The executor of actions                                                 *)

ActionStates == {"idle", "running", "pause", "finished", "stoped", "gone"}
ExType ==
  [dq : [Prios -> Seq(Nat)], cur : Prios \cup {NoQueue}, st : Seq(ActionStates),
   calls : SUBSET Nat, blocked : SUBSET Nat, at : {"rest", "find", "serve"}, ready : Prios,
   ub : BOOLEAN]

\* The actions in the queues exist, and each is in one place.
Placed(S) ==
  /\ \A p \in Prios : \A i \in DOMAIN S.dq[p] :
       S.dq[p][i] \in DOMAIN S.st /\ S.st[S.dq[p][i]] # "gone"
  /\ \A p, q \in Prios : \A i \in DOMAIN S.dq[p], j \in DOMAIN S.dq[q] :
       S.dq[p][i] = S.dq[q][j] => p = q /\ i = j

\* Who runs is the front of the current queue.
RunsInFront(S) ==
  \A p \in Prios : \A i \in DOMAIN S.dq[p] : S.st[S.dq[p][i]] = "running" => p = S.cur /\ i = 1

\* The inner loop of schedule() serves the first queue there was, and nobody runs elsewhere.
Serves(S) ==
  S.at = "serve" =>
    /\ \A q \in Prios : q < S.ready => S.dq[q] = <<>>
    /\ \A p \in Prios : \A i \in DOMAIN S.dq[p] : S.st[S.dq[p][i]] = "running" => p = S.ready

\* What became of the front of the first queue since schedule() returned.
Settled(S, a) ==
  \/ S.st[a] \in {"running", "stoped"}
  \/ S.st[a] = "finished" /\ a \in S.calls
  \/ S.st[a] = "pause" /\ a \in S.blocked

Rests(S) ==
  S.at = "rest" => \A p \in Prios : First(S, p) => S.cur = p /\ Settled(S, S.dq[p][1])

ExInv(S) ==
  /\ S \in ExType /\ Placed(S) /\ RunsInFront(S)
  /\ ~S.ub => Serves(S) /\ Rests(S)
ExSafe == ExInv(ex)

\* w is the queue s without its element at k.
Without(s, k, w) ==
  \A j \in DOMAIN w : \/ j \in DOMAIN s /\ j < k /\ w[j] = s[j]
                      \/ j + 1 \in DOMAIN s /\ j + 1 > k /\ w[j] = s[j + 1]

LEMMA QueueWithout ==
  ASSUME NEW s \in Seq(Nat), NEW k \in DOMAIN s
  PROVE  RemoveAt(s, k) \in Seq(Nat) /\ Without(s, k, RemoveAt(s, k))
<1>1. k \in 1 .. Len(s) /\ Len(s) \in Nat /\ DOMAIN s = 1 .. Len(s)
  OBVIOUS
<1>a. PICK n \in Nat : n = Len(s)
  BY <1>1
<1>b. k \in Int /\ k >= 1 /\ k <= n
  BY <1>1, <1>a
<1>c. \A j \in 1 .. n : s[j] \in Nat
  BY <1>1, <1>a
<1>2. PICK a : a = SubSeq(s, 1, k - 1)
  OBVIOUS
<1>3. PICK b : b = SubSeq(s, k + 1, n)
  OBVIOUS
<1>4. a \in Seq(Nat) /\ Len(a) = k - 1 /\ \A j \in 1 .. k - 1 : a[j] = s[j]
  <2>1. k - 1 \in Int /\ \A j \in 1 .. k - 1 : s[j] \in Nat
    BY <1>b, <1>c
  <2>2. /\ a \in Seq(Nat) /\ Len(a) = IF 1 <= k - 1 THEN (k - 1) - 1 + 1 ELSE 0
        /\ \A j \in 1 .. (k - 1) - 1 + 1 : a[j] = s[1 + j - 1]
    BY <1>2, <2>1, SubSeqProperties
  <2>3. \A j \in 1 .. k - 1 : j \in 1 .. (k - 1) - 1 + 1 /\ 1 + j - 1 = j
    BY <1>b
  <2>4. ASSUME NEW j \in 1 .. k - 1 PROVE a[j] = s[j]
    <3>1. j \in 1 .. (k - 1) - 1 + 1 /\ 1 + j - 1 = j
      BY <2>3
    <3>2. a[j] = s[1 + j - 1]
      BY <2>2, <3>1
    <3> QED
      BY <3>1, <3>2
  <2>5. Len(a) = k - 1
    BY <1>b, <2>2
  <2> QED
    BY <2>2, <2>4, <2>5
<1>5. b \in Seq(Nat) /\ Len(b) = n - k /\ \A j \in 1 .. n - k : b[j] = s[j + k]
  <2>0. PICK c \in Int : c = k + 1
    BY <1>b
  <2>1. b = SubSeq(s, c, n) /\ n \in Int /\ \A j \in c .. n : s[j] \in Nat
    BY <1>3, <1>b, <1>c, <2>0
  <2>2. /\ b \in Seq(Nat) /\ Len(b) = IF c <= n THEN n - c + 1 ELSE 0
        /\ \A j \in 1 .. n - c + 1 : b[j] = s[c + j - 1]
    BY <2>1, SubSeqProperties
  <2>3. Len(b) = n - k
    BY <1>b, <2>0, <2>2
  <2>4. ASSUME NEW j \in 1 .. n - k PROVE b[j] = s[j + k]
    <3>0. j \in Int /\ 1 <= j /\ j <= n - k
      BY <1>b
    <3>1. j \in 1 .. n - c + 1 /\ c + j - 1 = j + k
      <4>1. n - c + 1 = n - k
        BY <1>b, <2>0
      <4>2. c + j - 1 = j + k
        BY <1>b, <2>0, <3>0
      <4> QED
        BY <4>1, <4>2
    <3>2. b[j] = s[c + j - 1]
      BY <2>2, <3>1
    <3> QED
      BY <3>1, <3>2
  <2> QED
    BY <2>2, <2>3, <2>4
<1>6. RemoveAt(s, k) = a \o b
  BY <1>2, <1>3, <1>a DEF RemoveAt
<1>7. /\ a \o b \in Seq(Nat) /\ DOMAIN (a \o b) = 1 .. n - 1
      /\ \A j \in 1 .. n - 1 : (a \o b)[j] = IF j <= k - 1 THEN a[j] ELSE b[j - (k - 1)]
  <2>1. /\ a \o b \in Seq(Nat) /\ Len(a \o b) = Len(a) + Len(b)
        /\ \A j \in 1 .. Len(a) + Len(b) :
             (a \o b)[j] = IF j <= Len(a) THEN a[j] ELSE b[j - Len(a)]
    BY <1>4, <1>5, ConcatProperties
  <2>2. Len(a) + Len(b) = n - 1 /\ DOMAIN (a \o b) = 1 .. Len(a \o b)
    BY <1>4, <1>5, <1>b, <2>1
  <2> QED
    BY <1>4, <2>1, <2>2
<1>8. ASSUME NEW j \in DOMAIN (a \o b)
      PROVE  \/ j \in DOMAIN s /\ j < k /\ (a \o b)[j] = s[j]
             \/ j + 1 \in DOMAIN s /\ j + 1 > k /\ (a \o b)[j] = s[j + 1]
  <2>1. j \in Int /\ 1 <= j /\ j <= n - 1
    BY <1>7
  <2>2. CASE j < k
    <3>1. j \in 1 .. k - 1 /\ j <= k - 1 /\ j \in 1 .. n - 1 /\ j \in 1 .. n
      BY <1>b, <2>1, <2>2
    <3>2. a[j] = s[j]
      BY <1>4, <3>1
    <3>3. (a \o b)[j] = a[j]
      BY <1>7, <3>1
    <3>4. j \in DOMAIN s
      BY <1>1, <1>a, <3>1
    <3> QED
      BY <2>2, <3>2, <3>3, <3>4
  <2>3. CASE j >= k
    <3>1. j - (k - 1) \in 1 .. n - k /\ j - (k - 1) + k = j + 1
      BY <1>b, <2>1, <2>3
    <3>2. (a \o b)[j] = b[j - (k - 1)]
      <4>1. j \in 1 .. n - 1 /\ ~(j <= k - 1)
        BY <1>b, <2>1, <2>3
      <4> QED
        BY <1>7, <4>1
    <3>3. b[j - (k - 1)] = s[j + 1]
      BY <1>5, <3>1
    <3>4. j + 1 \in 1 .. n /\ j + 1 > k
      BY <1>b, <2>1, <2>3
    <3>5. j + 1 \in DOMAIN s
      BY <1>1, <1>a, <3>4
    <3> QED
      BY <3>2, <3>3, <3>4, <3>5
  <2>4. j < k \/ j >= k
    BY <1>b, <2>1
  <2> QED
    BY <2>2, <2>3, <2>4
<1> QED
  BY <1>6, <1>7, <1>8 DEF Without

\* pop_front() is the same of the first element.
LEMMA QueuePopped ==
  ASSUME NEW s \in Seq(Nat), s # <<>>
  PROVE  /\ Tail(s) \in Seq(Nat) /\ 1 \in DOMAIN s /\ Head(s) = s[1]
         /\ Without(s, 1, Tail(s))
BY DEF Without

LEMMA QueueGrown ==
  ASSUME NEW s \in Seq(Nat), NEW a \in Nat
  PROVE  /\ Append(s, a) \in Seq(Nat)
         /\ \A j \in DOMAIN Append(s, a) :
              \/ j \in DOMAIN s /\ Append(s, a)[j] = s[j]
              \/ j = Len(s) + 1 /\ Append(s, a)[j] = a
OBVIOUS

LEMMA QueueOf ==
  ASSUME NEW S \in ExType, NEW p \in Prios
  PROVE  /\ S.dq \in [Prios -> Seq(Nat)] /\ S.dq[p] \in Seq(Nat)
         /\ S.st \in Seq(ActionStates)
         /\ \A i \in DOMAIN S.dq[p] : i \in Nat /\ i >= 1 /\ S.dq[p][i] \in Nat
BY DEF ExType

\* The states of the actions, after one of them changed.
LEMMA StateSet ==
  ASSUME NEW s \in Seq(ActionStates), NEW a \in DOMAIN s, NEW v \in ActionStates
  PROVE  [s EXCEPT ![a] = v] \in Seq(ActionStates)
BY ExceptSeq

LEMMA NoneIsNoQueue == NoQueue \notin Prios
BY DEF NoQueue, Prios

\* T is S without the action at k of queue p.
TakenFrom(S, p, k, T) ==
  /\ Without(S.dq[p], k, T.dq[p]) /\ \A q \in Prios \ {p} : T.dq[q] = S.dq[q]
  /\ \A b \in DOMAIN S.st \ {S.dq[p][k]} : b \in DOMAIN T.st /\ T.st[b] = S.st[b]

\* Who runs in T is the front of the current queue of S, and was before.
RanBefore(S, p, k, T) ==
  \A q \in Prios : \A j \in DOMAIN T.dq[q] :
    T.st[T.dq[q][j]] = "running" =>
      q = S.cur /\ j = 1 /\ S.dq[q] # <<>> /\ S.st[S.dq[q][1]] = "running" /\ (q = p => k # 1)

\* Deleting the action at k of queue p and taking it out leaves the others where they were.
LEMMA TakenOut ==
  ASSUME NEW S \in ExType, Placed(S), RunsInFront(S), NEW p \in Prios, NEW k \in DOMAIN S.dq[p],
         NEW T \in ExType, TakenFrom(S, p, k, T)
  PROVE  Placed(T) /\ RanBefore(S, p, k, T)
<1> DEFINE old(q, j) == IF q = p /\ j >= k THEN j + 1 ELSE j
<1>1. /\ \A q \in Prios : T.dq[q] = IF q = p THEN T.dq[p] ELSE S.dq[q]
      /\ \A b \in DOMAIN S.st \ {S.dq[p][k]} : b \in DOMAIN T.st /\ T.st[b] = S.st[b]
  BY DEF TakenFrom
<1>2. ASSUME NEW q \in Prios, NEW j \in DOMAIN T.dq[q]
      PROVE  /\ old(q, j) \in DOMAIN S.dq[q] /\ T.dq[q][j] = S.dq[q][old(q, j)]
             /\ j \in Nat /\ j >= 1 /\ (q = p => old(q, j) # k) /\ (old(q, j) = 1 => j = 1)
  <2>1. CASE q = p
    <3>1. j \in DOMAIN T.dq[p] /\ j \in Nat /\ j >= 1 /\ k \in Nat
      BY <2>1, QueueOf
    <3>2. CASE j \in DOMAIN S.dq[p] /\ j < k /\ T.dq[p][j] = S.dq[p][j]
      BY <1>1, <2>1, <3>1, <3>2
    <3>3. CASE j + 1 \in DOMAIN S.dq[p] /\ j + 1 > k /\ T.dq[p][j] = S.dq[p][j + 1]
      BY <1>1, <2>1, <3>1, <3>3
    <3> QED
      BY <3>1, <3>2, <3>3 DEF TakenFrom, Without
  <2>2. CASE q # p
    BY <1>1, <2>2, QueueOf
  <2> QED
    BY <2>1, <2>2
<1>3. ASSUME NEW q \in Prios, NEW j \in DOMAIN T.dq[q]
      PROVE  T.dq[q][j] \in DOMAIN T.st /\ T.st[T.dq[q][j]] = S.st[S.dq[q][old(q, j)]]
  <2>1. PICK i : i = old(q, j)
    OBVIOUS
  <2>2. i \in DOMAIN S.dq[q] /\ T.dq[q][j] = S.dq[q][i] /\ (q = p => i # k)
    BY <1>2, <2>1
  <2>3. S.dq[q][i] # S.dq[p][k]
    BY <2>2 DEF Placed
  <2>4. S.dq[q][i] \in DOMAIN S.st
    BY <2>2 DEF Placed
  <2> QED
    BY <1>1, <2>1, <2>2, <2>3, <2>4
<1>4. \A q \in Prios : \A j \in DOMAIN T.dq[q] : T.st[T.dq[q][j]] # "gone"
  BY <1>2, <1>3 DEF Placed
<1>5. ASSUME NEW q \in Prios, NEW r \in Prios, NEW i \in DOMAIN T.dq[q], NEW j \in DOMAIN T.dq[r],
             T.dq[q][i] = T.dq[r][j]
      PROVE  q = r /\ i = j
  <2>1. q = r /\ old(q, i) = old(r, j)
    <3>1. PICK x : x = old(q, i)
      OBVIOUS
    <3>2. PICK y : y = old(r, j)
      OBVIOUS
    <3>3. x \in DOMAIN S.dq[q] /\ y \in DOMAIN S.dq[r] /\ S.dq[q][x] = S.dq[r][y]
      BY <1>2, <1>5, <3>1, <3>2
    <3> QED
      BY <3>1, <3>2, <3>3 DEF Placed
  <2>2. i \in Nat /\ j \in Nat /\ k \in Nat
    BY <1>2, QueueOf
  <2> QED
    BY <2>1, <2>2
<1>6. Placed(T)
  BY <1>3, <1>4, <1>5 DEF Placed
<1>7. ASSUME NEW q \in Prios, NEW j \in DOMAIN T.dq[q], T.st[T.dq[q][j]] = "running"
      PROVE  q = S.cur /\ j = 1 /\ S.dq[q] # <<>> /\ S.st[S.dq[q][1]] = "running" /\ (q = p => k # 1)
  <2>1. PICK i : i = old(q, j)
    OBVIOUS
  <2>2. i \in DOMAIN S.dq[q] /\ (q = p => i # k) /\ (i = 1 => j = 1)
    BY <1>2, <2>1
  <2>3. S.st[S.dq[q][i]] = "running"
    BY <1>3, <1>7, <2>1
  <2>4. q = S.cur /\ i = 1
    BY <2>2, <2>3 DEF RunsInFront
  <2> QED
    BY <2>2, <2>3, <2>4
<1> QED
  BY <1>6, <1>7 DEF RanBefore

\* The state of the action at k of queue p changes, and nothing else moves.
AllBut(S, p, k, T) ==
  \A q \in Prios : \A j \in DOMAIN T.dq[q] :
    ~(q = p /\ j = k) => T.st[T.dq[q][j]] = S.st[S.dq[q][j]]

LEMMA FrontChanged ==
  ASSUME NEW S \in ExType, Placed(S), NEW T \in ExType, T.dq = S.dq, NEW p \in Prios,
         NEW k \in DOMAIN S.dq[p], NEW v \in ActionStates \ {"gone"},
         NEW a, a = S.dq[p][k], T.st = [S.st EXCEPT ![a] = v]
  PROVE  Placed(T) /\ T.st[S.dq[p][k]] = v /\ AllBut(S, p, k, T)
<1>1. DOMAIN T.st = DOMAIN S.st /\ S.dq[p][k] \in DOMAIN S.st
  BY QueueOf DEF Placed
<1>2. T.st[S.dq[p][k]] = v
  BY <1>1, QueueOf
<1>3. ASSUME NEW q \in Prios, NEW j \in DOMAIN T.dq[q], ~(q = p /\ j = k)
      PROVE  T.st[T.dq[q][j]] = S.st[S.dq[q][j]]
  <2>1. S.dq[q][j] # S.dq[p][k]
    BY <1>3 DEF Placed
  <2>2. S.dq[q][j] \in DOMAIN S.st
    BY DEF Placed
  <2> QED
    BY <2>1, <2>2, QueueOf
<1>4. Placed(T)
  BY <1>1, <1>2, <1>3 DEF Placed
<1> QED
  BY <1>2, <1>3, <1>4 DEF AllBut

-----------------------------------------------------------------------------
(* The steps of the executor                                               *)

LEMMA ExecutorStarts ==
  ASSUME ExecutorInit
  PROVE  ExInv(ex)
<1>1. <<>> \in Seq(Nat) /\ <<>> \in Seq(ActionStates)
  OBVIOUS
<1>2. PICK none : none = [p \in Prios |-> <<>>]
  OBVIOUS
<1>3. none \in [Prios -> Seq(Nat)] /\ \A p \in Prios : none[p] = <<>>
  BY <1>1, <1>2
<1>4. 0 \in Prios
  BY DEF Prios
<1>5. ex = [dq |-> none, cur |-> NoQueue, st |-> <<>>, calls |-> {}, blocked |-> {},
            at |-> "rest", ready |-> 0, ub |-> FALSE]
  BY <1>2 DEF ExecutorInit, NewExecutor
<1>6. ex \in ExType /\ ex.dq = none /\ ex.at = "rest"
  BY <1>1, <1>3, <1>4, <1>5 DEF ExType
<1>7. \A p \in Prios : ex.dq[p] = <<>> /\ DOMAIN ex.dq[p] = {}
  BY <1>3, <1>6
<1>8. Placed(ex) /\ RunsInFront(ex)
  BY <1>7 DEF Placed, RunsInFront
<1>9. Serves(ex) /\ Rests(ex)
  BY <1>6, <1>7 DEF Serves, Rests, First, Ready
<1> QED
  BY <1>6, <1>8, <1>9 DEF ExInv

\* schedule() begins: nothing is said of the front then.
LEMMA Scheduled ==
  ASSUME NEW S \in ExType, NEW T \in ExType, T.at = "find", Placed(S), RunsInFront(S),
         T.dq = S.dq, T.st = S.st, T.cur = S.cur
  PROVE  ExInv(T)
BY DEF ExInv, Placed, RunsInFront, Serves, Rests

\* pause() of the current front for a higher queue: nobody runs then.
LEMMA PausedFront ==
  ASSUME NEW S \in ExType, Placed(S), RunsInFront(S), S.cur \in Prios, S.ub = FALSE
  PROVE  /\ Preempted(S) \in ExType /\ Placed(Preempted(S)) /\ Preempted(S).dq = S.dq
         /\ \A q \in Prios : \A j \in DOMAIN S.dq[q] : Preempted(S).st[S.dq[q][j]] # "running"
<1>1. CASE S.dq[S.cur] = <<>>
  <2>1. PICK T : T = [S EXCEPT !.ub = TRUE]
    OBVIOUS
  <2>2. Preempted(S) = T
    BY <1>1, <2>1 DEF Preempted
  <2>3. T \in ExType /\ T.dq = S.dq /\ T.st = S.st
    BY <2>1 DEF ExType
  <2>4. Placed(T)
    BY <2>3 DEF Placed
  <2>5. ASSUME NEW q \in Prios, NEW j \in DOMAIN S.dq[q], S.st[S.dq[q][j]] = "running" PROVE FALSE
    <3>1. q = S.cur
      BY <2>5 DEF RunsInFront
    <3> QED
      BY <1>1, <3>1
  <2> QED
    BY <2>2, <2>3, <2>4, <2>5
<1>2. CASE S.dq[S.cur] # <<>>
  <2>1. PICK p \in Prios : p = S.cur
    OBVIOUS
  <2>2. 1 \in DOMAIN S.dq[p] /\ Head(S.dq[p]) = S.dq[p][1]
    BY <1>2, <2>1, QueueOf, QueuePopped
  <2>3. PICK a : a = S.dq[p][1]
    OBVIOUS
  <2>4. CASE S.st[a] = "running"
    <3>1. PICK T : T = [S EXCEPT !.st[a] = "pause"]
      OBVIOUS
    <3>2. Preempted(S) = T
      BY <1>2, <2>1, <2>2, <2>3, <2>4, <3>1 DEF Preempted
    <3>3. a \in DOMAIN S.st
      BY <2>2, <2>3 DEF Placed
    <3>4. PICK st \in Seq(ActionStates) : st = [S.st EXCEPT ![a] = "pause"]
      <4>1. "pause" \in ActionStates /\ S.st \in Seq(ActionStates)
        BY <2>1, QueueOf DEF ActionStates
      <4> QED
        BY <3>3, <4>1, StateSet
    <3>5. T \in ExType /\ T.dq = S.dq /\ T.st = st
      BY <3>1, <3>4 DEF ExType
    <3>6. Placed(T) /\ T.st[S.dq[p][1]] = "pause" /\ AllBut(S, p, 1, T)
      <4>1. "pause" \in ActionStates \ {"gone"}
        BY DEF ActionStates
      <4> QED
        BY <2>2, <2>3, <3>4, <3>5, <4>1, FrontChanged
    <3>7. ASSUME NEW q \in Prios, NEW j \in DOMAIN S.dq[q], T.st[S.dq[q][j]] = "running" PROVE FALSE
      <4>1. ~(q = p /\ j = 1)
        BY <3>6, <3>7
      <4>2. S.st[S.dq[q][j]] = "running"
        BY <3>5, <3>6, <3>7, <4>1 DEF AllBut
      <4> QED
        BY <2>1, <4>1, <4>2 DEF RunsInFront
    <3> QED
      BY <3>2, <3>5, <3>6, <3>7
  <2>5. CASE S.st[a] # "running"
    <3>1. Preempted(S) = S
      BY <1>2, <2>1, <2>2, <2>3, <2>5 DEF Preempted
    <3>2. ASSUME NEW q \in Prios, NEW j \in DOMAIN S.dq[q], S.st[S.dq[q][j]] = "running" PROVE FALSE
      <4>1. q = p /\ j = 1
        BY <2>1, <3>2 DEF RunsInFront
      <4> QED
        BY <2>3, <2>5, <3>2, <4>1
    <3> QED
      BY <3>1, <3>2
  <2> QED
    BY <2>4, <2>5
<1> QED
  BY <1>1, <1>2

LEMMA ScheduleFind ==
  ASSUME ExInv(ex), scheduleFind
  PROVE  ExInv(ex')
<1>1. ex \in ExType /\ Placed(ex) /\ RunsInFront(ex) /\ ex.ub = FALSE
  BY DEF ExInv, ExType, scheduleFind
<1>2. CASE Ready(ex) = {} /\ ex' = [ex EXCEPT !.at = "rest"]
  <2>1. ex' \in ExType /\ ex'.dq = ex.dq /\ ex'.st = ex.st /\ ex'.cur = ex.cur /\ ex'.at = "rest"
    BY <1>1, <1>2 DEF ExType
  <2>2. Placed(ex') /\ RunsInFront(ex')
    BY <1>1, <2>1 DEF Placed, RunsInFront
  <2>3. Rests(ex') /\ Serves(ex')
    BY <1>2, <2>1 DEF Rests, Serves, First, Ready
  <2> QED
    BY <2>1, <2>2, <2>3 DEF ExInv
<1>3. ASSUME NEW p \in Prios, First(ex, p),
             LET S == IF ex.cur # NoQueue /\ p < ex.cur THEN Preempted(ex) ELSE ex
             IN ex' = [S EXCEPT !.at = "serve", !.ready = p]
      PROVE  ExInv(ex')
  <2>1. \A q \in Prios : q < p => ex.dq[q] = <<>>
    BY <1>3 DEF First, Ready, Prios
  <2>2. CASE ex.cur # NoQueue /\ p < ex.cur
    <3>1. ex.cur \in Prios
      BY <1>1, <2>2 DEF ExType
    <3>2. PICK S : S = Preempted(ex)
      OBVIOUS
    <3>3. /\ S \in ExType /\ Placed(S) /\ S.dq = ex.dq
          /\ \A q \in Prios : \A j \in DOMAIN ex.dq[q] : S.st[ex.dq[q][j]] # "running"
      BY <1>1, <3>1, <3>2, PausedFront
    <3>4. ex' = [S EXCEPT !.at = "serve", !.ready = p]
      BY <1>3, <2>2, <3>2
    <3>5. /\ ex' \in ExType /\ ex'.dq = S.dq /\ ex'.st = S.st /\ ex'.at = "serve" /\ ex'.ready = p
      BY <3>3, <3>4 DEF ExType
    <3>6. Placed(ex') /\ RunsInFront(ex')
      BY <3>3, <3>5 DEF Placed, RunsInFront
    <3>7. Rests(ex') /\ Serves(ex')
      BY <2>1, <3>3, <3>5 DEF Rests, Serves
    <3> QED
      BY <3>5, <3>6, <3>7 DEF ExInv
  <2>3. CASE ~(ex.cur # NoQueue /\ p < ex.cur)
    <3>1. ex' = [ex EXCEPT !.at = "serve", !.ready = p]
      BY <1>3, <2>3
    <3>2. /\ ex' \in ExType /\ ex'.dq = ex.dq /\ ex'.st = ex.st /\ ex'.at = "serve" /\ ex'.ready = p
          /\ ex'.cur = ex.cur
      BY <1>1, <3>1 DEF ExType
    <3>3. Placed(ex') /\ RunsInFront(ex')
      BY <1>1, <3>2 DEF Placed, RunsInFront
    <3>4. ASSUME NEW q \in Prios, NEW j \in DOMAIN ex.dq[q], ex.st[ex.dq[q][j]] = "running" PROVE q = p
      <4>1. q = ex.cur
        BY <1>1, <3>4 DEF RunsInFront
      <4>2. ~(p < q)
        BY <2>3, <4>1, NoneIsNoQueue
      <4>3. ~(q < p)
        BY <2>1, <3>4
      <4> QED
        BY <4>2, <4>3 DEF Prios
    <3>5. Rests(ex') /\ Serves(ex')
      BY <2>1, <3>2, <3>4 DEF Rests, Serves
    <3> QED
      BY <3>2, <3>3, <3>5 DEF ExInv
  <2> QED
    BY <2>2, <2>3
<1> QED
  BY <1>2, <1>3 DEF scheduleFind

\* start() or resume() of the front of the queue that is served.
LEMMA FrontLaunched ==
  ASSUME NEW S, ExInv(S), ~S.ub, S.at = "serve", NEW p \in Prios, p = S.ready, S.dq[p] # <<>>,
         NEW v \in ActionStates \ {"gone"}, NEW T \in ExType, T.dq = S.dq,
         NEW a, a = S.dq[p][1], T.st = [S.st EXCEPT ![a] = v], T.cur = p, T.at = "serve", T.ready = p
  PROVE  ExInv(T)
<1>1. S \in ExType /\ Placed(S) /\ Serves(S)
  BY DEF ExInv
<1>2. 1 \in DOMAIN S.dq[p]
  BY <1>1, QueueOf, QueuePopped
<1>3. Placed(T) /\ AllBut(S, p, 1, T)
  BY <1>1, <1>2, FrontChanged
<1>4. ASSUME NEW q \in Prios, NEW j \in DOMAIN T.dq[q], T.st[T.dq[q][j]] = "running"
      PROVE  q = p /\ j = 1
  <2> SUFFICES ASSUME ~(q = p /\ j = 1) PROVE FALSE
    OBVIOUS
  <2>1. S.st[S.dq[q][j]] = "running"
    BY <1>3, <1>4 DEF AllBut
  <2>2. q = p
    BY <1>1, <2>1 DEF Serves
  <2>3. j = 1
    BY <2>1 DEF ExInv, RunsInFront
  <2> QED
    BY <2>2, <2>3
<1>5. RunsInFront(T)
  BY <1>4 DEF RunsInFront
<1>6. Serves(T) /\ Rests(T)
  BY <1>1, <1>4 DEF Serves, Rests
<1> QED
  BY <1>3, <1>5, <1>6 DEF ExInv

LEMMA ScheduleServe ==
  ASSUME ExInv(ex), scheduleServe
  PROVE  ExInv(ex')
<1>1. /\ ex \in ExType /\ Placed(ex) /\ RunsInFront(ex) /\ Serves(ex) /\ ex.ub = FALSE
      /\ ex.at = "serve" /\ ex.ready \in Prios
  BY DEF ExInv, ExType, scheduleServe
<1>2. PICK p \in Prios : p = ex.ready
  BY <1>1
<1>3. PICK a : a = Head(ex.dq[p])
  OBVIOUS
<1>4. CASE ex.dq[p] = <<>> /\ ex' = [ex EXCEPT !.at = "find"]
  <2>1. ex' \in ExType /\ ex'.at = "find" /\ ex'.dq = ex.dq /\ ex'.st = ex.st /\ ex'.cur = ex.cur
    BY <1>1, <1>4 DEF ExType
  <2> QED
    BY <1>1, <2>1, Scheduled
<1>5. ASSUME ex.dq[p] # <<>>
      PROVE  /\ 1 \in DOMAIN ex.dq[p] /\ a = ex.dq[p][1] /\ a \in Nat /\ a \in DOMAIN ex.st
             /\ Tail(ex.dq[p]) \in Seq(Nat) /\ Without(ex.dq[p], 1, Tail(ex.dq[p]))
  <2>1. ex.dq[p] \in Seq(Nat)
    BY <1>1, QueueOf
  <2>2. 1 \in DOMAIN ex.dq[p] /\ a = ex.dq[p][1]
    BY <1>3, <1>5, <2>1, QueuePopped
  <2>3. a \in Nat
    BY <1>1, <2>2, QueueOf
  <2>4. a \in DOMAIN ex.st
    BY <1>1, <2>2 DEF Placed
  <2> QED
    BY <1>5, <2>1, <2>2, <2>3, <2>4, QueuePopped
<1>6. ASSUME ex.dq[p] # <<>>, ex' \in Launched([ex EXCEPT !.cur = p], a)
      PROVE  ExInv(ex')
  <2>1. PICK S : S = [ex EXCEPT !.cur = p]
    OBVIOUS
  <2>2. /\ S \in ExType /\ S.dq = ex.dq /\ S.st = ex.st /\ S.cur = p /\ S.at = "serve"
        /\ S.ready = p /\ S.calls = ex.calls /\ S.blocked = ex.blocked /\ S.ub = ex.ub
    BY <1>1, <1>2, <2>1 DEF ExType
  <2>3. S.st \in Seq(ActionStates) /\ S.calls \in SUBSET Nat /\ S.blocked \in SUBSET Nat
    BY <2>2 DEF ExType
  <2>4. ASSUME NEW v \in ActionStates \ {"gone"}, NEW C \in SUBSET Nat, NEW B \in SUBSET Nat,
               ex' = [S EXCEPT !.st[a] = v, !.calls = C, !.blocked = B]
        PROVE  ExInv(ex')
    <3>1. PICK st \in Seq(ActionStates) : st = [S.st EXCEPT ![a] = v]
      BY <1>5, <1>6, <2>2, <2>3, StateSet
    <3>2. ex' = [S EXCEPT !.st = st, !.calls = C, !.blocked = B]
      BY <2>2, <2>4, <3>1 DEF ExType
    <3>3. /\ ex' \in ExType /\ ex'.dq = ex.dq /\ ex'.st = st /\ ex'.cur = p /\ ex'.at = "serve"
          /\ ex'.ready = p
      BY <2>2, <3>2 DEF ExType
    <3>4. ex'.st = [ex.st EXCEPT ![a] = v] /\ a = ex.dq[p][1]
      BY <1>5, <1>6, <2>2, <3>1, <3>3
    <3> QED
      BY <1>1, <1>2, <1>6, <3>3, <3>4, FrontLaunched
  <2>5. {"running", "finished", "pause"} \subseteq ActionStates \ {"gone"}
    BY DEF ActionStates
  <2>6. PICK C \in SUBSET Nat : C = S.calls \cup {a}
    BY <1>5, <1>6, <2>3
  <2>7. PICK B \in SUBSET Nat : B = S.blocked \cup {a}
    BY <1>5, <1>6, <2>3
  <2>8. PICK D \in SUBSET Nat : D = S.blocked \ {a}
    BY <2>3
  <2>9. CASE ex' = [S EXCEPT !.st[a] = "running", !.blocked = S.blocked \ {a}]
    <3>1. ex' = [S EXCEPT !.st[a] = "running", !.calls = S.calls, !.blocked = D]
      BY <2>2, <2>8, <2>9 DEF ExType
    <3> QED
      BY <2>3, <2>4, <2>5, <3>1
  <2>10. CASE ex' = Finished(S, a)
    <3>1. ex' = [S EXCEPT !.st[a] = "finished", !.calls = C, !.blocked = S.blocked]
      BY <2>2, <2>6, <2>10 DEF ExType, Finished
    <3> QED
      BY <2>3, <2>4, <2>5, <3>1
  <2>11. CASE ex' = Blocked(S, a)
    <3>1. ex' = [S EXCEPT !.st[a] = "pause", !.calls = S.calls, !.blocked = B]
      BY <2>2, <2>7, <2>11 DEF ExType, Blocked
    <3> QED
      BY <2>3, <2>4, <2>5, <3>1
  <2> QED
    BY <1>6, <2>1, <2>9, <2>10, <2>11 DEF Launched
<1>7. ASSUME ex.dq[p] # <<>>, ex.st[a] \in {"finished", "stoped"},
             ex' = [Deleted(ex, a) EXCEPT !.dq[p] = Tail(ex.dq[p]), !.cur = NoQueue]
      PROVE  ExInv(ex')
  <2>1. PICK st \in Seq(ActionStates) : st = [ex.st EXCEPT ![a] = "gone"]
    <3>1. "gone" \in ActionStates /\ ex.st \in Seq(ActionStates)
      BY <1>1 DEF ExType, ActionStates
    <3> QED
      BY <1>5, <1>7, <3>1, StateSet
  <2>2. PICK dq \in [Prios -> Seq(Nat)] : dq = [ex.dq EXCEPT ![p] = Tail(ex.dq[p])]
    BY <1>1, <1>5, <1>7, QueueOf
  <2>3. ex' = [ex EXCEPT !.st = st, !.calls = ex.calls \ {a}, !.blocked = ex.blocked \ {a},
                         !.dq = dq, !.cur = NoQueue]
    BY <1>1, <1>7, <2>1, <2>2 DEF Deleted, ExType
  <2>4. /\ ex' \in ExType /\ ex'.dq = dq /\ ex'.st = st /\ ex'.cur = NoQueue /\ ex'.at = "serve"
        /\ ex'.ready = p
    BY <1>1, <1>2, <2>3 DEF ExType
  <2>5. Placed(ex') /\ RanBefore(ex, p, 1, ex')
    <3>1. ex'.dq[p] = Tail(ex.dq[p]) /\ \A q \in Prios \ {p} : ex'.dq[q] = ex.dq[q]
      BY <1>1, <2>2, <2>4, QueueOf
    <3>2. \A b \in DOMAIN ex.st \ {ex.dq[p][1]} : b \in DOMAIN ex'.st /\ ex'.st[b] = ex.st[b]
      BY <1>1, <1>5, <1>7, <2>1, <2>4, QueueOf
    <3>3. TakenFrom(ex, p, 1, ex')
      BY <1>5, <1>7, <3>1, <3>2 DEF TakenFrom
    <3> QED
      BY <1>1, <1>5, <1>7, <2>4, <3>3, TakenOut
  <2>6. ASSUME NEW q \in Prios, NEW j \in DOMAIN ex'.dq[q], ex'.st[ex'.dq[q][j]] = "running"
        PROVE  FALSE
    <3>1. ex.dq[q] # <<>> /\ ex.st[ex.dq[q][1]] = "running"
      BY <2>5, <2>6 DEF RanBefore
    <3>2. 1 \in DOMAIN ex.dq[q]
      BY <1>1, <3>1, QueueOf, QueuePopped
    <3>3. q = p
      BY <1>1, <1>2, <3>1, <3>2 DEF Serves
    <3> QED
      BY <1>5, <1>7, <3>1, <3>3
  <2>7. RunsInFront(ex')
    BY <2>6 DEF RunsInFront
  <2>8. Serves(ex')
    <3>1. \A q \in Prios : q < p => ex'.dq[q] = <<>>
      <4> SUFFICES ASSUME NEW q \in Prios, q < p PROVE dq[q] = <<>>
        BY <2>4
      <4>1. q # p /\ ex.dq[q] = <<>>
        BY <1>1, <1>2 DEF Serves, Prios
      <4> QED
        BY <1>1, <2>2, <4>1, QueueOf
    <3> QED
      BY <2>4, <2>6, <3>1 DEF Serves
  <2>9. Rests(ex')
    BY <2>4 DEF Rests
  <2> QED
    BY <2>4, <2>5, <2>7, <2>8, <2>9 DEF ExInv
<1>8. ASSUME ex.dq[p] # <<>>, ex.st[a] = "running", ex' = [ex EXCEPT !.at = "rest"]
      PROVE  ExInv(ex')
  <2>1. ex' \in ExType /\ ex'.at = "rest" /\ ex'.dq = ex.dq /\ ex'.st = ex.st /\ ex'.cur = ex.cur
    BY <1>1, <1>8 DEF ExType
  <2>2. Placed(ex') /\ RunsInFront(ex')
    BY <1>1, <2>1 DEF Placed, RunsInFront
  <2>3. p = ex.cur
    BY <1>1, <1>5, <1>8 DEF RunsInFront
  <2>4. ASSUME NEW q \in Prios, First(ex', q) PROVE q = p
    <3>1. p \in Ready(ex') /\ q \in Ready(ex') /\ q <= p
      BY <1>8, <2>1, <2>4 DEF First, Ready
    <3>2. ~(q < p)
      BY <1>1, <1>2, <2>1, <3>1 DEF Serves, Ready
    <3> QED
      BY <3>1, <3>2 DEF Prios
  <2>5. Rests(ex')
    BY <1>5, <1>8, <2>1, <2>3, <2>4 DEF Rests, Settled
  <2>6. Serves(ex')
    BY <2>1 DEF Serves
  <2> QED
    BY <2>1, <2>2, <2>5, <2>6 DEF ExInv
<1>9. \/ ex.dq[p] = <<>> /\ ex' = [ex EXCEPT !.at = "find"]
      \/ ex.dq[p] # <<>> /\ ex' \in Launched([ex EXCEPT !.cur = p], a)
      \/ /\ ex.dq[p] # <<>> /\ ex.st[a] \in {"finished", "stoped"}
         /\ ex' = [Deleted(ex, a) EXCEPT !.dq[p] = Tail(@), !.cur = NoQueue]
      \/ ex.dq[p] # <<>> /\ ex.st[a] = "running" /\ ex' = [ex EXCEPT !.at = "rest"]
  BY <1>2, <1>3, Zenon DEF scheduleServe
<1>10. Deleted(ex, a).dq[p] = ex.dq[p]
  BY <1>1 DEF Deleted, ExType
<1> QED
  BY <1>4, <1>6, <1>7, <1>8, <1>9, <1>10

\* An action is deleted and taken out of its queue, and schedule() begins.
LEMMA Removal ==
  ASSUME NEW S, ExInv(S), NEW p \in Prios, NEW k \in DOMAIN S.dq[p], NEW w \in Seq(Nat),
         Without(S.dq[p], k, w)
  PROVE  ExInv([[Deleted(S, S.dq[p][k]) EXCEPT !.dq[p] = w] EXCEPT !.at = "find"])
<1>1. S \in ExType /\ Placed(S) /\ RunsInFront(S)
  BY DEF ExInv
<1>2. PICK a \in Nat : a = S.dq[p][k]
  BY <1>1, QueueOf
<1>3. a \in DOMAIN S.st
  BY <1>1, <1>2 DEF Placed
<1>4. PICK st \in Seq(ActionStates) : st = [S.st EXCEPT ![a] = "gone"]
  <2>1. "gone" \in ActionStates /\ S.st \in Seq(ActionStates)
    BY <1>1 DEF ExType, ActionStates
  <2> QED
    BY <1>3, <2>1, StateSet
<1>5. PICK dq \in [Prios -> Seq(Nat)] : dq = [S.dq EXCEPT ![p] = w]
  BY <1>1, QueueOf
<1>6. PICK T : T = [S EXCEPT !.st = st, !.calls = S.calls \ {a}, !.blocked = S.blocked \ {a},
                             !.dq = dq, !.at = "find"]
  OBVIOUS
<1>7. [[Deleted(S, S.dq[p][k]) EXCEPT !.dq[p] = w] EXCEPT !.at = "find"] = T
  BY <1>1, <1>2, <1>4, <1>5, <1>6 DEF Deleted, ExType
<1>8. T \in ExType /\ T.dq = dq /\ T.st = st /\ T.cur = S.cur /\ T.at = "find"
  BY <1>1, <1>6 DEF ExType
<1>9. T.dq[p] = w /\ \A q \in Prios \ {p} : T.dq[q] = S.dq[q]
  BY <1>1, <1>5, <1>8, QueueOf
<1>10. \A b \in DOMAIN S.st \ {S.dq[p][k]} : b \in DOMAIN T.st /\ T.st[b] = S.st[b]
  BY <1>1, <1>2, <1>3, <1>4, <1>8, QueueOf
<1>11. TakenFrom(S, p, k, T)
  BY <1>9, <1>10 DEF TakenFrom
<1>12. Placed(T) /\ RanBefore(S, p, k, T)
  BY <1>1, <1>8, <1>11, TakenOut
<1>13. RunsInFront(T)
  BY <1>8, <1>12 DEF RunsInFront, RanBefore
<1> QED
  BY <1>7, <1>8, <1>12, <1>13 DEF ExInv, Serves, Rests

LEMMA CancelCurrent ==
  ASSUME ExInv(ex), ExCancelCurrent
  PROVE  ExInv(ex')
<1>1. ex \in ExType /\ Placed(ex) /\ RunsInFront(ex) /\ ex.cur # NoQueue
  BY DEF ExInv, ExCancelCurrent
<1>2. PICK p \in Prios : p = ex.cur
  BY <1>1 DEF ExType
<1>3. CASE ex.dq[p] = <<>>
  <2>1. ex' = [ex EXCEPT !.ub = TRUE]
    BY <1>2, <1>3 DEF ExCancelCurrent
  <2>2. ex' \in ExType /\ ex'.ub = TRUE /\ ex'.dq = ex.dq /\ ex'.st = ex.st /\ ex'.cur = ex.cur
    BY <1>1, <2>1 DEF ExType
  <2>3. Placed(ex') /\ RunsInFront(ex')
    BY <1>1, <2>2 DEF Placed, RunsInFront
  <2> QED
    BY <2>2, <2>3 DEF ExInv
<1>4. CASE ex.dq[p] # <<>>
  <2>1. PICK w : w = Tail(ex.dq[p])
    OBVIOUS
  <2>2. /\ 1 \in DOMAIN ex.dq[p] /\ Head(ex.dq[p]) = ex.dq[p][1] /\ w \in Seq(Nat)
        /\ Without(ex.dq[p], 1, w)
    BY <1>1, <1>4, <2>1, QueueOf, QueuePopped
  <2>3. Deleted(ex, ex.dq[p][1]).dq[p] = ex.dq[p]
    BY <1>1 DEF Deleted, ExType
  <2>4. ex' = [[Deleted(ex, ex.dq[p][1]) EXCEPT !.dq[p] = w] EXCEPT !.at = "find"]
    BY <1>2, <1>4, <2>1, <2>2, <2>3 DEF ExCancelCurrent, schedule
  <2>5. ExInv([[Deleted(ex, ex.dq[p][1]) EXCEPT !.dq[p] = w] EXCEPT !.at = "find"])
    BY <2>2, Removal, Zenon
  <2> QED
    BY <2>4, <2>5, Zenon
<1> QED
  BY <1>3, <1>4

LEMMA CancelAt ==
  ASSUME ExInv(ex), NEW p \in Prios, NEW i \in DOMAIN ex.dq[p], ExCancel(p, i)
  PROVE  ExInv(ex')
<1>1. ex \in ExType
  BY DEF ExInv
<1>2. PICK w : w = RemoveAt(ex.dq[p], i)
  OBVIOUS
<1>3. w \in Seq(Nat) /\ Without(ex.dq[p], i, w)
  BY <1>1, <1>2, QueueOf, QueueWithout
<1>4. Deleted(ex, ex.dq[p][i]).dq[p] = ex.dq[p]
  BY <1>1 DEF Deleted, ExType
<1>5. ex' = [[Deleted(ex, ex.dq[p][i]) EXCEPT !.dq[p] = w] EXCEPT !.at = "find"]
  BY <1>2, <1>4 DEF ExCancel, schedule
<1>6. ExInv([[Deleted(ex, ex.dq[p][i]) EXCEPT !.dq[p] = w] EXCEPT !.at = "find"])
  BY <1>3, Removal, Zenon
<1> QED
  BY <1>5, <1>6, Zenon

LEMMA AppendAction ==
  ASSUME ExInv(ex), NEW p \in Prios, ExAppend(p)
  PROVE  ExInv(ex')
<1>1. /\ ex \in ExType /\ Placed(ex) /\ RunsInFront(ex) /\ ex.dq \in [Prios -> Seq(Nat)]
      /\ ex.st \in Seq(ActionStates)
  BY QueueOf DEF ExInv
<1>2. PICK a \in Nat : a = Len(ex.st) + 1
  BY <1>1
<1>3. a \notin DOMAIN ex.st
  BY <1>1, <1>2
<1>4. PICK st \in Seq(ActionStates) : st = Append(ex.st, "idle")
  <2>1. "idle" \in ActionStates
    BY DEF ActionStates
  <2> QED
    BY <1>1, <2>1, AppendProperties
<1>5. DOMAIN st = DOMAIN ex.st \cup {a} /\ st[a] = "idle" /\ \A b \in DOMAIN ex.st : st[b] = ex.st[b]
  BY <1>1, <1>2, <1>4
<1>6. PICK w \in Seq(Nat) : w = Append(ex.dq[p], a)
  BY <1>1, QueueGrown
<1>7. PICK dq \in [Prios -> Seq(Nat)] : dq = [ex.dq EXCEPT ![p] = w]
  BY <1>1
<1>8. ex' = [ex EXCEPT !.st = st, !.dq = dq, !.at = "find"]
  BY <1>1, <1>2, <1>4, <1>6, <1>7 DEF ExAppend, schedule, ExType
<1>9. ex' \in ExType /\ ex'.dq = dq /\ ex'.st = st /\ ex'.cur = ex.cur /\ ex'.at = "find"
  BY <1>1, <1>8 DEF ExType
<1>10. ASSUME NEW q \in Prios, NEW j \in DOMAIN dq[q]
       PROVE  \/ j \in DOMAIN ex.dq[q] /\ dq[q][j] = ex.dq[q][j] /\ dq[q][j] \in DOMAIN ex.st
              \/ q = p /\ j = Len(ex.dq[p]) + 1 /\ dq[q][j] = a
  <2>1. \/ j \in DOMAIN ex.dq[q] /\ dq[q][j] = ex.dq[q][j]
        \/ q = p /\ j = Len(ex.dq[p]) + 1 /\ dq[q][j] = a
    <3>1. CASE q = p
      <4>1. j \in DOMAIN w /\ dq[q] = w
        BY <1>1, <1>7, <3>1
      <4>2. \/ j \in DOMAIN ex.dq[p] /\ w[j] = ex.dq[p][j]
            \/ j = Len(ex.dq[p]) + 1 /\ w[j] = a
        BY <1>1, <1>6, <4>1, QueueGrown
      <4> QED
        BY <3>1, <4>1, <4>2
    <3>2. CASE q # p
      BY <1>1, <1>7, <3>2
    <3> QED
      BY <3>1, <3>2
  <2> QED
    BY <1>1, <2>1 DEF Placed
<1>11. Placed(ex')
  <2>1. ASSUME NEW q \in Prios, NEW j \in DOMAIN dq[q] PROVE dq[q][j] \in DOMAIN st /\ st[dq[q][j]] # "gone"
    <3>1. CASE dq[q][j] = a
      BY <1>5, <3>1
    <3>2. CASE dq[q][j] # a
      <4>1. j \in DOMAIN ex.dq[q] /\ dq[q][j] = ex.dq[q][j]
        BY <1>10, <3>2
      <4>2. ex.dq[q][j] \in DOMAIN ex.st /\ ex.st[ex.dq[q][j]] # "gone"
        BY <1>1, <4>1 DEF Placed
      <4> QED
        BY <1>5, <3>2, <4>1, <4>2
    <3> QED
      BY <3>1, <3>2
  <2>2. ASSUME NEW q \in Prios, NEW r \in Prios, NEW i \in DOMAIN dq[q], NEW j \in DOMAIN dq[r],
               dq[q][i] = dq[r][j]
        PROVE  q = r /\ i = j
    <3>1. CASE dq[q][i] = a
      BY <1>3, <1>10, <2>2, <3>1
    <3>2. CASE dq[q][i] # a
      <4>1. /\ i \in DOMAIN ex.dq[q] /\ dq[q][i] = ex.dq[q][i]
            /\ j \in DOMAIN ex.dq[r] /\ dq[r][j] = ex.dq[r][j]
        <5>1. dq[r][j] # a
          BY <2>2, <3>2
        <5> QED
          BY <1>10, <3>2, <5>1
      <4>2. ex.dq[q][i] = ex.dq[r][j]
        BY <2>2, <4>1
      <4>3. \A m \in DOMAIN ex.dq[q], o \in DOMAIN ex.dq[r] :
              ex.dq[q][m] = ex.dq[r][o] => q = r /\ m = o
        BY <1>1 DEF Placed
      <4> QED
        BY <4>1, <4>2, <4>3
    <3> QED
      BY <3>1, <3>2
  <2> QED
    BY <1>9, <2>1, <2>2 DEF Placed
<1>12. RunsInFront(ex')
  <2> SUFFICES ASSUME NEW q \in Prios, NEW j \in DOMAIN dq[q], st[dq[q][j]] = "running"
               PROVE  q = ex.cur /\ j = 1
    BY <1>9 DEF RunsInFront
  <2>1. dq[q][j] # a
    BY <1>5
  <2>2. j \in DOMAIN ex.dq[q] /\ ex.st[ex.dq[q][j]] = "running"
    BY <1>5, <1>10, <2>1
  <2> QED
    BY <1>1, <2>2 DEF RunsInFront
<1> QED
  BY <1>9, <1>11, <1>12 DEF ExInv, Serves, Rests

\* An action finishes or blocks while the executor is at rest.
LEMMA Halts ==
  ASSUME ExInv(ex), AtRest, NEW a \in Live, NEW v \in {"finished", "pause"},
         NEW C, NEW B, ex.calls \subseteq C, ex.blocked \subseteq B,
         v = "finished" => a \in C, v = "pause" => a \in B,
         ex' = [ex EXCEPT !.st[a] = v, !.calls = C, !.blocked = B],
         C \subseteq ex.calls \cup {a}, B \subseteq ex.blocked \cup {a}
  PROVE  ExInv(ex')
<1>1. /\ ex \in ExType /\ Placed(ex) /\ RunsInFront(ex) /\ Rests(ex) /\ ex.at = "rest"
      /\ ex.st \in Seq(ActionStates) /\ ex.calls \in SUBSET Nat /\ ex.blocked \in SUBSET Nat
  BY DEF ExInv, AtRest, ExType
<1>2. PICK p \in Prios : a \in ToSet(ex.dq[p])
  BY DEF Live
<1>3. PICK k \in DOMAIN ex.dq[p] : a = ex.dq[p][k]
  BY <1>2 DEF ToSet
<1>4. a \in Nat /\ a \in DOMAIN ex.st
  BY <1>1, <1>3, QueueOf DEF Placed
<1>5. PICK st \in Seq(ActionStates) : st = [ex.st EXCEPT ![a] = v]
  <2>1. v \in ActionStates
    BY DEF ActionStates
  <2> QED
    BY <1>1, <1>4, <2>1, StateSet
<1>6. ex' = [ex EXCEPT !.st = st, !.calls = C, !.blocked = B]
  BY <1>1, <1>5 DEF ExType
<1>7. C \in SUBSET Nat /\ B \in SUBSET Nat
  BY <1>1, <1>4
<1>8. /\ ex' \in ExType /\ ex'.dq = ex.dq /\ ex'.st = st /\ ex'.calls = C /\ ex'.blocked = B
      /\ ex'.cur = ex.cur /\ ex'.at = "rest"
  BY <1>1, <1>6, <1>7 DEF ExType
<1>9. Placed(ex') /\ ex'.st[ex.dq[p][k]] = v /\ AllBut(ex, p, k, ex')
  <2>1. v \in ActionStates \ {"gone"}
    BY DEF ActionStates
  <2>2. ex'.st = [ex.st EXCEPT ![a] = v]
    BY <1>5, <1>8
  <2>3. PICK T \in ExType : T = ex'
    BY <1>8
  <2>4. T.dq = ex.dq /\ T.st = [ex.st EXCEPT ![a] = v]
    BY <1>8, <2>2, <2>3
  <2>5. Placed(T) /\ T.st[ex.dq[p][k]] = v /\ AllBut(ex, p, k, T)
    BY <1>1, <1>3, <2>1, <2>4, FrontChanged
  <2> QED
    BY <2>3, <2>5
<1>10. RunsInFront(ex')
  <2> SUFFICES ASSUME NEW q \in Prios, NEW j \in DOMAIN ex.dq[q], ex'.st[ex.dq[q][j]] = "running"
               PROVE  q = ex.cur /\ j = 1
    BY <1>8 DEF RunsInFront
  <2>1. ~(q = p /\ j = k)
    BY <1>9
  <2>2. ex.st[ex.dq[q][j]] = "running"
    BY <1>8, <1>9, <2>1 DEF AllBut
  <2> QED
    BY <1>1, <2>2 DEF RunsInFront
<1>11. Rests(ex')
  <2> SUFFICES ASSUME NEW q \in Prios, First(ex, q)
               PROVE  ex.cur = q /\ Settled(ex', ex.dq[q][1])
    BY <1>8 DEF Rests, First, Ready
  <2>1. ex.cur = q /\ Settled(ex, ex.dq[q][1])
    BY <1>1 DEF Rests
  <2>2. 1 \in DOMAIN ex.dq[q]
    BY <1>1, QueueOf, QueuePopped DEF First, Ready
  <2>3. CASE q = p /\ k = 1
    BY <1>3, <1>8, <1>9, <2>1, <2>3 DEF Settled
  <2>4. CASE ~(q = p /\ k = 1)
    <3>1. ex'.st[ex.dq[q][1]] = ex.st[ex.dq[q][1]]
      BY <1>8, <1>9, <2>2, <2>4 DEF AllBut
    <3> QED
      BY <1>8, <2>1, <3>1 DEF Settled
  <2> QED
    BY <2>3, <2>4
<1>12. Serves(ex')
  BY <1>8 DEF Serves
<1> QED
  BY <1>8, <1>9, <1>10, <1>11, <1>12 DEF ExInv

LEMMA FinishAction ==
  ASSUME ExInv(ex), NEW a \in Live, ExFinish(a)
  PROVE  ExInv(ex')
<1>1. ex \in ExType /\ AtRest
  BY DEF ExInv, ExFinish
<1>2. PICK C : C = ex.calls \cup {a}
  OBVIOUS
<1>3. ex' = [ex EXCEPT !.st[a] = "finished", !.calls = C, !.blocked = ex.blocked]
  BY <1>1, <1>2 DEF ExFinish, Finished, ExType
<1>4. PICK v \in {"finished", "pause"} : v = "finished"
  OBVIOUS
<1>5. /\ ex.calls \subseteq C /\ ex.blocked \subseteq ex.blocked /\ a \in C /\ v # "pause"
      /\ C \subseteq ex.calls \cup {a} /\ ex.blocked \subseteq ex.blocked \cup {a}
  BY <1>2, <1>4
<1>6. ex' = [ex EXCEPT !.st[a] = v, !.calls = C, !.blocked = ex.blocked]
  BY <1>3, <1>4
<1> QED
  BY <1>1, <1>5, <1>6, Halts, Zenon

LEMMA BlockAction ==
  ASSUME ExInv(ex), NEW a \in Live, ExBlock(a)
  PROVE  ExInv(ex')
<1>1. ex \in ExType /\ AtRest
  BY DEF ExInv, ExBlock
<1>2. PICK B : B = ex.blocked \cup {a}
  OBVIOUS
<1>3. ex' = [ex EXCEPT !.st[a] = "pause", !.calls = ex.calls, !.blocked = B]
  BY <1>1, <1>2 DEF ExBlock, Blocked, ExType
<1>4. PICK v \in {"finished", "pause"} : v = "pause"
  OBVIOUS
<1>5. /\ ex.calls \subseteq ex.calls /\ ex.blocked \subseteq B /\ a \in B /\ v # "finished"
      /\ ex.calls \subseteq ex.calls \cup {a} /\ B \subseteq ex.blocked \cup {a}
  BY <1>2, <1>4
<1>6. ex' = [ex EXCEPT !.st[a] = v, !.calls = ex.calls, !.blocked = B]
  BY <1>3, <1>4
<1> QED
  BY <1>1, <1>5, <1>6, Halts, Zenon

LEMMA CallbackCalled ==
  ASSUME ExInv(ex), NEW a \in ex.calls, ExCallback(a)
  PROVE  ExInv(ex')
<1>1. ex \in ExType /\ Placed(ex) /\ RunsInFront(ex)
  BY DEF ExInv
<1>2. ex' = [ex EXCEPT !.calls = ex.calls \ {a}, !.at = "find"]
  BY <1>1 DEF ExCallback, schedule, ExType
<1>3. ex' \in ExType /\ ex'.at = "find" /\ ex'.dq = ex.dq /\ ex'.st = ex.st /\ ex'.cur = ex.cur
  BY <1>1, <1>2 DEF ExType
<1> QED
  BY <1>1, <1>3, Scheduled

\* cancelAll() only stops actions.
LEMMA CancelAll ==
  ASSUME ExInv(ex), ExCancelAll
  PROVE  ExInv(ex')
<1>1. /\ ex \in ExType /\ Placed(ex) /\ RunsInFront(ex) /\ Rests(ex) /\ ex.at = "rest"
      /\ ex.st \in Seq(ActionStates)
  BY DEF ExInv, ExCancelAll, AtRest, ExType
<1>2. PICK fronts : fronts = {Head(ex.dq[p]) : p \in Ready(ex)}
  OBVIOUS
<1>3. PICK st : st = [a \in DOMAIN ex.st |->
                  IF a \in fronts /\ ex.st[a] \in {"running", "pause"} THEN "stoped" ELSE ex.st[a]]
  OBVIOUS
<1>4. st \in Seq(ActionStates)
  <2>1. \A a \in DOMAIN ex.st : st[a] \in ActionStates
    BY <1>1, <1>3 DEF ActionStates
  <2>2. PICK n \in Nat : n = Len(ex.st)
    BY <1>1
  <2>3. DOMAIN ex.st = 1 .. n
    BY <1>1, <2>2
  <2>4. st \in [1 .. n -> ActionStates]
    BY <1>3, <2>1, <2>3
  <2> QED
    BY <2>4, SeqDef
<1>5. DOMAIN st = DOMAIN ex.st /\ \A a \in DOMAIN ex.st : st[a] = ex.st[a] \/ st[a] = "stoped"
  BY <1>3
<1>6. ex' = [ex EXCEPT !.st = st]
  BY <1>1, <1>2, <1>3 DEF ExCancelAll, ExType
<1>7. /\ ex' \in ExType /\ ex'.dq = ex.dq /\ ex'.st = st /\ ex'.calls = ex.calls
      /\ ex'.blocked = ex.blocked /\ ex'.cur = ex.cur /\ ex'.at = "rest"
  BY <1>1, <1>4, <1>6 DEF ExType
<1>8. Placed(ex')
  BY <1>1, <1>5, <1>7 DEF Placed
<1>9. ASSUME NEW q \in Prios, NEW j \in DOMAIN ex.dq[q]
      PROVE  st[ex.dq[q][j]] = ex.st[ex.dq[q][j]] \/ st[ex.dq[q][j]] = "stoped"
  BY <1>1, <1>5 DEF Placed
<1>10. RunsInFront(ex')
  BY <1>1, <1>7, <1>9 DEF RunsInFront
<1>11. Rests(ex')
  <2> SUFFICES ASSUME NEW q \in Prios, First(ex, q)
               PROVE  ex.cur = q /\ Settled(ex', ex.dq[q][1])
    BY <1>7 DEF Rests, First, Ready
  <2>1. ex.cur = q /\ Settled(ex, ex.dq[q][1])
    BY <1>1 DEF Rests
  <2>2. 1 \in DOMAIN ex.dq[q]
    BY <1>1, QueueOf, QueuePopped DEF First, Ready
  <2> QED
    BY <1>7, <1>9, <2>1, <2>2 DEF Settled
<1>12. Serves(ex')
  BY <1>7 DEF Serves
<1> QED
  BY <1>7, <1>8, <1>10, <1>11, <1>12 DEF ExInv

\* For any number of actions of any priorities: whenever schedule() has returned, nobody
\* runs but the front of the highest queue.
THEOREM ExecutorKeepsPriority == ExecutorSpec => []ExecutorPriority
<1>1. ExecutorInit => ExSafe
  BY ExecutorStarts DEF ExSafe
<1>2. ExSafe /\ [ExecutorNext]_ex => ExSafe'
  <2> SUFFICES ASSUME ExInv(ex), [ExecutorNext]_ex PROVE ExInv(ex')
    BY DEF ExSafe
  <2>1. CASE scheduleFind
    BY <2>1, ScheduleFind
  <2>2. CASE scheduleServe
    BY <2>2, ScheduleServe
  <2>3. CASE \E p \in Prios : ExAppend(p)
    BY <2>3, AppendAction
  <2>4. CASE ExCancelCurrent
    BY <2>4, CancelCurrent
  <2>5. CASE ExCancelAll
    BY <2>5, CancelAll
  <2>6. CASE \E a \in ex.calls : ExCallback(a)
    BY <2>6, CallbackCalled
  <2>7. CASE \E p \in Prios : \E i \in DOMAIN ex.dq[p] : ExCancel(p, i)
    BY <2>7, CancelAt
  <2>8. CASE \E a \in Live : ExFinish(a) \/ ExBlock(a)
    BY <2>8, FinishAction, BlockAction
  <2>9. CASE UNCHANGED ex
    BY <2>9
  <2> QED
    BY <2>1, <2>2, <2>3, <2>4, <2>5, <2>6, <2>7, <2>8, <2>9 DEF ExecutorNext
<1>3. ExSafe => ExecutorPriority
  <2> SUFFICES ASSUME ExInv(ex), ~ex.ub, ex.at = "rest", NEW p \in Prios, First(ex, p)
               PROVE  LET front == Head(ex.dq[p])
                      IN /\ \A a \in Live : ex.st[a] = "running" => a = front
                         /\ \/ ex.st[front] \in {"running", "stoped"}
                            \/ ex.st[front] = "finished" /\ front \in ex.calls
                            \/ ex.st[front] = "pause" /\ front \in ex.blocked
    BY DEF ExSafe, ExecutorPriority
  <2>1. ex \in ExType /\ ex.cur = p /\ Settled(ex, ex.dq[p][1])
    BY DEF ExInv, Rests
  <2>2. Head(ex.dq[p]) = ex.dq[p][1]
    BY <2>1, QueueOf, QueuePopped DEF First, Ready
  <2>3. ASSUME NEW a \in Live, ex.st[a] = "running" PROVE a = ex.dq[p][1]
    <3>1. PICK q \in Prios : a \in ToSet(ex.dq[q])
      BY DEF Live
    <3>2. PICK k \in DOMAIN ex.dq[q] : a = ex.dq[q][k]
      BY <3>1 DEF ToSet
    <3>3. q = ex.cur /\ k = 1
      BY <2>3, <3>2 DEF ExInv, RunsInFront
    <3> QED
      BY <2>1, <3>2, <3>3
  <2> QED
    BY <2>1, <2>2, <2>3 DEF Settled
<1> QED
  BY <1>1, <1>2, <1>3, PTL DEF ExecutorSpec

-----------------------------------------------------------------------------
(* The module tree                                                         *)

Items == [mod : Modules, required : BOOLEAN]
ModuleCalls == {NoCall, "initialize", "start", "stop", "cleanup: stop", "cleanup"}
ModuleType ==
  [kids : [AllModules -> Seq(Items)], parent : [AllModules -> AllModules \cup {NoOne}],
   state : [AllModules -> {"none", "inited", "running"}], call : [AllModules -> ModuleCalls],
   at : [AllModules -> Int], top : AllModules \cup {NoOne}, failed : BOOLEAN,
   inited : SUBSET AllModules, started : SUBSET AllModules, half : SUBSET AllModules,
   early : BOOLEAN]

\* A child knows its parent and is there once; who was not added was never called.
TreeOK(S) ==
  /\ \A m \in AllModules : \A i \in DOMAIN S.kids[m] : S.parent[S.kids[m][i].mod] = m
  /\ \A m \in AllModules : \A i, j \in DOMAIN S.kids[m] :
       S.kids[m][i].mod = S.kids[m][j].mod => i = j
  /\ S.parent[Root] = NoOne
  /\ \A m \in Modules : S.parent[m] = NoOne => S.state[m] = "none"

\* The call that a call of the parent makes of its child.
Makes(op, of) ==
  \/ op \in Upward /\ of = op
  \/ op \in Stopping /\ of = "stop"
  \/ op = "cleanup" /\ of \in {"cleanup: stop", "cleanup"}

\* The call of m was made by its parent, which has come to m.
Linked(S, d, m) ==
  /\ S.parent[m] # NoOne /\ S.call[S.parent[m]] # NoCall /\ d[m] = d[S.parent[m]] + 1
  /\ S.at[S.parent[m]] \in DOMAIN S.kids[S.parent[m]]
  /\ S.kids[S.parent[m]][S.at[S.parent[m]]].mod = m
  /\ Makes(S.call[S.parent[m]], S.call[m])

\* The calls under way are a path from the root down to the innermost: d is the depth.
PathBy(S, d) ==
  /\ d[Root] = 0
  /\ S.top # NoOne => S.call[S.top] # NoCall
  /\ \A m \in AllModules : S.call[m] # NoCall => S.top # NoOne /\ d[m] <= d[S.top]
  /\ \A m, n \in AllModules :
       S.call[m] # NoCall /\ S.call[n] # NoCall /\ d[m] = d[n] => m = n
  /\ \A m \in Modules : S.call[m] # NoCall => Linked(S, d, m)

\* What a call under way has done so far.
Initializing(S, m) ==
  /\ S.call[m] = "initialize" /\ S.state[m] = "none" /\ S.at[m] >= 1
  /\ m \notin S.half =>
       /\ m \in S.inited /\ m \notin S.started
       /\ \A i \in DOMAIN S.kids[m] : S.state[S.kids[m][i].mod] # "running"
Starting(S, m) ==
  /\ S.call[m] = "start" /\ S.state[m] = "inited" /\ S.at[m] >= 1
  /\ m \notin S.half => m \in S.inited /\ m \in S.started
StoppingKids(S, m) ==
  /\ S.call[m] \in Stopping /\ S.state[m] = "running" /\ S.at[m] \in 0 .. Len(S.kids[m])
  /\ \A i \in DOMAIN S.kids[m] : i > S.at[m] => S.state[S.kids[m][i].mod] # "running"
  /\ m \notin S.half => m \in S.inited /\ m \in S.started
Cleaning(S, m) ==
  /\ S.call[m] = "cleanup" /\ S.state[m] = "inited" /\ S.at[m] \in 0 .. Len(S.kids[m])
  /\ \A i \in DOMAIN S.kids[m] : i > S.at[m] => S.state[S.kids[m][i].mod] = "none"
  /\ m \notin S.half => m \in S.inited /\ m \notin S.started
Begun(S, m) == Initializing(S, m) \/ Starting(S, m) \/ StoppingKids(S, m) \/ Cleaning(S, m)

\* The hooks of a module between calls.
HooksPair(S, m) ==
  m \notin S.half =>
    /\ m \in S.inited <=> S.state[m] # "none"
    /\ m \in S.started <=> S.state[m] = "running"
    /\ \A i \in DOMAIN S.kids[m] :
         /\ S.state[m] = "none" => S.state[S.kids[m][i].mod] = "none"
         /\ S.state[m] = "inited" => S.state[S.kids[m][i].mod] # "running"

ModuleInv(S) ==
  /\ S \in ModuleType /\ ~S.early /\ TreeOK(S)
  /\ \E d \in [AllModules -> Nat] : PathBy(S, d)
  /\ \A m \in AllModules :
       IF S.call[m] = NoCall THEN HooksPair(S, m) ELSE Begun(S, m)
ModuleSafe == ModuleInv(mo)

LEMMA ModuleStarts == ModuleInit => ModuleInv(mo)
<1> SUFFICES ASSUME ModuleInit PROVE ModuleInv(mo)
  OBVIOUS
<1>1. mo \in ModuleType /\ ~mo.early
  <2>1. /\ [m \in AllModules |-> <<>>] \in [AllModules -> Seq(Items)]
        /\ [m \in AllModules |-> NoOne] \in [AllModules -> AllModules \cup {NoOne}]
    OBVIOUS
  <2>2. /\ [m \in AllModules |-> "none"] \in [AllModules -> {"none", "inited", "running"}]
        /\ [m \in AllModules |-> NoCall] \in [AllModules -> ModuleCalls]
    BY DEF ModuleCalls
  <2>3. [m \in AllModules |-> 0] \in [AllModules -> Int]
    OBVIOUS
  <2> QED
    BY <2>1, <2>2, <2>3 DEF ModuleInit, ModuleType
<1>2. TreeOK(mo)
  BY DEF ModuleInit, TreeOK, AllModules
<1>3. PathBy(mo, [m \in AllModules |-> 0])
  BY DEF ModuleInit, PathBy, AllModules
<1>4. ASSUME NEW m \in AllModules PROVE mo.call[m] = NoCall /\ HooksPair(mo, m)
  BY DEF ModuleInit, HooksPair
<1> QED
  BY <1>1, <1>2, <1>3, <1>4 DEF ModuleInv

\* The children of the innermost call are at rest.
LEMMA ChildRests ==
  ASSUME NEW S, ModuleInv(S), S.top # NoOne, NEW i \in DOMAIN S.kids[S.top]
  PROVE  /\ S.top \in AllModules /\ S.call[S.top] # NoCall
         /\ S.kids[S.top][i].mod \in Modules /\ S.parent[S.kids[S.top][i].mod] = S.top
         /\ S.call[S.kids[S.top][i].mod] = NoCall /\ S.kids[S.top][i].mod # S.top
<1>1. S \in ModuleType /\ TreeOK(S)
  BY DEF ModuleInv
<1>2. PICK d \in [AllModules -> Nat] : PathBy(S, d)
  BY DEF ModuleInv
<1>3. S.top \in AllModules
  BY <1>1 DEF ModuleType
<1>4. S.kids[S.top] \in Seq(Items)
  BY <1>1, <1>3 DEF ModuleType
<1>5. PICK c \in Modules : c = S.kids[S.top][i].mod
  <2>1. PICK w \in Seq(Items) : w = S.kids[S.top]
    BY <1>4
  <2>2. w[i] \in Items
    BY <2>1
  <2> QED
    BY <2>1, <2>2 DEF Items
<1>6. c \in AllModules /\ S.parent[c] = S.top /\ S.call[S.top] # NoCall
  BY <1>1, <1>2, <1>3, <1>5 DEF TreeOK, PathBy, AllModules
<1>7. ASSUME S.call[c] # NoCall PROVE FALSE
  <2>1. d[c] <= d[S.top] /\ d[c] = d[S.top] + 1
    BY <1>2, <1>3, <1>6, <1>7 DEF PathBy, Linked
  <2>2. d[c] \in Nat /\ d[S.top] \in Nat
    BY <1>2, <1>3, <1>6
  <2> QED
    BY <2>1, <2>2
<1> QED
  BY <1>3, <1>5, <1>6, <1>7

\* The module that is called next: the root, or the child the innermost call has come to.
Comes(S, c, op) ==
  \/ c = Root /\ S.top = NoOne
  \/ /\ c \in Modules /\ S.top # NoOne /\ S.parent[c] = S.top
     /\ S.at[S.top] \in DOMAIN S.kids[S.top] /\ S.kids[S.top][S.at[S.top]].mod = c
     /\ Makes(S.call[S.top], op)

\* A call begins, of the root or of the child that the innermost call has come to.
LEMMA Enters ==
  ASSUME NEW S, ModuleInv(S), NEW c \in AllModules, S.call[c] = NoCall,
         NEW op \in ModuleCalls, op # NoCall, NEW k \in Int,
         NEW T, T \in ModuleType, T.kids = S.kids, T.parent = S.parent, T.state = S.state,
         T.half = S.half, T.early = S.early, T.top = c,
         T.call = [S.call EXCEPT ![c] = op], T.at = [S.at EXCEPT ![c] = k],
         \A m \in AllModules : m # c => (m \in T.inited <=> m \in S.inited)
                                        /\ (m \in T.started <=> m \in S.started),
         Begun(T, c), Comes(S, c, op)
  PROVE  ModuleInv(T)
<1>1. /\ S \in ModuleType /\ TreeOK(S) /\ ~T.early
      /\ S.call \in [AllModules -> ModuleCalls] /\ S.at \in [AllModules -> Int]
      /\ S.parent \in [AllModules -> AllModules \cup {NoOne}] /\ S.top \in AllModules \cup {NoOne}
  BY DEF ModuleInv, ModuleType
<1>2. TreeOK(T)
  BY <1>1 DEF TreeOK
<1>3. \A m \in AllModules : m # c => T.call[m] = S.call[m] /\ T.at[m] = S.at[m]
  BY <1>1
<1>4. T.call[c] = op /\ T.at[c] = k
  BY <1>1
<1>5. PICK d \in [AllModules -> Nat] : PathBy(S, d)
  BY DEF ModuleInv
<1>6. \E e \in [AllModules -> Nat] : PathBy(T, e)
  <2>1. CASE c = Root /\ S.top = NoOne
    <3>1. \A m \in AllModules : S.call[m] = NoCall
      BY <1>5, <2>1 DEF PathBy
    <3>2. \A m \in AllModules : T.call[m] # NoCall => m = c
      BY <1>3, <3>1
    <3>3. d[Root] = 0 /\ Root \notin Modules /\ NoOne # c
      BY <1>5, <2>1, ModulesAssumption DEF PathBy, Root, NoOne
    <3>4. PathBy(T, d)
      BY <1>4, <2>1, <3>2, <3>3 DEF PathBy, AllModules
    <3> QED
      BY <3>4
  <2>2. CASE /\ c \in Modules /\ S.top # NoOne /\ S.parent[c] = S.top
             /\ S.at[S.top] \in DOMAIN S.kids[S.top] /\ S.kids[S.top][S.at[S.top]].mod = c
             /\ Makes(S.call[S.top], op)
    <3>1. PICK p \in AllModules : p = S.top
      BY <1>1, <2>2
    <3>2. p # c /\ S.call[p] # NoCall /\ p # NoOne
      BY <1>5, <2>2, <3>1 DEF PathBy
    <3>a. PICK deeper \in Nat : deeper = d[p] + 1
      BY <3>1
    <3>3. PICK e \in [AllModules -> Nat] : e = [d EXCEPT ![c] = deeper]
      OBVIOUS
    <3>4. e[c] = d[p] + 1 /\ \A m \in AllModules : m # c => e[m] = d[m]
      BY <3>3, <3>a
    <3>5. \A m \in AllModules : S.call[m] # NoCall => d[m] <= d[p]
      BY <1>5, <3>1 DEF PathBy
    <3>6. c # Root /\ c # NoOne
      BY <2>2, ModulesAssumption
    <3>7. e[Root] = 0
      BY <1>5, <3>4, <3>6 DEF PathBy, AllModules
    <3>8. ASSUME NEW m \in AllModules, T.call[m] # NoCall
          PROVE  T.top # NoOne /\ e[m] <= e[T.top]
      <4>1. d[m] \in Nat /\ d[p] \in Nat
        OBVIOUS
      <4> QED
        BY <1>3, <3>4, <3>5, <3>6, <3>8, <4>1
    <3>9. ASSUME NEW m \in AllModules, NEW n \in AllModules,
                 T.call[m] # NoCall, T.call[n] # NoCall, e[m] = e[n]
          PROVE  m = n
      <4>1. d[m] \in Nat /\ d[n] \in Nat /\ d[p] \in Nat
        OBVIOUS
      <4>2. CASE m = c \/ n = c
        <5>1. ASSUME NEW x \in AllModules, x # c, T.call[x] # NoCall PROVE e[x] # e[c]
          <6>1. e[x] = d[x] /\ d[x] <= d[p] /\ e[c] = d[p] + 1 /\ d[x] \in Nat
            BY <1>3, <3>4, <3>5, <5>1
          <6> QED
            BY <4>1, <6>1
        <5> QED
          BY <3>9, <4>2, <5>1
      <4>3. CASE m # c /\ n # c
        <5>1. S.call[m] # NoCall /\ S.call[n] # NoCall /\ d[m] = d[n]
          BY <1>3, <3>4, <3>9, <4>3
        <5> QED
          BY <1>5, <5>1 DEF PathBy
      <4> QED
        BY <4>2, <4>3
    <3>10. ASSUME NEW m \in Modules, T.call[m] # NoCall
           PROVE  Linked(T, e, m)
      <4>1. CASE m = c
        BY <1>3, <1>4, <2>2, <3>1, <3>2, <3>4, <4>1 DEF Linked
      <4>2. CASE m # c
        <5>1. m \in AllModules /\ S.call[m] # NoCall
          BY <1>3, <3>10, <4>2 DEF AllModules
        <5>2. PICK q : q = S.parent[m]
          OBVIOUS
        <5>3. /\ q # NoOne /\ S.call[q] # NoCall /\ d[m] = d[q] + 1
              /\ S.at[q] \in DOMAIN S.kids[q] /\ S.kids[q][S.at[q]].mod = m
              /\ Makes(S.call[q], S.call[m])
          BY <1>5, <5>1, <5>2 DEF PathBy, Linked
        <5>4. q \in AllModules /\ q # c
          BY <1>1, <5>1, <5>2, <5>3
        <5>5. /\ T.call[q] = S.call[q] /\ T.at[q] = S.at[q] /\ T.call[m] = S.call[m]
              /\ e[m] = d[m] /\ e[q] = d[q]
          BY <1>3, <3>4, <4>2, <5>1, <5>4
        <5>6. /\ T.parent[m] = q /\ T.call[q] # NoCall /\ e[m] = e[q] + 1
              /\ T.at[q] \in DOMAIN T.kids[q] /\ T.kids[q][T.at[q]].mod = m
              /\ Makes(T.call[q], T.call[m])
          BY <5>2, <5>3, <5>5
        <5> QED
          BY <5>3, <5>6 DEF Linked
      <4> QED
        BY <4>1, <4>2
    <3>11. PathBy(T, e)
      <4>1. T.call[T.top] # NoCall
        BY <1>4
      <4> QED
        BY <3>7, <3>8, <3>9, <3>10, <4>1 DEF PathBy
    <3> QED
      BY <3>11
  <2> QED
    BY <2>1, <2>2 DEF Comes
<1>7. ASSUME NEW m \in AllModules
      PROVE  IF T.call[m] = NoCall THEN HooksPair(T, m) ELSE Begun(T, m)
  <2>1. CASE m = c
    BY <1>4, <2>1
  <2>2. CASE m # c
    <3>1. /\ T.call[m] = S.call[m] /\ T.at[m] = S.at[m]
          /\ m \in T.inited <=> m \in S.inited
          /\ m \in T.started <=> m \in S.started
      BY <1>3, <2>2
    <3>2. CASE S.call[m] = NoCall
      <4>1. HooksPair(S, m)
        BY <3>2 DEF ModuleInv
      <4>2. HooksPair(T, m)
        BY <3>1, <4>1 DEF HooksPair
      <4> QED
        BY <3>1, <3>2, <4>2
    <3>3. CASE S.call[m] # NoCall
      <4>1. Begun(S, m)
        BY <3>3 DEF ModuleInv
      <4>2. Begun(T, m)
        <5>1. Initializing(S, m) => Initializing(T, m)
          BY <3>1 DEF Initializing
        <5>2. Starting(S, m) => Starting(T, m)
          BY <3>1 DEF Starting
        <5>3. StoppingKids(S, m) => StoppingKids(T, m)
          BY <3>1 DEF StoppingKids
        <5>4. Cleaning(S, m) => Cleaning(T, m)
          BY <3>1 DEF Cleaning
        <5> QED
          BY <4>1, <5>1, <5>2, <5>3, <5>4 DEF Begun
      <4> QED
        BY <3>1, <3>3, <4>2
    <3> QED
      BY <3>2, <3>3
  <2> QED
    BY <2>1, <2>2
<1> QED
  BY <1>1, <1>2, <1>6, <1>7 DEF ModuleInv

\* The call of p goes on from its child c, which has answered.
GoneOn(S, T, p, c) ==
  /\ T.at[p] = IF S.call[p] \in Upward THEN S.at[p] + 1 ELSE S.at[p] - 1
  /\ T.kids = S.kids /\ T.call[p] = S.call[p] /\ T.state[p] = S.state[p]
  /\ S.half \subseteq T.half /\ (p \in T.inited <=> p \in S.inited)
  /\ p \in T.started <=> p \in S.started
  /\ \A x \in Modules : x # c => T.state[x] = S.state[x]
  /\ S.call[p] = "initialize" /\ p \notin S.half => T.state[c] # "running"
  /\ S.call[p] \in Stopping => T.state[c] # "running"
  /\ S.call[p] = "cleanup" => T.state[c] = "none"

\* A call goes on to its next child once the child it has come to has answered.
LEMMA ParentGoesOn ==
  ASSUME NEW S, S \in ModuleType, TreeOK(S), NEW p \in AllModules, Begun(S, p),
         S.at[p] \in DOMAIN S.kids[p], NEW c, c = S.kids[p][S.at[p]].mod,
         NEW T, GoneOn(S, T, p, c)
  PROVE  Begun(T, p)
<1>0. /\ T.kids = S.kids /\ T.call[p] = S.call[p] /\ T.state[p] = S.state[p]
      /\ S.half \subseteq T.half /\ (p \in T.inited <=> p \in S.inited)
      /\ p \in T.started <=> p \in S.started
  BY DEF GoneOn
<1>1. PICK w \in Seq(Items) : w = S.kids[p]
  BY DEF ModuleType
<1>2. PICK k \in Int : k = S.at[p]
  BY DEF ModuleType
<1>3. \A i \in DOMAIN w : w[i].mod \in Modules
  <2> SUFFICES ASSUME NEW i \in DOMAIN w PROVE w[i].mod \in Modules
    OBVIOUS
  <2>1. w[i] \in Items
    BY <1>1
  <2> QED
    BY <2>1 DEF Items
<1>4. DOMAIN w = 1 .. Len(w) /\ Len(w) \in Nat /\ k \in DOMAIN w
  BY <1>1, <1>2
<1>5. k >= 1 /\ k <= Len(w)
  BY <1>4
<1>6. T.at[p] = IF S.call[p] \in Upward THEN k + 1 ELSE k - 1
  BY <1>2 DEF GoneOn
<1>7. \A i \in DOMAIN w : T.state[w[i].mod] = S.state[w[i].mod] \/ w[i].mod = c
  BY <1>3 DEF GoneOn
<1>8. CASE Initializing(S, p)
  <2>1. S.call[p] = "initialize" /\ T.at[p] >= 1
    BY <1>5, <1>6, <1>8 DEF Initializing, Upward
  <2>2. p \notin S.half => \A i \in DOMAIN w : T.state[w[i].mod] # "running"
    BY <1>1, <1>7, <1>8, <2>1 DEF Initializing, GoneOn
  <2>3. Initializing(T, p)
    BY <1>0, <1>1, <1>8, <2>1, <2>2 DEF Initializing
  <2> QED
    BY <2>3 DEF Begun
<1>9. CASE Starting(S, p)
  <2>1. S.call[p] = "start" /\ T.at[p] >= 1
    BY <1>5, <1>6, <1>9 DEF Starting, Upward
  <2>2. Starting(T, p)
    BY <1>0, <1>9, <2>1 DEF Starting
  <2> QED
    BY <2>2 DEF Begun
<1>a. ASSUME NEW i \in DOMAIN w, i > k - 1 PROVE i > k \/ w[i].mod = c
  <2>1. i \in Int
    BY <1>4
  <2>2. i > k \/ i = k
    BY <1>a, <2>1
  <2> QED
    BY <1>1, <1>2, <2>2
<1>10. CASE StoppingKids(S, p)
  <2>1. S.call[p] \in Stopping /\ S.call[p] \notin Upward
    BY <1>10 DEF StoppingKids, Stopping, Upward
  <2>2. T.at[p] = k - 1 /\ k - 1 \in 0 .. Len(w)
    BY <1>4, <1>5, <1>6, <2>1
  <2>3. \A i \in DOMAIN w : i > k - 1 => T.state[w[i].mod] # "running"
    BY <1>1, <1>2, <1>7, <1>10, <1>a, <2>1 DEF StoppingKids, GoneOn
  <2>4. StoppingKids(T, p)
    BY <1>0, <1>1, <1>10, <2>1, <2>2, <2>3 DEF StoppingKids
  <2> QED
    BY <2>4 DEF Begun
<1>11. CASE Cleaning(S, p)
  <2>1. S.call[p] = "cleanup" /\ S.call[p] \notin Upward
    BY <1>11 DEF Cleaning, Upward
  <2>2. T.at[p] = k - 1 /\ k - 1 \in 0 .. Len(w)
    BY <1>4, <1>5, <1>6, <2>1
  <2>3. \A i \in DOMAIN w : i > k - 1 => T.state[w[i].mod] = "none"
    BY <1>1, <1>2, <1>7, <1>11, <1>a, <2>1 DEF Cleaning, GoneOn
  <2>4. Cleaning(T, p)
    BY <1>0, <1>1, <1>11, <2>1, <2>2, <2>3 DEF Cleaning
  <2> QED
    BY <2>4 DEF Begun
<1> QED
  BY <1>8, <1>9, <1>10, <1>11 DEF Begun

\* The call of p goes on by one child.
Moves(S, T, p) == T.at = [S.at EXCEPT ![p] = IF S.call[p] \in Upward THEN @ + 1 ELSE @ - 1]

\* A child answers at once: the call that made it goes on.
LEMMA Skips ==
  ASSUME NEW S, ModuleInv(S), NEW p \in AllModules, S.top = p, S.at[p] \in DOMAIN S.kids[p],
         NEW c, c = S.kids[p][S.at[p]].mod, S.call[p] \in Stopping => S.state[c] # "running",
         S.call[p] = "cleanup" => S.state[c] = "none",
         NEW T, T \in ModuleType, T.kids = S.kids, T.parent = S.parent, T.state = S.state,
         T.half = S.half, T.early = S.early, T.top = p, T.call = S.call,
         T.inited = S.inited, T.started = S.started, Moves(S, T, p)
  PROVE  ModuleInv(T)
<1>1. /\ S \in ModuleType /\ TreeOK(S) /\ ~T.early /\ S.at \in [AllModules -> Int]
      /\ S.parent \in [AllModules -> AllModules \cup {NoOne}]
  BY DEF ModuleInv, ModuleType
<1>2. TreeOK(T)
  BY <1>1 DEF TreeOK
<1>3. PICK d \in [AllModules -> Nat] : PathBy(S, d)
  BY DEF ModuleInv
<1>4. p # NoOne
  BY ModulesAssumption DEF AllModules, Root, NoOne
<1>5. S.call[p] # NoCall
  BY <1>3, <1>4 DEF PathBy
<1>6. Begun(S, p)
  BY <1>5 DEF ModuleInv
<1>7. \A m \in AllModules : m # p => T.at[m] = S.at[m]
  BY <1>1 DEF Moves
<1>8. T.at[p] = IF S.call[p] \in Upward THEN S.at[p] + 1 ELSE S.at[p] - 1
  BY <1>1 DEF Moves
<1>9. c \in Modules /\ S.call[c] = NoCall /\ S.parent[c] = p
  <2>1. PICK i \in DOMAIN S.kids[S.top] : i = S.at[p]
    OBVIOUS
  <2>2. S.top # NoOne
    BY <1>4
  <2>3. /\ S.kids[S.top][i].mod \in Modules /\ S.parent[S.kids[S.top][i].mod] = S.top
        /\ S.call[S.kids[S.top][i].mod] = NoCall
    BY <2>2, ChildRests
  <2> QED
    BY <2>1, <2>3
<1>10. ASSUME NEW m \in Modules, S.call[m] # NoCall PROVE S.parent[m] # p
  <2>1. m \in AllModules /\ d[m] <= d[p]
    BY <1>3, <1>10 DEF PathBy, AllModules
  <2>2. d[m] = d[S.parent[m]] + 1
    BY <1>3, <1>10 DEF PathBy, Linked
  <2>3. d[m] \in Nat /\ d[p] \in Nat
    BY <2>1
  <2> QED
    BY <2>1, <2>2, <2>3
<1>11. ASSUME NEW m \in Modules, T.call[m] # NoCall
       PROVE  Linked(T, d, m)
  <2>1. PICK q : q = S.parent[m]
    OBVIOUS
  <2>2. /\ q # NoOne /\ S.call[q] # NoCall /\ d[m] = d[q] + 1
        /\ S.at[q] \in DOMAIN S.kids[q] /\ S.kids[q][S.at[q]].mod = m
        /\ Makes(S.call[q], S.call[m])
    BY <1>3, <1>11, <2>1 DEF PathBy, Linked
  <2>3. q \in AllModules /\ q # p
    BY <1>1, <1>10, <1>11, <2>1, <2>2 DEF AllModules
  <2>4. T.at[q] = S.at[q]
    BY <1>7, <2>3
  <2> QED
    BY <2>1, <2>2, <2>4 DEF Linked
<1>12. PathBy(T, d)
  <2>1. d[Root] = 0 /\ (T.top # NoOne => T.call[T.top] # NoCall)
    BY <1>3, <1>5 DEF PathBy
  <2>2. \A m \in AllModules : T.call[m] # NoCall => T.top # NoOne /\ d[m] <= d[T.top]
    BY <1>3 DEF PathBy
  <2>3. \A m, n \in AllModules :
          T.call[m] # NoCall /\ T.call[n] # NoCall /\ d[m] = d[n] => m = n
    BY <1>3 DEF PathBy
  <2> QED
    BY <1>11, <2>1, <2>2, <2>3 DEF PathBy
<1>13. ASSUME NEW m \in AllModules
       PROVE  IF T.call[m] = NoCall THEN HooksPair(T, m) ELSE Begun(T, m)
  <2>1. CASE m = p
    <3>1. S.call[p] = "initialize" /\ p \notin S.half => S.state[c] # "running"
      BY <1>6 DEF Begun, Initializing, Starting, StoppingKids, Cleaning, Stopping
    <3>2. GoneOn(S, T, p, c)
      BY <1>8, <3>1 DEF GoneOn
    <3>3. Begun(T, p)
      BY <1>1, <1>6, <3>2, ParentGoesOn
    <3> QED
      BY <1>5, <2>1, <3>3
  <2>2. CASE m # p /\ S.call[m] = NoCall
    <3>1. HooksPair(S, m)
      BY <2>2 DEF ModuleInv
    <3> QED
      BY <2>2, <3>1 DEF HooksPair
  <2>3. CASE m # p /\ S.call[m] # NoCall
    <3>1. Begun(S, m) /\ T.at[m] = S.at[m]
      BY <1>7, <2>3 DEF ModuleInv
    <3>2. Begun(T, m)
      BY <3>1 DEF Begun, Initializing, Starting, StoppingKids, Cleaning
    <3> QED
      BY <2>3, <3>2
  <2> QED
    BY <2>1, <2>2, <2>3
<1> QED
  BY <1>1, <1>2, <1>12, <1>13 DEF ModuleInv

\* How a call of a child may leave it.
Settles(op, v) ==
  /\ op \in {"initialize", "stop"} => v # "running"
  /\ op \in {"cleanup", "cleanup: stop"} => v = "none"

\* What changes when the call of c returns and its caller goes on.
Left(S, T, c, v) ==
  /\ T.state = [S.state EXCEPT ![c] = v]
  /\ T.call = [S.call EXCEPT ![c] = NoCall]
  /\ T.at = IF S.parent[c] = NoOne THEN S.at
            ELSE [S.at EXCEPT ![S.parent[c]] =
                    IF S.call[S.parent[c]] \in Upward THEN @ + 1 ELSE @ - 1]
  /\ \A m \in AllModules : m # c => (m \in T.inited <=> m \in S.inited)
                                    /\ (m \in T.started <=> m \in S.started)

\* The innermost call returns: its module may have a new state, and its hooks pair again.
LEMMA Leaves ==
  ASSUME NEW S, ModuleInv(S), NEW c \in AllModules, S.top = c, NEW v,
         NEW T, T \in ModuleType, T.kids = S.kids, T.parent = S.parent, ~T.early,
         S.half \subseteq T.half, T.top = S.parent[c], Left(S, T, c, v), HooksPair(T, c),
         Settles(S.call[c], v)
  PROVE  ModuleInv(T)
<1>1. /\ S \in ModuleType /\ TreeOK(S) /\ S.at \in [AllModules -> Int]
      /\ S.parent \in [AllModules -> AllModules \cup {NoOne}]
      /\ S.call \in [AllModules -> ModuleCalls]
      /\ S.state \in [AllModules -> {"none", "inited", "running"}]
  BY DEF ModuleInv, ModuleType
<1>2. PICK d \in [AllModules -> Nat] : PathBy(S, d)
  BY DEF ModuleInv
<1>3. c # NoOne /\ NoOne \notin AllModules /\ Root \notin Modules
  BY ModulesAssumption DEF AllModules, Root, NoOne
<1>4. S.call[c] # NoCall
  BY <1>2, <1>3 DEF PathBy
<1>5. /\ T.call[c] = NoCall /\ \A m \in AllModules : m # c => T.call[m] = S.call[m]
      /\ T.state[c] = v /\ \A m \in AllModules : m # c => T.state[m] = S.state[m]
  BY <1>1 DEF Left
<1>6. ASSUME NEW m \in AllModules, T.call[m] # NoCall
      PROVE  /\ m # c /\ S.call[m] # NoCall /\ d[m] <= d[c] /\ d[m] # d[c]
             /\ d[m] \in Nat /\ d[c] \in Nat
  BY <1>2, <1>4, <1>5, <1>6 DEF PathBy
<1>7. c = Root => S.parent[c] = NoOne
  BY <1>1 DEF TreeOK
<1>8. c # Root => /\ c \in Modules /\ S.parent[c] \in AllModules /\ S.parent[c] # c
                  /\ S.call[S.parent[c]] # NoCall /\ d[c] = d[S.parent[c]] + 1
                  /\ S.at[S.parent[c]] \in DOMAIN S.kids[S.parent[c]]
                  /\ S.kids[S.parent[c]][S.at[S.parent[c]]].mod = c
                  /\ Makes(S.call[S.parent[c]], S.call[c])
  <2> SUFFICES ASSUME c # Root
               PROVE  /\ c \in Modules /\ S.parent[c] \in AllModules /\ S.parent[c] # c
                      /\ S.call[S.parent[c]] # NoCall /\ d[c] = d[S.parent[c]] + 1
                      /\ S.at[S.parent[c]] \in DOMAIN S.kids[S.parent[c]]
                      /\ S.kids[S.parent[c]][S.at[S.parent[c]]].mod = c
                      /\ Makes(S.call[S.parent[c]], S.call[c])
    OBVIOUS
  <2>1. c \in Modules
    BY DEF AllModules
  <2>2. /\ S.parent[c] # NoOne
        /\ S.call[S.parent[c]] # NoCall /\ d[c] = d[S.parent[c]] + 1
        /\ S.at[S.parent[c]] \in DOMAIN S.kids[S.parent[c]]
        /\ S.kids[S.parent[c]][S.at[S.parent[c]]].mod = c
        /\ Makes(S.call[S.parent[c]], S.call[c])
    BY <1>2, <1>4, <2>1 DEF PathBy, Linked
  <2>3. S.parent[c] \in AllModules
    BY <1>1, <2>2
  <2>4. d[c] \in Nat
    BY <1>2
  <2> QED
    BY <2>1, <2>2, <2>3, <2>4
<1>9. \A m \in AllModules : m # S.parent[c] => T.at[m] = S.at[m]
  BY <1>1 DEF Left
<1>10. TreeOK(T)
  <2>1. \A m \in Modules : T.parent[m] = NoOne => T.state[m] = "none"
    BY <1>1, <1>3, <1>5, <1>7, <1>8 DEF TreeOK, AllModules
  <2> QED
    BY <1>1, <2>1 DEF TreeOK
<1>11. PathBy(T, d)
  <2>1. d[Root] = 0
    BY <1>2 DEF PathBy
  <2>2. T.top # NoOne => T.call[T.top] # NoCall
    BY <1>5, <1>7, <1>8
  <2>3. ASSUME NEW m \in AllModules, T.call[m] # NoCall
        PROVE  T.top # NoOne /\ d[m] <= d[T.top]
    <3>1. c # Root
      BY <1>6, <2>1, <2>3
    <3>2. d[S.parent[c]] \in Nat /\ d[c] = d[S.parent[c]] + 1 /\ T.top = S.parent[c] /\ T.top # NoOne
      BY <1>3, <1>8, <3>1
    <3> QED
      BY <1>6, <2>3, <3>2
  <2>4. \A m, n \in AllModules :
          T.call[m] # NoCall /\ T.call[n] # NoCall /\ d[m] = d[n] => m = n
    BY <1>2, <1>5 DEF PathBy
  <2>5. ASSUME NEW m \in Modules, T.call[m] # NoCall
        PROVE  Linked(T, d, m)
    <3>1. PICK q : q = S.parent[m]
      OBVIOUS
    <3>2. m \in AllModules
      BY DEF AllModules
    <3>3. m # c /\ S.call[m] # NoCall /\ d[m] <= d[c] /\ d[m] # d[c] /\ d[m] \in Nat /\ d[c] \in Nat
      BY <1>6, <2>5, <3>2
    <3>4. /\ q # NoOne /\ S.call[q] # NoCall /\ d[m] = d[q] + 1
          /\ S.at[q] \in DOMAIN S.kids[q] /\ S.kids[q][S.at[q]].mod = m
          /\ Makes(S.call[q], S.call[m])
      BY <1>2, <3>1, <3>3 DEF PathBy, Linked
    <3>5. q \in AllModules
      BY <1>1, <3>1, <3>2, <3>4
    <3>6. q # c
      BY <3>3, <3>4
    <3>7. q # S.parent[c]
      <4>1. ASSUME q = S.parent[c] PROVE FALSE
        <5>1. c # Root
          BY <1>3, <1>7, <3>5, <4>1
        <5> QED
          BY <1>8, <3>3, <3>4, <4>1, <5>1
      <4> QED
        BY <4>1
    <3>8. T.at[q] = S.at[q] /\ T.call[q] = S.call[q] /\ T.call[m] = S.call[m]
      BY <1>5, <1>9, <3>2, <3>3, <3>5, <3>6, <3>7
    <3> QED
      BY <3>1, <3>4, <3>8 DEF Linked
  <2> QED
    BY <2>1, <2>2, <2>3, <2>4, <2>5 DEF PathBy
<1>12. \A m \in AllModules : m # S.parent[c] => \A i \in DOMAIN S.kids[m] : S.kids[m][i].mod # c
  BY <1>1 DEF TreeOK
<1>13. \A m \in AllModules : \A i \in DOMAIN S.kids[m] : S.kids[m][i].mod \in AllModules
  <2> SUFFICES ASSUME NEW m \in AllModules, NEW i \in DOMAIN S.kids[m]
               PROVE  S.kids[m][i].mod \in AllModules
    OBVIOUS
  <2>1. PICK w \in Seq(Items) : w = S.kids[m]
    BY <1>1 DEF ModuleType
  <2>2. w[i] \in Items
    BY <2>1
  <2> QED
    BY <2>1, <2>2 DEF Items, AllModules
<1>14. \A m \in AllModules : m # S.parent[c] => \A i \in DOMAIN S.kids[m] :
         T.state[S.kids[m][i].mod] = S.state[S.kids[m][i].mod]
  BY <1>5, <1>12, <1>13
<1>15. ASSUME NEW m \in AllModules
       PROVE  IF T.call[m] = NoCall THEN HooksPair(T, m) ELSE Begun(T, m)
  <2>1. CASE m = c
    BY <1>5, <2>1
  <2>2. CASE m # c /\ S.call[m] = NoCall
    <3>1. HooksPair(S, m) /\ m # S.parent[c]
      BY <1>3, <1>7, <1>8, <2>2 DEF ModuleInv
    <3>2. T.state[m] = S.state[m] /\ (m \in T.inited <=> m \in S.inited)
          /\ (m \in T.started <=> m \in S.started) /\ T.call[m] = NoCall
      BY <1>5, <2>2 DEF Left
    <3>3. HooksPair(T, m)
      BY <1>14, <3>1, <3>2 DEF HooksPair
    <3> QED
      BY <3>2, <3>3
  <2>3. CASE m # c /\ S.call[m] # NoCall
    <3>1. Begun(S, m) /\ T.call[m] = S.call[m] /\ T.state[m] = S.state[m]
      BY <1>5, <2>3 DEF ModuleInv
    <3>2. (m \in T.inited <=> m \in S.inited) /\ (m \in T.started <=> m \in S.started)
      BY <2>3 DEF Left
    <3>3. CASE m = S.parent[c]
      <4>1. /\ S.at[m] \in DOMAIN S.kids[m] /\ S.kids[m][S.at[m]].mod = c
            /\ Makes(S.call[m], S.call[c])
        BY <1>3, <1>7, <1>8, <3>3
      <4>2. T.at[m] = IF S.call[m] \in Upward THEN S.at[m] + 1 ELSE S.at[m] - 1
        BY <1>1, <1>3, <3>3 DEF Left
      <4>3. S.call[m] = "initialize" => v # "running"
        BY <4>1 DEF Makes, Settles, Upward, Stopping
      <4>4. S.call[m] \in Stopping => v # "running"
        BY <4>1 DEF Makes, Settles, Upward, Stopping
      <4>5. S.call[m] = "cleanup" => v = "none"
        BY <4>1 DEF Makes, Settles, Upward, Stopping
      <4>6. \A x \in Modules : x # c => T.state[x] = S.state[x]
        BY <1>5 DEF AllModules
      <4>7. GoneOn(S, T, m, c)
        BY <1>5, <3>1, <3>2, <4>2, <4>3, <4>4, <4>5, <4>6 DEF GoneOn
      <4>8. Begun(T, m)
        BY <1>1, <3>1, <4>1, <4>7, ParentGoesOn
      <4> QED
        BY <2>3, <3>1, <4>8
    <3>4. CASE m # S.parent[c]
      <4>1. T.at[m] = S.at[m]
        BY <1>9, <3>4
      <4>2. \A i \in DOMAIN S.kids[m] : T.state[S.kids[m][i].mod] = S.state[S.kids[m][i].mod]
        BY <1>14, <3>4
      <4>3. Initializing(S, m) => Initializing(T, m)
        BY <3>1, <3>2, <4>1, <4>2 DEF Initializing
      <4>4. Starting(S, m) => Starting(T, m)
        BY <3>1, <3>2, <4>1 DEF Starting
      <4>5. StoppingKids(S, m) => StoppingKids(T, m)
        BY <3>1, <3>2, <4>1, <4>2 DEF StoppingKids
      <4>6. Cleaning(S, m) => Cleaning(T, m)
        BY <3>1, <3>2, <4>1, <4>2 DEF Cleaning
      <4>7. Begun(T, m)
        BY <3>1, <4>3, <4>4, <4>5, <4>6 DEF Begun
      <4> QED
        BY <2>3, <3>1, <4>7
    <3> QED
      BY <3>3, <3>4
  <2> QED
    BY <2>1, <2>2, <2>3
<1> QED
  BY <1>2, <1>10, <1>11, <1>15 DEF ModuleInv

\* returned() of the innermost call, once its module is settled.
LEMMA Returning ==
  ASSUME NEW S, ModuleInv(S), NEW c \in AllModules, S.top = c, NEW ok \in BOOLEAN,
         NEW X, X \in ModuleType, X.kids = S.kids, X.parent = S.parent, X.call = S.call,
         X.at = S.at, ~X.early, S.half \subseteq X.half,
         X.state = [S.state EXCEPT ![c] = X.state[c]],
         \A m \in AllModules : m # c => (m \in X.inited <=> m \in S.inited)
                                        /\ (m \in X.started <=> m \in S.started),
         HooksPair(X, c), Settles(S.call[c], X.state[c])
  PROVE  ModuleInv(returned(X, c, ok))
<1>1. PICK T : T = returned(X, c, ok)
  OBVIOUS
<1>2. PICK p \in AllModules \cup {NoOne} : p = S.parent[c]
  BY DEF ModuleType
<1>3. PICK call \in [AllModules -> ModuleCalls] : call = [S.call EXCEPT ![c] = NoCall]
  BY DEF ModuleType, ModuleCalls
<1>4. NoOne \notin AllModules
  BY ModulesAssumption DEF AllModules, Root, NoOne
<1>5. PICK at \in [AllModules -> Int] :
        at = IF p = NoOne THEN S.at
             ELSE [S.at EXCEPT ![p] = IF S.call[p] \in Upward THEN @ + 1 ELSE @ - 1]
  <2>1. S.at \in [AllModules -> Int]
    BY DEF ModuleType
  <2>2. CASE p = NoOne
    BY <2>1, <2>2
  <2>3. CASE p # NoOne
    <3>1. PICK k \in Int : k = IF S.call[p] \in Upward THEN S.at[p] + 1 ELSE S.at[p] - 1
      BY <2>1, <2>3
    <3>2. [S.at EXCEPT ![p] = k] \in [AllModules -> Int]
      BY <2>1
    <3> QED
      BY <2>1, <2>3, <3>1, <3>2
  <2> QED
    BY <2>2, <2>3
<1>6. PICK failed \in BOOLEAN :
        failed = IF p = NoOne THEN FALSE ELSE ~ok /\ X.kids[p][X.at[p]].required
  <2>1. CASE p = NoOne
    BY <2>1
  <2>2. CASE p # NoOne
    <3>1. (~ok /\ X.kids[p][X.at[p]].required) \in BOOLEAN
      BY SMT
    <3> QED
      BY <2>2, <3>1, Zenon
  <2> QED
    BY <2>1, <2>2
<1>7. T = [X EXCEPT !.call = call, !.top = p, !.failed = failed, !.at = at]
  BY <1>1, <1>2, <1>3, <1>5, <1>6 DEF returned, ModuleType
<1>8. /\ T \in ModuleType /\ T.kids = S.kids /\ T.parent = S.parent /\ ~T.early
      /\ T.state = X.state /\ T.half = X.half /\ T.inited = X.inited /\ T.started = X.started
      /\ T.call = call /\ T.at = at /\ T.top = p
  BY <1>7 DEF ModuleType
<1>9. HooksPair(T, c)
  BY <1>8 DEF HooksPair
<1>10. Left(S, T, c, X.state[c])
  BY <1>2, <1>3, <1>5, <1>8 DEF Left
<1>11. S.half \subseteq T.half /\ T.top = S.parent[c]
  BY <1>2, <1>8
<1> QED
  BY <1>1, <1>8, <1>9, <1>10, <1>11, Leaves

LEMMA ComesAtRest ==
  ASSUME NEW S, ModuleInv(S), NEW c \in AllModules, NEW op, Comes(S, c, op)
  PROVE  /\ S.call[c] = NoCall /\ HooksPair(S, c)
         /\ S.parent[c] = S.top /\ S.top \in AllModules \cup {NoOne}
         /\ c = Root => S.top = NoOne
<1>1. S \in ModuleType /\ TreeOK(S) /\ S.top \in AllModules \cup {NoOne}
  BY DEF ModuleInv, ModuleType
<1>2. PICK d \in [AllModules -> Nat] : PathBy(S, d)
  BY DEF ModuleInv
<1>3. CASE c = Root /\ S.top = NoOne
  BY <1>1, <1>2, <1>3 DEF PathBy, TreeOK, ModuleInv
<1>4. CASE /\ c \in Modules /\ S.top # NoOne /\ S.parent[c] = S.top
           /\ S.at[S.top] \in DOMAIN S.kids[S.top] /\ S.kids[S.top][S.at[S.top]].mod = c
  <2>1. PICK i \in DOMAIN S.kids[S.top] : i = S.at[S.top]
    BY <1>4
  <2>2. S.call[S.kids[S.top][i].mod] = NoCall
    BY <1>4, <2>1, ChildRests
  <2>3. S.call[c] = NoCall /\ c # Root
    BY <1>4, <2>1, <2>2, ModulesAssumption
  <2> QED
    BY <1>1, <1>4, <2>3 DEF ModuleInv
<1> QED
  BY <1>3, <1>4 DEF Comes

\* The states in which stop() and cleanup() have nothing to do.
Declines(op, v) ==
  /\ op = "stop" => v # "running"
  /\ op \in {"cleanup", "cleanup: stop"} => v = "none"

\* returned() of a call that does not begin.
LEMMA Answering ==
  ASSUME NEW S, ModuleInv(S), NEW c \in AllModules, NEW op, Comes(S, c, op), NEW ok \in BOOLEAN,
         Declines(op, S.state[c])
  PROVE  ModuleInv(returned(S, c, ok))
<1>1. PICK T : T = returned(S, c, ok)
  OBVIOUS
<1>2. S \in ModuleType
  BY DEF ModuleInv
<1>3. /\ S.call[c] = NoCall /\ S.parent[c] = S.top /\ S.top \in AllModules \cup {NoOne}
      /\ c = Root => S.top = NoOne
  BY ComesAtRest
<1>4. [S.call EXCEPT ![c] = NoCall] = S.call
  BY <1>2, <1>3 DEF ModuleType
<1>5. CASE S.top = NoOne
  <2>1. T = [S EXCEPT !.call = S.call, !.top = S.top, !.failed = FALSE]
    BY <1>1, <1>2, <1>3, <1>4, <1>5 DEF returned, ModuleType
  <2>2. /\ T \in ModuleType /\ T.kids = S.kids /\ T.parent = S.parent /\ T.state = S.state
        /\ T.call = S.call /\ T.at = S.at /\ T.top = S.top /\ T.inited = S.inited
        /\ T.started = S.started /\ T.half = S.half /\ T.early = S.early
    BY <1>2, <2>1 DEF ModuleType
  <2>3. ~T.early /\ TreeOK(T)
    BY <2>2 DEF ModuleInv, TreeOK
  <2>4. PICK d \in [AllModules -> Nat] : PathBy(S, d)
    BY DEF ModuleInv
  <2>5. PathBy(T, d)
    <3>1. \A m \in AllModules : T.call[m] = NoCall
      BY <1>5, <2>2, <2>4 DEF PathBy
    <3>2. d[Root] = 0
      BY <2>4 DEF PathBy
    <3> QED
      BY <1>5, <2>2, <3>1, <3>2 DEF PathBy, AllModules
  <2>6. ASSUME NEW m \in AllModules
        PROVE  IF T.call[m] = NoCall THEN HooksPair(T, m) ELSE Begun(T, m)
    <3>1. S.call[m] = NoCall
      BY <1>5, <2>4 DEF PathBy
    <3>2. HooksPair(S, m)
      BY <3>1 DEF ModuleInv
    <3> QED
      BY <2>2, <3>1, <3>2 DEF HooksPair
  <2> QED
    BY <1>1, <2>2, <2>3, <2>5, <2>6 DEF ModuleInv
<1>6. CASE S.top # NoOne
  <2>1. PICK p \in AllModules : p = S.top
    BY <1>3, <1>6
  <2>2. S.at[p] \in DOMAIN S.kids[p] /\ c = S.kids[p][S.at[p]].mod /\ Makes(S.call[p], op)
    BY <1>6, <2>1 DEF Comes
  <2>3. S.call[p] \in Stopping => S.state[c] # "running"
    BY <2>2 DEF Makes, Declines, Stopping, Upward
  <2>4. S.call[p] = "cleanup" => S.state[c] = "none"
    BY <2>2 DEF Makes, Declines, Stopping, Upward
  <2>5. PICK at \in [AllModules -> Int] :
          at = [S.at EXCEPT ![p] = IF S.call[p] \in Upward THEN @ + 1 ELSE @ - 1]
    <3>1. S.at \in [AllModules -> Int]
      BY <1>2 DEF ModuleType
    <3>2. PICK k \in Int : k = IF S.call[p] \in Upward THEN S.at[p] + 1 ELSE S.at[p] - 1
      BY <3>1
    <3>3. [S.at EXCEPT ![p] = k] \in [AllModules -> Int]
      BY <3>1
    <3> QED
      BY <3>1, <3>2, <3>3
  <2>6. PICK failed \in BOOLEAN : failed = (~ok /\ S.kids[p][S.at[p]].required)
    <3>1. (~ok /\ S.kids[p][S.at[p]].required) \in BOOLEAN
      BY SMT
    <3> QED
      BY <3>1, Zenon
  <2>7. T = [S EXCEPT !.call = S.call, !.top = S.top, !.failed = failed, !.at = at]
    BY <1>1, <1>2, <1>3, <1>4, <1>6, <2>1, <2>5, <2>6 DEF returned, ModuleType
  <2>8. /\ T \in ModuleType /\ T.kids = S.kids /\ T.parent = S.parent /\ T.state = S.state
        /\ T.call = S.call /\ T.at = at /\ T.top = p /\ T.inited = S.inited
        /\ T.started = S.started /\ T.half = S.half /\ T.early = S.early
    BY <1>2, <2>1, <2>7 DEF ModuleType
  <2>9. S.top = p
    BY <2>1
  <2> HIDE <1>1, <2>7
  <2>10. Moves(S, T, p)
    BY <2>5, <2>8 DEF Moves
  <2>11. ModuleInv(T)
    <3> QED
      BY <2>2, <2>3, <2>4, <2>8, <2>9, <2>10, Skips
  <2> QED
    BY <1>1, <2>11
<1> QED
  BY <1>5, <1>6

\* initializeModule(), start(), stop() and cleanup() of the module that comes.
LEMMA InitializeCalled ==
  ASSUME NEW S, ModuleInv(S), NEW c \in AllModules, Comes(S, c, "initialize"), NEW ok \in BOOLEAN
  PROVE  ModuleInv(initializeModule(S, c, ok))
<1>1. S \in ModuleType /\ S.call[c] = NoCall /\ HooksPair(S, c)
  BY ComesAtRest DEF ModuleInv
<1>2. CASE S.state[c] # "none" \/ ~ok
  <2>1. PICK op : op = "initialize"
    OBVIOUS
  <2>2. Comes(S, c, op) /\ Declines(op, S.state[c])
    BY <2>1 DEF Declines
  <2>3. ModuleInv(returned(S, c, FALSE))
    BY <2>2, Answering
  <2> QED
    BY <1>2, <2>3 DEF initializeModule
<1>3. CASE S.state[c] = "none" /\ ok
  <2>1. PICK call \in [AllModules -> ModuleCalls] : call = [S.call EXCEPT ![c] = "initialize"]
    BY <1>1 DEF ModuleType, ModuleCalls
  <2>a. PICK one \in Int : one = 1
    OBVIOUS
  <2>2. PICK at \in [AllModules -> Int] : at = [S.at EXCEPT ![c] = one]
    BY <1>1 DEF ModuleType
  <2>3. PICK inited \in SUBSET AllModules : inited = S.inited \cup {c}
    BY <1>1 DEF ModuleType
  <2>4. PICK T : T = [S EXCEPT !.call = call, !.at = at, !.top = c, !.inited = inited]
    OBVIOUS
  <2>5. T = initializeModule(S, c, ok)
    BY <1>1, <1>3, <2>1, <2>a, <2>2, <2>3, <2>4 DEF initializeModule, entered, ModuleType
  <2>6. /\ T \in ModuleType /\ T.kids = S.kids /\ T.parent = S.parent /\ T.state = S.state
        /\ T.call = call /\ T.at = at /\ T.top = c /\ T.inited = inited
        /\ T.started = S.started /\ T.half = S.half /\ T.early = S.early
    BY <1>1, <2>4 DEF ModuleType
  <2>7. Begun(T, c)
    <3>1. T.call[c] = "initialize" /\ T.at[c] = 1
      BY <1>1, <2>1, <2>a, <2>2, <2>6 DEF ModuleType
    <3>2. Initializing(T, c)
      BY <1>1, <1>3, <2>3, <2>6, <3>1 DEF Initializing, HooksPair
    <3> QED
      BY <3>2 DEF Begun
  <2>8. ModuleInv(T)
    <3>1. PICK op \in ModuleCalls : op = "initialize" /\ op # NoCall
      BY DEF ModuleCalls, NoCall
    <3>2. Comes(S, c, op) /\ T.call = [S.call EXCEPT ![c] = op] /\ T.at = [S.at EXCEPT ![c] = one]
      BY <2>1, <2>2, <2>6, <3>1
    <3>3. \A m \in AllModules : m # c => (m \in T.inited <=> m \in S.inited)
                                        /\ (m \in T.started <=> m \in S.started)
      BY <2>3, <2>6
    <3> QED
      BY <1>1, <2>6, <2>7, <3>1, <3>2, <3>3, Enters
  <2> QED
    BY <2>5, <2>8
<1> QED
  BY <1>2, <1>3

LEMMA StartCalled ==
  ASSUME NEW S, ModuleInv(S), NEW c \in AllModules, Comes(S, c, "start"), NEW ok \in BOOLEAN
  PROVE  ModuleInv(startModule(S, c, ok))
<1>1. S \in ModuleType /\ S.call[c] = NoCall /\ HooksPair(S, c)
  BY ComesAtRest DEF ModuleInv
<1>a. PICK op \in ModuleCalls : op = "start" /\ op # NoCall
  BY DEF ModuleCalls, NoCall
<1>2. CASE S.state[c] # "inited" \/ ~ok
  <2>1. Comes(S, c, op) /\ Declines(op, S.state[c])
    BY <1>a DEF Declines
  <2>2. ModuleInv(returned(S, c, FALSE))
    BY <2>1, Answering
  <2> QED
    BY <1>2, <2>2 DEF startModule
<1>3. CASE S.state[c] = "inited" /\ ok
  <2>1. PICK call \in [AllModules -> ModuleCalls] : call = [S.call EXCEPT ![c] = op]
    BY <1>1 DEF ModuleType
  <2>a. PICK one \in Int : one = 1
    OBVIOUS
  <2>2. PICK at \in [AllModules -> Int] : at = [S.at EXCEPT ![c] = one]
    BY <1>1 DEF ModuleType
  <2>3. PICK begun \in SUBSET AllModules : begun = S.started \cup {c}
    BY <1>1 DEF ModuleType
  <2>4. PICK T : T = [S EXCEPT !.call = call, !.at = at, !.top = c, !.started = begun]
    OBVIOUS
  <2>5. T = startModule(S, c, ok)
    BY <1>1, <1>3, <1>a, <2>1, <2>a, <2>2, <2>3, <2>4 DEF startModule, entered, ModuleType
  <2>6. /\ T \in ModuleType /\ T.kids = S.kids /\ T.parent = S.parent /\ T.state = S.state
        /\ T.call = call /\ T.at = at /\ T.top = c /\ T.inited = S.inited
        /\ T.started = begun /\ T.half = S.half /\ T.early = S.early
    BY <1>1, <2>4 DEF ModuleType
  <2>7. Begun(T, c)
    <3>1. T.call[c] = "start" /\ T.at[c] = 1
      BY <1>1, <1>a, <2>1, <2>a, <2>2, <2>6 DEF ModuleType
    <3>2. Starting(T, c)
      BY <1>1, <1>3, <2>3, <2>6, <3>1 DEF Starting, HooksPair
    <3> QED
      BY <3>2 DEF Begun
  <2>8. ModuleInv(T)
    <3>2. Comes(S, c, op) /\ T.call = [S.call EXCEPT ![c] = op] /\ T.at = [S.at EXCEPT ![c] = one]
      BY <1>a, <2>1, <2>2, <2>6
    <3>3. \A m \in AllModules : m # c => (m \in T.inited <=> m \in S.inited)
                                        /\ (m \in T.started <=> m \in S.started)
      BY <2>3, <2>6
    <3> QED
      BY <1>1, <1>a, <2>6, <2>7, <3>2, <3>3, Enters
  <2> QED
    BY <2>5, <2>8
<1> QED
  BY <1>2, <1>3

\* A call that goes down begins with the last child.
LEMMA DownBegins ==
  ASSUME NEW S, ModuleInv(S), NEW c \in AllModules, NEW op \in ModuleCalls, Comes(S, c, op),
         \/ op \in Stopping /\ S.state[c] = "running"
         \/ op = "cleanup" /\ S.state[c] = "inited"
  PROVE  ModuleInv(entered(S, c, op, Len(S.kids[c])))
<1>1. S \in ModuleType /\ S.call[c] = NoCall /\ HooksPair(S, c) /\ op # NoCall
  BY ComesAtRest DEF ModuleInv, Stopping, NoCall
<1>2. PICK call \in [AllModules -> ModuleCalls] : call = [S.call EXCEPT ![c] = op]
  BY <1>1 DEF ModuleType
<1>9. PICK w \in Seq(Items) : w = S.kids[c]
  BY <1>1 DEF ModuleType
<1>3. PICK k \in Int : k = Len(w) /\ k >= 0
  BY <1>9
<1>4. PICK at \in [AllModules -> Int] : at = [S.at EXCEPT ![c] = k]
  BY <1>1 DEF ModuleType
<1>5. PICK T : T = [S EXCEPT !.call = call, !.at = at, !.top = c]
  OBVIOUS
<1>6. T = entered(S, c, op, Len(S.kids[c]))
  BY <1>1, <1>2, <1>3, <1>4, <1>5, <1>9 DEF entered, ModuleType
<1>7. /\ T \in ModuleType /\ T.kids = S.kids /\ T.parent = S.parent /\ T.state = S.state
      /\ T.call = call /\ T.at = at /\ T.top = c /\ T.inited = S.inited
      /\ T.started = S.started /\ T.half = S.half /\ T.early = S.early
  BY <1>1, <1>5 DEF ModuleType
<1>8. T.call[c] = op /\ T.at[c] = k
  BY <1>1, <1>2, <1>4, <1>7 DEF ModuleType
<1>10. T.at[c] \in 0 .. Len(T.kids[c]) /\ \A i \in DOMAIN T.kids[c] : ~(i > T.at[c])
  <2>1. k = Len(w) /\ k >= 0 /\ T.kids[c] = w
    BY <1>3, <1>7, <1>9
  <2>2. \A i \in DOMAIN w : i \in Nat /\ i <= Len(w)
    BY <1>9
  <2> QED
    BY <1>8, <2>1, <2>2
<1>11. Begun(T, c)
  <2>1. CASE op \in Stopping /\ S.state[c] = "running"
    <3>1. T.call[c] \in Stopping /\ T.state[c] = "running"
      BY <1>7, <1>8, <2>1
    <3>2. c \notin T.half => c \in T.inited /\ c \in T.started
      BY <1>1, <1>7, <2>1 DEF HooksPair
    <3>3. StoppingKids(T, c)
      BY <1>10, <3>1, <3>2 DEF StoppingKids
    <3> QED
      BY <3>3 DEF Begun
  <2>2. CASE op = "cleanup" /\ S.state[c] = "inited"
    <3>1. T.call[c] = "cleanup" /\ T.state[c] = "inited"
      BY <1>7, <1>8, <2>2
    <3>2. c \notin T.half => c \in T.inited /\ c \notin T.started
      BY <1>1, <1>7, <2>2 DEF HooksPair
    <3>3. Cleaning(T, c)
      BY <1>10, <3>1, <3>2 DEF Cleaning
    <3> QED
      BY <3>3 DEF Begun
  <2> QED
    BY <2>1, <2>2
<1>12. T.call = [S.call EXCEPT ![c] = op] /\ T.at = [S.at EXCEPT ![c] = k]
  BY <1>2, <1>4, <1>7
<1>13. \A m \in AllModules : m # c => (m \in T.inited <=> m \in S.inited)
                                     /\ (m \in T.started <=> m \in S.started)
  BY <1>7
<1>14. ModuleInv(T)
  BY <1>1, <1>7, <1>11, <1>12, <1>13, Enters
<1> QED
  BY <1>6, <1>14

LEMMA StopCalled ==
  ASSUME NEW S, ModuleInv(S), NEW c \in AllModules, Comes(S, c, "stop")
  PROVE  ModuleInv(stopModule(S, c))
<1>1. PICK op \in ModuleCalls : op = "stop" /\ op \in Stopping
  BY DEF ModuleCalls, Stopping
<1>2. CASE S.state[c] # "running"
  <2>1. Comes(S, c, op) /\ Declines(op, S.state[c])
    BY <1>1, <1>2 DEF Declines
  <2>2. ModuleInv(returned(S, c, TRUE))
    BY <2>1, Answering
  <2> QED
    BY <1>2, <2>2 DEF stopModule
<1>3. CASE S.state[c] = "running"
  <2>1. Comes(S, c, op)
    BY <1>1
  <2>2. ModuleInv(entered(S, c, op, Len(S.kids[c])))
    BY <1>1, <1>3, <2>1, DownBegins
  <2> QED
    BY <1>1, <1>3, <2>2 DEF stopModule
<1> QED
  BY <1>2, <1>3

LEMMA CleanupCalled ==
  ASSUME NEW S, ModuleInv(S), NEW c \in AllModules, Comes(S, c, "cleanup")
  PROVE  ModuleInv(cleanupModule(S, c))
<1>1. PICK op \in ModuleCalls : op = "cleanup"
  BY DEF ModuleCalls
<1>2. PICK first \in ModuleCalls : first = "cleanup: stop" /\ first \in Stopping
  BY DEF ModuleCalls, Stopping
<1>3. Comes(S, c, op) /\ Comes(S, c, first)
  BY <1>1, <1>2 DEF Comes, Makes, Upward, Stopping
<1>4. CASE S.state[c] = "none"
  <2>1. Declines(op, S.state[c])
    BY <1>1, <1>4 DEF Declines
  <2>2. ModuleInv(returned(S, c, TRUE))
    BY <1>3, <2>1, Answering
  <2> QED
    BY <1>4, <2>2 DEF cleanupModule
<1>5. CASE S.state[c] = "running"
  <2>1. ModuleInv(entered(S, c, first, Len(S.kids[c])))
    BY <1>2, <1>3, <1>5, DownBegins
  <2> QED
    BY <1>2, <1>5, <2>1 DEF cleanupModule
<1>6. CASE S.state[c] = "inited"
  <2>1. ModuleInv(entered(S, c, op, Len(S.kids[c])))
    BY <1>1, <1>3, <1>6, DownBegins
  <2> QED
    BY <1>1, <1>6, <2>1 DEF cleanupModule
<1>7. S.state[c] \in {"none", "inited", "running"}
  BY DEF ModuleInv, ModuleType
<1> QED
  BY <1>4, <1>5, <1>6, <1>7

\* The child that the innermost call has come to comes next.
LEMMA ChildComes ==
  ASSUME NEW S, ModuleInv(S), S.top # NoOne, NEW i, i = S.at[S.top], i \in DOMAIN S.kids[S.top],
         NEW op, Makes(S.call[S.top], op)
  PROVE  S.kids[S.top][i].mod \in AllModules /\ Comes(S, S.kids[S.top][i].mod, op)
<1>1. PICK j \in DOMAIN S.kids[S.top] : j = i
  OBVIOUS
<1>2. S.kids[S.top][j].mod \in Modules /\ S.parent[S.kids[S.top][j].mod] = S.top
  BY ChildRests
<1> QED
  BY <1>1, <1>2 DEF Comes, AllModules

\* The children of the innermost call, once it has come past the first of them.
LEMMA ChildrenDown ==
  ASSUME NEW S, ModuleInv(S), S.top # NoOne, S.at[S.top] = 0
  PROVE  /\ StoppingKids(S, S.top) =>
              /\ \A i \in DOMAIN S.kids[S.top] : S.state[S.kids[S.top][i].mod] # "running"
              /\ ~Undone(S, S.top, S.started)
         /\ Cleaning(S, S.top) =>
              /\ \A i \in DOMAIN S.kids[S.top] : S.state[S.kids[S.top][i].mod] = "none"
              /\ ~Undone(S, S.top, S.inited)
<1>1. S \in ModuleType /\ S.top \in AllModules /\ ~S.early
  BY DEF ModuleInv, ModuleType
<1>2. PICK w \in Seq(Items) : w = S.kids[S.top]
  BY <1>1 DEF ModuleType
<1>3. \A i \in DOMAIN w : i > S.at[S.top]
  <2>1. \A i \in DOMAIN w : i \in Nat /\ i >= 1
    BY <1>2
  <2> QED
    BY <2>1
<1>4. ASSUME NEW i \in DOMAIN S.kids[S.top]
      PROVE  S.kids[S.top][i].mod \in AllModules /\ HooksPair(S, S.kids[S.top][i].mod)
  <2>1. S.kids[S.top][i].mod \in AllModules /\ S.call[S.kids[S.top][i].mod] = NoCall
    BY ChildRests DEF AllModules
  <2> QED
    BY <2>1 DEF ModuleInv
<1>5. ASSUME StoppingKids(S, S.top)
      PROVE  /\ \A i \in DOMAIN S.kids[S.top] : S.state[S.kids[S.top][i].mod] # "running"
             /\ ~Undone(S, S.top, S.started)
  <2>1. \A i \in DOMAIN S.kids[S.top] : S.state[S.kids[S.top][i].mod] # "running"
    BY <1>2, <1>3, <1>5 DEF StoppingKids
  <2>2. \A i \in DOMAIN S.kids[S.top] : S.kids[S.top][i].mod \notin S.started \ S.half
    BY <1>4, <2>1 DEF HooksPair
  <2> QED
    BY <1>1, <2>1, <2>2 DEF Undone
<1>6. ASSUME Cleaning(S, S.top)
      PROVE  /\ \A i \in DOMAIN S.kids[S.top] : S.state[S.kids[S.top][i].mod] = "none"
             /\ ~Undone(S, S.top, S.inited)
  <2>1. \A i \in DOMAIN S.kids[S.top] : S.state[S.kids[S.top][i].mod] = "none"
    BY <1>2, <1>3, <1>6 DEF Cleaning
  <2>2. \A i \in DOMAIN S.kids[S.top] : S.kids[S.top][i].mod \notin S.inited \ S.half
    BY <1>4, <2>1 DEF HooksPair
  <2> QED
    BY <1>1, <2>1, <2>2 DEF Undone
<1> QED
  BY <1>5, <1>6

\* The states of the children of the innermost call, when its own changes.
LEMMA ChildStates ==
  ASSUME NEW S, ModuleInv(S), NEW c \in AllModules, S.top = c,
         NEW v, NEW state, state = [S.state EXCEPT ![c] = v]
  PROVE  \A i \in DOMAIN S.kids[c] : state[S.kids[c][i].mod] = S.state[S.kids[c][i].mod]
<1> SUFFICES ASSUME NEW i \in DOMAIN S.kids[S.top]
             PROVE  state[S.kids[S.top][i].mod] = S.state[S.kids[S.top][i].mod]
  OBVIOUS
<1>1. S.top # NoOne
  BY ModulesAssumption DEF AllModules, Root, NoOne
<1>2. S.kids[S.top][i].mod \in Modules /\ S.kids[S.top][i].mod # c
  BY <1>1, ChildRests
<1>3. S.state \in [AllModules -> {"none", "inited", "running"}]
  BY DEF ModuleInv, ModuleType
<1> QED
  BY <1>2, <1>3 DEF AllModules

LEMMA UpVisits ==
  ASSUME ModuleInv(mo), NEW ok \in BOOLEAN, upVisits(ok)
  PROVE  ModuleInv(mo')
<1>1. mo \in ModuleType /\ mo.top # NoOne /\ mo.call[mo.top] \in Upward
  BY DEF ModuleInv, upVisits, Up, Call
<1>2. mo.top \in AllModules /\ mo.call[mo.top] # NoCall
  BY <1>1 DEF ModuleType, Upward, NoCall
<1>3. Begun(mo, mo.top)
  BY <1>2 DEF ModuleInv
<1>4. mo.at[mo.top] >= 1 /\ mo.at[mo.top] \in Int /\ mo.at[mo.top] <= Len(mo.kids[mo.top])
  BY <1>1, <1>2, <1>3 DEF ModuleType, Begun, Initializing, Starting, StoppingKids, Cleaning, Upward,
     Stopping, upVisits, Kids
<1>5. PICK w \in Seq(Items) : w = mo.kids[mo.top]
  BY <1>1, <1>2 DEF ModuleType
<1>6. PICK i \in DOMAIN mo.kids[mo.top] : i = mo.at[mo.top]
  BY <1>4, <1>5
<1>7. PICK c : c = Child
  OBVIOUS
<1>8. c = mo.kids[mo.top][i].mod
  BY <1>6, <1>7 DEF Child, Kids
<1>9. CASE mo.call[mo.top] = "initialize"
  <2>1. Makes(mo.call[mo.top], "initialize")
    BY <1>9 DEF Makes, Upward
  <2>2. c \in AllModules /\ Comes(mo, c, "initialize")
    BY <1>1, <1>6, <1>8, <2>1, ChildComes
  <2>3. mo' = initializeModule(mo, c, ok)
    BY <1>7, <1>9 DEF upVisits, Call
  <2> QED
    BY <2>2, <2>3, InitializeCalled
<1>10. CASE mo.call[mo.top] = "start"
  <2>1. Makes(mo.call[mo.top], "start")
    BY <1>10 DEF Makes, Upward
  <2>2. c \in AllModules /\ Comes(mo, c, "start")
    BY <1>1, <1>6, <1>8, <2>1, ChildComes
  <2>3. mo' = startModule(mo, c, ok)
    BY <1>7, <1>10 DEF upVisits, Call
  <2> QED
    BY <2>2, <2>3, StartCalled
<1> QED
  BY <1>1, <1>9, <1>10 DEF Upward

LEMMA UpFails ==
  ASSUME ModuleInv(mo), upFails
  PROVE  ModuleInv(mo')
<1>1. mo \in ModuleType /\ mo.top # NoOne /\ mo.call[mo.top] \in Upward /\ ~mo.early
  BY DEF ModuleInv, upFails, Up, Call
<1>2. PICK c \in AllModules : c = mo.top
  BY <1>1 DEF ModuleType
<1>3. Begun(mo, c)
  BY <1>1, <1>2 DEF ModuleInv, Upward, NoCall
<1>4. PICK half \in SUBSET AllModules : half = mo.half \cup {c}
  BY <1>1 DEF ModuleType
<1>5. PICK X : X = [mo EXCEPT !.half = half]
  OBVIOUS
<1>6. mo' = returned(X, c, FALSE)
  BY <1>1, <1>2, <1>4, <1>5 DEF upFails, ModuleType
<1>7. /\ X \in ModuleType /\ X.kids = mo.kids /\ X.parent = mo.parent /\ X.state = mo.state
      /\ X.call = mo.call /\ X.at = mo.at /\ X.inited = mo.inited
      /\ X.started = mo.started /\ X.half = half /\ ~X.early
  BY <1>1, <1>5 DEF ModuleType
<1>8. X.state = [mo.state EXCEPT ![c] = X.state[c]]
  BY <1>1, <1>7 DEF ModuleType
<1>9. HooksPair(X, c)
  BY <1>4, <1>7 DEF HooksPair
<1>10. Settles(mo.call[c], X.state[c])
  BY <1>1, <1>2, <1>3, <1>7 DEF Settles, Begun, Initializing, Starting, StoppingKids, Cleaning, Upward, Stopping
<1>11. mo.half \subseteq X.half
  BY <1>4, <1>7
<1>12. ModuleInv(returned(X, c, FALSE))
  BY <1>2, <1>7, <1>8, <1>9, <1>10, <1>11, Returning
<1> QED
  BY <1>6, <1>12

LEMMA UpSucceeds ==
  ASSUME ModuleInv(mo), upSucceeds
  PROVE  ModuleInv(mo')
<1>1. mo \in ModuleType /\ mo.top # NoOne /\ mo.call[mo.top] \in Upward /\ ~mo.early
  BY DEF ModuleInv, upSucceeds, Up, Call
<1>2. PICK c \in AllModules : c = mo.top
  BY <1>1 DEF ModuleType
<1>3. Begun(mo, c)
  BY <1>1, <1>2 DEF ModuleInv, Upward, NoCall
<1>4. PICK v \in {"none", "inited", "running"} :
        v = IF mo.call[c] = "initialize" THEN "inited" ELSE "running"
  OBVIOUS
<1>5. PICK state \in [AllModules -> {"none", "inited", "running"}] : state = [mo.state EXCEPT ![c] = v]
  BY <1>1 DEF ModuleType
<1>6. PICK X : X = [mo EXCEPT !.state = state]
  OBVIOUS
<1>7. mo' = returned(X, c, TRUE)
  BY <1>1, <1>2, <1>4, <1>5, <1>6 DEF upSucceeds, ModuleType, Call
<1>8. /\ X \in ModuleType /\ X.kids = mo.kids /\ X.parent = mo.parent /\ X.state = state
      /\ X.call = mo.call /\ X.at = mo.at /\ X.inited = mo.inited
      /\ X.started = mo.started /\ X.half = mo.half /\ ~X.early
  BY <1>1, <1>6 DEF ModuleType
<1>9. X.state[c] = v
  BY <1>1, <1>5, <1>8 DEF ModuleType
<1>10. \A i \in DOMAIN mo.kids[c] : state[mo.kids[c][i].mod] = mo.state[mo.kids[c][i].mod]
  BY <1>2, <1>5, ChildStates
<1>11. HooksPair(X, c) /\ Settles(mo.call[c], X.state[c])
  <2>1. CASE Initializing(mo, c)
    <3>1. v = "inited" /\ mo.call[c] = "initialize"
      BY <1>4, <2>1 DEF Initializing
    <3>2. HooksPair(X, c)
      BY <1>8, <1>9, <1>10, <2>1, <3>1 DEF HooksPair, Initializing
    <3> QED
      BY <1>9, <3>1, <3>2 DEF Settles
  <2>2. CASE Starting(mo, c)
    <3>1. v = "running" /\ mo.call[c] = "start"
      BY <1>4, <2>2 DEF Starting
    <3>2. HooksPair(X, c)
      BY <1>8, <1>9, <2>2, <3>1 DEF HooksPair, Starting
    <3> QED
      BY <1>9, <3>1, <3>2 DEF Settles
  <2>3. ~StoppingKids(mo, c) /\ ~Cleaning(mo, c)
    BY <1>1, <1>2 DEF StoppingKids, Cleaning, Upward, Stopping
  <2> QED
    BY <1>3, <2>1, <2>2, <2>3 DEF Begun
<1>12. X.state = [mo.state EXCEPT ![c] = X.state[c]]
  BY <1>5, <1>8, <1>9
<1>13. ModuleInv(returned(X, c, TRUE))
  BY <1>2, <1>8, <1>11, <1>12, Returning
<1> QED
  BY <1>7, <1>13

LEMMA DownVisits ==
  ASSUME ModuleInv(mo), downVisits
  PROVE  ModuleInv(mo')
<1>1. mo \in ModuleType /\ mo.top # NoOne /\ mo.call[mo.top] \notin Upward
  BY DEF ModuleInv, downVisits, Down, Call
<1>2. mo.top \in AllModules /\ mo.call[mo.top] # NoCall
  <2>1. PICK d \in [AllModules -> Nat] : PathBy(mo, d)
    BY DEF ModuleInv
  <2> QED
    BY <1>1, <2>1 DEF ModuleType, PathBy
<1>3. Begun(mo, mo.top)
  BY <1>2 DEF ModuleInv
<1>a. StoppingKids(mo, mo.top) \/ Cleaning(mo, mo.top)
  BY <1>1, <1>3 DEF Begun, Initializing, Starting, Upward
<1>5. PICK w \in Seq(Items) : w = mo.kids[mo.top]
  BY <1>1, <1>2 DEF ModuleType
<1>b. mo.call[mo.top] \in Stopping \/ mo.call[mo.top] = "cleanup"
  BY <1>a DEF StoppingKids, Cleaning
<1>c. mo.at[mo.top] \in 0 .. Len(w) /\ mo.at[mo.top] > 0
  BY <1>5, <1>a DEF StoppingKids, Cleaning, downVisits
<1>4. /\ mo.at[mo.top] >= 1 /\ mo.at[mo.top] \in Int /\ mo.at[mo.top] <= Len(mo.kids[mo.top])
  BY <1>5, <1>c
<1>6. PICK i \in DOMAIN mo.kids[mo.top] : i = mo.at[mo.top]
  BY <1>4, <1>5
<1>7. PICK c : c = Child
  OBVIOUS
<1>8. c = mo.kids[mo.top][i].mod
  BY <1>6, <1>7 DEF Child, Kids
<1>9. CASE mo.call[mo.top] \in Stopping
  <2>1. Makes(mo.call[mo.top], "stop")
    BY <1>9 DEF Makes
  <2>2. c \in AllModules /\ Comes(mo, c, "stop")
    BY <1>1, <1>6, <1>8, <2>1, ChildComes
  <2>3. mo' = stopModule(mo, c)
    BY <1>7, <1>9 DEF downVisits, Call
  <2> QED
    BY <2>2, <2>3, StopCalled
<1>10. CASE mo.call[mo.top] = "cleanup"
  <2>1. Makes(mo.call[mo.top], "cleanup")
    BY <1>10 DEF Makes
  <2>2. c \in AllModules /\ Comes(mo, c, "cleanup")
    BY <1>1, <1>6, <1>8, <2>1, ChildComes
  <2>3. mo' = cleanupModule(mo, c)
    BY <1>7, <1>10 DEF downVisits, Call, Stopping
  <2> QED
    BY <2>2, <2>3, CleanupCalled
<1> QED
  BY <1>b, <1>9, <1>10

\* The innermost call goes down and has come past its first child.
LEMMA DownEnds ==
  ASSUME ModuleInv(mo), Down, mo.at[mo.top] = 0
  PROVE  /\ mo \in ModuleType /\ mo.top \in AllModules /\ mo.top # NoOne /\ ~mo.early
         /\ Call \in Stopping => StoppingKids(mo, mo.top)
         /\ Call = "cleanup" => Cleaning(mo, mo.top)
<1>1. mo \in ModuleType /\ mo.top # NoOne /\ mo.call[mo.top] \notin Upward /\ ~mo.early
  BY DEF ModuleInv, Down, Call
<1>2. mo.top \in AllModules /\ mo.call[mo.top] # NoCall
  <2>1. PICK d \in [AllModules -> Nat] : PathBy(mo, d)
    BY DEF ModuleInv
  <2> QED
    BY <1>1, <2>1 DEF ModuleType, PathBy
<1>3. Begun(mo, mo.top)
  BY <1>2 DEF ModuleInv
<1>4. StoppingKids(mo, mo.top) \/ Cleaning(mo, mo.top)
  BY <1>1, <1>3 DEF Begun, Initializing, Starting, Upward
<1>5. Call \in Stopping => StoppingKids(mo, mo.top)
  BY <1>4 DEF Call, Cleaning, Stopping
<1>6. Call = "cleanup" => Cleaning(mo, mo.top)
  BY <1>4 DEF Call, StoppingKids, Stopping
<1> QED
  BY <1>1, <1>2, <1>5, <1>6

Turned(S, T, c, k) ==
  /\ S.call[c] = "cleanup: stop"
  /\ T.state = [S.state EXCEPT ![c] = "inited"] /\ T.call = [S.call EXCEPT ![c] = "cleanup"]
  /\ T.at = [S.at EXCEPT ![c] = k] /\ T.started = S.started \ {c}

\* stop() that cleanup() called has ended: cleanup() goes on in its place.
LEMMA Turns ==
  ASSUME NEW S, ModuleInv(S), NEW c \in AllModules, S.top = c, NEW k \in Int,
         NEW T, T \in ModuleType, T.kids = S.kids, T.parent = S.parent, ~T.early,
         T.half = S.half, T.top = c, T.inited = S.inited, Turned(S, T, c, k),
         Begun(T, c)
  PROVE  ModuleInv(T)
<1>1. /\ S \in ModuleType /\ TreeOK(S)
      /\ S.call \in [AllModules -> ModuleCalls] /\ S.at \in [AllModules -> Int]
      /\ S.parent \in [AllModules -> AllModules \cup {NoOne}]
      /\ S.state \in [AllModules -> {"none", "inited", "running"}]
  BY DEF ModuleInv, ModuleType
<1>2. PICK d \in [AllModules -> Nat] : PathBy(S, d)
  BY DEF ModuleInv
<1>3. /\ T.call[c] = "cleanup" /\ \A m \in AllModules : m # c => T.call[m] = S.call[m]
      /\ T.state[c] = "inited" /\ \A m \in AllModules : m # c => T.state[m] = S.state[m]
      /\ \A m \in AllModules : m # c => T.at[m] = S.at[m]
  BY <1>1 DEF Turned
<1>4. T.call[c] # NoCall /\ S.call[c] = "cleanup: stop" /\ S.call[c] # NoCall /\ c # NoOne
  BY <1>3, ModulesAssumption DEF Turned, NoCall, AllModules, Root, NoOne
<1>5. \A m \in AllModules : T.call[m] # NoCall <=> S.call[m] # NoCall
  BY <1>3, <1>4
<1>6. ASSUME NEW m \in Modules, S.call[m] # NoCall
      PROVE  /\ S.parent[m] \in AllModules /\ S.parent[m] # c /\ m \in AllModules
             /\ S.call[S.parent[m]] # NoCall /\ d[m] = d[S.parent[m]] + 1
             /\ S.at[S.parent[m]] \in DOMAIN S.kids[S.parent[m]]
             /\ S.kids[S.parent[m]][S.at[S.parent[m]]].mod = m
             /\ Makes(S.call[S.parent[m]], S.call[m])
  <2>1. m \in AllModules
    BY DEF AllModules
  <2>2. /\ S.parent[m] # NoOne
        /\ S.call[S.parent[m]] # NoCall /\ d[m] = d[S.parent[m]] + 1
        /\ S.at[S.parent[m]] \in DOMAIN S.kids[S.parent[m]]
        /\ S.kids[S.parent[m]][S.at[S.parent[m]]].mod = m
        /\ Makes(S.call[S.parent[m]], S.call[m])
    BY <1>2, <1>6 DEF PathBy, Linked
  <2>3. S.parent[m] \in AllModules
    BY <1>1, <2>1, <2>2
  <2>4. d[m] <= d[c] /\ d[m] \in Nat /\ d[c] \in Nat
    BY <1>2, <1>6, <2>1 DEF PathBy
  <2>5. S.parent[m] # c
    BY <2>2, <2>4
  <2> QED
    BY <2>1, <2>2, <2>3, <2>5
<1>7. ASSUME NEW m \in Modules, S.call[m] # NoCall
      PROVE  Makes(T.call[S.parent[m]], T.call[m])
  <2>1. Makes(S.call[S.parent[m]], S.call[m]) /\ T.call[S.parent[m]] = S.call[S.parent[m]]
    BY <1>3, <1>6, <1>7
  <2>2. CASE m = c
    BY <1>3, <1>4, <2>1, <2>2 DEF Makes, Upward, Stopping
  <2>3. CASE m # c
    BY <1>3, <1>6, <1>7, <2>1, <2>3
  <2> QED
    BY <2>2, <2>3
<1>8. PathBy(T, d)
  <2>1. d[Root] = 0 /\ (T.top # NoOne => T.call[T.top] # NoCall)
    BY <1>2, <1>3, <1>4 DEF PathBy
  <2>2. \A m \in AllModules : T.call[m] # NoCall => T.top # NoOne /\ d[m] <= d[T.top]
    BY <1>2, <1>5 DEF PathBy
  <2>3. \A m, n \in AllModules :
          T.call[m] # NoCall /\ T.call[n] # NoCall /\ d[m] = d[n] => m = n
    BY <1>2, <1>5 DEF PathBy
  <2>4. ASSUME NEW m \in Modules, T.call[m] # NoCall
        PROVE  Linked(T, d, m)
    <3>1. m \in AllModules
      BY DEF AllModules
    <3>2. S.call[m] # NoCall
      BY <1>5, <2>4, <3>1
    <3>3. PICK q \in AllModules : q = S.parent[m]
      BY <1>6, <3>2
    <3>4. /\ q # c /\ S.call[q] # NoCall /\ d[m] = d[q] + 1
          /\ S.at[q] \in DOMAIN S.kids[q] /\ S.kids[q][S.at[q]].mod = m
          /\ Makes(T.call[q], T.call[m])
      BY <1>6, <1>7, <3>2, <3>3
    <3>5. T.at[q] = S.at[q] /\ T.call[q] # NoCall /\ q # NoOne
      BY <1>3, <3>4, ModulesAssumption DEF AllModules, Root, NoOne
    <3> QED
      BY <3>3, <3>4, <3>5 DEF Linked
  <2> QED
    BY <2>1, <2>2, <2>3, <2>4 DEF PathBy
<1>9. TreeOK(T)
  <2>1. \A m \in Modules : T.parent[m] = NoOne => T.state[m] = "none"
    <3>1. c \in Modules => S.parent[c] # NoOne
      BY <1>2, <1>4 DEF PathBy, Linked
    <3> QED
      BY <1>1, <1>3, <3>1 DEF TreeOK, AllModules
  <2> QED
    BY <1>1, <2>1 DEF TreeOK
<1>10. \A m \in AllModules : \A i \in DOMAIN S.kids[m] : S.kids[m][i].mod \in AllModules
  <2> SUFFICES ASSUME NEW m \in AllModules, NEW i \in DOMAIN S.kids[m]
               PROVE  S.kids[m][i].mod \in AllModules
    OBVIOUS
  <2>1. PICK w \in Seq(Items) : w = S.kids[m]
    BY <1>1 DEF ModuleType
  <2>2. w[i] \in Items
    BY <2>1
  <2> QED
    BY <2>1, <2>2 DEF Items, AllModules
<1>11. c \in Modules => S.call[S.parent[c]] = "cleanup" /\ S.kids[S.parent[c]][S.at[S.parent[c]]].mod = c
                        /\ S.at[S.parent[c]] \in DOMAIN S.kids[S.parent[c]] /\ S.parent[c] \in AllModules
  BY <1>4, <1>6 DEF Makes, Upward, Stopping
<1>12. ASSUME NEW m \in AllModules
       PROVE  IF T.call[m] = NoCall THEN HooksPair(T, m) ELSE Begun(T, m)
  <2>1. CASE m = c
    BY <1>3, <1>4, <2>1
  <2>2. CASE m # c
    <3>1. /\ T.call[m] = S.call[m] /\ T.at[m] = S.at[m] /\ T.state[m] = S.state[m]
          /\ (m \in T.inited <=> m \in S.inited) /\ (m \in T.started <=> m \in S.started)
      BY <1>3, <2>2 DEF Turned
    <3>2. CASE \A i \in DOMAIN S.kids[m] : S.kids[m][i].mod # c
      <4>1. \A i \in DOMAIN S.kids[m] : T.state[S.kids[m][i].mod] = S.state[S.kids[m][i].mod]
        BY <1>3, <1>10, <3>2
      <4>2. HooksPair(S, m) => HooksPair(T, m)
        BY <3>1, <4>1 DEF HooksPair
      <4>3. Initializing(S, m) => Initializing(T, m)
        BY <3>1, <4>1 DEF Initializing
      <4>4. Starting(S, m) => Starting(T, m)
        BY <3>1, <4>1 DEF Starting
      <4>5. StoppingKids(S, m) => StoppingKids(T, m)
        BY <3>1, <4>1 DEF StoppingKids
      <4>6. Cleaning(S, m) => Cleaning(T, m)
        BY <3>1, <4>1 DEF Cleaning
      <4>7. IF S.call[m] = NoCall THEN HooksPair(S, m) ELSE Begun(S, m)
        BY DEF ModuleInv
      <4> QED
        BY <3>1, <4>2, <4>3, <4>4, <4>5, <4>6, <4>7 DEF Begun
    <3>3. CASE \E i \in DOMAIN S.kids[m] : S.kids[m][i].mod = c
      <4>1. S.parent[c] = m
        BY <1>1, <3>3 DEF TreeOK
      <4>2. c \in Modules
        BY <1>1, <4>1, ModulesAssumption DEF TreeOK, AllModules, Root, NoOne
      <4>3. S.call[m] = "cleanup" /\ S.at[m] \in DOMAIN S.kids[m] /\ S.kids[m][S.at[m]].mod = c
        BY <1>11, <4>1, <4>2
      <4>4. Begun(S, m)
        BY <4>3 DEF ModuleInv, NoCall
      <4>5. Cleaning(S, m)
        BY <4>3, <4>4 DEF Begun, Initializing, Starting, StoppingKids, Stopping
      <4>6. PICK w \in Seq(Items) : w = S.kids[m]
        BY <1>1 DEF ModuleType
      <4>7. ASSUME NEW i \in DOMAIN w, i > S.at[m] PROVE T.state[w[i].mod] = "none"
        <5>1. i \in Int /\ S.at[m] \in Int /\ i # S.at[m]
          BY <1>1, <4>6, <4>7
        <5>2. w[i].mod # c
          <6>1. PICK j \in DOMAIN w : j = S.at[m] /\ w[j].mod = c
            BY <4>3, <4>6
          <6>2. w[i].mod = w[j].mod => i = j
            BY <1>1, <4>6 DEF TreeOK
          <6> QED
            BY <5>1, <6>1, <6>2
        <5>3. w[i].mod \in AllModules /\ S.state[w[i].mod] = "none"
          BY <1>10, <4>5, <4>6, <4>7 DEF Cleaning
        <5> QED
          BY <1>3, <5>2, <5>3
      <4>8. Cleaning(T, m)
        BY <3>1, <4>5, <4>6, <4>7 DEF Cleaning
      <4> QED
        BY <3>1, <4>3, <4>8 DEF Begun, NoCall
    <3> QED
      BY <3>2, <3>3
  <2> QED
    BY <2>1, <2>2
<1> QED
  BY <1>8, <1>9, <1>12 DEF ModuleInv

LEMMA StopEnds ==
  ASSUME ModuleInv(mo), stopEnds
  PROVE  ModuleInv(mo')
<1>1. Down /\ Call \in Stopping /\ mo.at[mo.top] = 0
  BY DEF stopEnds
<1>2. /\ mo \in ModuleType /\ mo.top \in AllModules /\ mo.top # NoOne /\ ~mo.early
      /\ StoppingKids(mo, mo.top)
  BY <1>1, DownEnds
<1>3. PICK c \in AllModules : c = mo.top
  BY <1>2
<1>4. /\ \A i \in DOMAIN mo.kids[c] : mo.state[mo.kids[c][i].mod] # "running"
      /\ ~Undone(mo, c, mo.started) /\ StoppingKids(mo, c)
  BY <1>1, <1>2, <1>3, ChildrenDown
<1>5. PICK v \in {"none", "inited", "running"} : v = "inited"
  OBVIOUS
<1>6. PICK state \in [AllModules -> {"none", "inited", "running"}] : state = [mo.state EXCEPT ![c] = v]
  BY <1>2 DEF ModuleType
<1>7. PICK begun \in SUBSET AllModules : begun = mo.started \ {c}
  BY <1>2 DEF ModuleType
<1>8. \A i \in DOMAIN mo.kids[c] : state[mo.kids[c][i].mod] # "running"
  BY <1>3, <1>4, <1>6, ChildStates
<1>9. PICK X : X = [mo EXCEPT !.early = FALSE, !.started = begun, !.state = state]
  OBVIOUS
<1>10. X = [mo EXCEPT !.early = Undone(mo, c, mo.started), !.started = @ \ {c}, !.state[c] = "inited"]
  <2>1. Undone(mo, c, mo.started) = FALSE
    <3>1. Undone(mo, c, mo.started) \in BOOLEAN
      BY <1>2 DEF Undone, ModuleType
    <3> QED
      BY <1>4, <3>1
  <2> QED
    BY <1>2, <1>5, <1>6, <1>7, <1>9, <2>1 DEF ModuleType
<1>11. /\ X \in ModuleType /\ X.kids = mo.kids /\ X.parent = mo.parent /\ X.state = state
       /\ X.call = mo.call /\ X.at = mo.at /\ X.top = c /\ X.inited = mo.inited /\ X.failed = mo.failed
       /\ X.started = begun /\ X.half = mo.half /\ ~X.early
  BY <1>2, <1>3, <1>9 DEF ModuleType
<1>12. X.state[c] = "inited"
  BY <1>2, <1>5, <1>6, <1>11 DEF ModuleType
<1>13. CASE Call = "stop"
  <2>1. mo' = returned(X, c, TRUE)
    BY <1>3, <1>10, <1>13 DEF stopEnds
  <2>2. HooksPair(X, c)
    BY <1>4, <1>7, <1>8, <1>11, <1>12 DEF HooksPair, StoppingKids
  <2>3. Settles(mo.call[c], X.state[c])
    BY <1>3, <1>12, <1>13 DEF Settles, Call
  <2>4. X.state = [mo.state EXCEPT ![c] = X.state[c]]
    BY <1>5, <1>6, <1>11, <1>12
  <2>5. \A m \in AllModules : m # c => (m \in X.inited <=> m \in mo.inited)
                                     /\ (m \in X.started <=> m \in mo.started)
    BY <1>7, <1>11
  <2>6. mo.top = c
    BY <1>3
  <2>7. ModuleInv(returned(X, c, TRUE))
    BY <1>11, <2>2, <2>3, <2>4, <2>5, <2>6, Returning
  <2> QED
    BY <2>1, <2>7
<1>14. CASE Call = "cleanup: stop"
  <2>1. PICK w \in Seq(Items) : w = mo.kids[c]
    BY <1>2 DEF ModuleType
  <2>2. PICK k \in Int : k = Len(w) /\ k >= 0
    BY <2>1
  <2>3. PICK call \in [AllModules -> ModuleCalls] : call = [mo.call EXCEPT ![c] = "cleanup"]
    BY <1>2 DEF ModuleType, ModuleCalls
  <2>4. PICK at \in [AllModules -> Int] : at = [mo.at EXCEPT ![c] = k]
    BY <1>2 DEF ModuleType
  <2>5. PICK T : T = [X EXCEPT !.call = call, !.at = at, !.top = c]
    OBVIOUS
  <2>6. mo' = entered(X, c, "cleanup", Len(Kids(c)))
    BY <1>3, <1>10, <1>14 DEF stopEnds
  <2>7. mo' = T
    BY <1>11, <2>1, <2>2, <2>3, <2>4, <2>5, <2>6 DEF entered, Kids, ModuleType
  <2>8. /\ T \in ModuleType /\ T.kids = mo.kids /\ T.parent = mo.parent /\ T.state = state
        /\ T.call = call /\ T.at = at /\ T.top = c /\ T.inited = mo.inited
        /\ T.started = begun /\ T.half = mo.half /\ ~T.early
    BY <1>11, <2>5 DEF ModuleType
  <2>9. T.call[c] = "cleanup" /\ T.at[c] = k /\ T.state[c] = "inited"
    BY <1>2, <1>11, <1>12, <2>3, <2>4, <2>8 DEF ModuleType
  <2>10. T.at[c] \in 0 .. Len(T.kids[c]) /\ \A i \in DOMAIN T.kids[c] : ~(i > T.at[c])
    <3>1. T.kids[c] = w
      BY <2>1, <2>8
    <3>2. \A i \in DOMAIN w : i \in Nat /\ i <= Len(w)
      OBVIOUS
    <3> QED
      BY <2>2, <2>9, <3>1, <3>2
  <2>11. Begun(T, c)
    <3>1. c \notin T.half => c \in T.inited /\ c \notin T.started
      BY <1>4, <1>7, <2>8 DEF StoppingKids
    <3>2. Cleaning(T, c)
      BY <2>9, <2>10, <3>1 DEF Cleaning
    <3> QED
      BY <3>2 DEF Begun
  <2>12. Turned(mo, T, c, k)
    BY <1>3, <1>5, <1>6, <1>7, <1>14, <2>3, <2>4, <2>8 DEF Turned, Call
  <2>13. mo.top = c
    BY <1>3
  <2>14. ModuleInv(T)
    BY <2>8, <2>11, <2>12, <2>13, Turns
  <2> QED
    BY <2>7, <2>14
<1> QED
  BY <1>1, <1>13, <1>14 DEF Stopping

LEMMA CleanupEnds ==
  ASSUME ModuleInv(mo), cleanupEnds
  PROVE  ModuleInv(mo')
<1>1. Down /\ Call = "cleanup" /\ mo.at[mo.top] = 0
  BY DEF cleanupEnds
<1>2. /\ mo \in ModuleType /\ mo.top \in AllModules /\ mo.top # NoOne /\ ~mo.early
      /\ Cleaning(mo, mo.top)
  BY <1>1, DownEnds
<1>3. PICK c \in AllModules : c = mo.top
  BY <1>2
<1>4. /\ \A i \in DOMAIN mo.kids[c] : mo.state[mo.kids[c][i].mod] = "none"
      /\ ~Undone(mo, c, mo.inited) /\ Cleaning(mo, c)
  BY <1>1, <1>2, <1>3, ChildrenDown
<1>5. PICK v \in {"none", "inited", "running"} : v = "none"
  OBVIOUS
<1>6. PICK state \in [AllModules -> {"none", "inited", "running"}] : state = [mo.state EXCEPT ![c] = v]
  BY <1>2 DEF ModuleType
<1>7. PICK inited \in SUBSET AllModules : inited = mo.inited \ {c}
  BY <1>2 DEF ModuleType
<1>8. \A i \in DOMAIN mo.kids[c] : state[mo.kids[c][i].mod] = "none"
  BY <1>3, <1>4, <1>6, ChildStates
<1>9. PICK X : X = [mo EXCEPT !.early = FALSE, !.inited = inited, !.state = state]
  OBVIOUS
<1>10. X = [mo EXCEPT !.early = Undone(mo, c, mo.inited), !.inited = @ \ {c}, !.state[c] = "none"]
  <2>1. Undone(mo, c, mo.inited) = FALSE
    <3>1. Undone(mo, c, mo.inited) \in BOOLEAN
      BY <1>2 DEF Undone, ModuleType
    <3> QED
      BY <1>4, <3>1
  <2> QED
    BY <1>2, <1>5, <1>6, <1>7, <1>9, <2>1 DEF ModuleType
<1>11. /\ X \in ModuleType /\ X.kids = mo.kids /\ X.parent = mo.parent /\ X.state = state
       /\ X.call = mo.call /\ X.at = mo.at /\ X.inited = inited
       /\ X.started = mo.started /\ X.half = mo.half /\ ~X.early
  BY <1>2, <1>3, <1>9 DEF ModuleType
<1>12. X.state[c] = "none"
  BY <1>2, <1>5, <1>6, <1>11 DEF ModuleType
<1>13. mo' = returned(X, c, TRUE)
  BY <1>3, <1>10 DEF cleanupEnds
<1>14. HooksPair(X, c)
  BY <1>4, <1>7, <1>8, <1>11, <1>12 DEF HooksPair, Cleaning
<1>15. Settles(mo.call[c], X.state[c])
  BY <1>12 DEF Settles
<1>16. X.state = [mo.state EXCEPT ![c] = X.state[c]]
  BY <1>5, <1>6, <1>11, <1>12
<1>17. \A m \in AllModules : m # c => (m \in X.inited <=> m \in mo.inited)
                                   /\ (m \in X.started <=> m \in mo.started)
  BY <1>7, <1>11
<1>18. mo.top = c
  BY <1>3
<1>19. ModuleInv(returned(X, c, TRUE))
  BY <1>11, <1>14, <1>15, <1>16, <1>17, <1>18, Returning
<1> QED
  BY <1>13, <1>19

LEMMA ModuleAdded ==
  ASSUME ModuleInv(mo), NEW p \in AllModules, NEW c \in Modules, NEW b \in BOOLEAN,
         moduleAdd(p, c, b)
  PROVE  ModuleInv(mo')
<1>1. /\ mo \in ModuleType /\ TreeOK(mo) /\ ~mo.early /\ mo.top = NoOne
      /\ mo.state[p] = "none" /\ c # p /\ mo.parent[c] = NoOne
  BY DEF ModuleInv, moduleAdd
<1>2. /\ mo.kids \in [AllModules -> Seq(Items)] /\ c \in AllModules /\ c # Root
      /\ mo.parent \in [AllModules -> AllModules \cup {NoOne}]
  BY <1>1, ModulesAssumption DEF ModuleType, AllModules
<1>3. mo.state[c] = "none"
  BY <1>1 DEF TreeOK
<1>4. PICK item \in Items : item = [mod |-> c, required |-> b]
  BY DEF Items
<1>5. PICK w \in Seq(Items) : w = mo.kids[p]
  BY <1>2
<1>6. PICK x \in Seq(Items) : x = Append(w, item)
  BY AppendProperties
<1>7. PICK kids \in [AllModules -> Seq(Items)] : kids = [mo.kids EXCEPT ![p] = x]
  BY <1>2
<1>8. PICK parent \in [AllModules -> AllModules \cup {NoOne}] : parent = [mo.parent EXCEPT ![c] = p]
  BY <1>2
<1>9. PICK y : y = [mo EXCEPT !.kids = kids, !.parent = parent]
  OBVIOUS
<1>10. mo' = y
  BY <1>1, <1>2, <1>4, <1>5, <1>6, <1>7, <1>8, <1>9 DEF moduleAdd, ModuleType
<1>11. /\ y \in ModuleType /\ y.kids = kids /\ y.parent = parent /\ y.state = mo.state
       /\ y.call = mo.call /\ y.at = mo.at /\ y.top = NoOne /\ y.inited = mo.inited
       /\ y.started = mo.started /\ y.half = mo.half /\ ~y.early
  BY <1>1, <1>9 DEF ModuleType
<1>12. /\ \A m \in AllModules : m # p => kids[m] = mo.kids[m]
       /\ \A m \in AllModules : m # c => parent[m] = mo.parent[m]
       /\ parent[c] = p /\ kids[p] = x
  BY <1>2, <1>7, <1>8
<1>13. \A i \in DOMAIN x : \/ i \in DOMAIN w /\ x[i] = w[i]
                           \/ i = Len(w) + 1 /\ x[i] = item
  BY <1>6
<1>14. \A m \in AllModules : \A i \in DOMAIN mo.kids[m] :
         mo.kids[m][i].mod # c /\ mo.kids[m][i].mod \in AllModules
  <2> SUFFICES ASSUME NEW m \in AllModules, NEW i \in DOMAIN mo.kids[m]
               PROVE  mo.kids[m][i].mod # c /\ mo.kids[m][i].mod \in AllModules
    OBVIOUS
  <2>1. PICK z \in Seq(Items) : z = mo.kids[m]
    BY <1>2
  <2>2. z[i] \in Items
    BY <2>1
  <2>3. mo.parent[mo.kids[m][i].mod] = m /\ m # NoOne
    BY <1>1, ModulesAssumption DEF TreeOK, AllModules, Root, NoOne
  <2> QED
    BY <1>1, <2>1, <2>2, <2>3 DEF Items, AllModules
<1>15. \A m \in AllModules : \A i \in DOMAIN kids[m] :
         \/ i \in DOMAIN mo.kids[m] /\ kids[m][i] = mo.kids[m][i]
         \/ m = p /\ i = Len(w) + 1 /\ kids[m][i].mod = c
  <2> SUFFICES ASSUME NEW m \in AllModules, NEW i \in DOMAIN kids[m]
               PROVE  \/ i \in DOMAIN mo.kids[m] /\ kids[m][i] = mo.kids[m][i]
                      \/ m = p /\ i = Len(w) + 1 /\ kids[m][i].mod = c
    OBVIOUS
  <2>1. CASE m = p
    BY <1>4, <1>5, <1>12, <1>13, <2>1
  <2>2. CASE m # p
    BY <1>12, <2>2
  <2> QED
    BY <2>1, <2>2
<1>16. TreeOK(y)
  <2>1. ASSUME NEW m \in AllModules, NEW i \in DOMAIN kids[m] PROVE parent[kids[m][i].mod] = m
    <3>1. CASE i \in DOMAIN mo.kids[m] /\ kids[m][i] = mo.kids[m][i]
      <4>1. PICK z \in AllModules : z = mo.kids[m][i].mod /\ z # c
        BY <1>14, <3>1
      <4>2. mo.parent[z] = m
        BY <1>1, <3>1, <4>1 DEF TreeOK
      <4> QED
        BY <1>12, <3>1, <4>1, <4>2
    <3>2. CASE m = p /\ i = Len(w) + 1 /\ kids[m][i].mod = c
      BY <1>12, <3>2
    <3> QED
      BY <1>15, <3>1, <3>2
  <2>2. ASSUME NEW m \in AllModules, NEW i \in DOMAIN kids[m], NEW j \in DOMAIN kids[m],
               kids[m][i].mod = kids[m][j].mod
        PROVE  i = j
    <3>1. CASE kids[m][i].mod = c
      <4>1. i = Len(w) + 1 /\ j = Len(w) + 1
        BY <1>14, <1>15, <2>2, <3>1
      <4> QED
        BY <4>1
    <3>2. CASE kids[m][i].mod # c
      <4>1. /\ i \in DOMAIN mo.kids[m] /\ kids[m][i] = mo.kids[m][i]
            /\ j \in DOMAIN mo.kids[m] /\ kids[m][j] = mo.kids[m][j]
        BY <1>15, <2>2, <3>2
      <4> QED
        BY <1>1, <2>2, <4>1 DEF TreeOK
    <3> QED
      BY <3>1, <3>2
  <2>3. parent[Root] = NoOne
    BY <1>1, <1>2, <1>12 DEF TreeOK, AllModules
  <2>4. ASSUME NEW m \in Modules, parent[m] = NoOne PROVE mo.state[m] = "none"
    BY <1>1, <1>3, <1>12, <2>4 DEF TreeOK, AllModules
  <2> QED
    BY <1>11, <2>1, <2>2, <2>3, <2>4 DEF TreeOK
<1>17. PICK d \in [AllModules -> Nat] : PathBy(mo, d)
  BY DEF ModuleInv
<1>18. \A m \in AllModules : mo.call[m] = NoCall
  BY <1>1, <1>17 DEF PathBy
<1>19. PathBy(y, d)
  <2>1. d[Root] = 0
    BY <1>17 DEF PathBy
  <2>2. \A m \in Modules : y.call[m] = NoCall
    BY <1>11, <1>18 DEF AllModules
  <2>3. \A m \in AllModules : y.call[m] = NoCall
    BY <1>11, <1>18
  <2> QED
    BY <1>11, <2>1, <2>2, <2>3 DEF PathBy
<1>20. ASSUME NEW m \in AllModules PROVE HooksPair(y, m)
  <2>1. HooksPair(mo, m)
    BY <1>18 DEF ModuleInv
  <2>2. \A i \in DOMAIN kids[m] :
          \/ i \in DOMAIN mo.kids[m] /\ mo.state[kids[m][i].mod] = mo.state[mo.kids[m][i].mod]
          \/ mo.state[kids[m][i].mod] = "none"
    BY <1>3, <1>15
  <2>3. SUFFICES ASSUME m \notin mo.half
                 PROVE  /\ m \in mo.inited <=> mo.state[m] # "none"
                        /\ m \in mo.started <=> mo.state[m] = "running"
                        /\ \A i \in DOMAIN kids[m] :
                             /\ mo.state[m] = "none" => mo.state[kids[m][i].mod] = "none"
                             /\ mo.state[m] = "inited" => mo.state[kids[m][i].mod] # "running"
    BY <1>11 DEF HooksPair
  <2>4. /\ m \in mo.inited <=> mo.state[m] # "none"
        /\ m \in mo.started <=> mo.state[m] = "running"
    BY <2>1, <2>3 DEF HooksPair
  <2>5. ASSUME NEW i \in DOMAIN kids[m]
        PROVE  /\ mo.state[m] = "none" => mo.state[kids[m][i].mod] = "none"
               /\ mo.state[m] = "inited" => mo.state[kids[m][i].mod] # "running"
    <3>1. CASE i \in DOMAIN mo.kids[m] /\ mo.state[kids[m][i].mod] = mo.state[mo.kids[m][i].mod]
      BY <2>1, <2>3, <3>1 DEF HooksPair
    <3>2. CASE mo.state[kids[m][i].mod] = "none"
      BY <3>2
    <3> QED
      BY <2>2, <3>1, <3>2
  <2> QED
    BY <2>4, <2>5
<1>21. ModuleInv(y)
  BY <1>11, <1>16, <1>18, <1>19, <1>20 DEF ModuleInv
<1> QED
  BY <1>10, <1>21

LEMMA ModuleSteps ==
  ASSUME ModuleInv(mo), ModuleNext
  PROVE  ModuleInv(mo')
<1>a. Root \in AllModules
  BY DEF AllModules
<1>b. mo.top = NoOne => \A op \in ModuleCalls : Comes(mo, Root, op)
  BY DEF Comes
<1>1. CASE \E p \in AllModules, c \in Modules, b \in BOOLEAN : moduleAdd(p, c, b)
  BY <1>1, ModuleAdded
<1>2. CASE appsInitialize
  <2>1. PICK ok \in BOOLEAN : mo' = initializeModule(mo, Root, ok)
    BY <1>2 DEF appsInitialize
  <2>2. Comes(mo, Root, "initialize")
    BY <1>2 DEF appsInitialize, Comes
  <2> QED
    BY <1>a, <2>1, <2>2, InitializeCalled
<1>3. CASE appsStart
  <2>1. PICK ok \in BOOLEAN : mo' = startModule(mo, Root, ok)
    BY <1>3 DEF appsStart
  <2>2. Comes(mo, Root, "start")
    BY <1>3 DEF appsStart, Comes
  <2> QED
    BY <1>a, <2>1, <2>2, StartCalled
<1>4. CASE appsStop
  <2>1. mo' = stopModule(mo, Root) /\ Comes(mo, Root, "stop")
    BY <1>4 DEF appsStop, Comes
  <2> QED
    BY <1>a, <2>1, StopCalled
<1>5. CASE appsCleanup
  <2>1. mo' = cleanupModule(mo, Root) /\ Comes(mo, Root, "cleanup")
    BY <1>5 DEF appsCleanup, Comes
  <2> QED
    BY <1>a, <2>1, CleanupCalled
<1>6. CASE \E ok \in BOOLEAN : upVisits(ok)
  BY <1>6, UpVisits
<1>7. CASE upFails
  BY <1>7, UpFails
<1>8. CASE upSucceeds
  BY <1>8, UpSucceeds
<1>9. CASE downVisits
  BY <1>9, DownVisits
<1>10. CASE stopEnds
  BY <1>10, StopEnds
<1>11. CASE cleanupEnds
  BY <1>11, CleanupEnds
<1> QED
  BY <1>1, <1>2, <1>3, <1>4, <1>5, <1>6, <1>7, <1>8, <1>9, <1>10, <1>11 DEF ModuleNext

\* Between two calls of a module, its hooks pair up, along the tree.
LEMMA ModulePairs ==
  ASSUME ModuleInv(mo)
  PROVE  ModulePaired
<1>1. mo \in ModuleType /\ ~mo.early
  BY DEF ModuleInv
<1>2. ASSUME NEW m \in Used \ mo.half, mo.call[m] = NoCall
      PROVE  /\ m \in mo.inited  <=> Rank(m) >= 1
             /\ m \in mo.started <=> Rank(m) = 2
             /\ \A c \in KidSet(m) : Rank(c) <= Rank(m)
  <2>1. m \in AllModules
    BY DEF Used, AllModules
  <2>2. HooksPair(mo, m)
    BY <1>2, <2>1 DEF ModuleInv
  <2>3. \A x \in AllModules : /\ mo.state[x] = "none" => Rank(x) = 0
                              /\ mo.state[x] = "inited" => Rank(x) = 1
                              /\ mo.state[x] = "running" => Rank(x) = 2
                              /\ mo.state[x] \in {"none", "inited", "running"}
    BY <1>1 DEF Rank, ModuleType
  <2>4. (m \in mo.inited <=> Rank(m) >= 1) /\ (m \in mo.started <=> Rank(m) = 2)
    BY <1>2, <2>1, <2>2, <2>3 DEF HooksPair
  <2>5. ASSUME NEW c \in KidSet(m) PROVE Rank(c) <= Rank(m)
    <3>1. PICK i \in DOMAIN mo.kids[m] : c = mo.kids[m][i].mod
      BY <2>5 DEF KidSet, Kids
    <3>2. c \in AllModules
      <4>1. PICK w \in Seq(Items) : w = mo.kids[m]
        BY <1>1, <2>1 DEF ModuleType
      <4>2. w[i] \in Items
        BY <4>1
      <4> QED
        BY <3>1, <4>1, <4>2 DEF Items, AllModules
    <3>3. /\ mo.state[m] = "none" => mo.state[c] = "none"
          /\ mo.state[m] = "inited" => mo.state[c] # "running"
      BY <1>2, <2>2, <3>1 DEF HooksPair
    <3> QED
      BY <2>1, <2>3, <3>2, <3>3
  <2> QED
    BY <2>4, <2>5
<1> QED
  BY <1>1, <1>2 DEF ModulePaired

\* The hooks of the modules of main::Module's tree pair up, whatever the tree and
\* whichever hooks fail: what onInit() and onStart() of a module built is there exactly
\* while its state says so, no child is further than its parent, and a parent's hook is
\* undone only after its children's; but for modules that failed half-way.
THEOREM HooksPairUp == ModuleSpec => []ModulePaired
<1>1. ModuleInit => ModuleSafe
  BY ModuleStarts DEF ModuleSafe
<1>2. ModuleSafe /\ [ModuleNext]_mo => ModuleSafe'
  <2> SUFFICES ASSUME ModuleSafe, [ModuleNext]_mo PROVE ModuleSafe'
    OBVIOUS
  <2>1. CASE ModuleNext
    BY <2>1, ModuleSteps DEF ModuleSafe
  <2>2. CASE UNCHANGED mo
    BY <2>2 DEF ModuleSafe
  <2> QED
    BY <2>1, <2>2
<1>3. ModuleSafe => ModulePaired
  BY ModulePairs DEF ModuleSafe
<1> QED
  BY <1>1, <1>2, <1>3, PTL DEF ModuleSpec
===============================================================================
