------------------------------ MODULE Actions -------------------------------
(***************************************************************************)
(* flow::Action and the actions that are assembled from others.  A tree of     *)
(* actions runs in a loop's thread.  start(), pause(), resume(), stop() and       *)
(* reset() of the root reach its descendants in the same call; finish() and        *)
(* block() of an action reach its parent by a function given to runNext(), so       *)
(* any of those calls may come in between.                                     *)
(*                                                                         *)
(* Each operation is a function from the state of the tree to the next one, as     *)
(* they call each other; an action of this module is one call from outside: by     *)
(* the user, by a leaf's timer or event, by a timeout, or by the loop for the        *)
(* function at the head of its queue.                                           *)
(***************************************************************************)
EXTENDS Integers, FiniteSets, SequencesExt

CONSTANTS Trees,        \* trees: root, kind, mode and children of each node
          Timed,        \* nodes with setTimeout()
          MaxQueue      \* bound: functions in the loop's queue

Null    == "null"
Serials == {"sequence", "ifelse", "ifthen", "switch", "loop", "loopif", "repeat",
            "wrapper", "composite"}

VARIABLES
  tree,     \* the tree: chosen once
  act       \* its state: see NewState

actionVars == <<tree, act>>

Nodes    == DOMAIN tree.kind
Kids(n)  == tree.kids[n]
Kid(n, i) == tree.kids[n][i]
Parent(c) == CHOOSE n \in Nodes \cup {Null} :
               IF n = Null THEN \A m \in Nodes : c \notin ToSet(Kids(m)) ELSE c \in ToSet(Kids(n))

NewState(t) ==
  [st    |-> [n \in DOMAIN t.kind |-> "idle"],      \* state_
   timer |-> [n \in DOMAIN t.kind |-> FALSE],       \* timer_ev_ is enabled
   curr  |-> [n \in DOMAIN t.kind |-> Null],        \* curr_action_
   stash |-> [n \in DOMAIN t.kind |-> <<>>],        \* child_finish_func_: at most one result
   index |-> [n \in DOMAIN t.kind |-> 0],           \* index_; remain_times_ of a repeat
   done  |-> [n \in DOMAIN t.kind |-> {}],          \* finished_children_ of a parallel
   queue |-> <<>>,                                  \* the loop's runNext() queue
   late  |-> {},                                    \* history: nodes their timeout finished
   stale |-> FALSE]                                 \* history: reset() left functions queued

ActionInit == tree \in Trees /\ act = NewState(tree)

Underway(S, n) == S.st[n] \in {"running", "pause"}
Post(S, item)  == [S EXCEPT !.queue = Append(@, item)]

\* a result: whether it succeeded, and the reason, which only a switch looks at
Result(ok, why) == [ok |-> ok, why |-> why]

RECURSIVE start(_, _), pause(_, _), resume(_, _), stop(_, _), reset(_, _), finish(_, _, _),
          onChildFinished(_, _, _, _), EachKid(_, _, _, _)

-----------------------------------------------------------------------------
(* SerialAssembleAction                                                     *)

\* what start() of an action answers
CanStart(S, n) == S.st[n] \in {"idle", "running"}

startThisAction(S, n, c) ==
  IF CanStart(S, c) THEN [start(S, c) EXCEPT !.curr[n] = c] ELSE S

stopCurrAction(S, n) ==
  IF S.curr[n] = Null THEN S ELSE [stop(S, S.curr[n]) EXCEPT !.curr[n] = Null]

\* an operation on the children from i on, in order
EachKid(S, n, i, op) ==
  IF i > Len(Kids(n)) THEN S
  ELSE LET c == Kid(n, i)
       IN EachKid(IF c = Null THEN S
                  ELSE CASE op = "stop"   -> stop(S, c)
                         [] op = "pause"  -> pause(S, c)
                         [] op = "reset"  -> reset(S, c)
                         [] op = "resume" -> IF S.st[c] = "pause" THEN resume(S, c) ELSE S,
                  n, i + 1, op)

-----------------------------------------------------------------------------
(* onStart() of each kind                                                   *)

\* SequenceAction::startOtheriseFinish()
sequenceNext(S, n, r) ==
  IF S.index[n] < Len(Kids(n))
  THEN LET c == Kid(n, S.index[n] + 1)
       IN IF CanStart(S, c) THEN startThisAction(S, n, c) ELSE finish(S, n, Result(FALSE, 0))
  ELSE finish(S, n, r)

\* IfThenAction::doStart(): the children are pairs of a condition and its action
ifThenNext(S, n) ==
  IF 2 * S.index[n] >= Len(Kids(n)) THEN finish(S, n, Result(FALSE, 0))
  ELSE startThisAction(S, n, Kid(n, 2 * S.index[n] + 1))

\* FunctionAction::onStart(): the function answers at once
functionStart(S, n) == finish(S, n, Result(tree.mode[n], 0))

\* ParallelAction::onStart(): the children are idle here, so each of them starts
parallelStart(S, n) == FoldSeq(LAMBDA c, T : start(T, c), S, Kids(n))

\* RepeatAction::onStart()
repeatStart(S, n) ==
  startThisAction([S EXCEPT !.index[n] = tree.mode[n][2] - 1], n, Kid(n, 1))

onStart(S, n) ==
  CASE tree.kind[n] \in {"ifelse", "switch", "loop", "loopif", "wrapper", "composite"} ->
         startThisAction(S, n, Kid(n, 1))
    [] tree.kind[n] = "sequence" -> sequenceNext(S, n, Result(TRUE, 0))
    [] tree.kind[n] = "ifthen"   -> ifThenNext([S EXCEPT !.index[n] = 0], n)
    [] tree.kind[n] = "repeat"   -> repeatStart(S, n)
    [] tree.kind[n] = "parallel" -> parallelStart(S, n)
    [] tree.kind[n] = "function" -> functionStart(S, n)
    [] OTHER -> S                        \* a leaf that finishes later: sleep, event, dummy

\* onPause(), onResume(), onStop() of a serial action; a result that came while it was
\* paused is handled in a function of its own
serialPause(S, n) == IF S.curr[n] = Null THEN S ELSE pause(S, S.curr[n])

serialResume(S, n) ==
  IF S.curr[n] # Null THEN resume(S, S.curr[n])
  ELSE IF S.stash[n] = <<>> THEN S
  ELSE [Post(S, [what |-> "stashed", node |-> n, from |-> S.stash[n][1], r |-> S.stash[n][2]])
          EXCEPT !.stash[n] = <<>>]

serialStop(S, n) == [stopCurrAction(S, n) EXCEPT !.stash[n] = <<>>]

\* onFinished(): only a composite stops its child
onFinished(S, n) == IF tree.kind[n] = "composite" THEN stopCurrAction(S, n) ELSE S

-----------------------------------------------------------------------------
(* Action                                                                  *)

start(S, n) ==
  IF S.st[n] # "idle" THEN S
  ELSE LET T == onStart(S, n)
       IN IF T.st[n] # "idle" THEN T
          ELSE [T EXCEPT !.st[n] = "running", !.timer[n] = n \in Timed]

pause(S, n) ==
  IF S.st[n] # "running" THEN S
  ELSE LET T == CASE tree.kind[n] = "parallel" -> EachKid(S, n, 1, "pause")
                  [] tree.kind[n] \in Serials  -> serialPause(S, n)
                  [] OTHER -> S
       IN [T EXCEPT !.st[n] = "pause", !.timer[n] = FALSE]

resume(S, n) ==
  IF S.st[n] # "pause" THEN S
  ELSE LET T == CASE tree.kind[n] = "parallel" -> EachKid(S, n, 1, "resume")
                  [] tree.kind[n] \in Serials  -> serialResume(S, n)
                  [] OTHER -> S
       IN [T EXCEPT !.st[n] = "running", !.timer[n] = n \in Timed]

stop(S, n) ==
  IF ~Underway(S, n) THEN S
  ELSE LET T == [S EXCEPT !.st[n] = "stoped", !.timer[n] = FALSE]
       IN CASE tree.kind[n] = "parallel" -> EachKid(T, n, 1, "stop")
            [] tree.kind[n] \in Serials  -> serialStop(T, n)
            [] OTHER -> T

\* the parent's callback is queued
finish(S, n, r) ==
  IF S.st[n] \in {"finished", "stoped"} THEN S
  ELSE Post(onFinished([S EXCEPT !.st[n] = "finished", !.timer[n] = FALSE], n),
            [what |-> "finish", node |-> n, from |-> n, r |-> r])

block(S, n) ==
  IF S.st[n] \in {"finished", "stoped"} THEN S
  ELSE Post([S EXCEPT !.st[n] = "pause"],
            [what |-> "block", node |-> n, from |-> n, r |-> Result(FALSE, 0)])

\* cancelDispatchedCallback(): the last finish and the last block function of n
Cancelled(q, n) ==
  LET Latest(w) == {i \in DOMAIN q : /\ q[i].node = n /\ q[i].what = w
                                     /\ \A j \in (i+1)..Len(q) : q[j].node # n \/ q[j].what # w}
      gone      == Latest("finish") \cup Latest("block")
  IN FoldSeq(LAMBDA i, s : IF i \in gone THEN s ELSE Append(s, q[i]), <<>>,
             [i \in 1..Len(q) |-> i])

reset(S, n) ==
  IF S.st[n] = "idle" THEN S
  ELSE LET T == EachKid(S, n, 1, "reset")
       IN [T EXCEPT !.st[n] = "idle", !.timer[n] = FALSE, !.curr[n] = Null, !.stash[n] = <<>>,
                    !.index[n] = 0, !.done[n] = {}, !.queue = Cancelled(@, n),
                    !.late = @ \ {n}]

-----------------------------------------------------------------------------
(* A child has finished, or is blocked                                      *)

\* SequenceAction::onChildFinished()
afterSequence(S, n, r) ==
  IF (tree.mode[n] = "AnySucc" /\ r.ok) \/ (tree.mode[n] = "AnyFail" /\ ~r.ok)
  THEN finish(S, n, r)
  ELSE sequenceNext([S EXCEPT !.index[n] = @ + 1], n, r)

\* IfElseAction::onCondActionFinished(): then and else, either of which may be missing
afterCondition(S, n, r) ==
  LET branch == Kid(n, IF r.ok THEN 2 ELSE 3)
  IN IF branch # Null THEN startThisAction(S, n, branch) ELSE finish(S, n, Result(TRUE, r.why))

\* IfThenAction::onIfActionFinished()
afterIf(S, n, r) ==
  IF r.ok THEN startThisAction(S, n, Kid(n, 2 * S.index[n] + 2))
  ELSE ifThenNext([S EXCEPT !.index[n] = @ + 1], n)

\* SwitchAction::onSwitchActionFinished(): the children are the switch, the default and
\* the cases; the reason names the case
afterSwitch(S, n, r) ==
  LET chosen == IF r.why \in 1..(Len(Kids(n)) - 2) THEN Kid(n, r.why + 2) ELSE Kid(n, 2)
  IN IF r.ok /\ chosen # Null THEN startThisAction(S, n, chosen)
     ELSE finish(S, n, Result(FALSE, 0))

Again(S, n) == startThisAction(reset(S, Kid(n, 1)), n, Kid(n, 1))

\* LoopAction::onChildFinished()
afterLoop(S, n, r) ==
  IF (tree.mode[n] = "UntilSucc" /\ r.ok) \/ (tree.mode[n] = "UntilFail" /\ ~r.ok)
  THEN finish(S, n, r) ELSE Again(S, n)

\* LoopIfAction::onIfFinished() and onExecFinished()
afterLoopIf(S, n, c, r) ==
  IF c # Kid(n, 1) THEN startThisAction(EachKid(S, n, 1, "reset"), n, Kid(n, 1))
  ELSE IF r.ok THEN startThisAction(S, n, Kid(n, 2))
  ELSE finish(S, n, Result(tree.mode[n], r.why))

\* RepeatAction::onChildFinished()
afterRepeat(S, n, r) ==
  LET until == tree.mode[n][1]
  IN IF (until = "BreakSucc" /\ r.ok) \/ (until = "BreakFail" /\ ~r.ok) THEN finish(S, n, r)
     ELSE IF S.index[n] > 0 THEN [Again(S, n) EXCEPT !.index[n] = @ - 1]
     ELSE finish(S, n, Result(TRUE, 0))

\* WrapperAction::onChildFinished()
afterWrapped(S, n, r) ==
  finish(S, n, Result(CASE tree.mode[n] = "Normal" -> r.ok [] tree.mode[n] = "Invert" -> ~r.ok
                        [] tree.mode[n] = "AlwaySucc" -> TRUE [] OTHER -> FALSE, r.why))

\* children whose result is that of the action: their callback is onLastChildFinished()
LastChild(n, c) ==
  \/ tree.kind[n] = "composite"
  \/ tree.kind[n] \in {"ifelse", "switch"} /\ c # Kid(n, 1)
  \/ tree.kind[n] = "ifthen" /\ \E i \in DOMAIN Kids(n) : i % 2 = 0 /\ c = Kid(n, i)

\* the callback a running serial action gave its child c
AfterChild(S, n, c, r) ==
  CASE LastChild(n, c) -> finish(S, n, r)
    [] tree.kind[n] = "sequence" -> afterSequence(S, n, r)
    [] tree.kind[n] = "ifelse"  -> afterCondition(S, n, r)
    [] tree.kind[n] = "ifthen"  -> afterIf(S, n, r)
    [] tree.kind[n] = "switch"  -> afterSwitch(S, n, r)
    [] tree.kind[n] = "loop"    -> afterLoop(S, n, r)
    [] tree.kind[n] = "loopif"  -> afterLoopIf(S, n, c, r)
    [] tree.kind[n] = "repeat"  -> afterRepeat(S, n, r)
    [] OTHER -> afterWrapped(S, n, r)

\* mutant: a result that comes while the action is paused is dropped
serialFinishedDrop(S, n, c, r) ==
  LET T == [S EXCEPT !.curr[n] = Null]
  IN IF S.st[n] = "running" THEN AfterChild(T, n, c, r) ELSE T

\* handleChildFinishEvent() and onLastChildFinished(): handled, kept for resume(), or ignored
serialFinished(S, n, c, r) ==
  LET T == [S EXCEPT !.curr[n] = Null]
  IN CASE S.st[n] = "running" -> AfterChild(T, n, c, r)
       [] S.st[n] = "pause"   -> [T EXCEPT !.stash[n] = <<c, r>>]
       [] OTHER -> T

\* mutant: the other children of a parallel action go on after it has finished
parallelFinishedOn(S, n, c, r) ==
  LET T == [S EXCEPT !.done[n] = @ \cup {c}]
  IN IF S.st[n] # "running" THEN S
     ELSE IF (tree.mode[n] = "AnySucc" /\ r.ok) \/ (tree.mode[n] = "AnyFail" /\ ~r.ok)
     THEN finish(T, n, Result(TRUE, 0))
     ELSE IF Cardinality(T.done[n]) = Len(Kids(n)) THEN finish(T, n, Result(TRUE, 0)) ELSE T

\* ParallelAction::onChildFinished(): a result counts only while the action runs
parallelFinished(S, n, c, r) ==
  LET T == [S EXCEPT !.done[n] = @ \cup {c}]
  IN IF S.st[n] # "running" THEN S
     ELSE IF (tree.mode[n] = "AnySucc" /\ r.ok) \/ (tree.mode[n] = "AnyFail" /\ ~r.ok)
     THEN finish(EachKid(T, n, 1, "stop"), n, Result(TRUE, 0))
     ELSE IF Cardinality(T.done[n]) = Len(Kids(n)) THEN finish(T, n, Result(TRUE, 0)) ELSE T

onChildFinished(S, n, c, r) ==
  IF tree.kind[n] = "parallel" THEN parallelFinished(S, n, c, r) ELSE serialFinished(S, n, c, r)

onChildBlocked(S, n) ==
  IF tree.kind[n] # "parallel" THEN block(S, n)
  ELSE IF S.st[n] = "running" THEN block(EachKid(S, n, 1, "pause"), n) ELSE S

-----------------------------------------------------------------------------
(* Calls from outside                                                      *)

Do(S) == act' = S /\ act' # act /\ Len(S.queue) <= MaxQueue /\ UNCHANGED tree

UserStart  == Do(start(act, tree.root))
UserPause  == Do(pause(act, tree.root))
UserResume == Do(resume(act, tree.root))
UserStop   == Do(stop(act, tree.root))
UserReset  ==
  LET S == reset(act, tree.root) IN Do([S EXCEPT !.stale = S.queue # <<>>])

Leaves == {n \in Nodes : tree.kind[n] = "leaf"}

LeafFinish(n, ok, why) == act.st[n] = "running" /\ Do(finish(act, n, Result(ok, why)))
LeafBlock(n)           == act.st[n] = "running" /\ Do(block(act, n))

\* onTimeout(): finish(false)
Expire(n) ==
  /\ act.timer[n]
  /\ Do([finish(act, n, Result(FALSE, 0)) EXCEPT !.late = @ \cup {n}])

\* The function that resume() released.  That of handleChildFinishEvent() looks at the state
\* again; that of onLastChildFinished() is the call of finish(), paused again or not
runStashed(S, n, c, r) ==
  IF LastChild(n, c) THEN finish(S, n, r) ELSE onChildFinished(S, n, c, r)

\* handleNextFunc(): the root's callbacks are the user's
RunQueued ==
  LET f == Head(act.queue)
      S == [act EXCEPT !.queue = Tail(@)]
      p == IF f.what = "stashed" THEN f.node ELSE Parent(f.node)
  IN /\ act.queue # <<>>
     /\ Do(CASE p = Null -> S
             [] f.what = "stashed" -> runStashed(S, p, f.from, f.r)
             [] f.what = "block"   -> onChildBlocked(S, p)
             [] OTHER -> onChildFinished(S, p, f.from, f.r))

ActionNext ==
  \/ UserStart \/ UserPause \/ UserResume \/ UserStop \/ UserReset
  \/ \E n \in Leaves, ok \in BOOLEAN, why \in {0, 1} : LeafFinish(n, ok, why)
  \/ \E n \in Leaves : LeafBlock(n)
  \/ \E n \in Nodes : Expire(n)
  \/ RunQueued

-----------------------------------------------------------------------------
(* Properties                                                              *)

Queued(n, w) == \E i \in DOMAIN act.queue : act.queue[i].node = n /\ act.queue[i].what = w

\* A serial action that runs is waiting for something: its current child is under way,
\* a result is on its way, or a result it kept was just released.  Otherwise nothing
\* would ever finish it, whatever pauses, resumes and blocks came in between, and though a
\* released result may finish an action that was paused again.  A run that inherits
\* functions which reset() left in the loop's queue is excepted: they deliver results of
\* the run before, and finish even an idle action.
SerialProgress ==
  ~act.stale => \A n \in Nodes :
    (tree.kind[n] \in Serials /\ act.st[n] = "running") =>
      \/ Queued(n, "stashed")
      \/ \E c \in ToSet(Kids(n)) \ {Null} : Underway(act, c) \/ Queued(c, "finish")

\* No action outlives its parent, and a serial action has one child at work at a time,
\* unless a timeout finished the parent (only a composite then stops its child), or the
\* run inherits what reset() left queued.
NoOrphan ==
  ~act.stale => \A n \in Nodes :
    LET atwork == {c \in ToSet(Kids(n)) \ {Null} : Underway(act, c)}
    IN n \notin act.late => /\ atwork # {} => Underway(act, n)
                            /\ tree.kind[n] \in Serials => Cardinality(atwork) <= 1
=============================================================================
