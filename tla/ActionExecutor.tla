--------------------------- MODULE ActionExecutor ---------------------------
(***************************************************************************)
(* flow::ActionExecutor: three queues of actions by priority; the front of *)
(* the first queue that is not empty runs, the front of a lower one is     *)
(* paused.  An action here is its state.  start() and resume() may leave   *)
(* it running, finished or blocked, and finish() queues a function that    *)
(* calls schedule() (see Actions).  schedule() is a loop: every round is a *)
(* step, and nothing else moves until it returns.                          *)
(***************************************************************************)
EXTENDS Integers, FiniteSets, SequencesExt

CONSTANT MaxActions     \* bound: actions appended

Prios == 0..2
NoQueue == -1

VARIABLE ex       \* the executor: see NewExecutor

NewExecutor ==
  [dq      |-> [p \in Prios |-> <<>>],  \* action_deque_array_, as ActionIds
   cur     |-> NoQueue,                 \* curr_action_deque_index_
   st      |-> <<>>,                    \* the state of each action appended
   calls   |-> {},                      \* actions whose finish callback is in the loop's queue
   blocked |-> {},                      \* history: actions that paused themselves
   at      |-> "rest",                  \* schedule() has returned, finds a queue, serves one
   ready   |-> 0,                       \* ready_deque_index
   ub      |-> FALSE]                   \* front() of an empty deque was used

ExecutorInit == ex = NewExecutor

Live == UNION {ToSet(ex.dq[p]) : p \in Prios}
Ready(S) == {p \in Prios : S.dq[p] # <<>>}
First(S, p) == p \in Ready(S) /\ \A q \in Ready(S) : p <= q

\* delete: the destructor cancels the callback of the action
Deleted(S, a) == [S EXCEPT !.st[a] = "gone", !.calls = @ \ {a}, !.blocked = @ \ {a}]

\* the action finishes, or blocks
Finished(S, a) == [S EXCEPT !.st[a] = "finished", !.calls = @ \cup {a}]
Blocked(S, a) == [S EXCEPT !.st[a] = "pause", !.blocked = @ \cup {a}]

\* what start() or resume() makes of an action: it is the action's choice
Launched(S, a) ==
  {[S EXCEPT !.st[a] = "running", !.blocked = @ \ {a}], Finished(S, a), Blocked(S, a)}

-----------------------------------------------------------------------------
(* schedule()                                                              *)

schedule(S) == ex' = [S EXCEPT !.at = "find"]

\* pause() of the front of the current queue, when a higher one has become ready
Preempted(S) ==
  IF S.dq[S.cur] = <<>> THEN [S EXCEPT !.ub = TRUE]
  ELSE LET a == Head(S.dq[S.cur])
       IN IF S.st[a] = "running" THEN [S EXCEPT !.st[a] = "pause"] ELSE S

\* mutant: the lower action goes on
scheduleFindAlong ==
  /\ ~ex.ub /\ ex.at = "find"
  /\ \/ Ready(ex) = {} /\ ex' = [ex EXCEPT !.at = "rest"]
     \/ \E p \in Prios : First(ex, p) /\ ex' = [ex EXCEPT !.at = "serve", !.ready = p]

\* the outer loop: find the first queue that is not empty
scheduleFind ==
  /\ ~ex.ub /\ ex.at = "find"
  /\ \/ Ready(ex) = {} /\ ex' = [ex EXCEPT !.at = "rest"]
     \/ \E p \in Prios :
          /\ First(ex, p)
          /\ LET S == IF ex.cur # NoQueue /\ p < ex.cur THEN Preempted(ex) ELSE ex
             IN ex' = [S EXCEPT !.at = "serve", !.ready = p]

\* the inner loop: the front of the queue; start() of an idle action never fails
scheduleServe ==
  LET p == ex.ready
      a == Head(ex.dq[p])
  IN /\ ~ex.ub /\ ex.at = "serve"
     /\ \/ ex.dq[p] = <<>> /\ ex' = [ex EXCEPT !.at = "find"]
        \/ /\ ex.dq[p] # <<>> /\ ex.st[a] \in {"idle", "pause"}
           /\ ex' \in Launched([ex EXCEPT !.cur = p], a)
        \/ /\ ex.dq[p] # <<>> /\ ex.st[a] \in {"finished", "stoped"}
           /\ ex' = [Deleted(ex, a) EXCEPT !.dq[p] = Tail(@), !.cur = NoQueue]
        \/ /\ ex.dq[p] # <<>> /\ ex.st[a] = "running"
           /\ ex' = [ex EXCEPT !.at = "rest"]

-----------------------------------------------------------------------------
(* Operations                                                              *)

AtRest == ~ex.ub /\ ex.at = "rest"

ExAppend(p) ==
  LET a == Len(ex.st) + 1
  IN /\ AtRest /\ a <= MaxActions
     /\ schedule([ex EXCEPT !.st = Append(@, "idle"), !.dq[p] = Append(@, a)])

\* refused without a current queue; the index is left as it is
ExCancelCurrent ==
  /\ AtRest /\ ex.cur # NoQueue
  /\ IF ex.dq[ex.cur] = <<>> THEN ex' = [ex EXCEPT !.ub = TRUE]
     ELSE schedule([Deleted(ex, Head(ex.dq[ex.cur])) EXCEPT !.dq[ex.cur] = Tail(@)])

\* the action is deleted without stop(); the index is left as it is
ExCancel(p, i) ==
  AtRest /\ schedule([Deleted(ex, ex.dq[p][i]) EXCEPT !.dq[p] = RemoveAt(@, i)])

\* stop() for the front of each queue, and nothing else: no callback, no schedule()
ExCancelAll ==
  LET fronts == {Head(ex.dq[p]) : p \in Ready(ex)}
  IN /\ AtRest
     /\ ex' = [ex EXCEPT !.st = [a \in DOMAIN @ |->
                    IF a \in fronts /\ @[a] \in {"running", "pause"} THEN "stoped" ELSE @[a]]]

\* an action that was started finishes, even while it is paused
ExFinish(a) == AtRest /\ ex.st[a] \in {"running", "pause"} /\ ex' = Finished(ex, a)

ExBlock(a) == AtRest /\ ex.st[a] \in {"running", "pause"} /\ ex' = Blocked(ex, a)

\* the loop calls a finish callback
ExCallback(a) == AtRest /\ schedule([ex EXCEPT !.calls = @ \ {a}])

ExecutorNext ==
  \/ scheduleFind \/ scheduleServe
  \/ \E p \in Prios : ExAppend(p)
  \/ ExCancelCurrent \/ ExCancelAll
  \/ \E a \in ex.calls : ExCallback(a)
  \/ \E p \in Prios : \E i \in DOMAIN ex.dq[p] : ExCancel(p, i)
  \/ \E a \in Live : ExFinish(a) \/ ExBlock(a)

ExecutorSpec == ExecutorInit /\ [][ExecutorNext]_ex

-----------------------------------------------------------------------------
(* Properties                                                              *)

\* Whenever schedule() has returned, of the actions that wait only the front of the highest
\* queue runs, and it runs unless something happened to it since: it has finished and its
\* callback is queued, it blocked itself, or cancelAll() has stopped it.
ExecutorPriority ==
  ~ex.ub /\ ex.at = "rest" =>
    \A p \in Prios :
      First(ex, p) =>
        LET front == Head(ex.dq[p])
        IN /\ \A a \in Live : ex.st[a] = "running" => a = front
           /\ \/ ex.st[front] \in {"running", "stoped"}
              \/ ex.st[front] = "finished" /\ front \in ex.calls
              \/ ex.st[front] = "pause" /\ front \in ex.blocked
=============================================================================
