------------------------------ MODULE CommonLoop ------------------------------
(***************************************************************************)
(* event::CommonLoop (modules/event/common_loop.cpp, common_loop_run.cpp)  *)
(* with the epoll engine's runLoop(): how deferred functions given to      *)
(* runInLoop(), runNext() and run() reach the loop thread, how the loop is *)
(* woken through an eventfd, how functions are cancelled, and how what is  *)
(* left is run when the loop ends.                                         *)
(*                                                                         *)
(* A deferred function is its RunId.  User code runs inside callbacks on   *)
(* the loop thread: those of deferred functions (cb) and those of file     *)
(* descriptors and timers (phases "events" and "timers"); it may call any  *)
(* operation of the loop.  Other threads may call runInLoop() and run(); a  *)
(* call that takes no lock is one step all the same.                       *)
(*                                                                         *)
(* MaxInLoop and MaxNext bound the functions that have an id.  What the    *)
(* functions of the last clean-up post beyond them has none: extra says in *)
(* which queue of the clean-up there is some of it, so that functions may  *)
(* post functions for ever.                                                *)
(***************************************************************************)
EXTENDS Integers, Sequences, SequencesExt

CONSTANTS
  MaxInLoop,      \* bound: runInLoop() functions ever posted
  MaxNext,        \* bound: runNext() functions ever posted
  MaxRuns,        \* bound: calls of runLoop()
  CleanupRounds   \* the 100 of cleanupDeferredTasks()

ASSUME BoundAssumption ==
  /\ MaxInLoop \in Nat /\ MaxNext \in Nat /\ MaxRuns \in Nat
  /\ CleanupRounds \in Nat

VARIABLES
  lpc,              \* where the loop thread is
  cb,               \* it is inside the callback of a deferred function
  ready,            \* the eventfd is among the events epoll_wait() returned
  keep_running,     \* keep_running_
  running,          \* sp_run_read_event_ is set: isRunning()
  exit_timer,       \* sp_exit_timer_ is armed
  has_commit,       \* has_commit_run_req_
  eventfd,          \* the counter behind run_event_fd_
  in_loop,          \* run_in_loop_func_queue_
  next,             \* run_next_func_queue_
  tmp,              \* tmp_func_queue_
  clean_next,       \* run_next_tasks of cleanupDeferredTasks()
  clean_in_loop,    \* run_in_loop_tasks of cleanupDeferredTasks()
  remain,           \* remain_loop_count
  in_loop_id,       \* run_in_loop_id_alloc_
  next_id,          \* run_next_id_alloc_
  extra,            \* functions without an id: "queued" in run_in_loop_func_queue_, "moved"
                    \* to run_in_loop_tasks
  runs,             \* runLoop() calls so far
  status            \* history: what became of each function

queues  == <<in_loop, next, tmp, clean_next, clean_in_loop>>
wakeup  == <<has_commit, eventfd>>
ids     == <<in_loop_id, next_id, extra>>
phase   == <<lpc, cb, ready, keep_running, running, exit_timer, remain, runs>>
history == <<status>>
vars    == <<queues, wakeup, ids, phase, history>>

\* runInLoop() hands out even ids, runNext() odd ones; 0 and 1 are never handed out.
InLoopIds == {2 * k : k \in 1..MaxInLoop}
NextIds == {2 * k + 1 : k \in 1..MaxNext}
Ids == InLoopIds \cup NextIds

TypeOK ==
  /\ lpc \in {"idle", "wait", "timers", "events", "inloop", "next", "after",
              "round", "clean_next", "clean_in_loop"}
  /\ cb \in BOOLEAN /\ ready \in BOOLEAN /\ keep_running \in BOOLEAN
  /\ running \in BOOLEAN /\ exit_timer \in BOOLEAN /\ has_commit \in BOOLEAN
  /\ eventfd \in Nat
  /\ in_loop \in Seq(InLoopIds) /\ clean_in_loop \in Seq(InLoopIds)
  /\ next \in Seq(NextIds) /\ clean_next \in Seq(NextIds)
  /\ tmp \in Seq(Ids)
  /\ remain \in Int /\ in_loop_id \in Nat /\ next_id \in Nat /\ runs \in Nat
  /\ extra \subseteq {"queued", "moved"}
  /\ status \in [Ids -> {"none", "pending", "done", "cancelled"}]

Init ==
  /\ lpc = "idle" /\ cb = FALSE /\ ready = FALSE
  /\ keep_running = TRUE /\ running = FALSE /\ exit_timer = FALSE
  /\ has_commit = FALSE /\ eventfd = 0
  /\ in_loop = <<>> /\ next = <<>> /\ tmp = <<>>
  /\ clean_next = <<>> /\ clean_in_loop = <<>>
  /\ remain = 0 /\ in_loop_id = 0 /\ next_id = 1 /\ runs = 0 /\ extra = {}
  /\ status = [i \in Ids |-> "none"]

-----------------------------------------------------------------------------
(* Operations of the loop.                                                 *)

\* User code is running on the loop thread, or the owner has not started it yet.
LoopThread == cb \/ lpc \in {"idle", "timers", "events"}

\* lock_ is free for another thread: runThisAfterLoop() holds it while it cleans up.
\* cleanup() of a loop that does not run holds no lock.
LockFree == lpc \notin {"round", "clean_next", "clean_in_loop"} \/ ~running

Callers == {"loop", "other"}
CanCall(t) == IF t = "loop" THEN LoopThread ELSE LockFree

\* commitRunRequest(): one write to the eventfd until the loop has answered it.
commitRunRequest ==
  IF has_commit THEN UNCHANGED wakeup
  ELSE eventfd' = eventfd + 1 /\ has_commit' = TRUE

\* runInLoop(), from the loop thread or from any other.
runInLoop(t) ==
  LET id == in_loop_id + 2 IN
  /\ CanCall(t)
  /\ in_loop_id < 2 * MaxInLoop
  /\ in_loop_id' = id
  /\ in_loop' = Append(in_loop, id)
  /\ status' = [status EXCEPT ![id] = "pending"]
  /\ IF running THEN commitRunRequest ELSE UNCHANGED wakeup
  /\ UNCHANGED <<next_id, extra, next, tmp, clean_next, clean_in_loop, phase>>

\* runInLoop() in a function that the last clean-up calls, beyond MaxInLoop.
runInLoopMore ==
  /\ cb /\ lpc \in {"clean_next", "clean_in_loop"}
  /\ runs = MaxRuns /\ in_loop_id = 2 * MaxInLoop
  /\ extra' = extra \cup {"queued"}
  /\ IF running THEN commitRunRequest ELSE UNCHANGED wakeup
  /\ UNCHANGED <<queues, in_loop_id, next_id, phase, history>>

\* runNext(): no lock, and no wake-up.
PushNext ==
  LET id == next_id + 2 IN
  /\ next_id < 2 * MaxNext
  /\ next_id' = id
  /\ next' = Append(next, id)
  /\ status' = [status EXCEPT ![id] = "pending"]
  /\ UNCHANGED <<in_loop_id, extra, in_loop, tmp, clean_next, clean_in_loop, wakeup, phase>>

\* On the loop thread only, loop.h says.
runNext == LoopThread /\ PushNext

\* run(): runNext() on the loop thread, runInLoop() from another one; but runNext() for
\* any thread while the loop does not run.
run(t) == \/ t = "loop" /\ runNext
          \/ t = "other" /\ running /\ runInLoop(t)
          \/ t = "other" /\ ~running /\ PushNext

\* The queue without the function with this id; ids are unique, see QueuedOnce.
RemoveRunFuncItemById(q, id) ==
  IF \E k \in 1..Len(q) : q[k] = id
  THEN RemoveAt(q, CHOOSE k \in 1..Len(q) : q[k] = id)
  ELSE q

\* cancel(): the functions about to run first, then the queue the id belongs to.
cancel(id) ==
  /\ LoopThread
  /\ status[id] # "none"
  /\ tmp' = RemoveRunFuncItemById(tmp, id)
  /\ next' = IF id \in Range(tmp) \/ id % 2 = 0 THEN next ELSE RemoveRunFuncItemById(next, id)
  /\ in_loop' = IF id \in Range(tmp) \/ id % 2 = 1 THEN in_loop ELSE RemoveRunFuncItemById(in_loop, id)
  /\ IF <<tmp', next', in_loop'>> # <<tmp, next, in_loop>>
     THEN status' = [status EXCEPT ![id] = "cancelled"]
     ELSE UNCHANGED status
  /\ UNCHANGED <<clean_next, clean_in_loop, wakeup, ids, phase>>

\* exitLoop(): at once, or by a one-shot timer that replaces an earlier one.
exitLoop ==
  /\ LoopThread
  /\ \/ keep_running' = FALSE /\ exit_timer' = FALSE
     \/ exit_timer' = TRUE /\ UNCHANGED keep_running
  /\ UNCHANGED <<queues, wakeup, ids, history, lpc, cb, ready, running, remain, runs>>

\* The exit timer fires in handleExpiredTimers().
exitTimeout ==
  /\ lpc = "timers" /\ exit_timer
  /\ keep_running' = FALSE /\ exit_timer' = FALSE
  /\ UNCHANGED <<queues, wakeup, ids, history, lpc, cb, ready, running, remain, runs>>

-----------------------------------------------------------------------------
(* The loop thread.                                                        *)

\* runLoop(mode) with runThisBeforeLoop(): a fresh eventfd; functions posted before
\* the start are committed.
runLoop ==
  /\ lpc = "idle" /\ runs < MaxRuns
  /\ running' = TRUE
  /\ IF in_loop # <<>> /\ ~has_commit
     THEN eventfd' = 1 /\ has_commit' = TRUE
     ELSE eventfd' = 0 /\ UNCHANGED has_commit
  /\ keep_running' \in BOOLEAN
  /\ lpc' = "wait"
  /\ runs' = runs + 1
  /\ UNCHANGED <<queues, ids, history, cb, ready, exit_timer, remain>>

\* epoll_wait() returns for the eventfd, at once when runNext() functions wait, or for
\* any other event or timer.
epollWait ==
  /\ lpc = "wait"
  /\ ready' = (eventfd > 0)
  /\ lpc' = "timers"
  /\ UNCHANGED <<queues, wakeup, ids, history, cb, keep_running, running, exit_timer,
                 remain, runs>>

\* handleExpiredTimers() is done.
timersHandled ==
  /\ lpc = "timers"
  /\ lpc' = "events"
  /\ UNCHANGED <<queues, wakeup, ids, history, cb, ready, keep_running, running,
                 exit_timer, remain, runs>>

\* Mutant of handleRunInLoopFunc: finishRunRequest() forgets has_commit_run_req_.
handleRunInLoopFuncKeepsRequest ==
  /\ lpc = "events" /\ ready
  /\ ready' = FALSE
  /\ tmp' = in_loop /\ in_loop' = tmp
  /\ eventfd' = 0
  /\ lpc' = "inloop"
  /\ UNCHANGED <<next, clean_next, clean_in_loop, has_commit, ids, history, cb,
                 keep_running, running, exit_timer, remain, runs>>

\* handleRunInLoopFunc() up to its loop, with finishRunRequest().
handleRunInLoopFunc ==
  /\ lpc = "events" /\ ready
  /\ ready' = FALSE
  /\ tmp' = in_loop /\ in_loop' = tmp
  /\ eventfd' = 0 /\ has_commit' = FALSE
  /\ lpc' = "inloop"
  /\ UNCHANGED <<next, clean_next, clean_in_loop, ids, history, cb, keep_running, running,
                 exit_timer, remain, runs>>

\* handleNextFunc() up to its loop, after all events are handled.
handleNextFunc ==
  /\ lpc = "events" /\ ~ready
  /\ tmp' = next /\ next' = tmp
  /\ lpc' = "next"
  /\ UNCHANGED <<in_loop, clean_next, clean_in_loop, wakeup, ids, history, cb, ready,
                 keep_running, running, exit_timer, remain, runs>>

\* Mutant of callTmp: the newest function first.
callTmpNewest ==
  /\ lpc \in {"inloop", "next"} /\ ~cb
  /\ tmp # <<>>
  /\ tmp' = Front(tmp)
  /\ status' = [status EXCEPT ![Last(tmp)] = "done"]
  /\ cb' = TRUE
  /\ UNCHANGED <<in_loop, next, clean_next, clean_in_loop, wakeup, ids, lpc, ready,
                 keep_running, running, exit_timer, remain, runs>>

\* The loops of both: pop the oldest function and call it.
callTmp ==
  /\ lpc \in {"inloop", "next"} /\ ~cb
  /\ tmp # <<>>
  /\ tmp' = Tail(tmp)
  /\ status' = [status EXCEPT ![Head(tmp)] = "done"]
  /\ cb' = TRUE
  /\ UNCHANGED <<in_loop, next, clean_next, clean_in_loop, wakeup, ids, lpc, ready,
                 keep_running, running, exit_timer, remain, runs>>

callReturns ==
  /\ cb
  /\ cb' = FALSE
  /\ UNCHANGED <<queues, wakeup, ids, history, lpc, ready, keep_running, running,
                 exit_timer, remain, runs>>

\* Their end: back to the remaining events, or to the loop condition of runLoop().
tmpEmpty ==
  /\ lpc \in {"inloop", "next"} /\ ~cb
  /\ tmp = <<>>
  /\ lpc' = IF lpc = "inloop" THEN "events" ELSE IF keep_running THEN "wait" ELSE "after"
  /\ UNCHANGED <<queues, wakeup, ids, history, cb, ready, keep_running, running,
                 exit_timer, remain, runs>>

\* Entry of cleanupDeferredTasks(), from runThisAfterLoop() or from cleanup() while the
\* loop does not run.
cleanupDeferredTasks ==
  /\ lpc \in {"after", "idle"} /\ ~cb
  /\ remain' = CleanupRounds
  /\ lpc' = "round"
  /\ UNCHANGED <<queues, wakeup, ids, status, cb, ready, keep_running, running,
                 exit_timer, runs>>

\* Something is left to clean up.
Left == in_loop # <<>> \/ next # <<>> \/ "queued" \in extra

\* Both queues are moved to local ones.
MoveToLocal ==
  /\ clean_next' = next /\ clean_in_loop' = in_loop
  /\ extra' = IF "queued" \in extra THEN {"moved"} ELSE {}
  /\ lpc' = "clean_next"

\* Mutant of cleanupRound: the runNext() queue is copied, not moved.
cleanupRoundCopy ==
  /\ lpc = "round" /\ Left
  /\ remain > 0
  /\ remain' = remain - 1
  /\ MoveToLocal
  /\ in_loop' = <<>>
  /\ UNCHANGED <<next, tmp, wakeup, in_loop_id, next_id, history, cb, ready, keep_running,
                 running, exit_timer, runs>>

\* Mutant of cleanupRound: the rounds are not counted.
cleanupRoundForever ==
  /\ lpc = "round" /\ Left
  /\ MoveToLocal
  /\ next' = <<>> /\ in_loop' = <<>>
  /\ UNCHANGED <<tmp, wakeup, in_loop_id, next_id, history, cb, ready, keep_running,
                 running, exit_timer, remain, runs>>

\* One round.
cleanupRound ==
  /\ lpc = "round" /\ Left
  /\ remain > 0
  /\ remain' = remain - 1
  /\ MoveToLocal
  /\ next' = <<>> /\ in_loop' = <<>>
  /\ UNCHANGED <<tmp, wakeup, in_loop_id, next_id, history, cb, ready, keep_running,
                 running, exit_timer, runs>>

\* The two loops of a round: first the runNext() functions, then the others.
callCleanNext ==
  /\ lpc = "clean_next" /\ ~cb
  /\ clean_next # <<>>
  /\ clean_next' = Tail(clean_next)
  /\ status' = [status EXCEPT ![Head(clean_next)] = "done"]
  /\ cb' = TRUE
  /\ UNCHANGED <<in_loop, next, tmp, clean_in_loop, wakeup, ids, lpc, ready, keep_running,
                 running, exit_timer, remain, runs>>

callCleanInLoop ==
  /\ lpc = "clean_in_loop" /\ ~cb
  /\ clean_in_loop # <<>>
  /\ clean_in_loop' = Tail(clean_in_loop)
  /\ status' = [status EXCEPT ![Head(clean_in_loop)] = "done"]
  /\ cb' = TRUE
  /\ UNCHANGED <<in_loop, next, tmp, clean_next, wakeup, ids, lpc, ready, keep_running,
                 running, exit_timer, remain, runs>>

\* The functions without an id; their place among the others is not kept.
callCleanMore ==
  /\ lpc = "clean_in_loop" /\ ~cb
  /\ clean_in_loop = <<>> /\ "moved" \in extra
  /\ extra' = extra \ {"moved"}
  /\ cb' = TRUE
  /\ UNCHANGED <<queues, wakeup, in_loop_id, next_id, history, lpc, ready, keep_running,
                 running, exit_timer, remain, runs>>

cleanEmpty ==
  /\ ~cb
  /\ \/ lpc = "clean_next" /\ clean_next = <<>> /\ lpc' = "clean_in_loop"
     \/ /\ lpc = "clean_in_loop" /\ clean_in_loop = <<>> /\ "moved" \notin extra
        /\ lpc' = "round"
  /\ UNCHANGED <<queues, wakeup, ids, history, cb, ready, keep_running, running,
                 exit_timer, remain, runs>>

\* The loop of rounds ends: nothing is left, or the count, which the test itself
\* decrements, is used up.  Then the rest of runThisAfterLoop(): the eventfd is closed.
cleanupEnd ==
  /\ lpc = "round"
  /\ Left => remain <= 0
  /\ remain' = IF Left THEN remain - 1 ELSE remain
  /\ running' = FALSE /\ eventfd' = 0
  /\ lpc' = "idle"
  /\ UNCHANGED <<queues, has_commit, ids, status, cb, ready, keep_running, exit_timer, runs>>

-----------------------------------------------------------------------------
User == \/ \E t \in Callers : runInLoop(t) \/ run(t)
        \/ \E id \in Ids : cancel(id)
        \/ exitLoop \/ runInLoopMore
Loop == \/ epollWait \/ timersHandled \/ handleRunInLoopFunc \/ handleNextFunc \/ callTmp
        \/ callReturns \/ tmpEmpty \/ cleanupRound \/ callCleanNext \/ callCleanInLoop
        \/ callCleanMore \/ cleanEmpty \/ cleanupEnd \/ exitTimeout
Next == User \/ Loop \/ runLoop \/ cleanupDeferredTasks

\* The loop thread runs; callbacks return; epoll_wait() is certain to return only for
\* the eventfd and for runNext() functions.
Fairness ==
  /\ WF_vars(epollWait /\ (eventfd > 0 \/ next # <<>>))
  /\ WF_vars(timersHandled \/ handleRunInLoopFunc \/ handleNextFunc \/ callTmp \/ callReturns
             \/ tmpEmpty)
  /\ WF_vars(cleanupDeferredTasks /\ lpc = "after")
  /\ WF_vars(cleanupRound \/ callCleanNext \/ callCleanInLoop \/ callCleanMore \/ cleanEmpty
             \/ cleanupEnd)

Spec     == Init /\ [][Next]_vars
FairSpec == Spec /\ Fairness

-----------------------------------------------------------------------------
(* Properties.                                                             *)

\* Exactly once: a function waits in exactly one place of the five queues until it is
\* called or cancelled, and in none afterwards - whatever is posted and cancelled from
\* inside callbacks while the queues are swapped and moved.
QueuedOnce ==
  /\ \A a, b \in 1..5 : \A k \in 1..Len(queues[a]), l \in 1..Len(queues[b]) :
       queues[a][k] = queues[b][l] => a = b /\ k = l
  /\ \A id \in Ids :
       status[id] = "pending" <=> \E a \in 1..5 : id \in Range(queues[a])

\* Functions posted the same way are called in the order they were posted, also when
\* some wait in the queue, others in tmp_func_queue_ and the loop ends in between.
Fifo ==
  \A i, j \in Ids :
    i < j /\ i % 2 = j % 2 /\ status[j] = "done" => status[i] # "pending"

\* No wake-up is lost: while the loop runs and runInLoop() functions wait, the eventfd
\* is readable, although it is written only when has_commit_run_req_ is clear.  For the
\* first run of the loop: see RestartWakeup.
NoLostWakeup == runs = 1 /\ running /\ in_loop # <<>> => eventfd > 0

\* The same for every run.  loop.h says of runInLoop() that the function is called in
\* the next turn of the loop.
RestartWakeup == running /\ in_loop # <<>> => eventfd > 0

\* A function posted to the loop in its first run is called or cancelled unless the loop
\* ends, even if no other event ever wakes the loop.
PostedRuns ==
  \A id \in Ids :
    runs = 1 /\ running /\ status[id] = "pending" ~> ~running \/ status[id] # "pending"

\* exitLoop() ends a loop that is not blocked in epoll_wait(), whatever the functions run
\* on the way out post, and even if each of them posts another for ever.
ExitReturns == running /\ ~keep_running /\ lpc # "wait" ~> ~running
=============================================================================
