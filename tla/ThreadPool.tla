------------------------------ MODULE ThreadPool ------------------------------
(***************************************************************************)
(* eventx::ThreadPool (modules/eventx/thread_pool.cpp): tasks of several   *)
(* priorities run on worker threads, whose number grows on demand up to    *)
(* max_thread_num and shrinks back to min_thread_num; a finished task's    *)
(* main_cb runs on the thread of the main loop, which is also the client   *)
(* that initializes, executes, cancels and cleans up.                      *)
(*                                                                         *)
(* A step is one critical section of d_->lock, or the code between two.    *)
(* The lock is held across steps at one place only: a worker that has seen *)
(* its wait condition false and has not gone to sleep yet ("pred"); the    *)
(* stop flag is raised without the lock, so this is where it matters.      *)
(***************************************************************************)
EXTENDS Integers, Sequences, SequencesExt, FiniteSets

CONSTANTS
  Workers,     \* bound: worker threads that exist at a time
  MinNum,      \* min_thread_num
  MaxNum,      \* max_thread_num
  PrioMax,     \* THREAD_POOL_PRIO_MAX; THREAD_POOL_PRIO_MIN is its negative
  Prios,       \* priorities given to execute()
  MaxTasks,    \* bound: tasks ever given to execute()
  HasMainCb,   \* the tasks given with a main_cb
  MaxInit,     \* bound: calls of initialize()
  NoTask       \* nullptr

\* The checks of initialize(), and the macros of the header.
ASSUME ConfigAssumption ==
  /\ MinNum \in Nat /\ MaxNum \in Nat \ {0} /\ MinNum <= MaxNum
  /\ PrioMax \in Nat /\ Prios \subseteq Int /\ HasMainCb \subseteq 1..MaxTasks

ASSUME BoundAssumption ==
  /\ IsFiniteSet(Workers) /\ MaxNum <= Cardinality(Workers)
  /\ MaxTasks \in Nat /\ MaxInit \in Nat /\ NoTask \notin 1..MaxTasks

VARIABLES
  is_ready,         \* is_ready
  stop_flag,        \* all_threads_stop_flag
  undo,             \* undo_tasks_token: the waiting tasks of each level
  doing,            \* doing_tasks_token
  idle,             \* idle_thread_num
  threads,          \* threads_cabinet: the workers in it
  pc,               \* where each worker is in threadProc()
  item,             \* the task each worker holds
  mpc,              \* where the client is in execute(), initialize() or cleanup()
  thread_vec,       \* the workers cleanup() joins
  loop_queue,       \* functions given to wp_loop->runInLoop()
  posted,           \* tasks given to execute() so far
  inits,            \* initialize() calls so far
  tstat,            \* history: what became of each task
  called,           \* history: tasks whose main_cb ran
  asserted          \* history: TBOX_ASSERT(t != nullptr) failed

tasks   == <<undo, doing, item>>
workers == <<idle, threads, pc>>
client  == <<is_ready, mpc, thread_vec, inits>>
history == <<tstat, called, asserted>>
vars    == <<tasks, workers, client, stop_flag, loop_queue, posted, history>>

Tasks  == 1..MaxTasks
Levels == 0..(2 * PrioMax)

TypeOK ==
  /\ is_ready \in BOOLEAN /\ stop_flag \in BOOLEAN /\ asserted \in BOOLEAN
  /\ undo \in [Levels -> Seq(Tasks)]
  /\ doing \subseteq Tasks /\ called \subseteq Tasks
  /\ idle \in Nat
  /\ threads \subseteq Workers /\ thread_vec \subseteq Workers
  /\ pc \in [Workers -> {"none", "top", "pred", "blocked", "woken", "got", "doing", "ran",
                         "erase", "leaving", "exited"}]
  /\ item \in [Workers -> Tasks \cup {NoTask}]
  /\ mpc \in {"idle", "notify", "ready", "stop", "notify_all", "join"}
  /\ loop_queue \in Seq(({"main_cb"} \X Tasks) \cup ({"join"} \X Workers))
  /\ posted \in 0..MaxTasks /\ inits \in 0..MaxInit
  /\ tstat \in [Tasks -> {"none", "waiting", "claimed", "executing", "executed",
                          "cancelled", "dropped"}]

Init ==
  /\ is_ready = FALSE /\ stop_flag = FALSE
  /\ undo = [l \in Levels |-> <<>>] /\ doing = {} /\ item = [w \in Workers |-> NoTask]
  /\ idle = 0 /\ threads = {} /\ pc = [w \in Workers |-> "none"]
  /\ mpc = "idle" /\ thread_vec = {} /\ loop_queue = <<>>
  /\ posted = 0 /\ inits = 0
  /\ tstat = [t \in Tasks |-> "none"]
  /\ called = {} /\ asserted = FALSE

-----------------------------------------------------------------------------
LockFree == \A w \in Workers : pc[w] # "pred"

Waiting == UNION {Range(undo[l]) : l \in Levels}
UndoSize == Cardinality(Waiting)    \* undo_tasks_cabinet.size()

\* createWorker() for every worker of W, which must be unused.
CreateWorkers(W) ==
  /\ \A w \in W : pc[w] = "none"
  /\ threads' = threads \cup W
  /\ pc' = [w \in Workers |-> IF w \in W THEN "top" ELSE pc[w]]

-----------------------------------------------------------------------------
(* The client, on the thread of the main loop.                             *)

\* initialize(), the critical section: the resident workers are created.
initialize ==
  /\ mpc = "idle" /\ ~is_ready /\ inits < MaxInit /\ LockFree
  /\ \E W \in SUBSET Workers : Cardinality(W) = MinNum /\ CreateWorkers(W)
  /\ inits' = inits + 1
  /\ mpc' = "ready"
  /\ UNCHANGED <<tasks, idle, is_ready, thread_vec, stop_flag, loop_queue, posted, history>>

\* initialize(), the rest: only now the stop flag of an earlier cleanup() is taken back.
initializeReady ==
  /\ mpc = "ready"
  /\ stop_flag' = FALSE
  /\ is_ready' = TRUE
  /\ mpc' = "idle"
  /\ UNCHANGED <<tasks, workers, thread_vec, inits, loop_queue, posted, history>>

\* The level of a priority: out of range means the nearest end.
Level(prio) ==
  PrioMax + (IF prio < -PrioMax THEN -PrioMax ELSE IF prio > PrioMax THEN PrioMax ELSE prio)

\* Mutant: the limit on threads is off by one.
executeOffByOne(prio) ==
  LET t == posted + 1
      need == UndoSize + 1 > idle /\ Cardinality(threads) <= MaxNum
  IN /\ mpc = "idle" /\ is_ready /\ posted < MaxTasks /\ LockFree
     /\ posted' = t
     /\ undo' = [undo EXCEPT ![Level(prio)] = Append(@, t)]
     /\ tstat' = [tstat EXCEPT ![t] = "waiting"]
     /\ IF need THEN \E w \in Workers : CreateWorkers({w}) ELSE UNCHANGED <<threads, pc>>
     /\ mpc' = "notify"
     /\ UNCHANGED <<doing, item, idle, is_ready, thread_vec, inits, stop_flag, loop_queue,
                    called, asserted>>

\* execute(), the critical section: the task waits, and a worker is created if the idle
\* ones are too few and the limit allows.
execute(prio) ==
  LET t == posted + 1
      level == Level(prio)
      need == UndoSize + 1 > idle /\ Cardinality(threads) < MaxNum
  IN /\ mpc = "idle" /\ is_ready /\ posted < MaxTasks /\ LockFree
     /\ posted' = t
     /\ undo' = [undo EXCEPT ![level] = Append(@, t)]
     /\ tstat' = [tstat EXCEPT ![t] = "waiting"]
     /\ IF need THEN \E w \in Workers : CreateWorkers({w}) ELSE UNCHANGED <<threads, pc>>
     /\ mpc' = "notify"
     /\ UNCHANGED <<doing, item, idle, is_ready, thread_vec, inits, stop_flag, loop_queue,
                    called, asserted>>

\* Mutant: nobody is notified.
executeNotifyNobody ==
  /\ mpc = "notify"
  /\ mpc' = "idle"
  /\ UNCHANGED <<tasks, workers, is_ready, thread_vec, inits, stop_flag, loop_queue,
                 posted, history>>

\* execute(), the rest: notify_one() wakes one of the sleeping workers, if any.
executeNotify ==
  /\ mpc = "notify"
  /\ IF \E w \in Workers : pc[w] = "blocked"
     THEN \E w \in Workers : pc[w] = "blocked" /\ pc' = [pc EXCEPT ![w] = "woken"]
     ELSE UNCHANGED pc
  /\ mpc' = "idle"
  /\ UNCHANGED <<tasks, idle, threads, is_ready, thread_vec, inits, stop_flag, loop_queue,
                 posted, history>>

\* What cancel() returns: 2 for a task in doing_tasks_token, 0 for one that waits, else 1.
cancelResult(t) == IF t \in doing THEN 2 ELSE IF t \in Waiting THEN 0 ELSE 1

\* Mutant: the token stays in the queue of its level.
cancelKeepsToken(t) ==
  /\ mpc = "idle" /\ t <= posted /\ LockFree
  /\ cancelResult(t) = 0
  /\ tstat' = [tstat EXCEPT ![t] = "cancelled"]
  /\ UNCHANGED <<tasks, workers, client, stop_flag, loop_queue, posted, called, asserted>>

\* cancel(): only with result 0 anything changes.  The token is erased where it is first
\* found, which is the only place, see OnePlace.
cancel(t) ==
  /\ mpc = "idle" /\ t <= posted /\ LockFree
  /\ cancelResult(t) = 0
  /\ \E l \in Levels : \E k \in 1..Len(undo[l]) :
       undo[l][k] = t /\ undo' = [undo EXCEPT ![l] = RemoveAt(@, k)]
  /\ tstat' = [tstat EXCEPT ![t] = "cancelled"]
  /\ UNCHANGED <<doing, item, workers, client, stop_flag, loop_queue, posted, called,
                 asserted>>

\* cleanup(), the critical section: waiting tasks are dropped, the cabinet is emptied.
cleanup ==
  /\ mpc = "idle" /\ is_ready /\ LockFree
  /\ undo' = [l \in Levels |-> <<>>]
  /\ tstat' = [t \in Tasks |-> IF t \in Waiting THEN "dropped" ELSE tstat[t]]
  /\ thread_vec' = threads
  /\ threads' = {}
  /\ mpc' = "stop"
  /\ UNCHANGED <<doing, item, idle, pc, is_ready, inits, stop_flag, loop_queue, posted,
                 called, asserted>>

cleanupStop ==
  /\ mpc = "stop"
  /\ stop_flag' = TRUE
  /\ mpc' = "notify_all"
  /\ UNCHANGED <<tasks, workers, is_ready, thread_vec, inits, loop_queue, posted, history>>

cleanupNotify ==
  /\ mpc = "notify_all"
  /\ pc' = [w \in Workers |-> IF pc[w] = "blocked" THEN "woken" ELSE pc[w]]
  /\ mpc' = "join"
  /\ UNCHANGED <<tasks, idle, threads, is_ready, thread_vec, inits, stop_flag, loop_queue,
                 posted, history>>

\* The joins return when all workers have exited.
cleanupJoin ==
  /\ mpc = "join"
  /\ \A w \in thread_vec : pc[w] = "exited"
  /\ pc' = [w \in Workers |-> IF w \in thread_vec THEN "none" ELSE pc[w]]
  /\ thread_vec' = {}
  /\ is_ready' = FALSE
  /\ mpc' = "idle"
  /\ UNCHANGED <<tasks, idle, threads, inits, stop_flag, loop_queue, posted, history>>

\* The main loop calls what the workers posted: a main_cb, or the join of a worker.
mainLoop ==
  /\ mpc = "idle" /\ loop_queue # <<>>
  /\ loop_queue' = Tail(loop_queue)
  /\ \/ /\ Head(loop_queue)[1] = "main_cb"
        /\ called' = called \cup {Head(loop_queue)[2]}
        /\ UNCHANGED pc
     \/ /\ Head(loop_queue)[1] = "join"
        /\ pc' = [pc EXCEPT ![Head(loop_queue)[2]] = "none"]
        /\ UNCHANGED called
  /\ UNCHANGED <<tasks, idle, threads, client, stop_flag, posted, tstat, asserted>>

-----------------------------------------------------------------------------
(* A worker thread: threadProc().                                          *)

\* shouldThreadExitWaiting()
ShouldExitWaiting == stop_flag \/ Waiting # {}

\* popOneTask(): the oldest task of the first level that has one.
First == CHOOSE l \in Levels : undo[l] # <<>> /\ \A k \in Levels : k < l => undo[k] = <<>>

\* After the wait, still in the critical section: exit, or take a task.
leaveWait(w) ==
  \/ /\ stop_flag
     /\ pc' = [pc EXCEPT ![w] = "exited"]
     /\ UNCHANGED <<undo, item, tstat>>
  \/ /\ ~stop_flag
     /\ item' = [item EXCEPT ![w] = Head(undo[First])]
     /\ undo' = [undo EXCEPT ![First] = Tail(@)]
     /\ tstat' = [tstat EXCEPT ![Head(undo[First])] = "claimed"]
     /\ pc' = [pc EXCEPT ![w] = "got"]

\* The critical section: leave if there are enough idle workers and more than the
\* resident ones, else wait for a task.
enter(w) ==
  /\ pc[w] = "top" /\ LockFree
  /\ \/ /\ idle >= UndoSize /\ Cardinality(threads) > MinNum
        /\ pc' = [pc EXCEPT ![w] = "leaving"]
        /\ UNCHANGED <<idle, undo, item, tstat>>
     \/ /\ ~(idle >= UndoSize /\ Cardinality(threads) > MinNum)
        /\ ShouldExitWaiting
        /\ leaveWait(w)
        /\ UNCHANGED idle
     \/ /\ ~(idle >= UndoSize /\ Cardinality(threads) > MinNum)
        /\ ~ShouldExitWaiting
        /\ idle' = idle + 1
        /\ pc' = [pc EXCEPT ![w] = "pred"]
        /\ UNCHANGED <<undo, item, tstat>>
  /\ UNCHANGED <<doing, threads, client, stop_flag, loop_queue, posted, called, asserted>>

\* The condition was false: the worker releases the lock and sleeps.
sleep(w) ==
  /\ pc[w] = "pred"
  /\ pc' = [pc EXCEPT ![w] = "blocked"]
  /\ UNCHANGED <<tasks, idle, threads, client, stop_flag, loop_queue, posted, history>>

\* A sleeping worker may wake up without a notification.
spurious(w) ==
  /\ pc[w] = "blocked"
  /\ pc' = [pc EXCEPT ![w] = "woken"]
  /\ UNCHANGED <<tasks, idle, threads, client, stop_flag, loop_queue, posted, history>>

\* Mutant: a worker that is told to stop is still counted as waiting.
wakeStopUncounted(w) ==
  /\ pc[w] = "woken" /\ LockFree
  /\ \/ /\ ShouldExitWaiting
        /\ leaveWait(w)
        /\ idle' = IF stop_flag THEN idle ELSE idle - 1
     \/ /\ ~ShouldExitWaiting
        /\ pc' = [pc EXCEPT ![w] = "pred"]
        /\ UNCHANGED <<idle, undo, item, tstat>>
  /\ UNCHANGED <<doing, threads, client, stop_flag, loop_queue, posted, called, asserted>>

\* A woken worker has the lock again and looks at the condition.
wake(w) ==
  /\ pc[w] = "woken" /\ LockFree
  /\ \/ /\ ShouldExitWaiting
        /\ leaveWait(w)
        /\ idle' = idle - 1
     \/ /\ ~ShouldExitWaiting
        /\ pc' = [pc EXCEPT ![w] = "pred"]
        /\ UNCHANGED <<idle, undo, item, tstat>>
  /\ UNCHANGED <<doing, threads, client, stop_flag, loop_queue, posted, called, asserted>>

\* Mutant: main_cb is posted before the task runs.
beginPosts(w) ==
  /\ pc[w] = "got" /\ LockFree
  /\ doing' = doing \cup {item[w]}
  /\ tstat' = [tstat EXCEPT ![item[w]] = "executing"]
  /\ loop_queue' = Append(loop_queue, <<"main_cb", item[w]>>)
  /\ pc' = [pc EXCEPT ![w] = "doing"]
  /\ UNCHANGED <<undo, item, idle, threads, client, stop_flag, posted, called, asserted>>

\* The task is entered in doing_tasks_token, in a critical section of its own.
begin(w) ==
  /\ pc[w] = "got" /\ LockFree
  /\ doing' = doing \cup {item[w]}
  /\ tstat' = [tstat EXCEPT ![item[w]] = "executing"]
  /\ pc' = [pc EXCEPT ![w] = "doing"]
  /\ UNCHANGED <<undo, item, idle, threads, client, stop_flag, loop_queue, posted, called,
                 asserted>>

\* backend_task() returns.
backendTask(w) ==
  /\ pc[w] = "doing"
  /\ tstat' = [tstat EXCEPT ![item[w]] = "executed"]
  /\ pc' = [pc EXCEPT ![w] = "ran"]
  /\ UNCHANGED <<tasks, idle, threads, client, stop_flag, loop_queue, posted, called,
                 asserted>>

\* Mutant: a pool that is stopping does not report the task it just ran.
postMainCbNotStopping(w) ==
  /\ pc[w] = "ran"
  /\ loop_queue' = IF item[w] \in HasMainCb /\ ~stop_flag
                   THEN Append(loop_queue, <<"main_cb", item[w]>>) ELSE loop_queue
  /\ pc' = [pc EXCEPT ![w] = "erase"]
  /\ UNCHANGED <<tasks, idle, threads, client, stop_flag, posted, history>>

\* runInLoop(main_cb), if there is one.
postMainCb(w) ==
  /\ pc[w] = "ran"
  /\ loop_queue' = IF item[w] \in HasMainCb THEN Append(loop_queue, <<"main_cb", item[w]>>)
                   ELSE loop_queue
  /\ pc' = [pc EXCEPT ![w] = "erase"]
  /\ UNCHANGED <<tasks, idle, threads, client, stop_flag, posted, history>>

finish(w) ==
  /\ pc[w] = "erase" /\ LockFree
  /\ doing' = doing \ {item[w]}
  /\ item' = [item EXCEPT ![w] = NoTask]
  /\ pc' = [pc EXCEPT ![w] = "top"]
  /\ UNCHANGED <<undo, idle, threads, client, stop_flag, loop_queue, posted, history>>

\* let_main_loop_join_me: a second critical section, in which cleanup() may already have
\* emptied the cabinet.
leave(w) ==
  /\ pc[w] = "leaving" /\ LockFree
  /\ pc' = [pc EXCEPT ![w] = "exited"]
  /\ threads' = threads \ {w}
  /\ \/ /\ w \in threads
        /\ loop_queue' = Append(loop_queue, <<"join", w>>)
        /\ UNCHANGED asserted
     \/ /\ w \notin threads
        /\ asserted' = TRUE
        /\ UNCHANGED loop_queue
  /\ UNCHANGED <<tasks, idle, client, stop_flag, posted, tstat, called>>

-----------------------------------------------------------------------------
Worker(w) == \/ enter(w) \/ sleep(w) \/ wake(w) \/ begin(w) \/ backendTask(w)
             \/ postMainCb(w) \/ finish(w) \/ leave(w)
Client == \/ initialize \/ (\E p \in Prios : execute(p)) \/ (\E t \in Tasks : cancel(t))
          \/ cleanup
Continue == \/ initializeReady \/ executeNotify \/ cleanupStop \/ cleanupNotify
            \/ cleanupJoin \/ mainLoop
\* A failed assertion ends the process.
Next == ~asserted /\ (Client \/ Continue \/ \E w \in Workers : Worker(w) \/ spurious(w))

\* The scheduler runs every thread, the mutex starves none (strong fairness: a thread can
\* find it taken now and then), and tasks return; the client finishes what it began
\* and its loop runs; a wake-up without notification may never happen.
Fairness == /\ WF_vars(~asserted /\ Continue)
            /\ \A w \in Workers : SF_vars(~asserted /\ Worker(w))

Spec     == Init /\ [][Next]_vars
FairSpec == Spec /\ Fairness

-----------------------------------------------------------------------------
(* Properties.                                                             *)

\* idle_thread_num counts the workers that wait, whether asleep, about to sleep or on
\* their way out of the wait: execute() and threadProc() size the pool by it.
IdleCount == idle = Cardinality({w \in Workers : pc[w] \in {"pred", "blocked", "woken"}})

\* A task is in exactly one place: a waiting one at one place of one level, a claimed or
\* running one in the hands of one worker, a settled one nowhere; so none runs twice, or
\* after it was cancelled or dropped.
OnePlace ==
  /\ \A l, m \in Levels : \A i \in 1..Len(undo[l]), j \in 1..Len(undo[m]) :
       undo[l][i] = undo[m][j] => l = m /\ i = j
  /\ \A t \in Tasks : tstat[t] = "waiting" <=> t \in Waiting
  /\ \A t \in Tasks : tstat[t] \in {"claimed", "executing"} => \E w \in Workers : item[w] = t
  /\ \A v, w \in Workers : item[v] # NoTask /\ item[v] = item[w] => v = w
  /\ \A w \in Workers : item[w] # NoTask =>
       tstat[item[w]] \in {"claimed", "executing", "executed"}

\* main_cb is called only for a task that was executed, and at most once: what the workers
\* posted to the loop, joins included, is there once.
MainCbOnce ==
  /\ \A j, k \in 1..Len(loop_queue) : loop_queue[j] = loop_queue[k] => j = k
  /\ \A k \in 1..Len(loop_queue) : loop_queue[k][1] = "main_cb" =>
       tstat[loop_queue[k][2]] = "executed" /\ loop_queue[k][2] \notin called
  /\ \A t \in called : tstat[t] = "executed"

\* No more than max_thread_num workers can take tasks at a time.
AtMostMax == Cardinality({w \in Workers : pc[w] \notin {"none", "leaving", "exited"}}) <= MaxNum

\* Every task given to execute() is executed, cancelled, or dropped by cleanup().
TaskSettled ==
  \A t \in Tasks : tstat[t] = "waiting" ~> tstat[t] \in {"executed", "cancelled", "dropped"}

\* The main_cb of an executed task is called, unless the client never gets back to its
\* loop because cleanup() does not return.
MainCbCalled == \A t \in HasMainCb : tstat[t] = "executed" ~> (t \in called \/ [](mpc = "join"))

\* cleanup() waits for the workers to end, and returns.
CleanupEnds == mpc = "join" ~> mpc = "idle"
=============================================================================
