--------------------------- MODULE ThreadPoolProofs ---------------------------
(***************************************************************************)
(* Proofs about eventx::ThreadPool, for any limits on its workers, any     *)
(* priorities and any number of tasks and of lives of the pool.            *)
(***************************************************************************)
EXTENDS ThreadPool, FiniteSetTheorems, TLAPS

InWait == {"pred", "blocked", "woken"}
Gone   == {"none", "leaving", "exited"}
Stop   == {"stop", "notify_all", "join"}
Waiters == {w \in Workers : pc[w] \in InWait}

\* Which workers are registered where: outside cleanup() in threads_cabinet, during it in
\* the vector of threads to join; one that can take tasks is registered.
Registered ==
  /\ mpc \in Stop => threads = {}
  /\ mpc \notin Stop => thread_vec = {}
  /\ mpc \in Stop \cup {"notify"} => is_ready
  /\ mpc = "idle" /\ ~is_ready => threads = {}
  /\ \A w \in Workers : pc[w] \notin Gone => w \in threads \cup thread_vec
  /\ Cardinality(threads) <= MaxNum /\ Cardinality(thread_vec) <= MaxNum

\* A worker the main loop is asked to join has ended, and is registered nowhere.
Joins ==
  \A k \in 1..Len(loop_queue) : loop_queue[k][1] = "join" =>
    pc[loop_queue[k][2]] = "exited" /\ loop_queue[k][2] \notin threads \cup thread_vec

\* What a worker holds at each place of threadProc(), and what is known of it: while main_cb
\* is not posted yet it is neither in the loop's queue nor called.
Holding == {"got", "doing", "ran", "erase"}
StageOf(w) ==
  /\ pc[w] \in Holding <=> item[w] # NoTask
  /\ pc[w] = "got" => tstat[item[w]] = "claimed"
  /\ pc[w] = "doing" => tstat[item[w]] = "executing"
  /\ pc[w] \in {"ran", "erase"} => tstat[item[w]] = "executed"
  /\ pc[w] = "ran" =>
       /\ item[w] \notin called
       /\ \A k \in 1..Len(loop_queue) : loop_queue[k] # <<"main_cb", item[w]>>
Stages ==
  /\ \A w \in Workers : StageOf(w)
  /\ \A t \in Tasks : t > posted => tstat[t] = "none"

-----------------------------------------------------------------------------
(* Types.                                                                  *)

\* Any set of natural numbers that is not empty has a least element.
LEMMA LeastNat ==
  ASSUME NEW T, T \subseteq Nat, T # {}
  PROVE  \E x \in T : \A y \in T : ~(y < x)
<1>1. PICK x \in T : \A y \in T : ~(<<y, x>> \in OpToRel(<, Nat))
  BY NatLessThanWellFounded, WFMin
<1> QED
  BY <1>1 DEF OpToRel

\* A task waits if it is at some place of some level.
LEMMA WaitingIs ==
  ASSUME TypeOK
  PROVE  \A t : t \in Waiting <=> \E l \in Levels : \E k \in 1..Len(undo[l]) : undo[l][k] = t
<1>1. \A l \in Levels : undo[l] \in Seq(Tasks)
  BY DEF TypeOK
<1>2. ASSUME NEW l \in Levels, NEW t
      PROVE  t \in Range(undo[l]) <=> \E k \in 1..Len(undo[l]) : undo[l][k] = t
  <2>1. DOMAIN undo[l] = 1..Len(undo[l])
    BY <1>1
  <2> QED
    BY <2>1 DEF Range
<1>3. \A t : t \in Waiting <=> \E l \in Levels : t \in Range(undo[l])
  BY Zenon DEF Waiting
<1> QED
  BY <1>2, <1>3, Zenon

\* popOneTask() finds a task if one waits.
LEMMA FirstLevel ==
  ASSUME TypeOK, Waiting # {}
  PROVE  First \in Levels /\ undo[First] # <<>>
<1> DEFINE T == {l \in Levels : undo[l] # <<>>}
<1>1. T # {}
  <2>1. PICK t : t \in Waiting
    OBVIOUS
  <2>2. PICK l \in Levels : \E k \in 1..Len(undo[l]) : undo[l][k] = t
    BY <2>1, WaitingIs
  <2>3. undo[l] # <<>>
    BY <2>2
  <2> QED
    BY <2>3
<1>2. T \subseteq Nat
  BY ConfigAssumption DEF Levels
<1>3. PICK l \in T : \A k \in T : ~(k < l)
  BY <1>1, <1>2, LeastNat
<1>4. l \in Levels /\ undo[l] # <<>> /\ \A k \in Levels : k < l => undo[k] = <<>>
  BY <1>3
<1> QED
  BY <1>4 DEF First

\* A priority has a level.
LEMMA LevelType == \A p \in Prios : Level(p) \in Levels
<1> SUFFICES ASSUME NEW p \in Prios PROVE Level(p) \in Levels
  OBVIOUS
<1>1. p \in Int /\ PrioMax \in Nat
  BY ConfigAssumption
<1> QED
  BY <1>1 DEF Level, Levels

\* The set of waiting workers is finite, so it can be counted.
LEMMA WaitersFinite == IsFiniteSet(Waiters) /\ Cardinality(Waiters) \in Nat
<1>1. Waiters \in SUBSET Workers
  BY DEF Waiters
<1> QED
  BY <1>1, BoundAssumption, FS_Subset, FS_CardinalityType

\* What a worker takes out of the wait.
LEMMA LeaveWait ==
  ASSUME TypeOK, NEW w \in Workers, ShouldExitWaiting, leaveWait(w)
  PROVE  \/ /\ stop_flag /\ pc' = [pc EXCEPT ![w] = "exited"]
            /\ UNCHANGED <<undo, item, tstat>>
         \/ \E l \in Levels :
              /\ undo[l] # <<>> /\ Head(undo[l]) \in Tasks
              /\ item' = [item EXCEPT ![w] = Head(undo[l])]
              /\ undo' = [undo EXCEPT ![l] = Tail(undo[l])]
              /\ tstat' = [tstat EXCEPT ![Head(undo[l])] = "claimed"]
              /\ pc' = [pc EXCEPT ![w] = "got"]
<1>1. CASE stop_flag
  BY <1>1 DEF leaveWait
<1>2. CASE ~stop_flag
  <2>1. First \in Levels /\ undo[First] # <<>>
    BY <1>2, FirstLevel DEF ShouldExitWaiting
  <2>2. undo[First] \in Seq(Tasks)
    BY <2>1 DEF TypeOK
  <2>3. Head(undo[First]) \in Tasks
    BY <2>1, <2>2
  <2>4. /\ item' = [item EXCEPT ![w] = Head(undo[First])]
        /\ undo' = [undo EXCEPT ![First] = Tail(undo[First])]
        /\ tstat' = [tstat EXCEPT ![Head(undo[First])] = "claimed"]
        /\ pc' = [pc EXCEPT ![w] = "got"]
    BY <1>2 DEF leaveWait
  <2> QED
    BY <2>1, <2>3, <2>4
<1> QED
  BY <1>1, <1>2

PcNames == {"none", "top", "pred", "blocked", "woken", "got", "doing", "ran", "erase",
            "leaving", "exited"}
StatNames == {"none", "waiting", "claimed", "executing", "executed", "cancelled", "dropped"}
Entries == ({"main_cb"} \X Tasks) \cup ({"join"} \X Workers)

\* The parts of the type that the wait can change.
LEMMA LeaveWaitType ==
  ASSUME TypeOK, NEW w \in Workers, ShouldExitWaiting, leaveWait(w)
  PROVE  /\ pc' \in [Workers -> PcNames] /\ undo' \in [Levels -> Seq(Tasks)]
         /\ item' \in [Workers -> Tasks \cup {NoTask}] /\ tstat' \in [Tasks -> StatNames]
<1>a. /\ pc \in [Workers -> PcNames] /\ undo \in [Levels -> Seq(Tasks)]
      /\ item \in [Workers -> Tasks \cup {NoTask}] /\ tstat \in [Tasks -> StatNames]
  BY DEF TypeOK, PcNames, StatNames
<1>1. CASE pc' = [pc EXCEPT ![w] = "exited"] /\ UNCHANGED <<undo, item, tstat>>
  BY <1>a, <1>1 DEF PcNames
<1>2. ASSUME NEW l \in Levels, undo[l] # <<>>, Head(undo[l]) \in Tasks,
             item' = [item EXCEPT ![w] = Head(undo[l])],
             undo' = [undo EXCEPT ![l] = Tail(undo[l])],
             tstat' = [tstat EXCEPT ![Head(undo[l])] = "claimed"],
             pc' = [pc EXCEPT ![w] = "got"]
      PROVE  /\ pc' \in [Workers -> PcNames] /\ undo' \in [Levels -> Seq(Tasks)]
             /\ item' \in [Workers -> Tasks \cup {NoTask}] /\ tstat' \in [Tasks -> StatNames]
  <2>1. undo[l] \in Seq(Tasks)
    BY <1>a
  <2>2. Tail(undo[l]) \in Seq(Tasks)
    BY <1>2, <2>1
  <2>3. undo' \in [Levels -> Seq(Tasks)]
    BY <1>a, <1>2, <2>2
  <2>4. pc' \in [Workers -> PcNames] /\ item' \in [Workers -> Tasks \cup {NoTask}]
    BY <1>a, <1>2 DEF PcNames
  <2>5. tstat' \in [Tasks -> StatNames]
    BY <1>a, <1>2 DEF StatNames
  <2> QED
    BY <2>3, <2>4, <2>5
<1> QED
  BY <1>1, <1>2, LeaveWait

\* A worker leaves the wait: there is one to count down.
LEMMA IdlePositive ==
  ASSUME TypeOK, IdleCount, NEW w \in Workers, pc[w] \in InWait
  PROVE  idle - 1 \in Nat
<1>1. w \in Waiters /\ idle = Cardinality(Waiters)
  BY DEF Waiters, IdleCount, InWait
<1>2. Cardinality(Waiters) # 0
  BY <1>1, WaitersFinite, FS_EmptySet
<1> QED
  BY <1>1, <1>2, WaitersFinite

\* A queue of entries stays one.
LEMMA AppendType == ASSUME NEW S, NEW q \in Seq(S), NEW e \in S PROVE Append(q, e) \in Seq(S)
  OBVIOUS

\* No step leaves the types; idle_thread_num, a size_t, never goes below zero.
LEMMA TypeStep ==
  ASSUME TypeOK, IdleCount, Stages, [Next]_vars
  PROVE  TypeOK'
<1> USE DEF TypeOK
<1>t. posted < MaxTasks => posted + 1 \in Tasks /\ posted + 1 \in 0..MaxTasks
  BY BoundAssumption DEF Tasks
<1>1. CASE initialize
  BY <1>1, BoundAssumption
     DEF initialize, CreateWorkers, tasks, history
<1>2. CASE initializeReady
  BY <1>2 DEF initializeReady, tasks, workers, history
<1>3. ASSUME NEW p \in Prios, execute(p) PROVE TypeOK'
  <2>1. Level(p) \in Levels
    BY LevelType
  <2>2. posted + 1 \in Tasks /\ posted' = posted + 1 /\ posted' \in 0..MaxTasks
    BY <1>3, <1>t DEF execute
  <2>3. undo' \in [Levels -> Seq(Tasks)]
    <3>1. undo[Level(p)] \in Seq(Tasks)
      BY <2>1
    <3>2. Append(undo[Level(p)], posted + 1) \in Seq(Tasks)
      BY <2>2, <3>1
    <3>3. undo' = [undo EXCEPT ![Level(p)] = Append(undo[Level(p)], posted + 1)]
      BY <1>3 DEF execute
    <3> QED
      BY <2>1, <3>2, <3>3
  <2>4. tstat' \in [Tasks -> {"none", "waiting", "claimed", "executing", "executed",
                              "cancelled", "dropped"}]
    BY <1>3, <2>2 DEF execute
  <2>5. threads' \subseteq Workers /\ pc' \in [Workers -> PcNames]
    BY <1>3 DEF execute, CreateWorkers, PcNames
  <2>6. /\ mpc' = "notify"
        /\ UNCHANGED <<doing, item, idle, is_ready, thread_vec, inits, stop_flag, loop_queue,
                       called, asserted>>
    BY <1>3 DEF execute
  <2> QED
    BY <2>2, <2>3, <2>4, <2>5, <2>6 DEF PcNames
<1>4. CASE executeNotify
  BY <1>4 DEF executeNotify, tasks, history
<1>5. ASSUME NEW t \in Tasks, cancel(t) PROVE TypeOK'
  <2>1. PICK l \in Levels : \E k \in 1..Len(undo[l]) :
          undo' = [undo EXCEPT ![l] = RemoveAt(undo[l], k)]
    BY <1>5 DEF cancel
  <2>2. PICK k \in 1..Len(undo[l]) : undo' = [undo EXCEPT ![l] = RemoveAt(undo[l], k)]
    BY <2>1
  <2>3. undo[l] \in Seq(Tasks)
    BY <2>1
  <2>4. SubSeq(undo[l], 1, k - 1) \in Seq(Tasks) /\ SubSeq(undo[l], k + 1, Len(undo[l])) \in Seq(Tasks)
    BY <2>2, <2>3
  <2>5. RemoveAt(undo[l], k) \in Seq(Tasks)
    BY <2>4 DEF RemoveAt
  <2>6. undo' \in [Levels -> Seq(Tasks)]
    BY <2>2, <2>5
  <2>7. tstat' \in [Tasks -> {"none", "waiting", "claimed", "executing", "executed",
                              "cancelled", "dropped"}]
    BY <1>5 DEF cancel
  <2> QED
    BY <1>5, <2>6, <2>7 DEF cancel, workers, client
<1>6. CASE cleanup
  <2>1. <<>> \in Seq(Tasks)
    OBVIOUS
  <2> QED
    BY <1>6, <2>1 DEF cleanup
<1>7. CASE cleanupStop
  BY <1>7 DEF cleanupStop, tasks, workers, history
<1>8. CASE cleanupNotify
  BY <1>8 DEF cleanupNotify, tasks, history
<1>9. CASE cleanupJoin
  BY <1>9 DEF cleanupJoin, tasks, history
<1>10. CASE mainLoop
  <2>1. Head(loop_queue) \in Entries /\ Tail(loop_queue) \in Seq(Entries)
    BY <1>10 DEF mainLoop, Entries
  <2>2. called' \subseteq Tasks
    BY <1>10, <2>1 DEF mainLoop, Entries
  <2>3. pc' \in [Workers -> PcNames]
    BY <1>10, <2>1 DEF mainLoop, Entries, PcNames
  <2>4. loop_queue' \in Seq(Entries)
    BY <1>10, <2>1 DEF mainLoop
  <2>5. UNCHANGED <<tasks, idle, threads, client, stop_flag, posted, tstat, asserted>>
    BY <1>10 DEF mainLoop
  <2> QED
    BY <2>2, <2>3, <2>4, <2>5 DEF tasks, client, Entries, PcNames
<1>11. ASSUME NEW w \in Workers, enter(w) PROVE TypeOK'
  <2>1. UNCHANGED <<doing, threads, client, stop_flag, loop_queue, posted, called, asserted>>
    BY <1>11 DEF enter
  <2>2. /\ idle' \in Nat
        /\ pc' \in [Workers -> PcNames] /\ undo' \in [Levels -> Seq(Tasks)]
        /\ item' \in [Workers -> Tasks \cup {NoTask}] /\ tstat' \in [Tasks -> StatNames]
    <3>1. CASE ShouldExitWaiting /\ leaveWait(w) /\ UNCHANGED idle
      BY <3>1, LeaveWaitType
    <3>2. CASE /\ pc' = [pc EXCEPT ![w] = "leaving"] \/ pc' = [pc EXCEPT ![w] = "pred"]
               /\ idle' = idle \/ idle' = idle + 1
               /\ UNCHANGED <<undo, item, tstat>>
      <4>1. pc' \in [Workers -> PcNames]
        BY <3>2 DEF PcNames
      <4> QED
        BY <3>2, <4>1 DEF StatNames
    <3> QED
      BY <1>11, <3>1, <3>2 DEF enter
  <2> QED
    BY <2>1, <2>2 DEF client, PcNames, StatNames
<1>12. ASSUME NEW w \in Workers, sleep(w) \/ spurious(w) PROVE TypeOK'
  BY <1>12 DEF sleep, spurious, tasks, client, history
<1>13. ASSUME NEW w \in Workers, wake(w) PROVE TypeOK'
  <2>1. UNCHANGED <<doing, threads, client, stop_flag, loop_queue, posted, called, asserted>>
    BY <1>13 DEF wake
  <2>2. /\ idle' \in Nat
        /\ pc' \in [Workers -> PcNames] /\ undo' \in [Levels -> Seq(Tasks)]
        /\ item' \in [Workers -> Tasks \cup {NoTask}] /\ tstat' \in [Tasks -> StatNames]
    <3>1. CASE ShouldExitWaiting /\ leaveWait(w) /\ idle' = idle - 1
      <4>1. pc[w] \in InWait
        BY <1>13 DEF wake, InWait
      <4> QED
        BY <3>1, <4>1, LeaveWaitType, IdlePositive
    <3>2. CASE pc' = [pc EXCEPT ![w] = "pred"] /\ UNCHANGED <<idle, undo, item, tstat>>
      <4>1. pc' \in [Workers -> PcNames]
        BY <3>2 DEF PcNames
      <4> QED
        BY <3>2, <4>1 DEF StatNames
    <3> QED
      BY <1>13, <3>1, <3>2 DEF wake
  <2> QED
    BY <2>1, <2>2 DEF client, PcNames, StatNames
<1>14. ASSUME NEW w \in Workers, begin(w) PROVE TypeOK'
  <2>1. item[w] \in Tasks
    BY <1>14 DEF begin, Stages, StageOf, Holding
  <2> QED
    BY <1>14, <2>1 DEF begin, client
<1>15. ASSUME NEW w \in Workers, backendTask(w) PROVE TypeOK'
  <2>1. item[w] \in Tasks
    BY <1>15 DEF backendTask, Stages, StageOf, Holding
  <2> QED
    BY <1>15, <2>1 DEF backendTask, tasks, client
<1>16. ASSUME NEW w \in Workers, postMainCb(w) PROVE TypeOK'
  <2>1. <<"main_cb", item[w]>> \in Entries
    BY <1>16 DEF postMainCb, Stages, StageOf, Holding, Entries
  <2>2. loop_queue' \in Seq(Entries)
    <3>1. loop_queue \in Seq(Entries)
      BY DEF Entries
    <3>2. loop_queue' = loop_queue \/ loop_queue' = Append(loop_queue, <<"main_cb", item[w]>>)
      BY <1>16 DEF postMainCb
    <3>3. Append(loop_queue, <<"main_cb", item[w]>>) \in Seq(Entries)
      BY <2>1, <3>1, AppendType
    <3> QED
      BY <3>1, <3>2, <3>3
  <2> QED
    BY <1>16, <2>2 DEF postMainCb, tasks, client, history, Entries
<1>17. ASSUME NEW w \in Workers, finish(w) PROVE TypeOK'
  BY <1>17 DEF finish, client, history
<1>18. ASSUME NEW w \in Workers, leave(w) PROVE TypeOK'
  <2>1. <<"join", w>> \in Entries
    BY DEF Entries
  <2>2. loop_queue' \in Seq(Entries)
    <3>1. loop_queue \in Seq(Entries)
      BY DEF Entries
    <3>2. loop_queue' = loop_queue \/ loop_queue' = Append(loop_queue, <<"join", w>>)
      BY <1>18 DEF leave
    <3>3. Append(loop_queue, <<"join", w>>) \in Seq(Entries)
      BY <2>1, <3>1, AppendType
    <3> QED
      BY <3>1, <3>2, <3>3
  <2> QED
    BY <1>18, <2>2 DEF leave, tasks, client, Entries
<1>19. CASE UNCHANGED vars
  BY <1>19 DEF vars, tasks, workers, client, history
<1> QED
  BY <1>1, <1>2, <1>3, <1>4, <1>5, <1>6, <1>7, <1>8, <1>9, <1>10, <1>11, <1>12, <1>13,
     <1>14, <1>15, <1>16, <1>17, <1>18, <1>19
     DEF Next, Client, Continue, Worker

-----------------------------------------------------------------------------
(* The count of idle workers.                                              *)

\* A step that moves no worker into or out of the wait keeps the count.
LEMMA SameWaiters ==
  ASSUME IdleCount, idle' = idle,
         \A w \in Workers : pc'[w] \in InWait <=> pc[w] \in InWait
  PROVE  IdleCount'
<1>1. {w \in Workers : pc'[w] \in InWait} = {w \in Workers : pc[w] \in InWait}
  OBVIOUS
<1> QED
  BY <1>1 DEF IdleCount, InWait

\* The worker at the head of the main loop's queue has ended.
LEMMA HeadJoins ==
  ASSUME TypeOK, Joins, loop_queue # <<>>, Head(loop_queue)[1] = "join"
  PROVE  /\ Head(loop_queue)[2] \in Workers
         /\ pc[Head(loop_queue)[2]] = "exited"
         /\ Head(loop_queue)[2] \notin threads \cup thread_vec
<1>1. loop_queue \in Seq(Entries)
  BY DEF TypeOK, Entries
<1>2. Head(loop_queue) = loop_queue[1] /\ 1 \in 1..Len(loop_queue) /\ Head(loop_queue) \in Entries
  BY <1>1
<1>3. Head(loop_queue)[2] \in Workers
  BY <1>2 DEF Entries
<1> QED
  BY <1>2, <1>3 DEF Joins

\* Every step keeps idle_thread_num the number of workers in the wait.
LEMMA IdleStep ==
  ASSUME TypeOK, IdleCount, Joins, [Next]_vars
  PROVE  IdleCount'
<1>a. pc \in [Workers -> PcNames] /\ idle \in Nat
  BY DEF TypeOK, PcNames
<1>1. CASE initialize \/ (\E p \in Prios : execute(p))
  <2>1. UNCHANGED idle
    BY <1>1 DEF initialize, execute
  <2>2. \A w \in Workers : pc'[w] \in InWait <=> pc[w] \in InWait
    BY <1>1 DEF initialize, execute, CreateWorkers, InWait
  <2> QED
    BY <2>1, <2>2, SameWaiters
<1>2. CASE \/ initializeReady \/ (\E t \in Tasks : cancel(t)) \/ cleanup \/ cleanupStop
           \/ UNCHANGED vars
  BY <1>2, SameWaiters
     DEF initializeReady, cancel, cleanup, cleanupStop, vars, workers
<1>3. CASE executeNotify \/ cleanupNotify \/ cleanupJoin
  <2>1. UNCHANGED idle
    BY <1>3 DEF executeNotify, cleanupNotify, cleanupJoin
  <2>2. CASE executeNotify
    <3>1. \A w \in Workers : pc'[w] \in InWait <=> pc[w] \in InWait
      BY <1>a, <2>2 DEF executeNotify, InWait
    <3> QED
      BY <2>1, <3>1, SameWaiters
  <2>3. CASE cleanupNotify
    <3>1. \A w \in Workers : pc'[w] \in InWait <=> pc[w] \in InWait
      BY <1>a, <2>3 DEF cleanupNotify, InWait
    <3> QED
      BY <2>1, <3>1, SameWaiters
  <2>4. CASE cleanupJoin
    <3>1. \A w \in Workers : pc'[w] \in InWait <=> pc[w] \in InWait
      BY <1>a, <2>4 DEF cleanupJoin, InWait
    <3> QED
      BY <2>1, <3>1, SameWaiters
  <2> QED
    BY <1>3, <2>2, <2>3, <2>4
<1>4. CASE mainLoop
  <2>1. UNCHANGED idle /\ loop_queue # <<>>
    BY <1>4 DEF mainLoop
  <2>2. CASE Head(loop_queue)[1] = "join" /\ pc' = [pc EXCEPT ![Head(loop_queue)[2]] = "none"]
    <3>1. \A w \in Workers : pc'[w] \in InWait <=> pc[w] \in InWait
      BY <1>a, <2>1, <2>2, HeadJoins DEF InWait
    <3> QED
      BY <2>1, <3>1, SameWaiters
  <2>3. CASE pc' = pc
    BY <2>1, <2>3, SameWaiters
  <2> QED
    BY <1>4, <2>2, <2>3 DEF mainLoop
<1>5. ASSUME NEW w \in Workers, pc[w] \notin InWait, pc' = [pc EXCEPT ![w] = "pred"],
             idle' = idle + 1
      PROVE  IdleCount'
  <2>1. {v \in Workers : pc'[v] \in InWait} = Waiters \cup {w} /\ w \notin Waiters
    BY <1>5, <1>a DEF Waiters, InWait
  <2>2. Cardinality(Waiters \cup {w}) = Cardinality(Waiters) + 1
    BY <2>1, WaitersFinite, FS_AddElement
  <2>3. idle = Cardinality(Waiters)
    BY DEF IdleCount, Waiters, InWait
  <2> QED
    BY <1>5, <2>1, <2>2, <2>3 DEF IdleCount, InWait
<1>6. ASSUME NEW w \in Workers, pc[w] \in InWait, NEW to \in PcNames \ InWait,
             pc' = [pc EXCEPT ![w] = to], idle' = idle - 1
      PROVE  IdleCount'
  <2>1. {v \in Workers : pc'[v] \in InWait} = Waiters \ {w} /\ w \in Waiters
    BY <1>6, <1>a DEF Waiters, InWait
  <2>2. Cardinality(Waiters \ {w}) = Cardinality(Waiters) - 1
    BY <2>1, WaitersFinite, FS_RemoveElement
  <2>3. idle = Cardinality(Waiters)
    BY DEF IdleCount, Waiters, InWait
  <2> QED
    BY <1>6, <2>1, <2>2, <2>3 DEF IdleCount, InWait
<1>7. ASSUME NEW w \in Workers, NEW to \in PcNames, pc[w] \in InWait <=> to \in InWait,
             pc' = [pc EXCEPT ![w] = to], idle' = idle
      PROVE  IdleCount'
  <2>1. \A v \in Workers : pc'[v] \in InWait <=> pc[v] \in InWait
    BY <1>7, <1>a
  <2> QED
    BY <1>7, <2>1, SameWaiters
<1>8. ASSUME NEW w \in Workers, ShouldExitWaiting, leaveWait(w)
      PROVE  \E to \in {"exited", "got"} : pc' = [pc EXCEPT ![w] = to]
  BY <1>8, LeaveWait
<1>9. ASSUME NEW w \in Workers, enter(w) PROVE IdleCount'
  <2>1. pc[w] = "top"
    BY <1>9 DEF enter
  <2>2. CASE idle' = idle /\ (\E to \in {"leaving", "exited", "got"} : pc' = [pc EXCEPT ![w] = to])
    <3>1. PICK to \in {"leaving", "exited", "got"} : pc' = [pc EXCEPT ![w] = to]
      BY <2>2
    <3>2. to \in PcNames /\ (pc[w] \in InWait <=> to \in InWait)
      BY <2>1 DEF PcNames, InWait
    <3> QED
      BY <1>7, <2>2, <3>1, <3>2
  <2>3. CASE idle' = idle + 1 /\ pc' = [pc EXCEPT ![w] = "pred"]
    <3>1. pc[w] \notin InWait
      BY <2>1 DEF InWait
    <3> QED
      BY <1>5, <2>3, <3>1
  <2>4. CASE ShouldExitWaiting /\ leaveWait(w) /\ UNCHANGED idle
    BY <1>8, <2>2, <2>4
  <2> QED
    BY <1>9, <2>2, <2>3, <2>4 DEF enter
<1>10. ASSUME NEW w \in Workers, wake(w) PROVE IdleCount'
  <2>1. pc[w] = "woken"
    BY <1>10 DEF wake
  <2>2. CASE ShouldExitWaiting /\ leaveWait(w) /\ idle' = idle - 1
    <3>1. PICK to \in {"exited", "got"} : pc' = [pc EXCEPT ![w] = to]
      BY <1>8, <2>2
    <3>2. to \in PcNames \ InWait /\ pc[w] \in InWait
      BY <2>1 DEF PcNames, InWait
    <3> QED
      BY <1>6, <2>2, <3>1, <3>2
  <2>3. CASE pc' = [pc EXCEPT ![w] = "pred"] /\ UNCHANGED idle
    <3>1. "pred" \in PcNames /\ (pc[w] \in InWait <=> "pred" \in InWait)
      BY <2>1 DEF PcNames, InWait
    <3> QED
      BY <1>7, <2>3, <3>1
  <2> QED
    BY <1>10, <2>2, <2>3 DEF wake
<1>11. ASSUME NEW w \in Workers,
              \/ sleep(w) \/ spurious(w) \/ begin(w) \/ backendTask(w) \/ postMainCb(w)
              \/ finish(w) \/ leave(w)
       PROVE  IdleCount'
  <2>1. UNCHANGED idle
    BY <1>11 DEF sleep, spurious, begin, backendTask, postMainCb, finish, leave
  <2>2. \E to \in PcNames : (pc[w] \in InWait <=> to \in InWait) /\ pc' = [pc EXCEPT ![w] = to]
    BY <1>11 DEF sleep, spurious, begin, backendTask, postMainCb, finish, leave, PcNames, InWait
  <2> QED
    BY <1>7, <2>1, <2>2
<1> QED
  BY <1>1, <1>2, <1>3, <1>4, <1>9, <1>10, <1>11 DEF Next, Client, Continue, Worker

-----------------------------------------------------------------------------
(* Where workers are registered.                                           *)

\* The step of one worker leaves its registration, unless it leaves for good.
LEMMA WorkerPc ==
  ASSUME TypeOK, NEW w \in Workers, Worker(w) \/ spurious(w)
  PROVE  /\ \E to \in PcNames \ {"none"} : pc' = [pc EXCEPT ![w] = to]
         /\ pc[w] \notin {"none", "exited"}
         /\ pc[w] = "leaving" => pc'[w] = "exited"
         /\ UNCHANGED client
         /\ threads' = threads \/ (threads' = threads \ {w} /\ pc[w] = "leaving")
<1>a. pc \in [Workers -> PcNames]
  BY DEF TypeOK, PcNames
<1>1. CASE ShouldExitWaiting /\ leaveWait(w) /\ pc[w] \in {"top", "woken"} /\ UNCHANGED <<client, threads>>
  BY <1>1, <1>a, LeaveWait DEF PcNames
<1>2. CASE enter(w)
  BY <1>1, <1>2, <1>a DEF enter, PcNames
<1>3. CASE wake(w)
  BY <1>1, <1>3, <1>a DEF wake, PcNames
<1>4. CASE leave(w)
  BY <1>4, <1>a DEF leave, PcNames
<1>5. CASE sleep(w) \/ spurious(w) \/ begin(w) \/ backendTask(w) \/ postMainCb(w) \/ finish(w)
  BY <1>5, <1>a DEF sleep, spurious, begin, backendTask, postMainCb, finish, PcNames
<1> QED
  BY <1>2, <1>3, <1>4, <1>5 DEF Worker

\* Creating a worker raises the number of registered ones by at most one.
LEMMA CountCreated ==
  ASSUME NEW S \in SUBSET Workers, NEW w \in Workers, Cardinality(S) < MaxNum
  PROVE  Cardinality(S \cup {w}) <= MaxNum
<1>1. IsFiniteSet(S)
  BY BoundAssumption, FS_Subset
<1>2. Cardinality(S) \in Nat
  BY <1>1, FS_CardinalityType
<1>3. Cardinality(S \cup {w}) = Cardinality(S) \/ Cardinality(S \cup {w}) = Cardinality(S) + 1
  BY <1>1, FS_AddElement
<1> QED
  BY <1>2, <1>3, ConfigAssumption

\* Every step keeps the registration right and within max_thread_num.
LEMMA RegisteredStep ==
  ASSUME TypeOK, Joins, Registered, [Next]_vars
  PROVE  Registered'
<1>a. /\ pc \in [Workers -> PcNames] /\ threads \subseteq Workers /\ thread_vec \subseteq Workers
      /\ is_ready \in BOOLEAN
      /\ mpc \in {"idle", "notify", "ready", "stop", "notify_all", "join"}
  BY DEF TypeOK, PcNames
<1>0. Cardinality({}) = 0 /\ 0 <= MaxNum
  BY FS_EmptySet, ConfigAssumption
<1>1. CASE initialize
  <2>1. threads = {} /\ thread_vec = {}
    BY <1>1 DEF initialize, Registered, Stop
  <2>2. PICK W \in SUBSET Workers : Cardinality(W) = MinNum /\ CreateWorkers(W)
    BY <1>1 DEF initialize
  <2>3. threads' = W /\ Cardinality(threads') <= MaxNum
    BY <2>1, <2>2, ConfigAssumption DEF CreateWorkers
  <2>4. \A w \in Workers : pc'[w] \notin Gone => w \in threads'
    BY <2>1, <2>2, <2>3 DEF CreateWorkers, Registered
  <2>5. mpc' = "ready" /\ thread_vec' = {}
    BY <1>1, <2>1 DEF initialize
  <2> QED
    BY <1>0, <2>3, <2>4, <2>5 DEF Registered, Stop
<1>2. ASSUME NEW p \in Prios, execute(p) PROVE Registered'
  <2>1. thread_vec = {} /\ thread_vec' = {} /\ is_ready /\ is_ready' /\ mpc' = "notify"
    BY <1>2 DEF execute, Registered, Stop
  <2>2. CASE UNCHANGED <<threads, pc>>
    BY <1>0, <2>1, <2>2 DEF Registered, Stop
  <2>3. CASE Cardinality(threads) < MaxNum /\ \E w \in Workers : CreateWorkers({w})
    <3>1. PICK w \in Workers : CreateWorkers({w})
      BY <2>3
    <3>2. threads' = threads \cup {w} /\ Cardinality(threads') <= MaxNum
      BY <1>a, <2>3, <3>1, CountCreated DEF CreateWorkers
    <3>3. \A v \in Workers : pc'[v] \notin Gone => v \in threads'
      BY <2>1, <3>1, <3>2 DEF CreateWorkers, Registered
    <3> QED
      BY <1>0, <2>1, <3>2, <3>3 DEF Registered, Stop
  <2> QED
    BY <1>2, <2>2, <2>3 DEF execute
<1>3. CASE initializeReady
  BY <1>3 DEF initializeReady, workers, Registered, Stop
<1>4. CASE executeNotify \/ cleanupNotify
  <2>1. \A w \in Workers : pc'[w] \notin Gone => pc[w] \notin Gone
    BY <1>4, <1>a DEF executeNotify, cleanupNotify, Gone
  <2>2. UNCHANGED <<threads, thread_vec, is_ready>>
    BY <1>4 DEF executeNotify, cleanupNotify
  <2>3. \/ mpc = "notify" /\ mpc' = "idle"
        \/ mpc = "notify_all" /\ mpc' = "join"
    BY <1>4 DEF executeNotify, cleanupNotify
  <2> QED
    BY <2>1, <2>2, <2>3 DEF Registered, Stop
<1>5. ASSUME NEW t \in Tasks, cancel(t) PROVE Registered'
  BY <1>5 DEF cancel, workers, client, Registered
<1>6. CASE cleanup
  <2>1. /\ thread_vec' = threads /\ threads' = {} /\ mpc = "idle" /\ mpc' = "stop"
        /\ is_ready /\ UNCHANGED <<is_ready, pc>>
    BY <1>6 DEF cleanup
  <2>2. thread_vec = {}
    BY <2>1 DEF Registered, Stop
  <2> QED
    BY <1>0, <2>1, <2>2 DEF Registered, Stop
<1>7. CASE cleanupStop
  BY <1>7 DEF cleanupStop, workers, Registered, Stop
<1>8. CASE cleanupJoin
  <2>1. threads = {} /\ threads' = {} /\ thread_vec' = {} /\ mpc' = "idle"
    BY <1>8 DEF cleanupJoin, Registered, Stop
  <2>2. \A w \in Workers : pc'[w] \in Gone
    BY <1>8, <1>a, <2>1 DEF cleanupJoin, Registered, Gone
  <2> QED
    BY <1>0, <2>1, <2>2 DEF Registered, Stop
<1>9. CASE mainLoop
  <2>1. loop_queue # <<>> /\ UNCHANGED <<threads, client>>
    BY <1>9 DEF mainLoop
  <2>2. \A w \in Workers : pc'[w] \notin Gone => pc[w] \notin Gone
    BY <1>9, <1>a, <2>1, HeadJoins DEF mainLoop, Gone
  <2> QED
    BY <2>1, <2>2 DEF client, Registered
<1>10. ASSUME NEW w \in Workers, Worker(w) \/ spurious(w) PROVE Registered'
  <2>1. PICK to \in PcNames \ {"none"} : pc' = [pc EXCEPT ![w] = to]
    BY <1>10, WorkerPc
  <2>2. /\ pc[w] \notin {"none", "exited"} /\ UNCHANGED <<is_ready, mpc, thread_vec>>
        /\ pc[w] = "leaving" => to = "exited"
        /\ threads' = threads \/ (threads' = threads \ {w} /\ pc[w] = "leaving")
    BY <1>10, <1>a, <2>1, WorkerPc DEF client
  <2>3. \A v \in Workers : pc'[v] \notin Gone => v \in threads' \cup thread_vec'
    BY <1>a, <2>1, <2>2 DEF Registered, Gone
  <2>4. Cardinality(threads') <= MaxNum
    <3>1. IsFiniteSet(threads)
      BY <1>a, BoundAssumption, FS_Subset
    <3>2. threads' \in SUBSET threads
      BY <2>2
    <3>3. Cardinality(threads') <= Cardinality(threads) /\ IsFiniteSet(threads')
      BY <3>1, <3>2, FS_Subset
    <3>4. Cardinality(threads) \in Nat /\ Cardinality(threads') \in Nat
      BY <3>1, <3>3, FS_CardinalityType
    <3>5. Cardinality(threads) <= MaxNum
      BY DEF Registered
    <3> QED
      BY <3>3, <3>4, <3>5, ConfigAssumption
  <2> QED
    BY <2>2, <2>3, <2>4 DEF Registered
<1>11. CASE UNCHANGED vars
  BY <1>11 DEF vars, workers, client, Registered
<1> QED
  BY <1>1, <1>2, <1>3, <1>4, <1>5, <1>6, <1>7, <1>8, <1>9, <1>10, <1>11
     DEF Next, Client, Continue

-----------------------------------------------------------------------------
(* What the workers posted to the main loop.                               *)

\* The places of a sequence that grows at its end.
LEMMA AppendPlaces ==
  ASSUME NEW S, NEW q \in Seq(S), NEW e \in S, NEW r, r = Append(q, e)
  PROVE  /\ Len(r) = Len(q) + 1 /\ Len(q) \in Nat
         /\ \A k \in 1..Len(r) : (k \in 1..Len(q) /\ r[k] = q[k]) \/ (k = Len(q) + 1 /\ r[k] = e)
         /\ \A k \in 1..Len(q) : k \in 1..Len(r) /\ r[k] = q[k]
         /\ Len(q) + 1 \in 1..Len(r) /\ r[Len(q) + 1] = e
  OBVIOUS

\* The places of a sequence that loses its head.
LEMMA TailPlaces ==
  ASSUME NEW S, NEW q \in Seq(S), q # <<>>, NEW r, r = Tail(q)
  PROVE  /\ Len(r) = Len(q) - 1 /\ Len(q) \in Nat
         /\ \A k \in 1..Len(r) : k + 1 \in 1..Len(q) /\ r[k] = q[k + 1] /\ k + 1 # 1
         /\ \A k \in 1..Len(q) : k = 1 \/ (k - 1 \in 1..Len(r) /\ r[k - 1] = q[k])
         /\ 1 \in 1..Len(q) /\ Head(q) = q[1] /\ q[1] \in S
  OBVIOUS

\* The queue has the type of its entries.
LEMMA QueueType ==
  ASSUME TypeOK
  PROVE  /\ loop_queue \in Seq(Entries) /\ Len(loop_queue) \in Nat
         /\ \A k \in 1..Len(loop_queue) : loop_queue[k] \in Entries
<1>1. loop_queue \in Seq(Entries)
  BY DEF TypeOK, Entries
<1> QED
  BY <1>1

\* What an entry is.
LEMMA EntryIs ==
  ASSUME NEW e \in Entries
  PROVE  /\ e[1] = "join" => e[2] \in Workers /\ e = <<"join", e[2]>>
         /\ e[1] = "main_cb" => e[2] \in Tasks /\ e = <<"main_cb", e[2]>>
         /\ e[1] \in {"join", "main_cb"}
  BY DEF Entries

\* If the queue is the same and ended unregistered workers stay so, the joins are right.
LEMMA SameJoins ==
  ASSUME TypeOK, Joins, UNCHANGED loop_queue,
         \A v \in Workers : pc[v] = "exited" /\ v \notin threads \cup thread_vec =>
                            pc'[v] = "exited" /\ v \notin threads' \cup thread_vec'
  PROVE  Joins'
<1> SUFFICES ASSUME NEW k \in 1..Len(loop_queue), loop_queue[k][1] = "join"
             PROVE  /\ pc'[loop_queue[k][2]] = "exited"
                    /\ loop_queue[k][2] \notin threads' \cup thread_vec'
  BY DEF Joins
<1>1. loop_queue[k][2] \in Workers
  BY QueueType, EntryIs
<1> QED
  BY <1>1 DEF Joins

\* Every step keeps the joins right.
LEMMA JoinsStep ==
  ASSUME TypeOK, Joins, Registered, MainCbOnce, [Next]_vars
  PROVE  Joins'
<1> DEFINE Stay == \A v \in Workers : pc[v] = "exited" /\ v \notin threads \cup thread_vec =>
                            pc'[v] = "exited" /\ v \notin threads' \cup thread_vec'
<1>a. pc \in [Workers -> PcNames]
  BY DEF TypeOK, PcNames
<1>1. CASE initialize
  <2>1. PICK W \in SUBSET Workers : CreateWorkers(W)
    BY <1>1 DEF initialize
  <2>2. Stay /\ UNCHANGED loop_queue
    BY <1>1, <2>1 DEF initialize, CreateWorkers
  <2> QED
    BY <2>2, SameJoins
<1>2. ASSUME NEW p \in Prios, execute(p) PROVE Joins'
  <2>1. UNCHANGED <<loop_queue, thread_vec>>
    BY <1>2 DEF execute
  <2>2. UNCHANGED <<threads, pc>> \/ \E w \in Workers : CreateWorkers({w})
    BY <1>2 DEF execute
  <2>3. Stay
    BY <2>1, <2>2 DEF CreateWorkers
  <2> QED
    BY <2>1, <2>3, SameJoins
<1>3. CASE initializeReady \/ cleanupStop \/ UNCHANGED vars \/ \E t \in Tasks : cancel(t)
  <2>1. UNCHANGED <<loop_queue, thread_vec, threads, pc>>
    BY <1>3 DEF initializeReady, cleanupStop, cancel, vars, workers, client
  <2> QED
    BY <2>1, SameJoins
<1>4. CASE executeNotify \/ cleanupNotify
  <2>1. UNCHANGED <<loop_queue, thread_vec, threads>>
    BY <1>4 DEF executeNotify, cleanupNotify
  <2>2. \A v \in Workers : pc[v] = "exited" => pc'[v] = "exited"
    BY <1>4, <1>a DEF executeNotify, cleanupNotify
  <2> QED
    BY <2>1, <2>2, SameJoins
<1>5. CASE cleanup
  <2>1. UNCHANGED <<loop_queue, pc>> /\ threads' \cup thread_vec' = threads
    BY <1>5 DEF cleanup
  <2> QED
    BY <2>1, SameJoins
<1>6. CASE cleanupJoin
  <2>1. UNCHANGED <<loop_queue, threads>> /\ thread_vec' = {}
    BY <1>6 DEF cleanupJoin
  <2>2. \A v \in Workers : v \notin thread_vec => pc'[v] = pc[v]
    BY <1>6 DEF cleanupJoin
  <2> QED
    BY <2>1, <2>2, SameJoins
<1>7. CASE mainLoop
  <2>1. /\ loop_queue # <<>> /\ loop_queue' = Tail(loop_queue) /\ UNCHANGED <<threads, thread_vec>>
        /\ \/ Head(loop_queue)[1] = "join" /\ pc' = [pc EXCEPT ![Head(loop_queue)[2]] = "none"]
           \/ pc' = pc
    BY <1>7 DEF mainLoop, client
  <2> SUFFICES ASSUME NEW k \in 1..Len(loop_queue'), loop_queue'[k][1] = "join"
               PROVE  /\ pc'[loop_queue'[k][2]] = "exited"
                      /\ loop_queue'[k][2] \notin threads' \cup thread_vec'
    BY DEF Joins
  <2>2. /\ k + 1 \in 1..Len(loop_queue) /\ loop_queue'[k] = loop_queue[k + 1] /\ k + 1 # 1
        /\ 1 \in 1..Len(loop_queue) /\ Head(loop_queue) = loop_queue[1]
    BY <2>1, QueueType, TailPlaces
  <2>3. loop_queue[k + 1] # loop_queue[1]
    BY <2>2 DEF MainCbOnce
  <2>4. loop_queue[k + 1] \in Entries /\ loop_queue[1] \in Entries
    BY <2>2, QueueType
  <2>5. loop_queue[1][1] = "join" => loop_queue[k + 1][2] # loop_queue[1][2]
    BY <2>2, <2>3, <2>4, EntryIs
  <2>6. /\ pc[loop_queue[k + 1][2]] = "exited" /\ loop_queue[k + 1][2] \in Workers
        /\ loop_queue[k + 1][2] \notin threads \cup thread_vec
    BY <2>2, <2>4, EntryIs DEF Joins
  <2> QED
    BY <1>a, <2>1, <2>2, <2>5, <2>6
<1>8. ASSUME NEW w \in Workers, Worker(w) \/ spurious(w), UNCHANGED loop_queue PROVE Joins'
  <2>1. pc[w] # "exited" /\ \A v \in Workers : v # w => pc'[v] = pc[v]
    BY <1>8, <1>a, WorkerPc
  <2>2. UNCHANGED thread_vec /\ threads' \subseteq threads
    BY <1>8, WorkerPc DEF client
  <2> QED
    BY <1>8, <2>1, <2>2, SameJoins
<1>9. ASSUME NEW w \in Workers, postMainCb(w) PROVE Joins'
  <2>1. CASE UNCHANGED loop_queue
    BY <1>8, <1>9, <2>1 DEF Worker
  <2>2. CASE item[w] \in HasMainCb /\ loop_queue' = Append(loop_queue, <<"main_cb", item[w]>>)
    <3>1. <<"main_cb", item[w]>> \in Entries
      BY <2>2, ConfigAssumption DEF Entries, Tasks
    <3>2. UNCHANGED <<threads, thread_vec>> /\ \A v \in Workers : pc[v] = "exited" => pc'[v] = "exited"
      BY <1>9, <1>a DEF postMainCb, client
    <3> SUFFICES ASSUME NEW k \in 1..Len(loop_queue'), loop_queue'[k][1] = "join"
                 PROVE  /\ pc'[loop_queue'[k][2]] = "exited"
                        /\ loop_queue'[k][2] \notin threads' \cup thread_vec'
      BY DEF Joins
    <3>3. k \in 1..Len(loop_queue) /\ loop_queue'[k] = loop_queue[k]
      BY <2>2, <3>1, QueueType, AppendPlaces
    <3>4. loop_queue[k] \in Entries /\ loop_queue[k][1] = "join"
      BY <3>3, QueueType
    <3>5. loop_queue[k][2] \in Workers
      BY <3>4, EntryIs
    <3> QED
      BY <3>2, <3>3, <3>4, <3>5 DEF Joins
  <2> QED
    BY <1>9, <2>1, <2>2 DEF postMainCb
<1>10. ASSUME NEW w \in Workers, leave(w) PROVE Joins'
  <2>1. CASE UNCHANGED loop_queue
    BY <1>8, <1>10, <2>1 DEF Worker
  <2>2. CASE w \in threads /\ loop_queue' = Append(loop_queue, <<"join", w>>)
    <3>1. <<"join", w>> \in Entries
      BY DEF Entries
    <3>2. /\ threads' = threads \ {w} /\ UNCHANGED thread_vec /\ pc' = [pc EXCEPT ![w] = "exited"]
          /\ w \notin thread_vec
      BY <1>10, <2>2 DEF leave, client, Registered
    <3> SUFFICES ASSUME NEW k \in 1..Len(loop_queue'), loop_queue'[k][1] = "join"
                 PROVE  /\ pc'[loop_queue'[k][2]] = "exited"
                        /\ loop_queue'[k][2] \notin threads' \cup thread_vec'
      BY DEF Joins
    <3>3. CASE k \in 1..Len(loop_queue) /\ loop_queue'[k] = loop_queue[k]
      <4>1. loop_queue[k] \in Entries /\ loop_queue[k][1] = "join"
        BY <3>3, QueueType
      <4>2. loop_queue[k][2] \in Workers
        BY <4>1, EntryIs
      <4> QED
        BY <1>a, <3>2, <3>3, <4>1, <4>2 DEF Joins
    <3>4. CASE loop_queue'[k] = <<"join", w>>
      BY <1>a, <3>2, <3>4
    <3> QED
      BY <2>2, <3>1, <3>3, <3>4, QueueType, AppendPlaces
  <2> QED
    BY <1>10, <2>1, <2>2 DEF leave
<1>11. ASSUME NEW w \in Workers, \/ enter(w) \/ sleep(w) \/ wake(w) \/ begin(w)
                                 \/ backendTask(w) \/ finish(w) \/ spurious(w)
       PROVE  Joins'
  <2>1. UNCHANGED loop_queue
    BY <1>11 DEF enter, sleep, wake, begin, backendTask, finish, spurious
  <2> QED
    BY <1>8, <1>11, <2>1 DEF Worker
<1> QED
  BY <1>1, <1>2, <1>3, <1>4, <1>5, <1>6, <1>7, <1>9, <1>10, <1>11
     DEF Next, Client, Continue, Worker

-----------------------------------------------------------------------------
(* Tasks: where each one is.                                               *)

\* The task t is at some place of the levels f, and no task is at two places.
At(t, f) == \E l \in Levels : \E k \in 1..Len(f[l]) : f[l][k] = t
Once(f)  == \A l, m \in Levels : \A i \in 1..Len(f[l]), j \in 1..Len(f[m]) :
              f[l][i] = f[m][j] => l = m /\ i = j

\* The sequence r is s without its place k.
Without(s, k, r) ==
  /\ Len(r) = Len(s) - 1 /\ Len(s) \in Nat
  /\ \A i \in 1..Len(r) : r[i] = IF i < k THEN s[i] ELSE s[i + 1]

\* The tasks that wait are the ones at some place of the levels.
LEMMA UnionIs ==
  ASSUME NEW f \in [Levels -> Seq(Tasks)]
  PROVE  \A t : t \in UNION {Range(f[l]) : l \in Levels} <=> At(t, f)
<1>1. ASSUME NEW l \in Levels, NEW t
      PROVE  t \in Range(f[l]) <=> \E k \in 1..Len(f[l]) : f[l][k] = t
  <2>1. f[l] \in Seq(Tasks)
    OBVIOUS
  <2>2. DOMAIN f[l] = 1..Len(f[l])
    BY <2>1
  <2> QED
    BY <2>2 DEF Range
<1>2. \A t : t \in UNION {Range(f[l]) : l \in Levels} <=> \E l \in Levels : t \in Range(f[l])
  BY Zenon
<1> QED
  BY <1>1, <1>2, Zenon DEF At

\* A task that is nowhere is put at the end of a level.
LEMMA PushOne ==
  ASSUME NEW f \in [Levels -> Seq(Tasks)], NEW l \in Levels, NEW t \in Tasks, NEW g,
         g[l] = Append(f[l], t), \A m \in Levels : m # l => g[m] = f[m], Once(f), ~At(t, f)
  PROVE  Once(g) /\ \A u : At(u, g) <=> At(u, f) \/ u = t
<1>1. f[l] \in Seq(Tasks) /\ g[l] = Append(f[l], t)
  OBVIOUS
<1>2. \A m \in Levels : m # l => g[m] = f[m]
  OBVIOUS
<1>3. /\ Len(g[l]) = Len(f[l]) + 1 /\ Len(f[l]) \in Nat
      /\ \A k \in 1..Len(g[l]) :
           (k \in 1..Len(f[l]) /\ g[l][k] = f[l][k]) \/ (k = Len(f[l]) + 1 /\ g[l][k] = t)
      /\ \A k \in 1..Len(f[l]) : k \in 1..Len(g[l]) /\ g[l][k] = f[l][k]
      /\ Len(f[l]) + 1 \in 1..Len(g[l]) /\ g[l][Len(f[l]) + 1] = t
  BY <1>1, AppendPlaces
<1>4. ASSUME NEW m \in Levels, NEW i \in 1..Len(g[m])
      PROVE  \/ i \in 1..Len(f[m]) /\ g[m][i] = f[m][i]
             \/ m = l /\ i = Len(f[l]) + 1 /\ g[m][i] = t
  BY <1>2, <1>3
<1>5. ASSUME NEW m \in Levels, NEW i \in 1..Len(f[m])
      PROVE  i \in 1..Len(g[m]) /\ g[m][i] = f[m][i] /\ f[m][i] # t
  BY <1>2, <1>3 DEF At
<1>6. Once(g)
  <2> SUFFICES ASSUME NEW m \in Levels, NEW n \in Levels, NEW i \in 1..Len(g[m]),
                      NEW j \in 1..Len(g[n]), g[m][i] = g[n][j]
               PROVE  m = n /\ i = j
    BY DEF Once
  <2>1. CASE i \in 1..Len(f[m]) /\ g[m][i] = f[m][i]
    <3>1. g[m][i] # t
      BY <1>5, <2>1
    <3>2. j \in 1..Len(f[n]) /\ g[n][j] = f[n][j]
      BY <1>4, <3>1
    <3>3. f[m][i] = f[n][j] /\ i \in 1..Len(f[m]) /\ j \in 1..Len(f[n])
      BY <2>1, <3>2
    <3>4. \A x \in 1..Len(f[m]), y \in 1..Len(f[n]) : f[m][x] = f[n][y] => m = n /\ x = y
      BY ZenonT(30) DEF Once
    <3> QED
      BY <3>3, <3>4
  <2>2. CASE m = l /\ i = Len(f[l]) + 1 /\ g[m][i] = t
    <3>1. ~(j \in 1..Len(f[n]) /\ g[n][j] = f[n][j])
      BY <1>5, <2>2
    <3>2. n = l /\ j = Len(f[l]) + 1
      BY <1>4, <3>1
    <3> QED
      BY <2>2, <3>2
  <2> QED
    BY <1>4, <2>1, <2>2
<1>7. ASSUME NEW u PROVE At(u, g) <=> At(u, f) \/ u = t
  <2>1. At(u, g) => At(u, f) \/ u = t
    BY <1>4 DEF At
  <2>2. At(u, f) => At(u, g)
    BY <1>5 DEF At
  <2>3. At(t, g)
    BY <1>3 DEF At
  <2> QED
    BY <2>1, <2>2, <2>3
<1> QED
  BY <1>6, <1>7

\* A task is taken from its place.
LEMMA TakeOne ==
  ASSUME NEW f \in [Levels -> Seq(Tasks)], NEW l \in Levels, NEW k \in 1..Len(f[l]),
         NEW g, Without(f[l], k, g[l]), \A m \in Levels : m # l => g[m] = f[m], Once(f)
  PROVE  Once(g) /\ \A u : At(u, g) <=> At(u, f) /\ u # f[l][k]
<1>1. PICK r : r = g[l]
  OBVIOUS
<1>0. Without(f[l], k, r) /\ g[l] = r /\ \A m \in Levels : m # l => g[m] = f[m]
  BY <1>1
<1> DEFINE from(m, i) == IF m = l /\ i >= k THEN i + 1 ELSE i
<1>a. Len(f[l]) \in Nat /\ k \in Nat /\ Len(r) = Len(f[l]) - 1
  BY <1>0 DEF Without
<1>2. ASSUME NEW m \in Levels, NEW i \in 1..Len(g[m])
      PROVE  from(m, i) \in 1..Len(f[m]) /\ g[m][i] = f[m][from(m, i)] /\ (m = l => from(m, i) # k)
  BY <1>0, <1>a DEF Without
<1>3. ASSUME NEW m \in Levels, NEW j \in 1..Len(f[m]), ~(m = l /\ j = k)
      PROVE  \E i \in 1..Len(g[m]) : g[m][i] = f[m][j]
  <2>1. CASE m # l
    BY <1>0, <2>1
  <2>2. CASE m = l /\ j < k
    <3>1. j \in 1..Len(r) /\ r[j] = f[l][j]
      BY <1>0, <1>a, <2>2 DEF Without
    <3> QED
      BY <1>0, <2>2, <3>1
  <2>3. CASE m = l /\ j > k
    <3>1. j - 1 \in 1..Len(r)
      BY <1>a, <2>3
    <3>2. r[j - 1] = f[l][(j - 1) + 1] /\ (j - 1) + 1 = j
      BY <1>0, <1>a, <2>3, <3>1 DEF Without
    <3> QED
      BY <1>0, <2>3, <3>1, <3>2
  <2> QED
    BY <1>3, <1>a, <2>1, <2>2, <2>3
<1>4. Once(g)
  <2> SUFFICES ASSUME NEW m \in Levels, NEW n \in Levels, NEW i \in 1..Len(g[m]),
                      NEW j \in 1..Len(g[n]), g[m][i] = g[n][j]
               PROVE  m = n /\ i = j
    BY DEF Once
  <2>1. f[m][from(m, i)] = f[n][from(n, j)]
    BY <1>2
  <2>2. m = n /\ from(m, i) = from(n, j)
    <3>1. from(m, i) \in 1..Len(f[m]) /\ from(n, j) \in 1..Len(f[n])
      BY <1>2
    <3> HIDE DEF from
    <3> QED
      BY <2>1, <3>1 DEF Once
  <2>3. i \in Int /\ j \in Int /\ k \in Int
    BY <1>0, <1>a
  <2> QED
    BY <2>2, <2>3
<1>5. ASSUME NEW u PROVE At(u, g) <=> At(u, f) /\ u # f[l][k]
  <2>1. ASSUME At(u, g) PROVE At(u, f) /\ u # f[l][k]
    <3>0. PICK m \in Levels : \E i \in 1..Len(g[m]) : g[m][i] = u
      BY <2>1 DEF At
    <3>1. PICK i \in 1..Len(g[m]) : g[m][i] = u
      BY <3>0
    <3>2. from(m, i) \in 1..Len(f[m]) /\ f[m][from(m, i)] = u /\ (m = l => from(m, i) # k)
      BY <1>2, <3>1
    <3> QED
      BY <3>2 DEF At, Once
  <2>2. ASSUME At(u, f), u # f[l][k] PROVE At(u, g)
    <3>0. PICK m \in Levels : \E j \in 1..Len(f[m]) : f[m][j] = u
      BY <2>2 DEF At
    <3>1. PICK j \in 1..Len(f[m]) : f[m][j] = u
      BY <3>0
    <3>2. ~(m = l /\ j = k)
      BY <2>2, <3>1
    <3> QED
      BY <1>3, <3>1, <3>2 DEF At
  <2> QED
    BY <2>1, <2>2
<1> QED
  BY <1>4, <1>5

\* The tail is without the head; RemoveAt() is without the place it is given.
LEMMA WithoutIs ==
  ASSUME NEW S, NEW s \in Seq(S), NEW k \in 1..Len(s)
  PROVE  Without(s, k, RemoveAt(s, k)) /\ Without(s, 1, Tail(s)) /\ Head(s) = s[1] /\ 1 \in 1..Len(s)
<1>1. Without(s, 1, Tail(s)) /\ Head(s) = s[1] /\ 1 \in 1..Len(s)
  BY DEF Without
<1>2. SubSeq(s, 1, k - 1) \in Seq(S) /\ Len(SubSeq(s, 1, k - 1)) = k - 1
      /\ \A i \in 1..(k - 1) : SubSeq(s, 1, k - 1)[i] = s[i]
  OBVIOUS
<1>3. /\ SubSeq(s, k + 1, Len(s)) \in Seq(S) /\ Len(SubSeq(s, k + 1, Len(s))) = Len(s) - k
      /\ \A i \in 1..(Len(s) - k) : SubSeq(s, k + 1, Len(s))[i] = s[k + i]
  OBVIOUS
<1>4. Without(s, k, RemoveAt(s, k))
  <2>1. RemoveAt(s, k) = SubSeq(s, 1, k - 1) \o SubSeq(s, k + 1, Len(s))
    BY DEF RemoveAt
  <2>a. Len(s) \in Nat /\ k - 1 \in Nat /\ Len(s) - k \in Nat /\ (k - 1) + (Len(s) - k) = Len(s) - 1
    OBVIOUS
  <2>2. /\ Len(RemoveAt(s, k)) = (k - 1) + (Len(s) - k)
        /\ \A i \in 1..(k - 1) : RemoveAt(s, k)[i] = SubSeq(s, 1, k - 1)[i]
        /\ \A i \in 1..(Len(s) - k) : RemoveAt(s, k)[(k - 1) + i] = SubSeq(s, k + 1, Len(s))[i]
    <3>1. PICK m \in Nat, n \in Nat : m = k - 1 /\ n = Len(s) - k
      BY <2>a
    <3>2. PICK a \in Seq(S), b \in Seq(S) :
            a = SubSeq(s, 1, k - 1) /\ b = SubSeq(s, k + 1, Len(s))
      BY <1>2, <1>3
    <3>3. Len(a) = m /\ Len(b) = n
      BY <1>2, <1>3, <3>1, <3>2, Zenon
    <3>5. RemoveAt(s, k) = a \o b
      BY <2>1, <3>2, Zenon
    <3>4. /\ Len(a \o b) = m + n
          /\ \A i \in 1..m : (a \o b)[i] = a[i]
          /\ \A i \in 1..n : (a \o b)[m + i] = b[i]
      <4>1. Len(a \o b) = m + n
        BY <3>3, SMTT(30)
      <4>2. ASSUME NEW i \in 1..m PROVE (a \o b)[i] = a[i]
        BY <3>3, SMTT(30)
      <4>3. ASSUME NEW i \in 1..n PROVE (a \o b)[m + i] = b[i]
        <5>1. PICK x \in Nat : x = m + i
          OBVIOUS
        <5>2. x \in 1..(Len(a) + Len(b)) /\ ~(x <= Len(a)) /\ x - Len(a) = i
          BY <3>3, <5>1
        <5>3. (a \o b)[x] = b[x - Len(a)]
          BY <5>2, SMTT(30)
        <5> QED
          BY <5>1, <5>2, <5>3
      <4> QED
        BY <4>1, <4>2, <4>3
    <3> QED
      BY <3>1, <3>2, <3>4, <3>5, ZenonT(30)
  <2>3. ASSUME NEW i \in 1..(Len(s) - 1), i < k PROVE RemoveAt(s, k)[i] = s[i]
    <3>1. i \in 1..(k - 1)
      BY <2>3
    <3> QED
      BY <1>2, <2>2, <3>1
  <2>4. ASSUME NEW i \in 1..(Len(s) - 1), ~(i < k) PROVE RemoveAt(s, k)[i] = s[i + 1]
    <3>1. PICK j \in 1..(Len(s) - k) : j = i - (k - 1)
      BY <2>4
    <3>2. (k - 1) + j = i /\ k + j = i + 1
      BY <2>4, <3>1
    <3>3. RemoveAt(s, k)[(k - 1) + j] = s[k + j]
      BY <1>3, <2>2
    <3> QED
      BY <3>2, <3>3
  <2> QED
    BY <2>a, <2>2, <2>3, <2>4 DEF Without
<1> QED
  BY <1>1, <1>4

\* OnePlace, in terms of the places of the levels.
LEMMA OnePlaceIs ==
  ASSUME TypeOK
  PROVE  OnePlace <=>
           /\ Once(undo)
           /\ \A t \in Tasks : tstat[t] = "waiting" <=> At(t, undo)
           /\ \A t \in Tasks : tstat[t] \in {"claimed", "executing"} => \E w \in Workers : item[w] = t
           /\ \A v, w \in Workers : item[v] # NoTask /\ item[v] = item[w] => v = w
           /\ \A w \in Workers : item[w] # NoTask =>
                tstat[item[w]] \in {"claimed", "executing", "executed"}
<1>1. undo \in [Levels -> Seq(Tasks)]
  BY DEF TypeOK
<1>2. \A t : t \in Waiting <=> At(t, undo)
  BY <1>1, UnionIs DEF Waiting
<1> QED
  BY <1>2 DEF OnePlace, Once

\* The same of the next state.
LEMMA OnePlaceNext ==
  ASSUME TypeOK',
         Once(undo'),
         \A t \in Tasks : tstat'[t] = "waiting" <=> At(t, undo'),
         \A t \in Tasks : tstat'[t] \in {"claimed", "executing"} => \E w \in Workers : item'[w] = t,
         \A v, w \in Workers : item'[v] # NoTask /\ item'[v] = item'[w] => v = w,
         \A w \in Workers : item'[w] # NoTask =>
           tstat'[item'[w]] \in {"claimed", "executing", "executed"}
  PROVE  OnePlace'
<1>1. undo' \in [Levels -> Seq(Tasks)]
  BY DEF TypeOK
<1>2. \A t : t \in Waiting' <=> At(t, undo')
  BY <1>1, UnionIs DEF Waiting
<1> QED
  BY <1>2 DEF OnePlace, Once

\* The steps that touch neither a task's place nor what is known of it.
LEMMA TasksAlone ==
  ASSUME [Next]_vars,
         ~\E p \in Prios : execute(p), ~\E t \in Tasks : cancel(t), ~cleanup,
         ~\E w \in Workers : ShouldExitWaiting /\ leaveWait(w) /\ (enter(w) \/ wake(w)),
         ~\E w \in Workers : begin(w) \/ backendTask(w) \/ finish(w)
  PROVE  UNCHANGED <<undo, item, tstat>>
<1>1. CASE initialize \/ initializeReady \/ executeNotify \/ cleanupStop \/ cleanupNotify
           \/ cleanupJoin \/ mainLoop \/ UNCHANGED vars
  BY <1>1 DEF initialize, initializeReady, executeNotify, cleanupStop, cleanupNotify,
              cleanupJoin, mainLoop, vars, tasks, history
<1>2. ASSUME NEW w \in Workers, enter(w) PROVE UNCHANGED <<undo, item, tstat>>
  BY <1>2 DEF enter
<1>3. ASSUME NEW w \in Workers, wake(w) PROVE UNCHANGED <<undo, item, tstat>>
  BY <1>3 DEF wake
<1>4. ASSUME NEW w \in Workers, sleep(w) \/ spurious(w) \/ postMainCb(w) \/ leave(w)
      PROVE  UNCHANGED <<undo, item, tstat>>
  BY <1>4 DEF sleep, spurious, postMainCb, leave, tasks, history
<1> QED
  BY <1>1, <1>2, <1>3, <1>4 DEF Next, Client, Continue, Worker

\* Every step keeps each task in one place.
LEMMA OnePlaceStep ==
  ASSUME TypeOK, TypeOK', OnePlace, Stages, [Next]_vars
  PROVE  OnePlace'
<1>a. /\ item \in [Workers -> Tasks \cup {NoTask}] /\ tstat \in [Tasks -> StatNames]
      /\ pc \in [Workers -> PcNames] /\ undo \in [Levels -> Seq(Tasks)] /\ NoTask \notin Tasks
      /\ posted \in 0..MaxTasks /\ MaxTasks \in Nat
  BY BoundAssumption DEF TypeOK, PcNames, StatNames, Tasks
<1>b. /\ Once(undo)
      /\ \A t \in Tasks : tstat[t] = "waiting" <=> At(t, undo)
      /\ \A t \in Tasks : tstat[t] \in {"claimed", "executing"} => \E w \in Workers : item[w] = t
      /\ \A v, w \in Workers : item[v] # NoTask /\ item[v] = item[w] => v = w
      /\ \A w \in Workers : item[w] # NoTask =>
           tstat[item[w]] \in {"claimed", "executing", "executed"}
  BY OnePlaceIs
<1>c. \A w \in Workers : item[w] # NoTask => item[w] \in Tasks
  BY <1>a
<1>1. ASSUME NEW p \in Prios, execute(p) PROVE OnePlace'
  <2>1. PICK t \in Tasks : /\ t > posted
                           /\ undo' = [undo EXCEPT ![Level(p)] = Append(undo[Level(p)], t)]
                           /\ tstat' = [tstat EXCEPT ![t] = "waiting"]
                           /\ UNCHANGED item
    <3>1. posted + 1 \in Tasks /\ posted + 1 > posted
      BY <1>1, <1>a DEF execute, Tasks
    <3> QED
      BY <1>1, <3>1 DEF execute
  <2>2. tstat[t] = "none"
    BY <2>1 DEF Stages
  <2>3. Once(undo') /\ \A u : At(u, undo') <=> At(u, undo) \/ u = t
    <3>1. undo \in [Levels -> Seq(Tasks)] /\ Level(p) \in Levels
      BY <1>a, LevelType
    <3>2. Once(undo) /\ ~At(t, undo)
      BY <1>b, <2>2
    <3>3. /\ undo'[Level(p)] = Append(undo[Level(p)], t)
          /\ \A m \in Levels : m # Level(p) => undo'[m] = undo[m]
      BY <2>1, <3>1
    <3> QED
      BY <3>1, <3>2, <3>3, PushOne
  <2>4. tstat'[t] = "waiting" /\ \A u \in Tasks : u # t => tstat'[u] = tstat[u]
    BY <1>a, <2>1
  <2>5. \A u \in Tasks : tstat'[u] = "waiting" <=> At(u, undo')
    BY <1>b, <2>3, <2>4
  <2>6. \A w \in Workers : item[w] # t
    BY <1>a, <1>b, <2>2
  <2>7. \A w \in Workers : item'[w] # NoTask =>
          tstat'[item'[w]] \in {"claimed", "executing", "executed"}
    BY <1>b, <1>c, <2>1, <2>4, <2>6
  <2>8. \A u \in Tasks : tstat'[u] \in {"claimed", "executing"} => \E w \in Workers : item'[w] = u
    BY <1>b, <2>1, <2>4
  <2>9. \A v, w \in Workers : item'[v] # NoTask /\ item'[v] = item'[w] => v = w
    BY <1>b, <2>1
  <2> QED
    BY <2>3, <2>5, <2>7, <2>8, <2>9, OnePlaceNext
<1>2. ASSUME NEW t \in Tasks, cancel(t) PROVE OnePlace'
  <2>1. PICK l \in Levels : \E k \in 1..Len(undo[l]) :
          undo[l][k] = t /\ undo' = [undo EXCEPT ![l] = RemoveAt(undo[l], k)]
    BY <1>2 DEF cancel
  <2>2. PICK k \in 1..Len(undo[l]) :
          undo[l][k] = t /\ undo' = [undo EXCEPT ![l] = RemoveAt(undo[l], k)]
    BY <2>1
  <2>3. tstat' = [tstat EXCEPT ![t] = "cancelled"] /\ UNCHANGED item
    BY <1>2 DEF cancel
  <2>4. Without(undo[l], k, RemoveAt(undo[l], k))
    <3>1. undo[l] \in Seq(Tasks)
      BY <1>a
    <3> QED
      BY <3>1, WithoutIs
  <2>5. Once(undo') /\ \A u : At(u, undo') <=> At(u, undo) /\ u # t
    <3>1. undo \in [Levels -> Seq(Tasks)] /\ Once(undo)
      BY <1>a, <1>b
    <3>2. undo[l][k] = t /\ undo'[l] = RemoveAt(undo[l], k)
      BY <2>2, <3>1
    <3>3. \A m \in Levels : m # l => undo'[m] = undo[m]
      BY <2>2, <3>1
    <3>4. Without(undo[l], k, undo'[l])
      BY <2>4, <3>2
    <3>5. Once(undo') /\ \A u : At(u, undo') <=> At(u, undo) /\ u # undo[l][k]
      BY <3>1, <3>3, <3>4, TakeOne
    <3> QED
      BY <3>2, <3>5
  <2>6. tstat[t] = "waiting"
    BY <1>b, <2>2 DEF At
  <2>7. tstat'[t] = "cancelled" /\ \A u \in Tasks : u # t => tstat'[u] = tstat[u]
    BY <1>a, <2>3
  <2>8. \A u \in Tasks : tstat'[u] = "waiting" <=> At(u, undo')
    BY <1>b, <2>5, <2>7
  <2>9. \A w \in Workers : item[w] # t
    BY <1>a, <1>b, <2>6
  <2>10. \A w \in Workers : item'[w] # NoTask =>
           tstat'[item'[w]] \in {"claimed", "executing", "executed"}
    BY <1>b, <1>c, <2>3, <2>7, <2>9
  <2>11. \A u \in Tasks : tstat'[u] \in {"claimed", "executing"} => \E w \in Workers : item'[w] = u
    BY <1>b, <2>3, <2>7
  <2> QED
    BY <1>b, <2>3, <2>5, <2>8, <2>10, <2>11, OnePlaceNext
<1>3. CASE cleanup
  <2>1. undo' = [l \in Levels |-> <<>>] /\ UNCHANGED item
    BY <1>3 DEF cleanup
  <2>2. \A t \in Tasks : tstat'[t] = IF t \in Waiting THEN "dropped" ELSE tstat[t]
    BY <1>3 DEF cleanup
  <2>3. \A t : t \in Waiting <=> At(t, undo)
    BY <1>a, UnionIs DEF Waiting
  <2>4. \A t \in Tasks : tstat'[t] = IF tstat[t] = "waiting" THEN "dropped" ELSE tstat[t]
    BY <1>b, <2>2, <2>3
  <2>5. Once(undo') /\ \A u : ~At(u, undo')
    <3>1. \A l \in Levels : Len(undo'[l]) = 0
      BY <2>1
    <3> QED
      BY <3>1 DEF Once, At
  <2>6. \A w \in Workers : item'[w] # NoTask =>
          tstat'[item'[w]] \in {"claimed", "executing", "executed"}
    BY <1>b, <1>c, <2>1, <2>4
  <2>7. \A u \in Tasks : tstat'[u] \in {"claimed", "executing"} => \E w \in Workers : item'[w] = u
    BY <1>b, <2>1, <2>4
  <2>8. \A u \in Tasks : tstat'[u] = "waiting" <=> At(u, undo')
    BY <2>4, <2>5
  <2> QED
    BY <1>b, <2>1, <2>5, <2>6, <2>7, <2>8, OnePlaceNext
<1>4. ASSUME NEW w \in Workers, ShouldExitWaiting, leaveWait(w), enter(w) \/ wake(w) PROVE OnePlace'
  <2>1. item[w] = NoTask
    BY <1>4, <1>a DEF enter, wake, Stages, StageOf, Holding
  <2>2. CASE UNCHANGED <<undo, item, tstat>>
    BY <1>b, <2>2, OnePlaceNext
  <2>3. ASSUME NEW l \in Levels, undo[l] # <<>>, Head(undo[l]) \in Tasks,
               item' = [item EXCEPT ![w] = Head(undo[l])],
               undo' = [undo EXCEPT ![l] = Tail(undo[l])],
               tstat' = [tstat EXCEPT ![Head(undo[l])] = "claimed"]
        PROVE  OnePlace'
    <3>0. undo[l] \in Seq(Tasks) /\ 1 \in 1..Len(undo[l])
      BY <1>a, <2>3
    <3>1. PICK t \in Tasks : t = Head(undo[l]) /\ t = undo[l][1]
      BY <2>3, <3>0
    <3>2. Without(undo[l], 1, Tail(undo[l]))
      BY <3>0, WithoutIs
    <3>3. Once(undo') /\ \A u : At(u, undo') <=> At(u, undo) /\ u # t
      <4>1. undo \in [Levels -> Seq(Tasks)] /\ Once(undo)
        BY <1>a, <1>b
      <4>2. undo[l][1] = t /\ undo'[l] = Tail(undo[l]) /\ 1 \in 1..Len(undo[l])
        BY <1>a, <2>3, <3>0, <3>1
      <4>3. \A m \in Levels : m # l => undo'[m] = undo[m]
        BY <1>a, <2>3
      <4>4. PICK k \in 1..Len(undo[l]) : k = 1
        BY <4>2
      <4>5. Without(undo[l], k, undo'[l])
        BY <3>2, <4>2, <4>4
      <4>6. Once(undo') /\ \A u : At(u, undo') <=> At(u, undo) /\ u # undo[l][k]
        BY <4>1, <4>3, <4>5, TakeOne
      <4> QED
        BY <4>2, <4>4, <4>6
    <3>4. tstat[t] = "waiting"
      BY <1>b, <3>0, <3>1 DEF At
    <3>5. tstat'[t] = "claimed" /\ \A u \in Tasks : u # t => tstat'[u] = tstat[u]
      BY <1>a, <2>3, <3>1
    <3>6. item'[w] = t /\ \A v \in Workers : v # w => item'[v] = item[v]
      BY <1>a, <2>3, <3>1
    <3>7. \A v \in Workers : item[v] # t
      BY <1>a, <1>b, <3>4
    <3>8. \A u \in Tasks : tstat'[u] = "waiting" <=> At(u, undo')
      BY <1>b, <3>3, <3>5
    <3>9. \A v \in Workers : item'[v] # NoTask =>
            tstat'[item'[v]] \in {"claimed", "executing", "executed"}
      BY <1>b, <1>c, <3>5, <3>6, <3>7
    <3>10. \A u \in Tasks : tstat'[u] \in {"claimed", "executing"} => \E v \in Workers : item'[v] = u
      <4> SUFFICES ASSUME NEW u \in Tasks, tstat'[u] \in {"claimed", "executing"}
                   PROVE  \E v \in Workers : item'[v] = u
        OBVIOUS
      <4>1. CASE u = t
        BY <3>6, <4>1
      <4>2. CASE u # t
        <5>1. PICK v \in Workers : item[v] = u
          BY <1>b, <3>5, <4>2
        <5> QED
          BY <1>a, <2>1, <3>6, <5>1
      <4> QED
        BY <4>1, <4>2
    <3>11. \A u, v \in Workers : item'[u] # NoTask /\ item'[u] = item'[v] => u = v
      BY <1>b, <3>6, <3>7
    <3> QED
      BY <3>3, <3>8, <3>9, <3>10, <3>11, OnePlaceNext
  <2> QED
    BY <1>4, <2>2, <2>3, LeaveWait
<1>5. ASSUME NEW w \in Workers, NEW t \in Tasks, t = item[w], NEW s \in {"executing", "executed"},
             tstat' = [tstat EXCEPT ![t] = s], UNCHANGED <<undo, item>>
      PROVE  OnePlace'
  <2>1. tstat'[t] = s /\ \A u \in Tasks : u # t => tstat'[u] = tstat[u]
    BY <1>a, <1>5
  <2>2. tstat[t] # "waiting"
    BY <1>a, <1>b, <1>5
  <2>3. \A u \in Tasks : tstat'[u] = "waiting" <=> At(u, undo')
    BY <1>b, <1>5, <2>1, <2>2
  <2>4. \A v \in Workers : item'[v] # NoTask =>
          tstat'[item'[v]] \in {"claimed", "executing", "executed"}
    BY <1>b, <1>c, <1>5, <2>1
  <2>5. \A u \in Tasks : tstat'[u] \in {"claimed", "executing"} => \E v \in Workers : item'[v] = u
    BY <1>b, <1>5, <2>1
  <2> QED
    BY <1>b, <1>5, <2>3, <2>4, <2>5, OnePlaceNext
<1>6. ASSUME NEW w \in Workers, begin(w) \/ backendTask(w) PROVE OnePlace'
  <2>1. item[w] \in Tasks
    BY <1>6, <1>a DEF begin, backendTask, Stages, StageOf, Holding
  <2>2. \E s \in {"executing", "executed"} : tstat' = [tstat EXCEPT ![item[w]] = s]
    BY <1>6 DEF begin, backendTask
  <2>3. UNCHANGED <<undo, item>>
    BY <1>6 DEF begin, backendTask, tasks
  <2> QED
    BY <1>5, <2>1, <2>2, <2>3
<1>7. ASSUME NEW w \in Workers, finish(w) PROVE OnePlace'
  <2>1. UNCHANGED <<undo, tstat>> /\ item' = [item EXCEPT ![w] = NoTask]
    BY <1>7 DEF finish, history
  <2>2. item[w] \in Tasks /\ tstat[item[w]] = "executed"
    BY <1>7, <1>a DEF finish, Stages, StageOf, Holding
  <2>3. item'[w] = NoTask /\ \A v \in Workers : v # w => item'[v] = item[v]
    BY <1>a, <2>1
  <2>4. \A u \in Tasks : tstat'[u] \in {"claimed", "executing"} => \E v \in Workers : item'[v] = u
    <3> SUFFICES ASSUME NEW u \in Tasks, tstat[u] \in {"claimed", "executing"}
                 PROVE  \E v \in Workers : item'[v] = u
      BY <2>1
    <3>1. PICK v \in Workers : item[v] = u
      BY <1>b
    <3>2. v # w
      BY <2>2, <3>1
    <3> QED
      BY <2>3, <3>1, <3>2
  <2>5. \A u, v \in Workers : item'[u] # NoTask /\ item'[u] = item'[v] => u = v
    BY <1>b, <2>3
  <2>6. \A v \in Workers : item'[v] # NoTask =>
          tstat'[item'[v]] \in {"claimed", "executing", "executed"}
    BY <1>b, <2>1, <2>3
  <2> QED
    BY <1>b, <2>1, <2>4, <2>5, <2>6, OnePlaceNext
<1>8. CASE UNCHANGED <<undo, item, tstat>>
  BY <1>b, <1>8, OnePlaceNext
<1> QED
  BY <1>1, <1>2, <1>3, <1>4, <1>6, <1>7, <1>8, TasksAlone

-----------------------------------------------------------------------------
(* What is known of a task at each place of threadProc(), and main_cb.     *)

\* A worker the step does not move, or moves while it holds nothing.
LEMMA Undisturbed ==
  ASSUME NEW v \in Workers, StageOf(v), item'[v] = item[v],
         pc'[v] = pc[v] \/ (pc[v] \notin Holding /\ pc'[v] \notin Holding),
         item[v] # NoTask => tstat'[item[v]] = tstat[item[v]],
         pc[v] = "ran" =>
           /\ item[v] \notin called'
           /\ \A k \in 1..Len(loop_queue') : loop_queue'[k] # <<"main_cb", item[v]>>
  PROVE  StageOf(v)'
<1>1. CASE pc'[v] = pc[v]
  BY <1>1 DEF StageOf, Holding
<1>2. CASE pc[v] \notin Holding /\ pc'[v] \notin Holding
  BY <1>2 DEF StageOf, Holding
<1> QED
  BY <1>1, <1>2

\* An executed task stays executed, and one that is not posted yet is nothing.
LEMMA StatStep ==
  ASSUME TypeOK, OnePlace, Stages, [Next]_vars
  PROVE  /\ \A t \in Tasks : tstat[t] = "executed" => tstat'[t] = "executed"
         /\ \A t \in Tasks : t > posted' => tstat'[t] = "none"
<1>a. /\ item \in [Workers -> Tasks \cup {NoTask}] /\ tstat \in [Tasks -> StatNames]
      /\ pc \in [Workers -> PcNames] /\ undo \in [Levels -> Seq(Tasks)] /\ NoTask \notin Tasks
      /\ posted \in 0..MaxTasks /\ MaxTasks \in Nat
  BY BoundAssumption DEF TypeOK, PcNames, StatNames, Tasks
<1>b. \A t \in Tasks : t > posted => tstat[t] = "none"
  BY DEF Stages
<1>c. \A t \in Tasks : t \in Nat
  BY DEF Tasks
<1>1. ASSUME NEW p \in Prios, execute(p)
      PROVE  /\ \A t \in Tasks : tstat[t] = "executed" => tstat'[t] = "executed"
             /\ \A t \in Tasks : t > posted' => tstat'[t] = "none"
  <2>1. posted' = posted + 1 /\ posted + 1 \in Tasks
    BY <1>1, <1>a DEF execute, Tasks
  <2>2. tstat' = [tstat EXCEPT ![posted + 1] = "waiting"]
    BY <1>1 DEF execute
  <2>3. tstat[posted + 1] = "none"
    BY <1>a, <1>b, <2>1
  <2> QED
    BY <1>a, <1>b, <1>c, <2>1, <2>2, <2>3
<1>2. ASSUME NEW t \in Tasks, tstat[t] \notin {"none", "executed"}, NEW s,
             tstat' = [tstat EXCEPT ![t] = s], UNCHANGED posted
      PROVE  /\ \A u \in Tasks : tstat[u] = "executed" => tstat'[u] = "executed"
             /\ \A u \in Tasks : u > posted' => tstat'[u] = "none"
  BY <1>2, <1>a, <1>b
<1>3. ASSUME NEW t \in Tasks, cancel(t) PROVE tstat[t] = "waiting"
  BY <1>3 DEF cancel, cancelResult, OnePlace
<1>4. CASE cleanup
  <2>1. \A t \in Tasks : tstat'[t] = IF t \in Waiting THEN "dropped" ELSE tstat[t]
    BY <1>4 DEF cleanup
  <2>2. \A t \in Tasks : t \in Waiting => tstat[t] = "waiting"
    BY DEF OnePlace
  <2>3. UNCHANGED posted
    BY <1>4 DEF cleanup
  <2> QED
    BY <1>b, <2>1, <2>2, <2>3
<1>5. ASSUME NEW w \in Workers, ShouldExitWaiting, leaveWait(w), UNCHANGED posted
      PROVE  /\ \A t \in Tasks : tstat[t] = "executed" => tstat'[t] = "executed"
             /\ \A t \in Tasks : t > posted' => tstat'[t] = "none"
  <2>1. CASE UNCHANGED tstat
    BY <1>b, <1>5, <2>1
  <2>2. ASSUME NEW l \in Levels, undo[l] # <<>>, Head(undo[l]) \in Tasks,
               tstat' = [tstat EXCEPT ![Head(undo[l])] = "claimed"]
        PROVE  /\ \A t \in Tasks : tstat[t] = "executed" => tstat'[t] = "executed"
               /\ \A t \in Tasks : t > posted' => tstat'[t] = "none"
    <3>1. PICK t \in Tasks : t = Head(undo[l])
      BY <2>2
    <3>2. undo[l] \in Seq(Tasks)
      BY <1>a
    <3>3. 1 \in 1..Len(undo[l]) /\ undo[l][1] = t
      BY <2>2, <3>1, <3>2
    <3>4. tstat[t] = "waiting"
      BY <3>3, WaitingIs DEF OnePlace
    <3> QED
      BY <1>2, <1>5, <2>2, <3>1, <3>4
  <2> QED
    BY <1>5, <2>1, <2>2, LeaveWait
<1>6. ASSUME NEW w \in Workers, begin(w) \/ backendTask(w)
      PROVE  /\ \A t \in Tasks : tstat[t] = "executed" => tstat'[t] = "executed"
             /\ \A t \in Tasks : t > posted' => tstat'[t] = "none"
  <2>1. item[w] \in Tasks /\ tstat[item[w]] \in {"claimed", "executing"}
    BY <1>6, <1>a DEF begin, backendTask, Stages, StageOf, Holding
  <2>2. UNCHANGED posted /\ \E s : tstat' = [tstat EXCEPT ![item[w]] = s]
    BY <1>6 DEF begin, backendTask
  <2> QED
    BY <1>2, <2>1, <2>2
<1>8. UNCHANGED posted \/ \E p \in Prios : execute(p)
  <2>1. CASE UNCHANGED vars
    BY <2>1 DEF vars
  <2>2. CASE Next
    BY <2>2 DEF Next, Client, Continue, Worker, initialize, cancel, cleanup, initializeReady,
         executeNotify, cleanupStop, cleanupNotify, cleanupJoin, mainLoop, enter, sleep, wake,
         begin, backendTask, postMainCb, finish, leave, spurious
  <2> QED
    BY <2>1, <2>2
<1>9. ASSUME NEW w \in Workers, finish(w) PROVE UNCHANGED tstat
  BY <1>9 DEF finish, history
<1>10. ASSUME NEW t \in Tasks, cancel(t)
       PROVE  UNCHANGED posted /\ tstat' = [tstat EXCEPT ![t] = "cancelled"]
  BY <1>10 DEF cancel
<1>11. CASE UNCHANGED <<tstat, posted>>
  BY <1>b, <1>11
<1>12. ASSUME NEW t \in Tasks, cancel(t)
       PROVE  /\ \A u \in Tasks : tstat[u] = "executed" => tstat'[u] = "executed"
              /\ \A u \in Tasks : u > posted' => tstat'[u] = "none"
  BY <1>2, <1>3, <1>10, <1>12
<1> QED
  BY <1>1, <1>12, <1>4, <1>5, <1>6, <1>8, <1>9, <1>11, TasksAlone

\* What a step does to the queue of the main loop and to the called tasks.
LEMMA QueueStep ==
  ASSUME TypeOK, Stages, [Next]_vars
  PROVE  \/ UNCHANGED <<loop_queue, called>>
         \/ /\ loop_queue # <<>> /\ loop_queue' = Tail(loop_queue)
            /\ \/ called' = called
               \/ Head(loop_queue)[1] = "main_cb" /\ called' = called \cup {Head(loop_queue)[2]}
         \/ \E w \in Workers : /\ postMainCb(w) /\ item[w] \in Tasks
                               /\ loop_queue' = Append(loop_queue, <<"main_cb", item[w]>>)
                               /\ UNCHANGED called
         \/ \E w \in Workers : /\ leave(w) /\ pc[w] = "leaving"
                               /\ loop_queue' = Append(loop_queue, <<"join", w>>)
                               /\ UNCHANGED called
<1>1. CASE mainLoop
  BY <1>1 DEF mainLoop
<1>2. ASSUME NEW w \in Workers, postMainCb(w)
      PROVE  \/ UNCHANGED <<loop_queue, called>>
             \/ /\ item[w] \in Tasks /\ UNCHANGED called
                /\ loop_queue' = Append(loop_queue, <<"main_cb", item[w]>>)
  <2>1. item[w] \in Tasks
    BY <1>2 DEF postMainCb, TypeOK, Stages, StageOf, Holding
  <2> QED
    BY <1>2, <2>1 DEF postMainCb, history
<1>3. ASSUME NEW w \in Workers, leave(w)
      PROVE  \/ UNCHANGED <<loop_queue, called>>
             \/ /\ pc[w] = "leaving" /\ UNCHANGED called
                /\ loop_queue' = Append(loop_queue, <<"join", w>>)
  BY <1>3 DEF leave
<1>4. ASSUME NEW w \in Workers, \/ enter(w) \/ sleep(w) \/ wake(w) \/ begin(w)
                                \/ backendTask(w) \/ finish(w) \/ spurious(w)
      PROVE  UNCHANGED <<loop_queue, called>>
  BY <1>4 DEF enter, sleep, wake, begin, backendTask, finish, spurious, history
<1>5. CASE \/ initialize \/ initializeReady \/ executeNotify \/ cleanup \/ cleanupStop
           \/ cleanupNotify \/ cleanupJoin \/ UNCHANGED vars
           \/ (\E p \in Prios : execute(p)) \/ (\E t \in Tasks : cancel(t))
  BY <1>5 DEF initialize, initializeReady, executeNotify, cleanup, cleanupStop, cleanupNotify,
              cleanupJoin, vars, execute, cancel, history
<1> QED
  BY <1>1, <1>2, <1>3, <1>4, <1>5 DEF Next, Client, Continue, Worker

\* The main_cb of a task that ran stays unposted and uncalled until its worker posts it.
LEMMA RanQuiet ==
  ASSUME TypeOK, OnePlace, Stages, [Next]_vars, NEW v \in Workers, pc[v] = "ran", ~postMainCb(v)
  PROVE  /\ item[v] \notin called'
         /\ \A k \in 1..Len(loop_queue') : loop_queue'[k] # <<"main_cb", item[v]>>
<1>a. /\ item[v] \notin called /\ item[v] # NoTask
      /\ \A k \in 1..Len(loop_queue) : loop_queue[k] # <<"main_cb", item[v]>>
  BY DEF Stages, StageOf, Holding
<1>q. loop_queue \in Seq(Entries)
  BY QueueType
<1>1. CASE UNCHANGED <<loop_queue, called>>
  BY <1>a, <1>1
<1>2. CASE /\ loop_queue # <<>> /\ loop_queue' = Tail(loop_queue)
           /\ \/ called' = called
              \/ Head(loop_queue)[1] = "main_cb" /\ called' = called \cup {Head(loop_queue)[2]}
  <2>1. /\ 1 \in 1..Len(loop_queue) /\ Head(loop_queue) = loop_queue[1] /\ loop_queue[1] \in Entries
        /\ \A k \in 1..Len(loop_queue') : k + 1 \in 1..Len(loop_queue)
                                          /\ loop_queue'[k] = loop_queue[k + 1]
    BY <1>2, <1>q, TailPlaces
  <2>2. Head(loop_queue)[1] = "main_cb" => Head(loop_queue)[2] # item[v]
    BY <1>a, <2>1, EntryIs
  <2> QED
    BY <1>a, <1>2, <2>1, <2>2
<1>3. ASSUME NEW e \in Entries, e # <<"main_cb", item[v]>>, loop_queue' = Append(loop_queue, e),
             UNCHANGED called
      PROVE  /\ item[v] \notin called'
             /\ \A k \in 1..Len(loop_queue') : loop_queue'[k] # <<"main_cb", item[v]>>
  <2>1. \A k \in 1..Len(loop_queue') : (k \in 1..Len(loop_queue) /\ loop_queue'[k] = loop_queue[k])
                                       \/ loop_queue'[k] = e
    BY <1>3, <1>q, AppendPlaces
  <2> QED
    BY <1>a, <1>3, <2>1
<1>4. ASSUME NEW w \in Workers, postMainCb(w), item[w] \in Tasks,
             loop_queue' = Append(loop_queue, <<"main_cb", item[w]>>), UNCHANGED called
      PROVE  /\ item[v] \notin called'
             /\ \A k \in 1..Len(loop_queue') : loop_queue'[k] # <<"main_cb", item[v]>>
  <2>1. w # v
    BY <1>4
  <2>2. item[w] # item[v]
    BY <1>a, <2>1 DEF OnePlace
  <2>3. <<"main_cb", item[w]>> \in Entries /\ <<"main_cb", item[w]>> # <<"main_cb", item[v]>>
    BY <1>4, <2>2 DEF Entries
  <2> QED
    BY <1>3, <1>4, <2>3
<1>5. ASSUME NEW w \in Workers, loop_queue' = Append(loop_queue, <<"join", w>>), UNCHANGED called
      PROVE  /\ item[v] \notin called'
             /\ \A k \in 1..Len(loop_queue') : loop_queue'[k] # <<"main_cb", item[v]>>
  <2>1. <<"join", w>> \in Entries /\ <<"join", w>> # <<"main_cb", item[v]>>
    BY DEF Entries
  <2> QED
    BY <1>3, <1>5, <2>1
<1> QED
  BY <1>1, <1>2, <1>4, <1>5, QueueStep

\* What is known of the task a worker holds is changed by this worker only.
LEMMA HeldStat ==
  ASSUME TypeOK, OnePlace, Stages, [Next]_vars, NEW v \in Workers, item[v] # NoTask,
         ~begin(v), ~backendTask(v)
  PROVE  tstat'[item[v]] = tstat[item[v]]
<1>a. /\ item \in [Workers -> Tasks \cup {NoTask}] /\ tstat \in [Tasks -> StatNames]
      /\ undo \in [Levels -> Seq(Tasks)] /\ posted \in 0..MaxTasks /\ MaxTasks \in Nat
  BY BoundAssumption DEF TypeOK, StatNames
<1>b. item[v] \in Tasks /\ tstat[item[v]] \notin {"none", "waiting"}
  BY <1>a DEF OnePlace
<1>1. ASSUME NEW t \in Tasks, t # item[v], NEW s, tstat' = [tstat EXCEPT ![t] = s]
      PROVE  tstat'[item[v]] = tstat[item[v]]
  BY <1>a, <1>b, <1>1
<1>2. ASSUME NEW p \in Prios, execute(p) PROVE tstat'[item[v]] = tstat[item[v]]
  <2>1. posted + 1 \in Tasks /\ posted + 1 > posted
    BY <1>2, <1>a DEF execute, Tasks
  <2>2. posted + 1 # item[v]
    BY <1>b, <2>1 DEF Stages
  <2>3. tstat' = [tstat EXCEPT ![posted + 1] = "waiting"]
    BY <1>2 DEF execute
  <2> QED
    BY <1>1, <2>1, <2>2, <2>3
<1>3. ASSUME NEW t \in Tasks, cancel(t) PROVE tstat'[item[v]] = tstat[item[v]]
  <2>1. tstat[t] = "waiting" /\ tstat' = [tstat EXCEPT ![t] = "cancelled"]
    BY <1>3 DEF cancel, cancelResult, OnePlace
  <2> QED
    BY <1>1, <1>b, <2>1
<1>4. CASE cleanup
  <2>1. item[v] \notin Waiting
    BY <1>b DEF OnePlace
  <2> QED
    BY <1>4, <1>b, <2>1 DEF cleanup
<1>5. ASSUME NEW w \in Workers, ShouldExitWaiting, leaveWait(w)
      PROVE  tstat'[item[v]] = tstat[item[v]]
  <2>1. ASSUME NEW l \in Levels, undo[l] # <<>>, Head(undo[l]) \in Tasks,
               tstat' = [tstat EXCEPT ![Head(undo[l])] = "claimed"]
        PROVE  tstat'[item[v]] = tstat[item[v]]
    <3>1. PICK t \in Tasks : t = Head(undo[l])
      BY <2>1
    <3>2. undo[l] \in Seq(Tasks)
      BY <1>a
    <3>3. 1 \in 1..Len(undo[l]) /\ undo[l][1] = t
      BY <2>1, <3>1, <3>2
    <3>4. tstat[t] = "waiting"
      BY <3>3, WaitingIs DEF OnePlace
    <3> QED
      BY <1>1, <1>b, <2>1, <3>1, <3>4
  <2> QED
    BY <1>5, <2>1, LeaveWait
<1>6. ASSUME NEW w \in Workers, begin(w) \/ backendTask(w) PROVE tstat'[item[v]] = tstat[item[v]]
  <2>1. item[w] \in Tasks
    BY <1>6, <1>a DEF begin, backendTask, Stages, StageOf, Holding
  <2>2. w # v
    BY <1>6
  <2>3. item[w] # item[v]
    BY <2>2 DEF OnePlace
  <2>4. \E s : tstat' = [tstat EXCEPT ![item[w]] = s]
    BY <1>6 DEF begin, backendTask
  <2> QED
    BY <1>1, <2>1, <2>3, <2>4
<1>7. ASSUME NEW w \in Workers, finish(w) PROVE tstat'[item[v]] = tstat[item[v]]
  BY <1>7 DEF finish, history
<1>8. CASE UNCHANGED tstat
  BY <1>8
<1> QED
  BY <1>2, <1>3, <1>4, <1>5, <1>6, <1>7, <1>8, TasksAlone

\* Every step keeps what is known of the held tasks.
LEMMA StagesStep ==
  ASSUME TypeOK, OnePlace, Stages, MainCbOnce, Joins, [Next]_vars
  PROVE  Stages'
<1>a. /\ item \in [Workers -> Tasks \cup {NoTask}] /\ tstat \in [Tasks -> StatNames]
      /\ pc \in [Workers -> PcNames] /\ NoTask \notin Tasks
  BY BoundAssumption DEF TypeOK, PcNames, StatNames, Tasks
<1>b. \A w \in Workers : StageOf(w)
  BY DEF Stages
<1>0. \A t \in Tasks : t > posted' => tstat'[t] = "none"
  BY StatStep
\* A worker that is not moved, or that holds nothing before and after.
<1>1. ASSUME NEW v \in Workers, item'[v] = item[v], ~begin(v), ~backendTask(v), ~postMainCb(v),
             pc'[v] = pc[v] \/ (pc[v] \notin Holding /\ pc'[v] \notin Holding)
      PROVE  StageOf(v)'
  <2>1. item[v] # NoTask => tstat'[item[v]] = tstat[item[v]]
    BY <1>1, HeldStat
  <2>2. pc[v] = "ran" => /\ item[v] \notin called'
                         /\ \A k \in 1..Len(loop_queue') : loop_queue'[k] # <<"main_cb", item[v]>>
    BY <1>1, RanQuiet
  <2> QED
    BY <1>b, <1>1, <2>1, <2>2, Undisturbed
\* A step of the client.
<1>3. CASE Client \/ Continue \/ UNCHANGED vars
  <2>1. UNCHANGED item
    BY <1>3 DEF Client, Continue, initialize, execute, cancel, cleanup, initializeReady,
         executeNotify, cleanupStop, cleanupNotify, cleanupJoin, mainLoop, tasks, vars
  <2>2. \A v \in Workers : pc'[v] = pc[v] \/ (pc[v] \notin Holding /\ pc'[v] \notin Holding)
    <3>1. CASE initialize
      BY <3>1 DEF initialize, CreateWorkers, Holding
    <3>2. ASSUME NEW p \in Prios, execute(p)
          PROVE  \A v \in Workers : pc'[v] = pc[v] \/ (pc[v] \notin Holding /\ pc'[v] \notin Holding)
      <4>1. UNCHANGED pc \/ \E w \in Workers : CreateWorkers({w})
        BY <3>2 DEF execute
      <4> QED
        BY <4>1 DEF CreateWorkers, Holding
    <3>3. CASE initializeReady \/ cleanupStop \/ cleanup \/ UNCHANGED vars \/ \E t \in Tasks : cancel(t)
      BY <3>3 DEF initializeReady, cleanupStop, cleanup, cancel, vars, workers
    <3>4. CASE executeNotify
      BY <3>4, <1>a DEF executeNotify, Holding
    <3>5. CASE cleanupNotify
      BY <3>5 DEF cleanupNotify, Holding
    <3>6. CASE cleanupJoin
      BY <3>6 DEF cleanupJoin, Holding
    <3>7. CASE mainLoop
      BY <3>7, <1>a, HeadJoins DEF mainLoop, Holding
    <3> QED
      BY <1>3, <3>1, <3>2, <3>3, <3>4, <3>5, <3>6, <3>7 DEF Client, Continue
  <2>3. ASSUME NEW v \in Workers, begin(v) \/ backendTask(v) \/ postMainCb(v)
        PROVE  StageOf(v)'
    <3>1. pc'[v] # pc[v] /\ pc[v] \in Holding
      BY <2>3, <1>a DEF begin, backendTask, postMainCb, Holding
    <3> QED
      BY <2>2, <3>1
  <2>4. \A v \in Workers : StageOf(v)'
    BY <1>1, <2>1, <2>2, <2>3
  <2> QED
    BY <1>0, <2>4 DEF Stages
\* A step of the worker w.
<1>4. ASSUME NEW w \in Workers, Worker(w) \/ spurious(w) PROVE Stages'
  <2>1. \A v \in Workers : v # w => pc'[v] = pc[v]
    BY <1>4, <1>a, WorkerPc
  <2>2. \A v \in Workers : v # w => item'[v] = item[v]
    <3>1. CASE UNCHANGED item \/ item' = [item EXCEPT ![w] = NoTask]
      BY <1>a, <3>1
    <3>2. CASE ShouldExitWaiting /\ leaveWait(w)
      BY <1>a, <3>2, LeaveWait
    <3>3. CASE enter(w) \/ wake(w)
      BY <3>1, <3>2, <3>3 DEF enter, wake
    <3>4. CASE sleep(w) \/ spurious(w) \/ begin(w) \/ backendTask(w) \/ postMainCb(w)
               \/ finish(w) \/ leave(w)
      BY <3>1, <3>4 DEF sleep, spurious, begin, backendTask, postMainCb, finish, leave, tasks
    <3> QED
      BY <1>4, <3>3, <3>4 DEF Worker
  <2>3. ASSUME NEW v \in Workers, v # w PROVE StageOf(v)'
    <3>1. pc'[v] = pc[v] /\ item'[v] = item[v]
      BY <2>1, <2>2, <2>3
    <3>2. ~begin(v) /\ ~backendTask(v) /\ ~postMainCb(v)
      BY <1>a, <3>1 DEF begin, backendTask, postMainCb
    <3> QED
      BY <1>1, <3>1, <3>2
  <2> SUFFICES StageOf(w)'
    BY <1>0, <2>3 DEF Stages
  <2>4. ASSUME pc[w] \notin Holding, pc'[w] \notin Holding, UNCHANGED item PROVE StageOf(w)'
    <3>1. ~begin(w) /\ ~backendTask(w) /\ ~postMainCb(w)
      BY <2>4 DEF begin, backendTask, postMainCb, Holding
    <3> QED
      BY <1>1, <2>4, <3>1
  <2>5. CASE ShouldExitWaiting /\ leaveWait(w) /\ pc[w] \in {"top", "woken"}
    <3>1. CASE pc' = [pc EXCEPT ![w] = "exited"] /\ UNCHANGED item
      BY <1>a, <2>4, <2>5, <3>1 DEF Holding
    <3>2. ASSUME NEW l \in Levels, Head(undo[l]) \in Tasks,
                 item' = [item EXCEPT ![w] = Head(undo[l])],
                 tstat' = [tstat EXCEPT ![Head(undo[l])] = "claimed"],
                 pc' = [pc EXCEPT ![w] = "got"]
          PROVE  StageOf(w)'
      <4>1. PICK t \in Tasks : t = Head(undo[l])
        BY <3>2
      <4>2. pc'[w] = "got" /\ item'[w] = t /\ tstat'[t] = "claimed" /\ t # NoTask
        BY <1>a, <3>2, <4>1
      <4> QED
        BY <4>2 DEF StageOf, Holding
    <3> QED
      BY <2>5, <3>1, <3>2, LeaveWait
  <2>6. CASE enter(w)
    BY <1>a, <2>4, <2>5, <2>6 DEF enter, Holding
  <2>7. CASE wake(w)
    BY <1>a, <2>4, <2>5, <2>7 DEF wake, Holding
  <2>8. CASE sleep(w) \/ spurious(w) \/ leave(w)
    BY <1>a, <2>4, <2>8 DEF sleep, spurious, leave, tasks, Holding
  <2>9. CASE begin(w)
    <3>1. item[w] \in Tasks
      BY <2>9, <1>a, <1>b DEF begin, StageOf, Holding
    <3>2. pc'[w] = "doing" /\ item'[w] = item[w] /\ tstat'[item[w]] = "executing"
      BY <2>9, <1>a, <3>1 DEF begin
    <3> QED
      BY <1>a, <3>1, <3>2 DEF StageOf, Holding
  <2>10. CASE backendTask(w)
    <3>1. item[w] \in Tasks /\ tstat[item[w]] = "executing"
      BY <2>10, <1>a, <1>b DEF backendTask, StageOf, Holding
    <3>2. /\ pc'[w] = "ran" /\ item'[w] = item[w] /\ tstat'[item[w]] = "executed"
          /\ UNCHANGED <<called, loop_queue>>
      BY <2>10, <1>a, <3>1 DEF backendTask, tasks
    <3>3. item[w] \notin called
      BY <3>1 DEF MainCbOnce
    <3>4. ASSUME NEW k \in 1..Len(loop_queue), loop_queue[k] = <<"main_cb", item[w]>> PROVE FALSE
      <4>1. loop_queue[k][1] = "main_cb" /\ loop_queue[k][2] = item[w]
        BY <3>4
      <4> QED
        BY <3>1, <4>1 DEF MainCbOnce
    <3> QED
      BY <1>a, <3>1, <3>2, <3>3, <3>4 DEF StageOf, Holding
  <2>11. CASE postMainCb(w)
    <3>1. item[w] \in Tasks /\ tstat[item[w]] = "executed"
      BY <2>11, <1>a, <1>b DEF postMainCb, StageOf, Holding
    <3>2. pc'[w] = "erase" /\ item'[w] = item[w] /\ tstat'[item[w]] = "executed"
      BY <2>11, <1>a, <3>1 DEF postMainCb, tasks, history
    <3> QED
      BY <1>a, <3>1, <3>2 DEF StageOf, Holding
  <2>12. CASE finish(w)
    <3>1. pc'[w] = "top" /\ item'[w] = NoTask
      BY <2>12, <1>a DEF finish
    <3> QED
      BY <3>1 DEF StageOf, Holding
  <2> QED
    BY <1>4, <2>6, <2>7, <2>8, <2>9, <2>10, <2>11, <2>12 DEF Worker
<1> QED
  BY <1>3, <1>4 DEF Next

\* Every step keeps the entries of the queue apart, and each main_cb for an executed task.
LEMMA MainCbStep ==
  ASSUME TypeOK, OnePlace, Stages, MainCbOnce, Joins, [Next]_vars
  PROVE  MainCbOnce'
<1>q. loop_queue \in Seq(Entries) /\ \A k \in 1..Len(loop_queue) : loop_queue[k] \in Entries
  BY QueueType
<1>a. /\ \A j, k \in 1..Len(loop_queue) : loop_queue[j] = loop_queue[k] => j = k
      /\ \A k \in 1..Len(loop_queue) : loop_queue[k][1] = "main_cb" =>
           tstat[loop_queue[k][2]] = "executed" /\ loop_queue[k][2] \notin called
      /\ \A t \in called : t \in Tasks /\ tstat[t] = "executed"
  BY DEF MainCbOnce, TypeOK
<1>b. \A t \in Tasks : tstat[t] = "executed" => tstat'[t] = "executed"
  BY StatStep
<1>c. \A k \in 1..Len(loop_queue) : loop_queue[k][1] = "main_cb" =>
        tstat'[loop_queue[k][2]] = "executed"
  BY <1>q, <1>a, <1>b, EntryIs
<1>d. \A t \in called : tstat'[t] = "executed"
  BY <1>a, <1>b
<1>1. CASE UNCHANGED <<loop_queue, called>>
  BY <1>1, <1>a, <1>c, <1>d DEF MainCbOnce
<1>2. CASE /\ loop_queue # <<>> /\ loop_queue' = Tail(loop_queue)
           /\ \/ called' = called
              \/ Head(loop_queue)[1] = "main_cb" /\ called' = called \cup {Head(loop_queue)[2]}
  <2>1. /\ 1 \in 1..Len(loop_queue) /\ Head(loop_queue) = loop_queue[1]
        /\ \A k \in 1..Len(loop_queue') : k \in Int /\ k + 1 \in 1..Len(loop_queue) /\ k + 1 # 1
                                          /\ loop_queue'[k] = loop_queue[k + 1]
    BY <1>2, <1>q, TailPlaces
  <2>2. \A j, k \in 1..Len(loop_queue') : loop_queue'[j] = loop_queue'[k] => j = k
    <3> SUFFICES ASSUME NEW j \in 1..Len(loop_queue'), NEW k \in 1..Len(loop_queue'),
                        loop_queue'[j] = loop_queue'[k]
                 PROVE  j = k
      OBVIOUS
    <3>1. j + 1 = k + 1
      BY <1>a, <2>1
    <3> QED
      BY <2>1, <3>1
  <2>3. ASSUME NEW k \in 1..Len(loop_queue'), loop_queue'[k][1] = "main_cb"
        PROVE  tstat'[loop_queue'[k][2]] = "executed" /\ loop_queue'[k][2] \notin called'
    <3>1. PICK i \in 1..Len(loop_queue) : i # 1 /\ loop_queue'[k] = loop_queue[i]
      BY <2>1
    <3>2. loop_queue[i] # loop_queue[1]
      BY <1>a, <2>1, <3>1
    <3>3. Head(loop_queue)[1] = "main_cb" => loop_queue[i][2] # Head(loop_queue)[2]
      <4>1. loop_queue[i] \in Entries /\ loop_queue[1] \in Entries /\ loop_queue[i][1] = "main_cb"
        BY <1>q, <2>1, <2>3, <3>1
      <4>2. loop_queue[i] = <<"main_cb", loop_queue[i][2]>>
        BY <4>1, EntryIs
      <4>3. loop_queue[1][1] = "main_cb" => loop_queue[1] = <<"main_cb", loop_queue[1][2]>>
        BY <4>1, EntryIs
      <4> QED
        BY <2>1, <3>2, <4>2, <4>3
    <3>4. loop_queue[i][2] \notin called /\ tstat'[loop_queue[i][2]] = "executed"
      BY <1>a, <1>c, <2>3, <3>1
    <3> QED
      BY <1>2, <3>1, <3>3, <3>4
  <2>4. \A t \in called' : tstat'[t] = "executed"
    BY <1>2, <1>c, <1>d, <2>1
  <2> QED
    BY <2>2, <2>3, <2>4 DEF MainCbOnce
<1>3. ASSUME NEW e \in Entries, loop_queue' = Append(loop_queue, e), UNCHANGED called,
             \A k \in 1..Len(loop_queue) : loop_queue[k] # e,
             e[1] = "main_cb" => tstat'[e[2]] = "executed" /\ e[2] \notin called
      PROVE  MainCbOnce'
  <2>1. \A k \in 1..Len(loop_queue') :
          \/ k \in 1..Len(loop_queue) /\ loop_queue'[k] = loop_queue[k]
          \/ k = Len(loop_queue) + 1 /\ loop_queue'[k] = e
    BY <1>3, <1>q, AppendPlaces
  <2>2. \A j, k \in 1..Len(loop_queue') : loop_queue'[j] = loop_queue'[k] => j = k
    BY <1>a, <1>3, <2>1
  <2>3. ASSUME NEW k \in 1..Len(loop_queue'), loop_queue'[k][1] = "main_cb"
        PROVE  tstat'[loop_queue'[k][2]] = "executed" /\ loop_queue'[k][2] \notin called'
    BY <1>a, <1>c, <1>3, <2>1, <2>3
  <2> QED
    BY <1>d, <1>3, <2>2, <2>3 DEF MainCbOnce
<1>4. ASSUME NEW w \in Workers, postMainCb(w), item[w] \in Tasks,
             loop_queue' = Append(loop_queue, <<"main_cb", item[w]>>), UNCHANGED called
      PROVE  MainCbOnce'
  <2>1. /\ item[w] \notin called /\ tstat[item[w]] = "executed"
        /\ \A k \in 1..Len(loop_queue) : loop_queue[k] # <<"main_cb", item[w]>>
    BY <1>4 DEF postMainCb, Stages, StageOf
  <2>0. <<"main_cb", item[w]>> \in Entries
    BY <1>4 DEF Entries
  <2>2. PICK e \in Entries : e = <<"main_cb", item[w]>>
    BY <2>0
  <2>3. e[1] = "main_cb" => tstat'[e[2]] = "executed" /\ e[2] \notin called
    BY <1>b, <1>4, <2>1, <2>2
  <2> QED
    BY <1>3, <1>4, <2>1, <2>2, <2>3
<1>5. ASSUME NEW w \in Workers, pc[w] = "leaving", UNCHANGED called,
             loop_queue' = Append(loop_queue, <<"join", w>>)
      PROVE  MainCbOnce'
  <2>0. <<"join", w>> \in Entries
    BY DEF Entries
  <2>1. PICK e \in Entries : e = <<"join", w>>
    BY <2>0
  <2>2. \A k \in 1..Len(loop_queue) : loop_queue[k] # e
    BY <1>5, <2>1 DEF Joins
  <2>3. e[1] # "main_cb"
    BY <2>1
  <2> QED
    BY <1>3, <1>5, <2>1, <2>2, <2>3
<1> QED
  BY <1>1, <1>2, <1>4, <1>5, QueueStep

-----------------------------------------------------------------------------
(* The theorems.                                                           *)

IInv == /\ TypeOK /\ IdleCount /\ Registered /\ Joins
        /\ OnePlace /\ Stages /\ MainCbOnce

\* The invariant holds of a pool that was never initialized.
LEMMA InvInit == Init => IInv
<1> SUFFICES ASSUME Init PROVE IInv
  OBVIOUS
<1> USE DEF Init
<1>1. TypeOK
  <2>1. undo \in [Levels -> Seq(Tasks)]
    OBVIOUS
  <2>2. posted \in 0..MaxTasks /\ inits \in 0..MaxInit /\ idle \in Nat
    BY BoundAssumption
  <2>3. loop_queue \in Seq(({"main_cb"} \X Tasks) \cup ({"join"} \X Workers))
    OBVIOUS
  <2>4. /\ pc \in [Workers -> PcNames] /\ item \in [Workers -> Tasks \cup {NoTask}]
        /\ tstat \in [Tasks -> StatNames]
    BY DEF PcNames, StatNames
  <2>5. /\ is_ready \in BOOLEAN /\ stop_flag \in BOOLEAN /\ asserted \in BOOLEAN
        /\ doing \subseteq Tasks /\ called \subseteq Tasks
        /\ threads \subseteq Workers /\ thread_vec \subseteq Workers
        /\ mpc \in {"idle", "notify", "ready", "stop", "notify_all", "join"}
    OBVIOUS
  <2> HIDE DEF Init
  <2> QED
    BY <2>1, <2>2, <2>3, <2>4, <2>5 DEF TypeOK, PcNames, StatNames
<1>2. IdleCount
  <2>1. {w \in Workers : pc[w] \in {"pred", "blocked", "woken"}} = {}
    OBVIOUS
  <2> QED
    BY <2>1, FS_EmptySet DEF IdleCount
<1>3. Registered
  BY FS_EmptySet, ConfigAssumption DEF Registered, Stop, Gone
<1>4. Joins /\ MainCbOnce
  <2>1. Len(loop_queue) = 0
    OBVIOUS
  <2> QED
    BY <2>1 DEF Joins, MainCbOnce
<1>5. OnePlace
  <2>1. Once(undo) /\ \A t : ~At(t, undo)
    <3>1. \A l \in Levels : Len(undo[l]) = 0
      OBVIOUS
    <3> QED
      BY <3>1 DEF Once, At
  <2> QED
    BY <1>1, <2>1, OnePlaceIs
<1>6. Stages
  BY DEF Stages, StageOf, Holding
<1> QED
  BY <1>1, <1>2, <1>3, <1>4, <1>5, <1>6 DEF IInv

\* The invariant is inductive.
LEMMA InvStep == IInv /\ [Next]_vars => IInv'
<1> SUFFICES ASSUME IInv, [Next]_vars PROVE IInv'
  OBVIOUS
<1> USE DEF IInv
<1>1. TypeOK'
  BY TypeStep
<1>2. IdleCount'
  BY IdleStep
<1>3. Registered'
  BY RegisteredStep
<1>4. Joins'
  BY JoinsStep
<1>5. OnePlace'
  BY <1>1, OnePlaceStep
<1>6. Stages'
  BY StagesStep
<1>7. MainCbOnce'
  BY MainCbStep
<1> QED
  BY <1>1, <1>2, <1>3, <1>4, <1>5, <1>6, <1>7

\* The invariant holds throughout.
LEMMA InvHolds == Spec => []IInv
  BY InvInit, InvStep, PTL DEF Spec

\* A worker that can take tasks is registered, and the registered ones are within the limit.
LEMMA InvLimit == IInv => AtMostMax
<1> SUFFICES ASSUME IInv PROVE AtMostMax
  OBVIOUS
<1> DEFINE A == {w \in Workers : pc[w] \notin {"none", "leaving", "exited"}}
<1>1. A \subseteq threads \/ A \subseteq thread_vec
  <2>1. \A w \in A : w \in threads \cup thread_vec
    BY DEF IInv, Registered, Gone
  <2>2. threads = {} \/ thread_vec = {}
    BY DEF IInv, Registered
  <2> QED
    BY <2>1, <2>2
<1>2. ASSUME NEW S \in SUBSET Workers, A \subseteq S, Cardinality(S) <= MaxNum
      PROVE  Cardinality(A) <= MaxNum
  <2>1. IsFiniteSet(S)
    BY BoundAssumption, FS_Subset
  <2>2. IsFiniteSet(A) /\ Cardinality(A) <= Cardinality(S)
    BY <1>2, <2>1, FS_Subset
  <2>3. Cardinality(A) \in Nat /\ Cardinality(S) \in Nat
    BY <2>1, <2>2, FS_CardinalityType
  <2> HIDE DEF A
  <2> QED
    BY <1>2, <2>2, <2>3, ConfigAssumption
<1>3. /\ threads \subseteq Workers /\ thread_vec \subseteq Workers
      /\ Cardinality(threads) <= MaxNum /\ Cardinality(thread_vec) <= MaxNum
  BY DEF IInv, TypeOK, Registered
<1> QED
  BY <1>1, <1>2, <1>3 DEF AtMostMax

\* threadProc() and the client keep the types; idle_thread_num, which is unsigned, never
\* goes below zero.
THEOREM TypeCorrect == Spec => []TypeOK
  BY InvHolds, PTL DEF IInv

\* idle_thread_num is the number of workers in the wait, by which execute() decides whether
\* to create a worker and threadProc() whether one is too many.
THEOREM IdleCounted == Spec => []IdleCount
  BY InvHolds, PTL DEF IInv

\* The pool keeps max_thread_num: however it grows, shrinks and is cleaned up, no more
\* workers than that can take tasks.
THEOREM ThreadsBounded == Spec => []AtMostMax
  BY InvHolds, InvLimit, PTL

\* A task is never in two places: no worker takes one that another has taken, or one that
\* cancel() or cleanup() took away.
THEOREM TaskInOnePlace == Spec => []OnePlace
  BY InvHolds, PTL DEF IInv

\* main_cb is posted and called at most once for a task, and only after backend_task() ran.
THEOREM CalledOnce == Spec => []MainCbOnce
  BY InvHolds, PTL DEF IInv
=============================================================================
