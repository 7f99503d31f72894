--------------------------- MODULE CommonLoopProofs ---------------------------
(***************************************************************************)
(* Proofs about event::CommonLoop, for any number of functions, runs and   *)
(* clean-up rounds.                                                        *)
(***************************************************************************)
EXTENDS CommonLoop, TLAPS

\* tmp_func_queue_ is empty outside the two loops that drain it, so that the swap
\* leaves the queue it is swapped with empty.
TmpDrained == lpc \notin {"inloop", "next"} => tmp = <<>>

\* has_commit_run_req_ mirrors the eventfd through the first run of the loop, and is set
\* while functions wait.
Committed ==
  /\ lpc = "idle" => ~running
  /\ runs = 0 => ~running /\ ~has_commit
  /\ runs = 1 /\ running => (has_commit <=> eventfd > 0)
  /\ runs = 1 /\ running /\ in_loop # <<>> => has_commit

\* RemoveAt() of a position leaves a shorter sequence of the same elements.
LEMMA RemoveAtType ==
  ASSUME NEW S, NEW q \in Seq(S), NEW k \in 1..Len(q)
  PROVE  RemoveAt(q, k) \in Seq(S)
<1>1. SubSeq(q, 1, k - 1) \in Seq(S) /\ SubSeq(q, k + 1, Len(q)) \in Seq(S)
  OBVIOUS
<1> QED
  BY <1>1 DEF RemoveAt

\* cancel() leaves queues of the same functions.
LEMMA RemoveType ==
  ASSUME NEW S, NEW q \in Seq(S), NEW id
  PROVE  RemoveRunFuncItemById(q, id) \in Seq(S)
<1>1. CASE \E k \in 1..Len(q) : q[k] = id
  <2>1. (CHOOSE k \in 1..Len(q) : q[k] = id) \in 1..Len(q)
    BY <1>1
  <2> QED
    BY <1>1, <2>1, RemoveAtType DEF RemoveRunFuncItemById
<1>2. CASE ~\E k \in 1..Len(q) : q[k] = id
  BY <1>2 DEF RemoveRunFuncItemById
<1> QED
  BY <1>1, <1>2

\* The ids handed out are even for runInLoop() and odd for runNext().
IdType == /\ \E k \in 0..MaxInLoop : in_loop_id = 2 * k
          /\ \E k \in 0..MaxNext : next_id = 2 * k + 1

\* The next id of runInLoop() is one of its ids.
LEMMA NewInLoopId ==
  ASSUME IdType, in_loop_id < 2 * MaxInLoop
  PROVE  /\ in_loop_id + 2 \in InLoopIds
         /\ \E k \in 0..MaxInLoop : in_loop_id + 2 = 2 * k
<1>1. PICK k \in 0..MaxInLoop : in_loop_id = 2 * k
  BY DEF IdType
<1>2. k + 1 \in 1..MaxInLoop /\ in_loop_id + 2 = 2 * (k + 1)
  BY <1>1, BoundAssumption
<1> QED
  <2>1. in_loop_id + 2 \in InLoopIds
    BY <1>2 DEF InLoopIds
  <2>2. k + 1 \in 0..MaxInLoop
    BY <1>2, BoundAssumption
  <2> QED
    BY <1>2, <2>1, <2>2

\* The next id of runNext() is one of its ids.
LEMMA NewNextId ==
  ASSUME IdType, next_id < 2 * MaxNext
  PROVE  /\ next_id + 2 \in NextIds
         /\ \E k \in 0..MaxNext : next_id + 2 = 2 * k + 1
<1>1. PICK k \in 0..MaxNext : next_id = 2 * k + 1
  BY DEF IdType
<1>2. k + 1 \in 1..MaxNext /\ next_id + 2 = 2 * (k + 1) + 1
  BY <1>1, BoundAssumption
<1> QED
  BY <1>2, BoundAssumption DEF NextIds

\* A queue of one kind of functions is a queue of functions.
LEMMA QueueTypes ==
  /\ \A q \in Seq(InLoopIds) : q \in Seq(Ids)
  /\ \A q \in Seq(NextIds) : q \in Seq(Ids)
  /\ <<>> \in Seq(InLoopIds) /\ <<>> \in Seq(NextIds)
<1>1. InLoopIds \subseteq Ids /\ NextIds \subseteq Ids
  BY DEF Ids
<1> QED
  BY <1>1

\* There is nothing to cancel in an empty queue.
LEMMA RemoveEmpty == \A id : RemoveRunFuncItemById(<<>>, id) = <<>>
<1>1. ~\E k \in 1..Len(<<>>) : TRUE
  OBVIOUS
<1> QED
  BY <1>1 DEF RemoveRunFuncItemById

\* Only posting a function takes an id.
LEMMA IdStep ==
  ASSUME TypeOK, IdType, [Next]_vars
  PROVE  IdType'
<1>1. ASSUME NEW t \in Callers, runInLoop(t) PROVE IdType'
  <2>1. in_loop_id' = in_loop_id + 2 /\ next_id' = next_id /\ in_loop_id < 2 * MaxInLoop
    BY <1>1 DEF runInLoop
  <2> QED
    BY <2>1, NewInLoopId DEF IdType
<1>2. CASE PushNext
  <2>1. next_id' = next_id + 2 /\ in_loop_id' = in_loop_id /\ next_id < 2 * MaxNext
    BY <1>2 DEF PushNext
  <2> QED
    BY <2>1, NewNextId DEF IdType
<1>3. ASSUME NEW id \in Ids, cancel(id) PROVE IdType'
  BY <1>3 DEF cancel, ids, IdType
<1>4. CASE exitLoop
  BY <1>4 DEF exitLoop, ids, IdType
<1>5. CASE exitTimeout
  BY <1>5 DEF exitTimeout, ids, IdType
<1>6. CASE runLoop
  BY <1>6 DEF runLoop, ids, IdType
<1>7. CASE epollWait
  BY <1>7 DEF epollWait, ids, IdType
<1>8. CASE timersHandled
  BY <1>8 DEF timersHandled, ids, IdType
<1>9. CASE handleRunInLoopFunc
  BY <1>9 DEF handleRunInLoopFunc, ids, IdType
<1>10. CASE handleNextFunc
  BY <1>10 DEF handleNextFunc, ids, IdType
<1>11. CASE callTmp
  BY <1>11 DEF callTmp, ids, IdType
<1>12. CASE callReturns
  BY <1>12 DEF callReturns, ids, IdType
<1>13. CASE tmpEmpty
  BY <1>13 DEF tmpEmpty, ids, IdType
<1>14. CASE cleanupDeferredTasks
  BY <1>14 DEF cleanupDeferredTasks, ids, IdType
<1>15. CASE cleanupRound
  BY <1>15 DEF cleanupRound, IdType
<1>16. CASE callCleanNext
  BY <1>16 DEF callCleanNext, ids, IdType
<1>17. CASE callCleanInLoop
  BY <1>17 DEF callCleanInLoop, ids, IdType
<1>18. CASE cleanEmpty
  BY <1>18 DEF cleanEmpty, ids, IdType
<1>19. CASE cleanupEnd
  BY <1>19 DEF cleanupEnd, ids, IdType
<1>20. CASE runInLoopMore
  BY <1>20 DEF runInLoopMore, IdType
<1>21. CASE callCleanMore
  BY <1>21 DEF callCleanMore, IdType
<1>22. CASE UNCHANGED vars
  BY <1>22 DEF vars, ids, IdType
<1> QED
  BY <1>1, <1>2, <1>3, <1>4, <1>5, <1>6, <1>7, <1>8, <1>9, <1>10,
     <1>11, <1>12, <1>13, <1>14, <1>15, <1>16, <1>17, <1>18, <1>19, <1>20, <1>21, <1>22
     DEF Next, User, Loop, run, runNext

\* No step leaves the types: a swap never mixes the two kinds of functions.
LEMMA TypeStep ==
  ASSUME TypeOK, IdType, TmpDrained, [Next]_vars
  PROVE  TypeOK'
<1> USE DEF TypeOK
<1>1. ASSUME NEW t \in Callers, runInLoop(t) PROVE TypeOK'
  <2>1. in_loop_id + 2 \in InLoopIds /\ in_loop_id + 2 \in Ids
    BY <1>1, NewInLoopId DEF runInLoop, Ids
  <2>2. in_loop' \in Seq(InLoopIds) /\ in_loop_id' \in Nat
    BY <1>1, <2>1 DEF runInLoop
  <2>3. status' \in [Ids -> {"none", "pending", "done", "cancelled"}]
    BY <1>1, <2>1 DEF runInLoop
  <2>4. eventfd' \in Nat /\ has_commit' \in BOOLEAN
    <3>1. CASE running /\ ~has_commit
      BY <1>1, <3>1 DEF runInLoop, commitRunRequest
    <3>2. CASE ~(running /\ ~has_commit)
      BY <1>1, <3>2 DEF runInLoop, commitRunRequest, wakeup
    <3> QED
      BY <3>1, <3>2
  <2> QED
    BY <1>1, <2>2, <2>3, <2>4 DEF runInLoop, phase
<1>2. CASE PushNext
  <2>1. next_id + 2 \in NextIds /\ next_id + 2 \in Ids
    BY <1>2, NewNextId DEF PushNext, Ids
  <2>2. next' \in Seq(NextIds) /\ next_id' \in Nat
    BY <1>2, <2>1 DEF PushNext
  <2>3. status' \in [Ids -> {"none", "pending", "done", "cancelled"}]
    BY <1>2, <2>1 DEF PushNext
  <2> QED
    BY <1>2, <2>2, <2>3 DEF PushNext, phase, wakeup
<1>3. ASSUME NEW id \in Ids, cancel(id) PROVE TypeOK'
  <2>1. tmp' \in Seq(Ids) /\ next' \in Seq(NextIds) /\ in_loop' \in Seq(InLoopIds)
    BY <1>3, RemoveType DEF cancel
  <2>2. status' \in [Ids -> {"none", "pending", "done", "cancelled"}]
    BY <1>3 DEF cancel
  <2> QED
    BY <1>3, <2>1, <2>2 DEF cancel, wakeup, ids, phase
<1>4. CASE exitLoop
  BY <1>4 DEF exitLoop, queues, wakeup, ids, phase, history
<1>5. CASE exitTimeout
  BY <1>5 DEF exitTimeout, queues, wakeup, ids, phase, history
<1>6. CASE runLoop
  <2>1. eventfd' \in Nat /\ has_commit' \in BOOLEAN
    <3>1. CASE in_loop # <<>> /\ ~has_commit
      BY <1>6, <3>1 DEF runLoop
    <3>2. CASE ~(in_loop # <<>> /\ ~has_commit)
      BY <1>6, <3>2 DEF runLoop
    <3> QED
      BY <3>1, <3>2
  <2> QED
    BY <1>6, <2>1 DEF runLoop, queues, ids, history
<1>7. CASE epollWait
  BY <1>7 DEF epollWait, queues, wakeup, ids, phase, history
<1>8. CASE timersHandled
  BY <1>8 DEF timersHandled, queues, wakeup, ids, phase, history
<1>9. CASE handleRunInLoopFunc
  <2>1. in_loop' \in Seq(InLoopIds) /\ tmp' \in Seq(Ids)
    BY <1>9, QueueTypes DEF handleRunInLoopFunc, TmpDrained
  <2> QED
    BY <1>9, <2>1 DEF handleRunInLoopFunc, ids, history
<1>10. CASE handleNextFunc
  <2>1. next' \in Seq(NextIds) /\ tmp' \in Seq(Ids)
    BY <1>10, QueueTypes DEF handleNextFunc, TmpDrained
  <2> QED
    BY <1>10, <2>1 DEF handleNextFunc, wakeup, ids, history
<1>11. CASE callTmp
  <2>1. tmp' \in Seq(Ids) /\ status' \in [Ids -> {"none", "pending", "done", "cancelled"}]
    BY <1>11 DEF callTmp
  <2> QED
    BY <1>11, <2>1 DEF callTmp, wakeup, ids
<1>12. CASE callReturns
  BY <1>12 DEF callReturns, queues, wakeup, ids, phase, history
<1>13. CASE tmpEmpty
  BY <1>13 DEF tmpEmpty, queues, wakeup, ids, phase, history
<1>14. CASE cleanupDeferredTasks
  <2>1. remain' \in Int /\ lpc' = "round"
    BY <1>14, BoundAssumption DEF cleanupDeferredTasks
  <2>2. UNCHANGED <<queues, wakeup, ids, status>>
    BY <1>14 DEF cleanupDeferredTasks
  <2>3. UNCHANGED <<cb, ready, keep_running, running, exit_timer, runs>>
    BY <1>14 DEF cleanupDeferredTasks
  <2> QED
    BY <2>1, <2>2, <2>3 DEF queues, wakeup, ids
<1>15. CASE cleanupRound
  <2>1. /\ clean_next' \in Seq(NextIds) /\ next' \in Seq(NextIds)
        /\ clean_in_loop' \in Seq(InLoopIds) /\ in_loop' \in Seq(InLoopIds)
    BY <1>15, QueueTypes DEF cleanupRound, MoveToLocal
  <2> QED
    BY <1>15, <2>1 DEF cleanupRound, MoveToLocal, wakeup, history
<1>16. CASE callCleanNext
  <2>1. /\ clean_next' \in Seq(NextIds)
        /\ status' \in [Ids -> {"none", "pending", "done", "cancelled"}]
    <3>1. Head(clean_next) \in Ids
      BY <1>16 DEF callCleanNext, Ids
    <3> QED
      BY <1>16, <3>1 DEF callCleanNext
  <2> QED
    BY <1>16, <2>1 DEF callCleanNext, wakeup, ids
<1>17. CASE callCleanInLoop
  <2>1. /\ clean_in_loop' \in Seq(InLoopIds)
        /\ status' \in [Ids -> {"none", "pending", "done", "cancelled"}]
    <3>1. Head(clean_in_loop) \in Ids
      BY <1>17 DEF callCleanInLoop, Ids
    <3> QED
      BY <1>17, <3>1 DEF callCleanInLoop
  <2> QED
    BY <1>17, <2>1 DEF callCleanInLoop, wakeup, ids
<1>18. CASE cleanEmpty
  BY <1>18 DEF cleanEmpty, queues, wakeup, ids, phase, history
<1>19. CASE cleanupEnd
  <2>1. remain' \in Int
    BY <1>19 DEF cleanupEnd
  <2> QED
    BY <1>19, <2>1 DEF cleanupEnd, queues, ids
<1>20. CASE runInLoopMore
  <2>1. eventfd' \in Nat /\ has_commit' \in BOOLEAN
    <3>1. CASE running /\ ~has_commit
      BY <1>20, <3>1 DEF runInLoopMore, commitRunRequest
    <3>2. CASE ~(running /\ ~has_commit)
      BY <1>20, <3>2 DEF runInLoopMore, commitRunRequest, wakeup
    <3> QED
      BY <3>1, <3>2
  <2> QED
    BY <1>20, <2>1 DEF runInLoopMore, queues, phase, history
<1>21. CASE callCleanMore
  BY <1>21 DEF callCleanMore, queues, wakeup, history
<1>22. CASE UNCHANGED vars
  BY <1>22 DEF vars, queues, wakeup, ids, phase, history
<1> QED
  BY <1>1, <1>2, <1>3, <1>4, <1>5, <1>6, <1>7, <1>8, <1>9, <1>10,
     <1>11, <1>12, <1>13, <1>14, <1>15, <1>16, <1>17, <1>18, <1>19, <1>20, <1>21, <1>22
     DEF Next, User, Loop, run, runNext

\* tmp_func_queue_ is filled only where it is drained.
LEMMA TmpStep ==
  ASSUME TypeOK, TmpDrained, [Next]_vars
  PROVE  TmpDrained'
<1> USE DEF TmpDrained
<1>1. ASSUME NEW t \in Callers, runInLoop(t) PROVE TmpDrained'
  BY <1>1 DEF runInLoop, queues, wakeup, ids, phase, history
<1>2. CASE PushNext
  BY <1>2 DEF PushNext, queues, wakeup, ids, phase, history
<1>3. ASSUME NEW id \in Ids, cancel(id) PROVE TmpDrained'
  <2>1. tmp = <<>> => tmp' = <<>>
    BY <1>3, RemoveEmpty DEF cancel
  <2> QED
    BY <1>3, <2>1 DEF cancel, phase
<1>4. CASE exitLoop
  BY <1>4 DEF exitLoop, queues, wakeup, ids, phase, history
<1>5. CASE exitTimeout
  BY <1>5 DEF exitTimeout, queues, wakeup, ids, phase, history
<1>6. CASE runLoop
  BY <1>6 DEF runLoop, queues, wakeup, ids, phase, history
<1>7. CASE epollWait
  BY <1>7 DEF epollWait, queues, wakeup, ids, phase, history
<1>8. CASE timersHandled
  BY <1>8 DEF timersHandled, queues, wakeup, ids, phase, history
<1>9. CASE handleRunInLoopFunc
  BY <1>9 DEF handleRunInLoopFunc, queues, wakeup, ids, phase, history
<1>10. CASE handleNextFunc
  BY <1>10 DEF handleNextFunc, queues, wakeup, ids, phase, history
<1>11. CASE callTmp
  BY <1>11 DEF callTmp, queues, wakeup, ids, phase, history
<1>12. CASE callReturns
  BY <1>12 DEF callReturns, queues, wakeup, ids, phase, history
<1>13. CASE tmpEmpty
  BY <1>13 DEF tmpEmpty, queues, wakeup, ids, phase, history
<1>14. CASE cleanupDeferredTasks
  BY <1>14 DEF cleanupDeferredTasks, queues, wakeup, ids, phase, history
<1>15. CASE cleanupRound
  BY <1>15 DEF cleanupRound, MoveToLocal, queues, wakeup, phase, history
<1>16. CASE callCleanNext
  BY <1>16 DEF callCleanNext, queues, wakeup, ids, phase, history
<1>17. CASE callCleanInLoop
  BY <1>17 DEF callCleanInLoop, queues, wakeup, ids, phase, history
<1>18. CASE cleanEmpty
  BY <1>18 DEF cleanEmpty, queues, wakeup, ids, phase, history
<1>19. CASE cleanupEnd
  BY <1>19 DEF cleanupEnd, queues, wakeup, ids, phase, history
<1>20. CASE runInLoopMore
  BY <1>20 DEF runInLoopMore, queues, phase
<1>21. CASE callCleanMore
  BY <1>21 DEF callCleanMore, queues
<1>22. CASE UNCHANGED vars
  BY <1>22 DEF vars, queues, wakeup, ids, phase, history
<1> QED
  BY <1>1, <1>2, <1>3, <1>4, <1>5, <1>6, <1>7, <1>8, <1>9, <1>10,
     <1>11, <1>12, <1>13, <1>14, <1>15, <1>16, <1>17, <1>18, <1>19, <1>20, <1>21, <1>22
     DEF Next, User, Loop, run, runNext

\* Every post, swap and restart keeps the request committed.
LEMMA CommittedStep ==
  ASSUME TypeOK, TmpDrained, Committed, [Next]_vars
  PROVE  Committed'
<1> USE DEF TypeOK, TmpDrained, Committed
<1>1. ASSUME NEW t \in Callers, runInLoop(t) PROVE Committed'
  <2>1. CASE running
    <3>1. has_commit' /\ (has_commit => eventfd' = eventfd) /\ (~has_commit => eventfd' > 0)
      BY <1>1, <2>1 DEF runInLoop, commitRunRequest, wakeup
    <3> QED
      BY <1>1, <2>1, <3>1 DEF runInLoop, phase
  <2>2. CASE ~running
    BY <1>1, <2>2 DEF runInLoop, phase, wakeup
  <2> QED
    BY <2>1, <2>2
<1>2. CASE PushNext
  BY <1>2 DEF PushNext, queues, wakeup, ids, phase, history
<1>3. ASSUME NEW id \in Ids, cancel(id) PROVE Committed'
  <2>1. in_loop = <<>> => in_loop' = <<>>
    BY <1>3, RemoveEmpty DEF cancel
  <2> QED
    BY <1>3, <2>1 DEF cancel, phase, wakeup
<1>4. CASE exitLoop
  BY <1>4 DEF exitLoop, queues, wakeup, ids, phase, history
<1>5. CASE exitTimeout
  BY <1>5 DEF exitTimeout, queues, wakeup, ids, phase, history
<1>6. CASE runLoop
  BY <1>6 DEF runLoop, queues, wakeup, ids, phase, history
<1>7. CASE epollWait
  BY <1>7 DEF epollWait, queues, wakeup, ids, phase, history
<1>8. CASE timersHandled
  BY <1>8 DEF timersHandled, queues, wakeup, ids, phase, history
<1>9. CASE handleRunInLoopFunc
  BY <1>9 DEF handleRunInLoopFunc, queues, wakeup, ids, phase, history
<1>10. CASE handleNextFunc
  BY <1>10 DEF handleNextFunc, queues, wakeup, ids, phase, history
<1>11. CASE callTmp
  BY <1>11 DEF callTmp, queues, wakeup, ids, phase, history
<1>12. CASE callReturns
  BY <1>12 DEF callReturns, queues, wakeup, ids, phase, history
<1>13. CASE tmpEmpty
  BY <1>13 DEF tmpEmpty, queues, wakeup, ids, phase, history
<1>14. CASE cleanupDeferredTasks
  BY <1>14 DEF cleanupDeferredTasks, queues, wakeup, ids, phase, history
<1>15. CASE cleanupRound
  BY <1>15 DEF cleanupRound, MoveToLocal, queues, wakeup, phase, history
<1>16. CASE callCleanNext
  BY <1>16 DEF callCleanNext, queues, wakeup, ids, phase, history
<1>17. CASE callCleanInLoop
  BY <1>17 DEF callCleanInLoop, queues, wakeup, ids, phase, history
<1>18. CASE cleanEmpty
  BY <1>18 DEF cleanEmpty, queues, wakeup, ids, phase, history
<1>19. CASE cleanupEnd
  BY <1>19 DEF cleanupEnd, queues, wakeup, ids, phase, history
<1>20. CASE runInLoopMore
  <2>1. CASE running
    <3>1. has_commit' /\ (has_commit => eventfd' = eventfd) /\ (~has_commit => eventfd' > 0)
      BY <1>20, <2>1 DEF runInLoopMore, commitRunRequest, wakeup
    <3> QED
      BY <1>20, <2>1, <3>1 DEF runInLoopMore, queues, phase
  <2>2. CASE ~running
    BY <1>20, <2>2 DEF runInLoopMore, queues, phase, wakeup
  <2> QED
    BY <2>1, <2>2
<1>21. CASE callCleanMore
  BY <1>21 DEF callCleanMore, queues, wakeup
<1>22. CASE UNCHANGED vars
  BY <1>22 DEF vars, queues, wakeup, ids, phase, history
<1> QED
  BY <1>1, <1>2, <1>3, <1>4, <1>5, <1>6, <1>7, <1>8, <1>9, <1>10,
     <1>11, <1>12, <1>13, <1>14, <1>15, <1>16, <1>17, <1>18, <1>19, <1>20, <1>21, <1>22
     DEF Next, User, Loop, run, runNext

-----------------------------------------------------------------------------
IInv == TypeOK /\ IdType /\ TmpDrained /\ Committed

\* The constructor establishes the invariant.
LEMMA InvInit == Init => IInv
<1> SUFFICES ASSUME Init PROVE IInv
  OBVIOUS
<1> USE BoundAssumption DEF Init
<1>1. IdType
  BY DEF IdType
<1>2. TypeOK
  <2>1. <<>> \in Seq(InLoopIds) /\ <<>> \in Seq(NextIds) /\ <<>> \in Seq(Ids)
    OBVIOUS
  <2>2. status \in [Ids -> {"none", "pending", "done", "cancelled"}]
    OBVIOUS
  <2>3. remain \in Int /\ eventfd \in Nat /\ in_loop_id \in Nat /\ next_id \in Nat /\ runs \in Nat
        /\ extra = {}
    OBVIOUS
  <2> QED
    BY <2>1, <2>2, <2>3 DEF TypeOK
<1> QED
  BY <1>1, <1>2 DEF IInv, TmpDrained, Committed

\* Every step preserves it.
LEMMA InvStep == IInv /\ [Next]_vars => IInv'
  BY IdStep, TypeStep, TmpStep, CommittedStep DEF IInv

\* IInv is an invariant of the loop.
THEOREM Invariance == Spec => []IInv
  BY InvInit, InvStep, PTL DEF Spec

\* Type correctness; with the types of the queues, runInLoop() and runNext() functions
\* never end up in each other's queue, which cancel() relies on.
THEOREM TypeCorrect == Spec => []TypeOK
<1>1. IInv => TypeOK
  BY DEF IInv
<1> QED
  BY <1>1, Invariance, PTL

\* In the first run of a loop no wake-up is lost: functions wait only while the eventfd
\* is readable.
THEOREM WakeupNotLost == Spec => []NoLostWakeup
<1>1. IInv => NoLostWakeup
  BY DEF IInv, Committed, NoLostWakeup
<1> QED
  BY <1>1, Invariance, PTL
-----------------------------------------------------------------------------
(* Exactly once and in order.  Ids grow, so a queue in posting order is a  *)
(* strictly increasing one, and the argument is about the sets of ids the  *)
(* queues hold.                                                            *)

\* A queue is in the order its functions were posted.
Sorted(q) == \A k, l \in 1..Len(q) : k < l => q[k] < q[l]

\* Everything of S was posted before everything of T.
Below(S, T) == \A x \in S, y \in T : x < y

\* The ids in a queue are the ones at its places.
LEMMA QueueIds ==
  ASSUME NEW q \in Seq(Int)
  PROVE  /\ \A k \in 1..Len(q) : q[k] \in Range(q) /\ q[k] \in Int
         /\ \A x \in Range(q) : x \in Int /\ \E k \in 1..Len(q) : q[k] = x
<1>1. DOMAIN q = 1..Len(q)
  OBVIOUS
<1> QED
  BY <1>1 DEF Range

\* An empty queue holds no id, and is in order.
LEMMA EmptyQueue == Range(<<>>) = {} /\ Sorted(<<>>)
<1>1. DOMAIN <<>> = {} /\ Len(<<>>) = 0
  OBVIOUS
<1> QED
  BY <1>1 DEF Range, Sorted

\* The oldest function of a queue is one of its functions.
LEMMA HeadQueue ==
  ASSUME NEW q \in Seq(Int), q # <<>>
  PROVE  Len(q) \in Nat \ {0} /\ Head(q) = q[1] /\ Head(q) \in Range(q)
<1>1. Len(q) \in Nat \ {0} /\ Head(q) = q[1]
  OBVIOUS
<1>2. 1 \in 1..Len(q)
  BY <1>1
<1> QED
  BY <1>1, <1>2, QueueIds

\* Posting: the newest id goes to the end.
LEMMA AppendQueue ==
  ASSUME NEW q \in Seq(Int), NEW x \in Int, Sorted(q), Below(Range(q), {x}),
         NEW r, r = Append(q, x)
  PROVE  Sorted(r) /\ Range(r) = Range(q) \cup {x}
<1>1. /\ r \in Seq(Int) /\ Len(r) = Len(q) + 1 /\ Len(q) \in Nat
      /\ r[Len(q) + 1] = x /\ \A k \in 1..Len(q) : r[k] = q[k]
  OBVIOUS
<1>2. \A k \in 1..Len(q) : q[k] \in Int /\ q[k] < x
  BY QueueIds DEF Below
<1>3. Sorted(r)
  <2> SUFFICES ASSUME NEW k \in 1..Len(r), NEW l \in 1..Len(r), k < l PROVE r[k] < r[l]
    BY DEF Sorted
  <2>1. k \in 1..Len(q) /\ r[k] = q[k]
    BY <1>1
  <2>2. CASE l \in 1..Len(q)
    BY <1>1, <2>1, <2>2 DEF Sorted
  <2>3. CASE l = Len(q) + 1
    BY <1>1, <1>2, <2>1, <2>3
  <2> QED
    BY <1>1, <2>2, <2>3, SMTT(30)
<1>4. ASSUME NEW y \in Range(r) PROVE y \in Range(q) \cup {x}
  <2>1. PICK k \in 1..Len(r) : r[k] = y
    BY <1>1, QueueIds
  <2> QED
    BY <1>1, <2>1, QueueIds
<1>5. ASSUME NEW y \in Range(q) \cup {x} PROVE y \in Range(r)
  <2>1. CASE y = x
    <3>1. Len(q) + 1 \in 1..Len(r)
      BY <1>1
    <3> QED
      BY <1>1, <2>1, <3>1, QueueIds, ZenonT(30)
  <2>2. CASE y \in Range(q)
    <3>1. PICK k \in 1..Len(q) : q[k] = y
      BY <2>2, QueueIds
    <3>2. k \in 1..Len(r) /\ r[k] = y
      BY <1>1, <3>1
    <3> QED
      BY <1>1, <3>2, QueueIds
  <2> QED
    BY <2>1, <2>2
<1> QED
  BY <1>3, <1>4, <1>5

\* Calling the oldest function: it leaves, and was posted before all the others.
LEMMA TailQueue ==
  ASSUME NEW q \in Seq(Int), q # <<>>, Sorted(q), NEW r, r = Tail(q)
  PROVE  /\ Sorted(r) /\ Range(r) = Range(q) \ {Head(q)}
         /\ Below({Head(q)}, Range(r))
<1>1. /\ r \in Seq(Int) /\ Len(q) \in Nat \ {0} /\ Len(r) = Len(q) - 1
      /\ \A k \in 1..Len(r) : r[k] = q[k + 1]
  OBVIOUS
<1>2. Head(q) = q[1]
  BY HeadQueue
<1>3. Sorted(r)
  <2> SUFFICES ASSUME NEW k \in 1..Len(r), NEW l \in 1..Len(r), k < l PROVE r[k] < r[l]
    BY DEF Sorted
  <2>1. k + 1 \in 1..Len(q) /\ l + 1 \in 1..Len(q) /\ k + 1 < l + 1
    BY <1>1
  <2>2. q[k + 1] < q[l + 1]
    BY <2>1 DEF Sorted
  <2> QED
    BY <1>1, <2>2
<1>4. ASSUME NEW y \in Range(r) PROVE y \in Range(q) /\ q[1] < y
  <2>1. PICK k \in 1..Len(r) : r[k] = y
    BY <1>1, QueueIds
  <2>2. k + 1 \in 1..Len(q) /\ 1 \in 1..Len(q) /\ 1 < k + 1 /\ q[k + 1] = y
    BY <1>1, <2>1
  <2>3. q[1] < q[k + 1]
    BY <2>2 DEF Sorted
  <2> QED
    BY <2>2, <2>3, QueueIds
<1>5. ASSUME NEW y \in Range(q), y # q[1] PROVE y \in Range(r)
  <2>1. PICK k \in 1..Len(q) : q[k] = y
    BY QueueIds
  <2>2. k - 1 \in 1..Len(r) /\ (k - 1) + 1 = k
    BY <1>1, <1>5, <2>1
  <2>3. r[k - 1] = y
    BY <1>1, <2>1, <2>2
  <2> QED
    BY <1>1, <2>2, <2>3, QueueIds
<1>6. q[1] \in Int
  BY <1>1, QueueIds
<1>7. Range(r) = Range(q) \ {q[1]}
  <2>1. \A y \in Range(r) : y \in Int /\ y # q[1]
    BY <1>1, <1>4, <1>6, QueueIds
  <2> QED
    BY <1>4, <1>5, <2>1
<1> QED
  BY <1>2, <1>3, <1>4, <1>7 DEF Below

\* Cancelling: the id leaves, the others stay in order.
LEMMA RemoveQueue ==
  ASSUME NEW q \in Seq(Int), NEW id \in Int, Sorted(q),
         NEW r, r = RemoveRunFuncItemById(q, id)
  PROVE  Sorted(r) /\ Range(r) = Range(q) \ {id}
<1>1. CASE \E k \in 1..Len(q) : q[k] = id
  <2>1. PICK m \in 1..Len(q) : q[m] = id /\ r = RemoveAt(q, m)
    BY <1>1 DEF RemoveRunFuncItemById
  <2>2. r \in Seq(Int)
    BY <2>1, RemoveAtType
  <2>3. /\ Len(r) = Len(q) - 1 /\ Len(q) \in Nat
        /\ \A k \in 1..(m - 1) : r[k] = q[k]
        /\ \A k \in m..Len(r) : r[k] = q[k + 1]
    <3>1. PICK u \in Seq(Int) : /\ u = SubSeq(q, 1, m - 1) /\ Len(u) = m - 1
                                /\ \A k \in 1..(m - 1) : u[k] = q[k]
      <4>1. /\ SubSeq(q, 1, m - 1) \in Seq(Int) /\ Len(SubSeq(q, 1, m - 1)) = m - 1
            /\ \A k \in 1..(m - 1) : SubSeq(q, 1, m - 1)[k] = q[k]
        BY <2>1
      <4> QED
        BY <4>1
    <3>2. PICK v \in Seq(Int) : /\ v = SubSeq(q, m + 1, Len(q)) /\ Len(v) = Len(q) - m
                                /\ \A k \in 1..(Len(q) - m) : v[k] = q[m + k]
      <4>1. /\ SubSeq(q, m + 1, Len(q)) \in Seq(Int)
            /\ Len(SubSeq(q, m + 1, Len(q))) = Len(q) - m
            /\ \A k \in 1..(Len(q) - m) : SubSeq(q, m + 1, Len(q))[k] = q[m + k]
        BY <2>1
      <4> QED
        BY <4>1
    <3>3. r = u \o v
      BY <2>1, <3>1, <3>2 DEF RemoveAt
    <3>4. /\ Len(r) = Len(u) + Len(v) /\ \A k \in 1..Len(u) : r[k] = u[k]
          /\ \A k \in (Len(u) + 1)..(Len(u) + Len(v)) : r[k] = v[k - Len(u)]
      BY <3>3
    <3>5. Len(q) \in Nat /\ Len(r) = Len(q) - 1
      BY <2>1, <3>1, <3>2, <3>4
    <3>6. ASSUME NEW k \in 1..(m - 1) PROVE r[k] = q[k]
      BY <3>1, <3>4
    <3>7. ASSUME NEW k \in m..Len(r) PROVE r[k] = q[k + 1]
      <4>1. k - (m - 1) \in 1..(Len(q) - m) /\ m + (k - (m - 1)) = k + 1
        BY <2>1, <3>5
      <4>2. k \in (Len(u) + 1)..(Len(u) + Len(v))
        <5>1. Len(u) = m - 1 /\ Len(v) = Len(q) - m
          BY <3>1, <3>2
        <5> QED
          BY <2>1, <3>5, <5>1
      <4>3. r[k] = v[k - (m - 1)]
        BY <3>1, <3>4, <4>2
      <4>4. v[k - (m - 1)] = q[m + (k - (m - 1))]
        BY <3>2, <4>1
      <4> QED
        BY <4>1, <4>3, <4>4
    <3> QED
      BY <3>5, <3>6, <3>7
  <2>4. ASSUME NEW k \in 1..Len(r)
        PROVE  \E j \in 1..Len(q) : j # m /\ r[k] = q[j] /\ j = IF k < m THEN k ELSE k + 1
    <3>1. CASE k < m
      BY <2>1, <2>3, <3>1
    <3>2. CASE ~(k < m)
      <4>1. k + 1 \in 1..Len(q) /\ k + 1 # m /\ r[k] = q[k + 1]
        BY <2>1, <2>3, <3>2
      <4> QED
        BY <3>2, <4>1
    <3> QED
      BY <3>1, <3>2
  <2>5. Sorted(r)
    <3> SUFFICES ASSUME NEW k \in 1..Len(r), NEW l \in 1..Len(r), k < l PROVE r[k] < r[l]
      BY DEF Sorted
    <3>1. PICK i \in 1..Len(q) : r[k] = q[i] /\ i = IF k < m THEN k ELSE k + 1
      BY <2>4
    <3>2. PICK j \in 1..Len(q) : r[l] = q[j] /\ j = IF l < m THEN l ELSE l + 1
      BY <2>4
    <3>3. i < j
      BY <2>1, <3>1, <3>2
    <3> QED
      BY <3>1, <3>2, <3>3 DEF Sorted
  <2>6. \A j \in 1..Len(q) : j # m => q[j] # id
    <3> SUFFICES ASSUME NEW j \in 1..Len(q), j # m PROVE q[j] # id
      OBVIOUS
    <3>1. j < m \/ m < j
      OBVIOUS
    <3>2. q[j] < q[m] \/ q[m] < q[j]
      BY <3>1 DEF Sorted
    <3> QED
      BY <2>1, <3>2, QueueIds
  <2>7. ASSUME NEW y \in Range(r) PROVE y \in Range(q) /\ y # id
    <3>1. PICK k \in 1..Len(r) : r[k] = y
      BY <2>2, QueueIds
    <3>2. PICK j \in 1..Len(q) : j # m /\ y = q[j]
      BY <2>4, <3>1
    <3> QED
      BY <2>6, <3>2, QueueIds
  <2>8. ASSUME NEW y \in Range(q), y # id PROVE y \in Range(r)
    <3>1. PICK k \in 1..Len(q) : q[k] = y
      BY QueueIds
    <3>2. k # m
      BY <2>1, <2>8, <3>1
    <3>3. CASE k < m
      <4>1. k \in 1..(m - 1) /\ k \in 1..Len(r)
        BY <2>1, <2>3, <3>3
      <4>2. r[k] = y
        BY <2>3, <3>1, <4>1
      <4> QED
        BY <2>2, <4>1, <4>2, QueueIds
    <3>4. CASE k > m
      <4>1. k - 1 \in m..Len(r) /\ k - 1 \in 1..Len(r) /\ (k - 1) + 1 = k
        BY <2>1, <2>3, <3>1, <3>4
      <4>2. r[k - 1] = y
        BY <2>3, <3>1, <4>1
      <4> QED
        BY <2>2, <4>1, <4>2, QueueIds
    <3> QED
      BY <3>2, <3>3, <3>4
  <2> QED
    BY <2>5, <2>7, <2>8
<1>2. CASE ~\E k \in 1..Len(q) : q[k] = id
  <2>1. r = q
    BY <1>2 DEF RemoveRunFuncItemById
  <2>2. id \notin Range(q)
    BY <1>2, QueueIds
  <2> QED
    BY <2>1, <2>2
<1> QED
  BY <1>1, <1>2

\* The local queues of cleanupDeferredTasks() hold functions only while it runs them, and
\* tmp_func_queue_ holds one kind of functions at a time.
PhaseQueues ==
  /\ lpc # "clean_next" => clean_next = <<>>
  /\ lpc \notin {"clean_next", "clean_in_loop"} => clean_in_loop = <<>>
  /\ lpc = "inloop" => Range(tmp) \subseteq InLoopIds
  /\ lpc = "next" => Range(tmp) \subseteq NextIds

\* Every queue is in order, and what was taken out of a queue to be called was posted
\* before what is still in it.
Ordered ==
  /\ Sorted(in_loop) /\ Sorted(next) /\ Sorted(tmp)
  /\ Sorted(clean_next) /\ Sorted(clean_in_loop)
  /\ Below(Range(clean_in_loop), Range(in_loop))
  /\ Below(Range(clean_next), Range(next))
  /\ lpc = "inloop" => Below(Range(tmp), Range(in_loop))
  /\ lpc = "next" => Below(Range(tmp), Range(next))

\* A function is pending exactly while it is in a queue.
InQueue == Range(in_loop) \cup Range(next) \cup Range(tmp) \cup Range(clean_next)
             \cup Range(clean_in_loop)
Waiting == \A id \in Ids : status[id] = "pending" <=> id \in InQueue

\* An id above the last one handed out stands for no function.
Issued ==
  /\ \A id \in InLoopIds : status[id] # "none" => id <= in_loop_id
  /\ \A id \in NextIds : status[id] # "none" => id <= next_id

\* Fifo, for the functions S that are posted one way.
FifoOf(S) == \A i, j \in S : i < j /\ status[j] = "done" => status[i] # "pending"

OInv == PhaseQueues /\ Ordered /\ Waiting /\ Issued /\ FifoOf(InLoopIds) /\ FifoOf(NextIds)

\* The two kinds of ids are integers of different parity.
LEMMA IdKinds ==
  /\ \A i \in InLoopIds : i \in Int /\ i \in Ids /\ i % 2 = 0
  /\ \A i \in NextIds : i \in Int /\ i \in Ids /\ i % 2 = 1
  /\ \A i \in Ids : i \in InLoopIds \/ i \in NextIds
  /\ \A i \in InLoopIds : i \notin NextIds
<1>1. \A i \in InLoopIds : \E k \in 1..MaxInLoop : i = 2 * k
  BY DEF InLoopIds
<1>2. \A i \in NextIds : \E k \in 1..MaxNext : i = 2 * k + 1
  BY DEF NextIds
<1>3. \A i \in InLoopIds : i \in Int /\ i % 2 = 0
  BY <1>1, BoundAssumption
<1>4. \A i \in NextIds : i \in Int /\ i % 2 = 1
  BY <1>2, BoundAssumption
<1> QED
  BY <1>3, <1>4 DEF Ids

\* What was posted before a set of functions is not among them.
LEMMA BelowApart ==
  ASSUME NEW h \in Int, NEW S, Below({h}, S)
  PROVE  h \notin S
  BY DEF Below

\* A queue of ids is a queue of integers, and holds only those ids.
LEMMA QueueOf ==
  ASSUME NEW S, \A x \in S : x \in Int, NEW q \in Seq(S)
  PROVE  q \in Seq(Int) /\ \A x \in Range(q) : x \in S
<1>1. Len(q) \in Nat /\ DOMAIN q = 1..Len(q) /\ \A k \in 1..Len(q) : q[k] \in S
  OBVIOUS
<1>2. q \in Seq(Int)
  BY <1>1
<1>3. \A x \in Range(q) : \E k \in 1..Len(q) : q[k] = x
  BY <1>2, QueueIds
<1> QED
  BY <1>1, <1>2, <1>3

\* The queues as queues of integers, and the kind of what is in them.
LEMMA QueueKinds ==
  ASSUME TypeOK
  PROVE  /\ in_loop \in Seq(Int) /\ next \in Seq(Int) /\ tmp \in Seq(Int)
         /\ clean_next \in Seq(Int) /\ clean_in_loop \in Seq(Int)
         /\ Range(in_loop) \subseteq InLoopIds /\ Range(clean_in_loop) \subseteq InLoopIds
         /\ Range(next) \subseteq NextIds /\ Range(clean_next) \subseteq NextIds
         /\ Range(tmp) \subseteq Ids
<1>1. /\ \A i \in InLoopIds : i \in Int
      /\ \A i \in NextIds : i \in Int
      /\ \A i \in Ids : i \in Int
  BY IdKinds
<1>2. /\ in_loop \in Seq(InLoopIds) /\ clean_in_loop \in Seq(InLoopIds)
      /\ next \in Seq(NextIds) /\ clean_next \in Seq(NextIds) /\ tmp \in Seq(Ids)
  BY DEF TypeOK
<1>3. in_loop \in Seq(Int) /\ \A x \in Range(in_loop) : x \in InLoopIds
  BY <1>1, <1>2, QueueOf
<1>4. clean_in_loop \in Seq(Int) /\ \A x \in Range(clean_in_loop) : x \in InLoopIds
  BY <1>1, <1>2, QueueOf
<1>5. next \in Seq(Int) /\ \A x \in Range(next) : x \in NextIds
  BY <1>1, <1>2, QueueOf
<1>6. clean_next \in Seq(Int) /\ \A x \in Range(clean_next) : x \in NextIds
  BY <1>1, <1>2, QueueOf
<1>7. tmp \in Seq(Int) /\ \A x \in Range(tmp) : x \in Ids
  BY <1>1, <1>2, QueueOf
<1> QED
  BY <1>3, <1>4, <1>5, <1>6, <1>7

\* A step that touches no queue, no function and no id may only leave a phase whose
\* queue is empty.
LEMMA QuietStep ==
  ASSUME OInv, UNCHANGED <<queues, in_loop_id, next_id, status>>,
         \/ lpc' = lpc
         \/ /\ lpc' \notin {"inloop", "next"}
            /\ lpc' # "clean_next" => clean_next = <<>>
            /\ lpc' \notin {"clean_next", "clean_in_loop"} => clean_in_loop = <<>>
  PROVE  OInv'
<1>1. /\ in_loop' = in_loop /\ next' = next /\ tmp' = tmp /\ clean_next' = clean_next
      /\ clean_in_loop' = clean_in_loop /\ in_loop_id' = in_loop_id /\ next_id' = next_id
      /\ status' = status
  BY DEF queues
<1>2. PhaseQueues'
  BY <1>1 DEF OInv, PhaseQueues
<1>3. Ordered'
  BY <1>1 DEF OInv, Ordered
<1>4. Waiting' /\ Issued' /\ FifoOf(InLoopIds)' /\ FifoOf(NextIds)'
  BY <1>1 DEF OInv, Waiting, InQueue, Issued, FifoOf
<1> QED
  BY <1>2, <1>3, <1>4 DEF OInv

\* Posting keeps everything in order: the new id is the largest of its kind.
LEMMA PostInLoopOrder ==
  ASSUME TypeOK, IdType, TmpDrained, OInv, NEW t \in Callers, runInLoop(t)
  PROVE  OInv'
<1> DEFINE id == in_loop_id + 2
<1>1. /\ id \in InLoopIds /\ id \in Int /\ in_loop_id \in Int /\ in_loop_id < id
  BY NewInLoopId, IdKinds DEF runInLoop, TypeOK
<1>2. /\ in_loop' = Append(in_loop, id) /\ next' = next /\ tmp' = tmp
      /\ clean_next' = clean_next /\ clean_in_loop' = clean_in_loop
      /\ in_loop_id' = id /\ next_id' = next_id /\ lpc' = lpc
      /\ status' = [status EXCEPT ![id] = "pending"]
  BY DEF runInLoop, phase
<1> HIDE DEF id
<1>3. \A i \in Ids : status'[i] = IF i = id THEN "pending" ELSE status[i]
  BY <1>2 DEF TypeOK
<1>4. \A i \in InLoopIds : status[i] # "none" => i < id
  BY <1>1, IdKinds DEF OInv, Issued
<1>5. \A i \in InQueue : i \in InLoopIds => i < id
  <2>1. \A i \in InLoopIds : i \in InQueue => status[i] = "pending"
    BY IdKinds DEF OInv, Waiting
  <2> QED
    BY <1>4, <2>1
<1>6. Below(Range(in_loop), {id}) /\ Below(Range(clean_in_loop), {id})
  BY <1>5, QueueKinds DEF Below, InQueue
<1>7. lpc = "inloop" => Below(Range(tmp), {id})
  BY <1>5 DEF Below, InQueue, OInv, PhaseQueues
<1>8. Sorted(in_loop') /\ Range(in_loop') = Range(in_loop) \cup {id}
  BY <1>1, <1>2, <1>6, QueueKinds, AppendQueue DEF OInv, Ordered
<1>9. PhaseQueues'
  BY <1>2 DEF OInv, PhaseQueues
<1>10. Ordered'
  BY <1>2, <1>6, <1>7, <1>8 DEF OInv, Ordered, Below
<1>11. Waiting'
  <2>1. InQueue' = InQueue \cup {id}
    BY <1>2, <1>8 DEF InQueue
  <2> QED
    BY <1>3, <2>1 DEF OInv, Waiting
<1>12. Issued'
  <2>1. \A i \in InLoopIds : status'[i] # "none" => i <= in_loop_id'
    BY <1>1, <1>2, <1>3, <1>4, IdKinds
  <2>2. \A i \in NextIds : i # id
    BY <1>1, IdKinds
  <2> QED
    BY <1>2, <1>3, <2>1, <2>2, IdKinds DEF OInv, Issued
<1>13. FifoOf(InLoopIds)'
  <2> SUFFICES ASSUME NEW i \in InLoopIds, NEW j \in InLoopIds, i < j, status'[j] = "done"
               PROVE  status'[i] # "pending"
    BY DEF FifoOf
  <2>1. status[j] = "done" /\ j < id
    BY <1>3, <1>4, IdKinds
  <2>2. i # id
    BY <1>1, <2>1, IdKinds
  <2> QED
    BY <1>3, <2>1, <2>2, IdKinds DEF OInv, FifoOf
<1>14. FifoOf(NextIds)'
  <2>1. \A i \in NextIds : i # id
    BY <1>1, IdKinds
  <2> QED
    BY <1>3, <2>1, IdKinds DEF OInv, FifoOf
<1> QED
  BY <1>9, <1>10, <1>11, <1>12, <1>13, <1>14 DEF OInv

\* The same for runNext().
LEMMA PostNextOrder ==
  ASSUME TypeOK, IdType, TmpDrained, OInv, PushNext
  PROVE  OInv'
<1> DEFINE id == next_id + 2
<1>1. /\ id \in NextIds /\ id \in Int /\ next_id \in Int /\ next_id < id
  BY NewNextId, IdKinds DEF PushNext, TypeOK
<1>2. /\ next' = Append(next, id) /\ in_loop' = in_loop /\ tmp' = tmp
      /\ clean_next' = clean_next /\ clean_in_loop' = clean_in_loop
      /\ next_id' = id /\ in_loop_id' = in_loop_id /\ lpc' = lpc
      /\ status' = [status EXCEPT ![id] = "pending"]
  BY DEF PushNext, phase
<1> HIDE DEF id
<1>3. \A i \in Ids : status'[i] = IF i = id THEN "pending" ELSE status[i]
  BY <1>2 DEF TypeOK
<1>4. \A i \in NextIds : status[i] # "none" => i < id
  BY <1>1, IdKinds DEF OInv, Issued
<1>5. \A i \in InQueue : i \in NextIds => i < id
  <2>1. \A i \in NextIds : i \in InQueue => status[i] = "pending"
    BY IdKinds DEF OInv, Waiting
  <2> QED
    BY <1>4, <2>1
<1>6. Below(Range(next), {id}) /\ Below(Range(clean_next), {id})
  BY <1>5, QueueKinds DEF Below, InQueue
<1>7. lpc = "next" => Below(Range(tmp), {id})
  BY <1>5 DEF Below, InQueue, OInv, PhaseQueues
<1>8. Sorted(next') /\ Range(next') = Range(next) \cup {id}
  BY <1>1, <1>2, <1>6, QueueKinds, AppendQueue DEF OInv, Ordered
<1>9. PhaseQueues'
  BY <1>2 DEF OInv, PhaseQueues
<1>10. Ordered'
  BY <1>2, <1>6, <1>7, <1>8 DEF OInv, Ordered, Below
<1>11. Waiting'
  <2>1. InQueue' = InQueue \cup {id}
    BY <1>2, <1>8 DEF InQueue
  <2> QED
    BY <1>3, <2>1 DEF OInv, Waiting
<1>12. Issued'
  <2>1. \A i \in NextIds : status'[i] # "none" => i <= next_id'
    BY <1>1, <1>2, <1>3, <1>4, IdKinds
  <2>2. \A i \in InLoopIds : i # id
    BY <1>1, IdKinds
  <2> QED
    BY <1>2, <1>3, <2>1, <2>2, IdKinds DEF OInv, Issued
<1>13. FifoOf(NextIds)'
  <2> SUFFICES ASSUME NEW i \in NextIds, NEW j \in NextIds, i < j, status'[j] = "done"
               PROVE  status'[i] # "pending"
    BY DEF FifoOf
  <2>1. status[j] = "done" /\ j < id
    BY <1>3, <1>4, IdKinds
  <2>2. i # id
    BY <1>1, <2>1, IdKinds
  <2> QED
    BY <1>3, <2>1, <2>2, IdKinds DEF OInv, FifoOf
<1>14. FifoOf(InLoopIds)'
  <2>1. \A i \in InLoopIds : i # id
    BY <1>1, IdKinds
  <2> QED
    BY <1>3, <2>1, IdKinds DEF OInv, FifoOf
<1> QED
  BY <1>9, <1>10, <1>11, <1>12, <1>13, <1>14 DEF OInv

\* Calling a function that was posted before all that wait of its kind.
LEMMA CallOrder ==
  ASSUME TypeOK, OInv, UNCHANGED ids,
         NEW h \in InQueue, h \in Ids, InQueue' = InQueue \ {h},
         status' = [status EXCEPT ![h] = "done"],
         NEW K, K \in {InLoopIds, NextIds}, h \in K, \A i \in InQueue : i \in K => h <= i
  PROVE  Waiting' /\ Issued' /\ FifoOf(InLoopIds)' /\ FifoOf(NextIds)'
<1>1. \A i \in Ids : status'[i] = IF i = h THEN "done" ELSE status[i]
  BY DEF TypeOK
<1>2. status[h] = "pending"
  BY DEF OInv, Waiting
<1>3. Waiting'
  BY <1>1 DEF OInv, Waiting
<1>4. Issued'
  BY <1>1, <1>2, IdKinds DEF OInv, Issued, ids
<1>5. ASSUME NEW S, S \in {InLoopIds, NextIds} PROVE FifoOf(S)'
  <2> SUFFICES ASSUME NEW i \in S, NEW j \in S, i < j, status'[j] = "done"
               PROVE  status'[i] # "pending"
    BY DEF FifoOf
  <2>1. i \in Ids /\ j \in Ids /\ i \in Int /\ j \in Int
    BY <1>5, IdKinds
  <2>2. CASE j = h
    <3>1. S = K
      BY <1>5, <2>2, IdKinds
    <3>2. i \notin InQueue
      BY <2>1, <2>2, <3>1
    <3> QED
      BY <1>1, <2>1, <3>2 DEF OInv, Waiting
  <2>3. CASE j # h
    <3>1. status[i] # "pending"
      BY <1>1, <1>5, <2>1, <2>3 DEF OInv, FifoOf
    <3> QED
      BY <1>1, <2>1, <3>1
  <2> QED
    BY <2>2, <2>3
<1> QED
  BY <1>3, <1>4, <1>5

\* callTmp: the oldest function of tmp_func_queue_.
LEMMA CallTmpOrder ==
  ASSUME TypeOK, TmpDrained, OInv, callTmp
  PROVE  OInv'
<1> DEFINE h == Head(tmp)
<1>1. /\ lpc \in {"inloop", "next"} /\ tmp # <<>> /\ tmp' = Tail(tmp) /\ lpc' = lpc
      /\ in_loop' = in_loop /\ next' = next /\ clean_next' = clean_next
      /\ clean_in_loop' = clean_in_loop /\ status' = [status EXCEPT ![h] = "done"]
      /\ UNCHANGED ids
  BY DEF callTmp
<1>2. clean_next = <<>> /\ clean_in_loop = <<>>
  BY <1>1 DEF OInv, PhaseQueues
<1>3. /\ Sorted(tmp') /\ Range(tmp') = Range(tmp) \ {h} /\ Below({h}, Range(tmp'))
      /\ h \in Range(tmp)
  BY <1>1, QueueKinds, TailQueue, HeadQueue DEF OInv, Ordered
<1> HIDE DEF h
<1>4. h \in Ids /\ h \in Int
  BY <1>3, QueueKinds, IdKinds
<1>5. PhaseQueues'
  BY <1>1, <1>3 DEF OInv, PhaseQueues
<1>6. Ordered'
  BY <1>1, <1>3 DEF OInv, Ordered, Below
<1>7. InQueue = Range(in_loop) \cup Range(next) \cup Range(tmp)
  BY <1>2, EmptyQueue DEF InQueue
<1>8. h \in InQueue
  BY <1>3, <1>7
<1>9. \A i \in Range(tmp) : h <= i
  BY <1>3, <1>4, QueueKinds, IdKinds DEF Below
<1>10. InQueue' = InQueue \ {h}
  <2>1. h \notin Range(in_loop) /\ h \notin Range(next)
    <3>1. CASE lpc = "inloop"
      <4>1. h \in InLoopIds /\ Below({h}, Range(in_loop))
        BY <1>3, <3>1 DEF OInv, PhaseQueues, Ordered, Below
      <4> QED
        BY <1>4, <4>1, BelowApart, QueueKinds, IdKinds
    <3>2. CASE lpc = "next"
      <4>1. h \in NextIds /\ Below({h}, Range(next))
        BY <1>3, <3>2 DEF OInv, PhaseQueues, Ordered, Below
      <4> QED
        BY <1>4, <4>1, BelowApart, QueueKinds, IdKinds
    <3> QED
      BY <1>1, <3>1, <3>2
  <2>2. InQueue' = Range(in_loop) \cup Range(next) \cup (Range(tmp) \ {h})
    BY <1>1, <1>2, <1>3, EmptyQueue DEF InQueue
  <2> QED
    BY <1>7, <2>1, <2>2
<1>11. Waiting' /\ Issued' /\ FifoOf(InLoopIds)' /\ FifoOf(NextIds)'
  <2>1. CASE lpc = "inloop"
    <3>1. h \in InLoopIds /\ Below({h}, Range(in_loop))
      BY <1>3, <2>1 DEF OInv, PhaseQueues, Ordered, Below
    <3>2. \A i \in InQueue : i \in InLoopIds => h <= i
      BY <1>4, <1>7, <1>9, <3>1, QueueKinds, IdKinds DEF Below
    <3> QED
      BY <1>1, <1>4, <1>8, <1>10, <3>1, <3>2, CallOrder
  <2>2. CASE lpc = "next"
    <3>1. h \in NextIds /\ Below({h}, Range(next))
      BY <1>3, <2>2 DEF OInv, PhaseQueues, Ordered, Below
    <3>2. \A i \in InQueue : i \in NextIds => h <= i
      BY <1>4, <1>7, <1>9, <3>1, QueueKinds, IdKinds DEF Below
    <3> QED
      BY <1>1, <1>4, <1>8, <1>10, <3>1, <3>2, CallOrder
  <2> QED
    BY <1>1, <2>1, <2>2
<1> QED
  BY <1>5, <1>6, <1>11 DEF OInv

\* callCleanNext: the oldest of the runNext() functions moved to the local queue.
LEMMA CallCleanNextOrder ==
  ASSUME TypeOK, TmpDrained, OInv, callCleanNext
  PROVE  OInv'
<1> DEFINE h == Head(clean_next)
<1>1. /\ lpc = "clean_next" /\ clean_next # <<>> /\ clean_next' = Tail(clean_next)
      /\ lpc' = lpc /\ in_loop' = in_loop /\ next' = next /\ tmp' = tmp
      /\ clean_in_loop' = clean_in_loop /\ status' = [status EXCEPT ![h] = "done"]
      /\ UNCHANGED ids
  BY DEF callCleanNext
<1>2. tmp = <<>>
  BY <1>1 DEF TmpDrained
<1>3. /\ Sorted(clean_next') /\ Range(clean_next') = Range(clean_next) \ {h}
      /\ Below({h}, Range(clean_next')) /\ h \in Range(clean_next)
  BY <1>1, QueueKinds, TailQueue, HeadQueue DEF OInv, Ordered
<1> HIDE DEF h
<1>4. h \in NextIds /\ h \in Ids /\ h \in Int /\ Below({h}, Range(next))
  BY <1>3, QueueKinds, IdKinds DEF OInv, Ordered, Below
<1>5. PhaseQueues'
  BY <1>1 DEF OInv, PhaseQueues
<1>6. Ordered'
  BY <1>1, <1>3 DEF OInv, Ordered, Below
<1>7. InQueue = Range(in_loop) \cup Range(next) \cup Range(clean_next) \cup Range(clean_in_loop)
  BY <1>2, EmptyQueue DEF InQueue
<1>8. h \in InQueue
  BY <1>3, <1>7
<1>9. \A i \in Range(clean_next) : h <= i
  BY <1>3, <1>4, QueueKinds, IdKinds DEF Below
<1>10. InQueue' = InQueue \ {h}
  <2>1. h \notin Range(in_loop) /\ h \notin Range(next) /\ h \notin Range(clean_in_loop)
    BY <1>4, BelowApart, QueueKinds, IdKinds
  <2>2. InQueue' = Range(in_loop) \cup Range(next) \cup (Range(clean_next) \ {h})
                     \cup Range(clean_in_loop)
    BY <1>1, <1>2, <1>3, EmptyQueue DEF InQueue
  <2> QED
    BY <1>7, <2>1, <2>2
<1>11. \A i \in InQueue : i \in NextIds => h <= i
  BY <1>4, <1>7, <1>9, QueueKinds, IdKinds DEF Below
<1>12. Waiting' /\ Issued' /\ FifoOf(InLoopIds)' /\ FifoOf(NextIds)'
  BY <1>1, <1>4, <1>8, <1>10, <1>11, CallOrder
<1> QED
  BY <1>5, <1>6, <1>12 DEF OInv

\* callCleanInLoop: the same for the runInLoop() functions.
LEMMA CallCleanInLoopOrder ==
  ASSUME TypeOK, TmpDrained, OInv, callCleanInLoop
  PROVE  OInv'
<1> DEFINE h == Head(clean_in_loop)
<1>1. /\ lpc = "clean_in_loop" /\ clean_in_loop # <<>> /\ clean_in_loop' = Tail(clean_in_loop)
      /\ lpc' = lpc /\ in_loop' = in_loop /\ next' = next /\ tmp' = tmp
      /\ clean_next' = clean_next /\ status' = [status EXCEPT ![h] = "done"]
      /\ UNCHANGED ids
  BY DEF callCleanInLoop
<1>2. tmp = <<>>
  BY <1>1 DEF TmpDrained
<1>3. /\ Sorted(clean_in_loop') /\ Range(clean_in_loop') = Range(clean_in_loop) \ {h}
      /\ Below({h}, Range(clean_in_loop')) /\ h \in Range(clean_in_loop)
  BY <1>1, QueueKinds, TailQueue, HeadQueue DEF OInv, Ordered
<1> HIDE DEF h
<1>4. h \in InLoopIds /\ h \in Ids /\ h \in Int /\ Below({h}, Range(in_loop))
  BY <1>3, QueueKinds, IdKinds DEF OInv, Ordered, Below
<1>5. PhaseQueues'
  BY <1>1 DEF OInv, PhaseQueues
<1>6. Ordered'
  BY <1>1, <1>3 DEF OInv, Ordered, Below
<1>7. InQueue = Range(in_loop) \cup Range(next) \cup Range(clean_next) \cup Range(clean_in_loop)
  BY <1>2, EmptyQueue DEF InQueue
<1>8. h \in InQueue
  BY <1>3, <1>7
<1>9. \A i \in Range(clean_in_loop) : h <= i
  BY <1>3, <1>4, QueueKinds, IdKinds DEF Below
<1>10. InQueue' = InQueue \ {h}
  <2>1. h \notin Range(in_loop) /\ h \notin Range(next) /\ h \notin Range(clean_next)
    BY <1>4, BelowApart, QueueKinds, IdKinds
  <2>2. InQueue' = Range(in_loop) \cup Range(next) \cup Range(clean_next)
                     \cup (Range(clean_in_loop) \ {h})
    BY <1>1, <1>2, <1>3, EmptyQueue DEF InQueue
  <2> QED
    BY <1>7, <2>1, <2>2
<1>11. \A i \in InQueue : i \in InLoopIds => h <= i
  BY <1>4, <1>7, <1>9, QueueKinds, IdKinds DEF Below
<1>12. Waiting' /\ Issued' /\ FifoOf(InLoopIds)' /\ FifoOf(NextIds)'
  BY <1>1, <1>4, <1>8, <1>10, <1>11, CallOrder
<1> QED
  BY <1>5, <1>6, <1>12 DEF OInv

\* Swaps and moves: the functions that wait are the same, in other queues.
LEMMA MoveOrder ==
  ASSUME TypeOK, TmpDrained, OInv, handleRunInLoopFunc \/ handleNextFunc \/ cleanupRound
  PROVE  OInv'
<1>1. in_loop_id' = in_loop_id /\ next_id' = next_id /\ status' = status
  BY DEF handleRunInLoopFunc, handleNextFunc, cleanupRound, ids, history
<1>2. /\ lpc \in {"events", "round"}
  BY DEF handleRunInLoopFunc, handleNextFunc, cleanupRound
<1>3. tmp = <<>> /\ clean_next = <<>> /\ clean_in_loop = <<>>
  BY <1>2 DEF TmpDrained, OInv, PhaseQueues
<1>4. PhaseQueues' /\ Ordered' /\ InQueue' = InQueue
  <2>1. CASE handleRunInLoopFunc
    <3>1. /\ tmp' = in_loop /\ in_loop' = <<>> /\ next' = next /\ clean_next' = <<>>
          /\ clean_in_loop' = <<>> /\ lpc' = "inloop"
      BY <1>3, <2>1 DEF handleRunInLoopFunc
    <3> QED
      BY <1>3, <3>1, EmptyQueue, QueueKinds DEF OInv, PhaseQueues, Ordered, InQueue, Below
  <2>2. CASE handleNextFunc
    <3>1. /\ tmp' = next /\ next' = <<>> /\ in_loop' = in_loop /\ clean_next' = <<>>
          /\ clean_in_loop' = <<>> /\ lpc' = "next"
      BY <1>3, <2>2 DEF handleNextFunc
    <3> QED
      BY <1>3, <3>1, EmptyQueue, QueueKinds DEF OInv, PhaseQueues, Ordered, InQueue, Below
  <2>3. CASE cleanupRound
    <3>1. /\ tmp' = <<>> /\ next' = <<>> /\ in_loop' = <<>> /\ clean_next' = next
          /\ clean_in_loop' = in_loop /\ lpc' = "clean_next"
      BY <1>3, <2>3 DEF cleanupRound, MoveToLocal
    <3> QED
      BY <1>3, <3>1, EmptyQueue, QueueKinds DEF OInv, PhaseQueues, Ordered, InQueue, Below
  <2> QED
    BY <2>1, <2>2, <2>3
<1>5. Waiting' /\ Issued' /\ FifoOf(InLoopIds)' /\ FifoOf(NextIds)'
  BY <1>1, <1>4 DEF OInv, Waiting, Issued, FifoOf
<1> QED
  BY <1>4, <1>5 DEF OInv

\* A function that is not in a queue is not cancelled there.
LEMMA RemoveAbsent ==
  ASSUME NEW q \in Seq(Int), NEW id, id \notin Range(q)
  PROVE  RemoveRunFuncItemById(q, id) = q
<1>1. ~\E k \in 1..Len(q) : q[k] = id
  BY QueueIds
<1> QED
  BY <1>1 DEF RemoveRunFuncItemById

\* A function that leaves the queues as cancelled.
LEMMA CancelledOrder ==
  ASSUME TypeOK, OInv, UNCHANGED ids, NEW id \in Ids, status[id] # "none",
         InQueue' = InQueue \ {id}, status' = [status EXCEPT ![id] = "cancelled"]
  PROVE  Waiting' /\ Issued' /\ FifoOf(InLoopIds)' /\ FifoOf(NextIds)'
<1>1. \A i \in Ids : status'[i] = IF i = id THEN "cancelled" ELSE status[i]
  BY DEF TypeOK
<1>2. Waiting'
  BY <1>1 DEF OInv, Waiting
<1>3. Issued'
  BY <1>1, IdKinds DEF OInv, Issued, ids
<1>4. FifoOf(InLoopIds)' /\ FifoOf(NextIds)'
  BY <1>1, IdKinds DEF OInv, FifoOf
<1> QED
  BY <1>2, <1>3, <1>4

\* cancel(): the function leaves the one queue it is in.
LEMMA CancelOrder ==
  ASSUME TypeOK, TmpDrained, OInv, NEW id \in Ids, cancel(id)
  PROVE  OInv'
<1>1. /\ status[id] # "none" /\ lpc' = lpc /\ UNCHANGED ids
      /\ clean_next' = clean_next /\ clean_in_loop' = clean_in_loop
  BY DEF cancel, phase
<1>2. id \in Int /\ (id \in InLoopIds <=> id % 2 = 0) /\ (id \in NextIds <=> id % 2 = 1)
      /\ (id \in InLoopIds \/ id \in NextIds)
  BY IdKinds
<1>3. CASE id \in Range(tmp)
  <2>1. next' = next /\ in_loop' = in_loop /\ tmp' = RemoveRunFuncItemById(tmp, id)
    BY <1>3 DEF cancel
  <2>2. Sorted(tmp') /\ Range(tmp') = Range(tmp) \ {id}
    BY <1>2, <2>1, QueueKinds, RemoveQueue DEF OInv, Ordered
  <2>3. tmp' # tmp
    BY <1>3, <2>2
  <2>4. <<tmp', next', in_loop'>> # <<tmp, next, in_loop>>
    BY <2>3
  <2>5. status' = [status EXCEPT ![id] = "cancelled"]
    BY <2>4 DEF cancel
  <2>6. PhaseQueues'
    BY <1>1, <2>2 DEF OInv, PhaseQueues
  <2>7. Ordered'
    BY <1>1, <2>1, <2>2 DEF OInv, Ordered, Below
  <2>8. lpc \in {"inloop", "next"}
    BY <1>3, EmptyQueue DEF TmpDrained
  <2>9. clean_next = <<>> /\ clean_in_loop = <<>>
    BY <2>8 DEF OInv, PhaseQueues
  <2>10. id \notin Range(in_loop) /\ id \notin Range(next)
    <3>1. CASE lpc = "inloop"
      <4>1. id \in InLoopIds /\ Below({id}, Range(in_loop))
        BY <1>3, <3>1 DEF OInv, PhaseQueues, Ordered, Below
      <4> QED
        BY <1>2, <4>1, BelowApart, QueueKinds, IdKinds
    <3>2. CASE lpc = "next"
      <4>1. id \in NextIds /\ Below({id}, Range(next))
        BY <1>3, <3>2 DEF OInv, PhaseQueues, Ordered, Below
      <4> QED
        BY <1>2, <4>1, BelowApart, QueueKinds, IdKinds
    <3> QED
      BY <2>8, <3>1, <3>2
  <2>11. InQueue' = InQueue \ {id}
    BY <1>1, <2>1, <2>2, <2>9, <2>10, EmptyQueue DEF InQueue
  <2>12. Waiting' /\ Issued' /\ FifoOf(InLoopIds)' /\ FifoOf(NextIds)'
    BY <1>1, <2>5, <2>11, CancelledOrder
  <2> QED
    BY <2>6, <2>7, <2>12 DEF OInv
<1>4. CASE id \notin Range(tmp) /\ id \in InLoopIds
  <2>1. tmp' = tmp /\ next' = next /\ in_loop' = RemoveRunFuncItemById(in_loop, id)
    <3>1. tmp' = tmp
      BY <1>4, QueueKinds, RemoveAbsent DEF cancel
    <3>2. id % 2 = 0 /\ id % 2 # 1
      BY <1>2, <1>4
    <3> QED
      BY <1>4, <3>1, <3>2 DEF cancel
  <2>2. CASE id \notin Range(in_loop)
    <3>1. in_loop' = in_loop
      BY <2>1, <2>2, QueueKinds, RemoveAbsent
    <3>2. status' = status
      BY <2>1, <3>1 DEF cancel
    <3> QED
      BY <1>1, <2>1, <3>1, <3>2, QuietStep DEF queues, ids
  <2>3. CASE id \in Range(in_loop)
    <3>1. Sorted(in_loop') /\ Range(in_loop') = Range(in_loop) \ {id}
      BY <1>2, <2>1, QueueKinds, RemoveQueue DEF OInv, Ordered
    <3>2. in_loop' # in_loop
      BY <2>3, <3>1
    <3>3. status' = [status EXCEPT ![id] = "cancelled"]
      BY <3>2 DEF cancel
    <3>4. PhaseQueues'
      BY <1>1, <2>1 DEF OInv, PhaseQueues
    <3>5. Ordered'
      BY <1>1, <2>1, <3>1 DEF OInv, Ordered, Below
    <3>6. id \notin Range(clean_in_loop)
      BY <1>2, <2>3 DEF OInv, Ordered, Below
    <3>7. id \notin Range(next) /\ id \notin Range(clean_next)
      BY <1>4, QueueKinds, IdKinds
    <3>8. InQueue' = InQueue \ {id}
      BY <1>1, <1>4, <2>1, <3>1, <3>6, <3>7 DEF InQueue
    <3>9. Waiting' /\ Issued' /\ FifoOf(InLoopIds)' /\ FifoOf(NextIds)'
      BY <1>1, <3>3, <3>8, CancelledOrder
    <3> QED
      BY <3>4, <3>5, <3>9 DEF OInv
  <2> QED
    BY <2>2, <2>3
<1>5. CASE id \notin Range(tmp) /\ id \in NextIds
  <2>1. tmp' = tmp /\ in_loop' = in_loop /\ next' = RemoveRunFuncItemById(next, id)
    <3>1. tmp' = tmp
      BY <1>5, QueueKinds, RemoveAbsent DEF cancel
    <3>2. id % 2 = 1 /\ id % 2 # 0
      BY <1>2, <1>5
    <3> QED
      BY <1>5, <3>1, <3>2 DEF cancel
  <2>2. CASE id \notin Range(next)
    <3>1. next' = next
      BY <2>1, <2>2, QueueKinds, RemoveAbsent
    <3>2. status' = status
      BY <2>1, <3>1 DEF cancel
    <3> QED
      BY <1>1, <2>1, <3>1, <3>2, QuietStep DEF queues, ids
  <2>3. CASE id \in Range(next)
    <3>1. Sorted(next') /\ Range(next') = Range(next) \ {id}
      BY <1>2, <2>1, QueueKinds, RemoveQueue DEF OInv, Ordered
    <3>2. next' # next
      BY <2>3, <3>1
    <3>3. status' = [status EXCEPT ![id] = "cancelled"]
      BY <3>2 DEF cancel
    <3>4. PhaseQueues'
      BY <1>1, <2>1 DEF OInv, PhaseQueues
    <3>5. Ordered'
      BY <1>1, <2>1, <3>1 DEF OInv, Ordered, Below
    <3>6. id \notin Range(clean_next)
      BY <1>2, <2>3 DEF OInv, Ordered, Below
    <3>7. id \notin Range(in_loop) /\ id \notin Range(clean_in_loop)
      BY <1>5, QueueKinds, IdKinds
    <3>8. InQueue' = InQueue \ {id}
      BY <1>1, <1>5, <2>1, <3>1, <3>6, <3>7 DEF InQueue
    <3>9. Waiting' /\ Issued' /\ FifoOf(InLoopIds)' /\ FifoOf(NextIds)'
      BY <1>1, <3>3, <3>8, CancelledOrder
    <3> QED
      BY <3>4, <3>5, <3>9 DEF OInv
  <2> QED
    BY <2>2, <2>3
<1> QED
  BY <1>2, <1>3, <1>4, <1>5

\* Every step keeps the queues exclusive and in order.
LEMMA OrderStep ==
  ASSUME TypeOK, IdType, TmpDrained, OInv, [Next]_vars
  PROVE  OInv'
<1>1. ASSUME NEW t \in Callers, runInLoop(t) PROVE OInv'
  BY <1>1, PostInLoopOrder
<1>2. CASE PushNext
  BY <1>2, PostNextOrder
<1>3. ASSUME NEW id \in Ids, cancel(id) PROVE OInv'
  BY <1>3, CancelOrder
<1>4. CASE exitLoop \/ exitTimeout
  BY <1>4, QuietStep DEF ids, exitLoop, exitTimeout, history
<1>5. CASE runLoop
  BY <1>5, QuietStep DEF ids, runLoop, history, OInv, PhaseQueues
<1>6. CASE epollWait \/ timersHandled
  BY <1>6, QuietStep DEF ids, epollWait, timersHandled, history, OInv, PhaseQueues
<1>7. CASE callTmp
  BY <1>7, CallTmpOrder
<1>8. CASE callReturns
  BY <1>8, QuietStep DEF ids, callReturns, history
<1>9. CASE tmpEmpty
  BY <1>9, QuietStep DEF ids, tmpEmpty, history, OInv, PhaseQueues
<1>10. CASE cleanupDeferredTasks
  BY <1>10, QuietStep DEF ids, cleanupDeferredTasks, OInv, PhaseQueues
<1>11. CASE handleRunInLoopFunc \/ handleNextFunc \/ cleanupRound
  BY <1>11, MoveOrder
<1>12. CASE callCleanNext
  BY <1>12, CallCleanNextOrder
<1>13. CASE callCleanInLoop
  BY <1>13, CallCleanInLoopOrder
<1>14. CASE cleanEmpty
  BY <1>14, QuietStep DEF ids, cleanEmpty, history, OInv, PhaseQueues
<1>15. CASE cleanupEnd
  BY <1>15, QuietStep DEF ids, cleanupEnd, OInv, PhaseQueues
<1>16. CASE UNCHANGED vars
  BY <1>16, QuietStep DEF ids, vars, phase, history
<1>17. CASE runInLoopMore \/ callCleanMore
  BY <1>17, QuietStep DEF runInLoopMore, callCleanMore, phase, history
<1> QED
  BY <1>1, <1>2, <1>3, <1>4, <1>5, <1>6, <1>7, <1>8, <1>9, <1>10,
     <1>11, <1>12, <1>13, <1>14, <1>15, <1>16, <1>17 DEF Next, User, Loop, run, runNext

\* A new loop has no function anywhere.
LEMMA OrderInit == Init => OInv
<1> SUFFICES ASSUME Init PROVE OInv
  OBVIOUS
<1>1. /\ in_loop = <<>> /\ next = <<>> /\ tmp = <<>> /\ clean_next = <<>>
      /\ clean_in_loop = <<>> /\ lpc = "idle" /\ \A i \in Ids : status[i] = "none"
  BY DEF Init
<1>2. PhaseQueues /\ Ordered
  BY <1>1, EmptyQueue DEF PhaseQueues, Ordered, Below
<1>3. Waiting /\ Issued /\ FifoOf(InLoopIds) /\ FifoOf(NextIds)
  BY <1>1, EmptyQueue, IdKinds DEF Waiting, InQueue, Issued, FifoOf
<1> QED
  BY <1>2, <1>3 DEF OInv

\* OInv is an invariant of the loop.
THEOREM OrderInvariance == Spec => []OInv
<1>1. OInv /\ IInv /\ [Next]_vars => OInv'
  BY OrderStep DEF IInv
<1> QED
  BY <1>1, OrderInit, Invariance, PTL DEF Spec

\* Functions posted the same way are called in the order they were posted, whatever is
\* posted and cancelled by other threads and from inside callbacks.
THEOREM CalledInOrder == Spec => []Fifo
<1>1. OInv => Fifo
  <2> SUFFICES ASSUME OInv, NEW i \in Ids, NEW j \in Ids, i < j, i % 2 = j % 2,
                      status[j] = "done"
               PROVE  status[i] # "pending"
    BY DEF Fifo
  <2>1. CASE i \in InLoopIds
    <3>1. j \in InLoopIds
      BY <2>1, IdKinds
    <3> QED
      BY <2>1, <3>1 DEF OInv, FifoOf
  <2>2. CASE i \in NextIds
    <3>1. j \in NextIds
      BY <2>2, IdKinds
    <3> QED
      BY <2>2, <3>1 DEF OInv, FifoOf
  <2> QED
    BY <2>1, <2>2, IdKinds
<1> QED
  BY <1>1, OrderInvariance, PTL

\* A queue in order holds an id once.
LEMMA SortedOnce ==
  ASSUME NEW q \in Seq(Int), Sorted(q), NEW k \in 1..Len(q), NEW l \in 1..Len(q),
         q[k] = q[l]
  PROVE  k = l
<1>1. q[k] \in Int /\ q[l] \in Int
  BY QueueIds
<1>2. ~(k < l) /\ ~(l < k)
  BY <1>1 DEF Sorted
<1> QED
  BY <1>2

\* A function waits in exactly one place of the five queues until it is called or
\* cancelled, and in none afterwards.
THEOREM WaitsOnce == Spec => []QueuedOnce
<1>1. TypeOK /\ TmpDrained /\ OInv => QueuedOnce
  <2> SUFFICES ASSUME TypeOK, TmpDrained, OInv PROVE QueuedOnce
    OBVIOUS
  <2>1. /\ queues[1] = in_loop /\ queues[2] = next /\ queues[3] = tmp
        /\ queues[4] = clean_next /\ queues[5] = clean_in_loop
    BY DEF queues
  <2>2. \A a \in 1..5 : queues[a] \in Seq(Int) /\ Sorted(queues[a])
    BY <2>1, QueueKinds DEF OInv, Ordered
  <2>3. \A a, b \in 1..5 : \A x \in Range(queues[a]) : x \in Range(queues[b]) => a = b
    <3>1. \A x \in Range(in_loop) : x \notin Range(next) /\ x \notin Range(clean_next)
      BY QueueKinds, IdKinds
    <3>2. \A x \in Range(clean_in_loop) : x \notin Range(next) /\ x \notin Range(clean_next)
      BY QueueKinds, IdKinds
    <3>3. \A x \in Range(in_loop) : x \notin Range(clean_in_loop)
      BY QueueKinds, IdKinds DEF OInv, Ordered, Below
    <3>4. \A x \in Range(next) : x \notin Range(clean_next)
      BY QueueKinds, IdKinds DEF OInv, Ordered, Below
    <3>5. \A x \in Range(tmp) : /\ x \notin Range(in_loop) /\ x \notin Range(next)
                                /\ x \notin Range(clean_next) /\ x \notin Range(clean_in_loop)
      <4>1. CASE lpc = "inloop"
        <5>1. clean_next = <<>> /\ clean_in_loop = <<>>
          BY <4>1 DEF OInv, PhaseQueues
        <5>2. \A x \in Range(tmp) : x \in InLoopIds /\ Below({x}, Range(in_loop))
          BY <4>1 DEF OInv, PhaseQueues, Ordered, Below
        <5> QED
          BY <5>1, <5>2, BelowApart, EmptyQueue, QueueKinds, IdKinds
      <4>2. CASE lpc = "next"
        <5>1. clean_next = <<>> /\ clean_in_loop = <<>>
          BY <4>2 DEF OInv, PhaseQueues
        <5>2. \A x \in Range(tmp) : x \in NextIds /\ Below({x}, Range(next))
          BY <4>2 DEF OInv, PhaseQueues, Ordered, Below
        <5> QED
          BY <5>1, <5>2, BelowApart, EmptyQueue, QueueKinds, IdKinds
      <4>3. CASE lpc \notin {"inloop", "next"}
        BY <4>3, EmptyQueue DEF TmpDrained
      <4> QED
        BY <4>1, <4>2, <4>3
    <3> QED
      BY <2>1, <3>1, <3>2, <3>3, <3>4, <3>5
  <2>4. ASSUME NEW a \in 1..5, NEW b \in 1..5,
               NEW k \in 1..Len(queues[a]), NEW l \in 1..Len(queues[b]),
               queues[a][k] = queues[b][l]
        PROVE  a = b /\ k = l
    <3>1. queues[a][k] \in Range(queues[a]) /\ queues[b][l] \in Range(queues[b])
      BY <2>2, QueueIds
    <3>2. a = b
      BY <2>3, <2>4, <3>1
    <3> QED
      BY <2>2, <2>4, <3>2, SortedOnce
  <2>5. ASSUME NEW id \in Ids
        PROVE  status[id] = "pending" <=> \E a \in 1..5 : id \in Range(queues[a])
    <3>1. id \in InQueue <=> \E a \in 1..5 : id \in Range(queues[a])
      <4>1. ASSUME NEW a \in 1..5, id \in Range(queues[a]) PROVE id \in InQueue
        BY <2>1, <4>1 DEF InQueue
      <4>2. id \in InQueue => \/ id \in Range(queues[1]) \/ id \in Range(queues[2])
                              \/ id \in Range(queues[3]) \/ id \in Range(queues[4])
                              \/ id \in Range(queues[5])
        BY <2>1 DEF InQueue
      <4> QED
        BY <4>1, <4>2
    <3> QED
      BY <3>1 DEF OInv, Waiting
  <2> QED
    BY <2>4, <2>5 DEF QueuedOnce
<1>2. IInv => TypeOK /\ TmpDrained
  BY DEF IInv
<1> QED
  BY <1>1, <1>2, OrderInvariance, Invariance, PTL
=============================================================================
