------------------------------ MODULE AsyncPipe ------------------------------
(***************************************************************************)
(* util::AsyncPipe (modules/util/async_pipe.cpp): front-end threads append *)
(* bytes to curr_buffer_, full buffers queue up for one backend thread     *)
(* that hands them to the callback and recycles them.  The number of       *)
(* buffers grows on demand from buff_min_num to buff_max_num and shrinks   *)
(* back as the backend frees the surplus.                                  *)
(*                                                                         *)
(* A step is one critical section of the code.  curr_buffer_mutex_ is held *)
(* across waits, so it is a variable; the sections of the other three      *)
(* mutexes are single steps.  The k-th byte ever appended is the number k: *)
(* a buffer is the sequence of the bytes it holds.                         *)
(***************************************************************************)
EXTENDS Naturals, Sequences, SequencesExt

CONSTANTS
  Writers,     \* threads that call append()
  BuffSize,    \* cfg.buff_size
  MinNum,      \* cfg.buff_min_num
  MaxNum,      \* cfg.buff_max_num
  MaxBytes,    \* bound: bytes ever appended
  MaxInit,     \* bound: calls of initialize()
  NoBuffer,    \* nullptr
  NoThread     \* owner of a free curr_buffer_mutex_

\* The checks of initialize(): a configuration that fails them starts nothing.
ASSUME ConfigAssumption ==
  /\ BuffSize \in Nat \ {0}
  /\ MinNum \in Nat \ {0}
  /\ MaxNum \in Nat /\ MinNum <= MaxNum

ASSUME BoundAssumption ==
  /\ MaxBytes \in Nat /\ MaxInit \in Nat
  /\ NoThread \notin Writers
  /\ NoBuffer \notin Seq(Nat)

VARIABLES
  inited,        \* inited_
  stop_signal,   \* stop_signal_
  curr_buffer,   \* curr_buffer_: the bytes in it, or NoBuffer
  curr_lock,     \* owner of curr_buffer_mutex_
  free_buffers,  \* number of buffers in free_buffers_ (all empty)
  full_buffers,  \* full_buffers_
  buff_num,      \* buff_num_
  wpc,           \* where each front-end thread is in append()
  remain,        \* remain_size of each front-end thread
  bpc,           \* where the backend thread is in threadFunc()
  buff,          \* the buffer the backend is processing, or NoBuffer
  for_quit,      \* is_wake_for_quit of the current round
  opc,           \* the owner: "idle" or in cleanup(), "join"
  inits,         \* initialize() calls so far
  appended,      \* bytes accepted by appendLockless() so far
  delivered      \* bytes handed to the callback so far

buffers == <<curr_buffer, free_buffers, full_buffers, buff_num, buff>>
control == <<inited, stop_signal, curr_lock, wpc, remain, bpc, for_quit, opc, inits>>
vars == <<buffers, control, appended, delivered>>

TypeOK ==
  /\ inited \in BOOLEAN /\ stop_signal \in BOOLEAN /\ for_quit \in BOOLEAN
  /\ curr_buffer \in Seq(Nat) \cup {NoBuffer}
  /\ buff \in Seq(Nat) \cup {NoBuffer}
  /\ curr_lock \in Writers \cup {NoThread}
  /\ free_buffers \in Nat /\ buff_num \in Nat
  /\ full_buffers \in Seq(Seq(Nat))
  /\ wpc \in [Writers -> {"idle", "locked", "alloc", "waitfree", "write", "written"}]
  /\ remain \in [Writers -> Nat]
  /\ bpc \in {"off", "check", "waiting", "flush", "drain", "cb", "recycle", "tofree"}
  /\ opc \in {"idle", "join"}
  /\ inits \in Nat /\ appended \in Nat /\ delivered \in Nat

Init ==
  /\ inited = FALSE /\ stop_signal = FALSE /\ for_quit = FALSE
  /\ curr_buffer = NoBuffer /\ buff = NoBuffer
  /\ curr_lock = NoThread
  /\ free_buffers = 0 /\ full_buffers = <<>> /\ buff_num = 0
  /\ wpc = [w \in Writers |-> "idle"]
  /\ remain = [w \in Writers |-> 0]
  /\ bpc = "off" /\ opc = "idle"
  /\ inits = 0 /\ appended = 0 /\ delivered = 0

-----------------------------------------------------------------------------
(* The owner.                                                              *)

\* initialize(): buff_min_num free buffers and the backend thread.
initialize ==
  /\ ~inited /\ opc = "idle" /\ inits < MaxInit
  /\ free_buffers' = MinNum
  /\ buff_num' = MinNum
  /\ bpc' = "check"
  /\ inited' = TRUE
  /\ inits' = inits + 1
  /\ UNCHANGED <<stop_signal, curr_buffer, curr_lock, full_buffers, wpc, remain,
                 buff, for_quit, opc, appended, delivered>>

\* cleanup() up to join(): the stop flag is raised without a lock.  The owner
\* calls it when no front-end thread is inside append().
cleanupStop ==
  /\ inited /\ opc = "idle"
  /\ \A w \in Writers : wpc[w] = "idle"
  /\ stop_signal' = TRUE
  /\ opc' = "join"
  /\ UNCHANGED <<buffers, inited, curr_lock, wpc, remain, bpc, for_quit, inits,
                 appended, delivered>>

\* cleanup() after join(): every buffer that is left is deleted.
cleanupJoin ==
  /\ opc = "join" /\ bpc = "off"
  /\ stop_signal' = FALSE
  /\ curr_buffer' = NoBuffer
  /\ free_buffers' = 0
  /\ inited' = FALSE
  /\ opc' = "idle"
  /\ UNCHANGED <<full_buffers, buff_num, buff, curr_lock, wpc, remain, bpc,
                 for_quit, inits, appended, delivered>>

-----------------------------------------------------------------------------
(* A front-end thread: appendLock(), appendLockless()* , appendUnlock();   *)
(* append() is such a session with one appendLockless().                   *)

appendLock(w) ==
  /\ inited /\ opc = "idle"
  /\ wpc[w] = "idle" /\ curr_lock = NoThread
  /\ appended < MaxBytes
  /\ curr_lock' = w
  /\ wpc' = [wpc EXCEPT ![w] = "locked"]
  /\ UNCHANGED <<buffers, inited, stop_signal, remain, bpc, for_quit, opc, inits,
                 appended, delivered>>

\* Entry of appendLockless() with data_size = n.
appendLockless(w, n) ==
  /\ wpc[w] \in {"locked", "written"}
  /\ appended + n <= MaxBytes
  /\ remain' = [remain EXCEPT ![w] = n]
  /\ wpc' = [wpc EXCEPT ![w] = IF curr_buffer = NoBuffer THEN "alloc" ELSE "write"]
  /\ UNCHANGED <<buffers, inited, stop_signal, curr_lock, bpc, for_quit, opc, inits,
                 appended, delivered>>

\* Under free_buffers_mutex_: take a free buffer, create one while buff_num_ is
\* below buff_max_num, or wait on free_buffers_cv_.
allocBuffer(w) ==
  /\ wpc[w] = "alloc"
  /\ \/ /\ free_buffers > 0
        /\ free_buffers' = free_buffers - 1
        /\ curr_buffer' = <<>>
        /\ wpc' = [wpc EXCEPT ![w] = "write"]
        /\ UNCHANGED buff_num
     \/ /\ free_buffers = 0 /\ buff_num < MaxNum
        /\ buff_num' = buff_num + 1
        /\ curr_buffer' = <<>>
        /\ wpc' = [wpc EXCEPT ![w] = "write"]
        /\ UNCHANGED free_buffers
     \/ /\ free_buffers = 0 /\ buff_num >= MaxNum
        /\ wpc' = [wpc EXCEPT ![w] = "waitfree"]
        /\ UNCHANGED <<free_buffers, curr_buffer, buff_num>>
  /\ UNCHANGED <<full_buffers, buff, inited, stop_signal, curr_lock, remain, bpc,
                 for_quit, opc, inits, appended, delivered>>

\* The wait returns: its predicate, !free_buffers_.empty(), holds.
wakeFree(w) ==
  /\ wpc[w] = "waitfree" /\ free_buffers > 0
  /\ free_buffers' = free_buffers - 1
  /\ curr_buffer' = <<>>
  /\ wpc' = [wpc EXCEPT ![w] = "write"]
  /\ UNCHANGED <<full_buffers, buff_num, buff, inited, stop_signal, curr_lock, remain,
                 bpc, for_quit, opc, inits, appended, delivered>>

\* Buffer::append(): as much as fits.
Fit(n) == IF Len(curr_buffer) + n > BuffSize THEN BuffSize - Len(curr_buffer) ELSE n

\* One turn of the loop of appendLockless(): the copy, the hand-over of a buffer
\* that is full, and the loop condition.
writeBuffer(w) ==
  LET size  == Fit(remain[w])
      bytes == curr_buffer \o [i \in 1..size |-> appended + i]
      full  == Len(bytes) = BuffSize
      left  == remain[w] - size
  IN /\ wpc[w] = "write"
     /\ appended' = appended + size
     /\ remain' = [remain EXCEPT ![w] = left]
     /\ full_buffers' = IF full THEN Append(full_buffers, bytes) ELSE full_buffers
     /\ curr_buffer' = IF full THEN NoBuffer ELSE bytes
     /\ wpc' = [wpc EXCEPT ![w] = IF left = 0 THEN "written"
                                  ELSE IF full THEN "alloc" ELSE "write"]
     /\ UNCHANGED <<free_buffers, buff_num, buff, inited, stop_signal, curr_lock, bpc,
                    for_quit, opc, inits, delivered>>

appendUnlock(w) ==
  /\ wpc[w] = "written"
  /\ curr_lock' = NoThread
  /\ wpc' = [wpc EXCEPT ![w] = "idle"]
  /\ UNCHANGED <<buffers, inited, stop_signal, remain, bpc, for_quit, opc, inits,
                 appended, delivered>>

-----------------------------------------------------------------------------
(* The backend thread.                                                     *)

\* Head of the loop: with full buffers there is nothing to wait for.
backendCheck ==
  /\ bpc = "check"
  /\ for_quit' = FALSE
  /\ bpc' = IF full_buffers = <<>> THEN "waiting" ELSE "drain"
  /\ UNCHANGED <<buffers, inited, stop_signal, curr_lock, wpc, remain, opc, inits,
                 appended, delivered>>

\* Mutant of backendWake: a timeout goes back to waiting.
backendWakeNoTimeup ==
  /\ bpc = "waiting"
  /\ for_quit' = stop_signal
  /\ bpc' = IF stop_signal THEN "flush" ELSE "drain"
  /\ UNCHANGED <<buffers, inited, stop_signal, curr_lock, wpc, remain, opc, inits,
                 appended, delivered>>

\* wait_for() returns: the interval may be over at any time, so the backend may
\* always look.  A stop and a timeout flush curr_buffer_ first.
backendWake ==
  /\ bpc = "waiting"
  /\ for_quit' = stop_signal
  /\ bpc' = IF ~stop_signal /\ full_buffers # <<>> THEN "drain" ELSE "flush"
  /\ UNCHANGED <<buffers, inited, stop_signal, curr_lock, wpc, remain, opc, inits,
                 appended, delivered>>

\* curr_buffer_mutex_.try_lock(): without the lock nothing is moved.
backendFlush ==
  /\ bpc = "flush"
  /\ IF curr_lock = NoThread /\ curr_buffer # NoBuffer
     THEN /\ full_buffers' = Append(full_buffers, curr_buffer)
          /\ curr_buffer' = NoBuffer
     ELSE UNCHANGED <<full_buffers, curr_buffer>>
  /\ bpc' = "drain"
  /\ UNCHANGED <<free_buffers, buff_num, buff, inited, stop_signal, curr_lock, wpc,
                 remain, for_quit, opc, inits, appended, delivered>>

\* Mutant of backendPop: the newest buffer first, as free_buffers_ is used.
backendPopNewest ==
  /\ bpc = "drain"
  /\ \/ /\ full_buffers # <<>>
        /\ buff' = Last(full_buffers)
        /\ full_buffers' = Front(full_buffers)
        /\ bpc' = "cb"
     \/ /\ full_buffers = <<>>
        /\ bpc' = IF for_quit THEN "off" ELSE "check"
        /\ UNCHANGED <<buff, full_buffers>>
  /\ UNCHANGED <<curr_buffer, free_buffers, buff_num, inited, stop_signal, curr_lock,
                 wpc, remain, for_quit, opc, inits, appended, delivered>>

\* Mutant of backendPop: a round that was woken to quit starts another one.
backendPopNoQuit ==
  /\ bpc = "drain"
  /\ \/ /\ full_buffers # <<>>
        /\ buff' = Head(full_buffers)
        /\ full_buffers' = Tail(full_buffers)
        /\ bpc' = "cb"
     \/ /\ full_buffers = <<>>
        /\ bpc' = "check"
        /\ UNCHANGED <<buff, full_buffers>>
  /\ UNCHANGED <<curr_buffer, free_buffers, buff_num, inited, stop_signal, curr_lock,
                 wpc, remain, for_quit, opc, inits, appended, delivered>>

\* Pop the oldest full buffer; with none left the round, or the thread, ends.
backendPop ==
  /\ bpc = "drain"
  /\ \/ /\ full_buffers # <<>>
        /\ buff' = Head(full_buffers)
        /\ full_buffers' = Tail(full_buffers)
        /\ bpc' = "cb"
     \/ /\ full_buffers = <<>>
        /\ bpc' = IF for_quit THEN "off" ELSE "check"
        /\ UNCHANGED <<buff, full_buffers>>
  /\ UNCHANGED <<curr_buffer, free_buffers, buff_num, inited, stop_signal, curr_lock,
                 wpc, remain, for_quit, opc, inits, appended, delivered>>

\* cb_(buff->data(), buff->size()); buff->reset().
backendDeliver ==
  /\ bpc = "cb"
  /\ delivered' = delivered + Len(buff)
  /\ buff' = <<>>
  /\ bpc' = "recycle"
  /\ UNCHANGED <<curr_buffer, free_buffers, full_buffers, buff_num, inited, stop_signal,
                 curr_lock, wpc, remain, for_quit, opc, inits, appended>>

\* Mutant of backendRecycle: the surplus buffer is deleted but still counted.
backendRecycleLeak ==
  /\ bpc = "recycle"
  /\ buff' = IF buff_num > MinNum THEN NoBuffer ELSE buff
  /\ bpc' = IF buff_num > MinNum THEN "drain" ELSE "tofree"
  /\ UNCHANGED <<curr_buffer, free_buffers, full_buffers, buff_num, inited, stop_signal,
                 curr_lock, wpc, remain, for_quit, opc, inits, appended, delivered>>

\* Mutant of backendRecycle: a buffer is surplus from buff_min_num on.
backendRecycleOffByOne ==
  /\ bpc = "recycle"
  /\ buff_num' = IF buff_num >= MinNum THEN buff_num - 1 ELSE buff_num
  /\ buff' = IF buff_num >= MinNum THEN NoBuffer ELSE buff
  /\ bpc' = IF buff_num >= MinNum THEN "drain" ELSE "tofree"
  /\ UNCHANGED <<curr_buffer, free_buffers, full_buffers, inited, stop_signal, curr_lock,
                 wpc, remain, for_quit, opc, inits, appended, delivered>>

\* Under buff_num_mutex_: a surplus buffer is deleted, nobody is notified.
backendRecycle ==
  /\ bpc = "recycle"
  /\ \/ /\ buff_num > MinNum
        /\ buff_num' = buff_num - 1
        /\ buff' = NoBuffer
        /\ bpc' = "drain"
     \/ /\ buff_num <= MinNum
        /\ bpc' = "tofree"
        /\ UNCHANGED <<buff_num, buff>>
  /\ UNCHANGED <<curr_buffer, free_buffers, full_buffers, inited, stop_signal, curr_lock,
                 wpc, remain, for_quit, opc, inits, appended, delivered>>

\* Under free_buffers_mutex_: the buffer is given back and waiters are notified.
backendFree ==
  /\ bpc = "tofree"
  /\ free_buffers' = free_buffers + 1
  /\ buff' = NoBuffer
  /\ bpc' = "drain"
  /\ UNCHANGED <<curr_buffer, full_buffers, buff_num, inited, stop_signal, curr_lock,
                 wpc, remain, for_quit, opc, inits, appended, delivered>>

-----------------------------------------------------------------------------
Owner   == initialize \/ cleanupStop \/ cleanupJoin
Writer(w) ==
  \/ appendLock(w) \/ allocBuffer(w) \/ wakeFree(w) \/ writeBuffer(w) \/ appendUnlock(w)
  \/ \E n \in 1..MaxBytes : appendLockless(w, n)
Backend == backendCheck \/ backendWake \/ backendFlush \/ backendPop \/ backendDeliver
           \/ backendRecycle \/ backendFree

Next == Owner \/ (\E w \in Writers : Writer(w)) \/ Backend

\* The scheduler runs every thread; a front-end thread that is inside a session
\* finishes it; whether anyone calls append() or cleanup() is left open.
Fairness ==
  /\ WF_vars(Backend)
  /\ WF_vars(cleanupJoin)
  /\ \A w \in Writers :
       WF_vars(/\ wpc[w] # "idle"
               /\ Writer(w))

Spec     == Init /\ [][Next]_vars
FairSpec == Spec /\ Fairness

-----------------------------------------------------------------------------
(* Properties.                                                             *)

Held(b) == IF b = NoBuffer THEN 0 ELSE 1

\* While the pipe is up, buff_num_ counts exactly the buffers that exist, although
\* it is guarded by a mutex of its own and buffers move under three others.
BufferAccounting ==
  inited => buff_num = free_buffers + Len(full_buffers) + Held(curr_buffer) + Held(buff)

\* The pool stays between buff_min_num and buff_max_num whatever the interleaving
\* of the growth in appendLockless() with the shrinking in threadFunc().
BufferBound == inited => buff_num \in MinNum..MaxNum

\* threadFunc() notifies free_buffers_cv_ only when it gives a buffer back, never
\* when it deletes one: yet a front-end thread waiting for a free buffer always
\* has one coming, in the queue or in the backend's hands.
WaiterHasSupplier ==
  \A w \in Writers :
    wpc[w] = "waitfree" /\ free_buffers = 0 => full_buffers # <<>> \/ buff # NoBuffer

\* The bytes not yet delivered are, from the backend's hands through the queue to
\* curr_buffer_, the bytes appended since, in order: no loss, no duplicate, no
\* reordering between the front end's hand-over and the backend's own flush.
Size(b) == IF b = NoBuffer THEN 0 ELSE Len(b)
Follows(b, k) == b # NoBuffer => \A i \in 1..Len(b) : b[i] = k + i
Before(q) == IF q = 1 THEN delivered + Size(buff)
             ELSE full_buffers[q - 1][Len(full_buffers[q - 1])]
InOrder ==
  /\ Follows(buff, delivered)
  /\ \A q \in 1..Len(full_buffers) :
       full_buffers[q] # <<>> /\ Follows(full_buffers[q], Before(q))
  /\ Follows(curr_buffer, Before(Len(full_buffers) + 1))
  /\ appended = Before(Len(full_buffers) + 1) + Size(curr_buffer)

\* When the backend has ended and cleanup() deletes what is left, full_buffers_ is
\* empty (the assert in cleanup()) and every byte went through the callback.
CleanupFlushed ==
  opc = "join" /\ bpc = "off" => full_buffers = <<>> /\ delivered = appended

\* append() returns: the back pressure at buff_max_num never blocks for good.
AppendReturns == \A w \in Writers : wpc[w] # "idle" ~> wpc[w] = "idle"

\* A byte reaches the callback even if its buffer never fills up and nobody calls
\* cleanup(): the interval flushes curr_buffer_.
EveryByteDelivered == \A k \in 1..MaxBytes : appended >= k ~> delivered >= k

\* cleanup() returns: the stop flag is raised without full_buffers_mutex_, so its
\* notification can be lost, and the timeout makes up for it.
CleanupReturns == opc = "join" ~> opc = "idle"

\* The pipe as a byte channel: up from initialize() until cleanup() begins, down when it ends.
Channel == INSTANCE ByteChannel WITH
  MaxChunk <- BuffSize,
  NoChunk  <- NoBuffer,
  phase    <- IF ~inited THEN "down" ELSE IF opc = "join" THEN "closing" ELSE "up",
  sent     <- appended,
  received <- delivered,
  chunk    <- IF bpc = "cb" THEN buff ELSE NoBuffer

\* The pipe implements the channel it stands for: the callback gets chunks that continue
\* one another, byte for byte, nothing is accepted once cleanup() has begun, and the pipe is
\* down only when everything was handed over.
ImplementsChannel == Channel!Spec
=============================================================================
