--------------------------- MODULE AsyncPipeProofs ---------------------------
(***************************************************************************)
(* Proofs about util::AsyncPipe, for any set of writers, any buff_size and *)
(* any buff_min_num <= buff_max_num.                                       *)
(*                                                                         *)
(* The inductive invariant IInv adds to the properties who holds           *)
(* curr_buffer_mutex_ (Locking), how initialize(), cleanup() and the       *)
(* backend's life are synchronised (Phases), and which of the buffer slots *)
(* are occupied at which point of the two threads (Slots).                 *)
(***************************************************************************)
EXTENDS AsyncPipe, TLAPS

\* A front-end thread inside a session is the owner of curr_buffer_mutex_.
Locking ==
  /\ \A w \in Writers : wpc[w] # "idle" => curr_lock = w
  /\ curr_lock # NoThread => wpc[curr_lock] # "idle"

\* cleanup() runs when no session is open, and the backend ends only for it.
Phases ==
  /\ stop_signal <=> opc = "join"
  /\ opc = "join" => inited /\ curr_lock = NoThread
  /\ ~inited => curr_lock = NoThread /\ bpc = "off"
  /\ bpc = "off" => ~inited \/ opc = "join"
  /\ for_quit /\ bpc \notin {"off", "check"} => opc = "join"

\* Which buffers exist where: curr_buffer_ is never left full, an empty one is about
\* to be written, and a backend that quits has taken it.
Slots ==
  /\ \A w \in Writers : wpc[w] \in {"alloc", "waitfree"} => curr_buffer = NoBuffer
  /\ \A w \in Writers : wpc[w] = "write" => curr_buffer # NoBuffer
  /\ \A w \in Writers : wpc[w] \in {"alloc", "waitfree", "write"} => remain[w] > 0
  /\ curr_buffer # NoBuffer => Len(curr_buffer) < BuffSize
  /\ curr_buffer = <<>> => curr_lock # NoThread /\ wpc[curr_lock] = "write"
  /\ buff # NoBuffer <=> bpc \in {"cb", "recycle", "tofree"}
  /\ bpc \in {"recycle", "tofree"} => buff = <<>>
  /\ bpc = "off" => full_buffers = <<>>
  /\ ~inited => curr_buffer = NoBuffer /\ free_buffers = 0
  /\ for_quit /\ bpc \in {"drain", "cb", "recycle", "tofree"} => curr_buffer = NoBuffer
  /\ bpc = "off" => curr_buffer = NoBuffer

\* What Buffer::append() leaves in the buffer: the old bytes, then the new ones.
LEMMA Concat ==
  ASSUME NEW s \in Seq(Nat), NEW k \in Nat, NEW a \in Nat
  PROVE  LET t == s \o [i \in 1..k |-> a + i] IN
         /\ t \in Seq(Nat) /\ Len(t) = Len(s) + k
         /\ \A i \in 1..Len(s) : t[i] = s[i]
         /\ \A i \in 1..k : t[Len(s) + i] = a + i
<1> DEFINE r == [i \in 1..k |-> a + i]
<1>1. r \in Seq(Nat) /\ Len(r) = k
  OBVIOUS
<1> HIDE DEF r
<1>2. QED
  BY <1>1 DEF r

\* A fresh buffer holds nothing and is not nullptr.
LEMMA EmptyBuffer == <<>> \in Seq(Nat) /\ <<>> # NoBuffer /\ Len(<<>>) = 0
<1>1. <<>> \in Seq(Nat) /\ Len(<<>>) = 0
  OBVIOUS
<1> QED
  BY <1>1, BoundAssumption

\* The effect of one turn of appendLockless(), bytes being the buffer after the copy.
Written(w, bytes) ==
  LET size == Len(bytes) - Len(curr_buffer)
  IN /\ bytes \in Seq(Nat) /\ Len(bytes) <= BuffSize
     /\ size \in 1..remain[w]
     /\ \A i \in 1..Len(curr_buffer) : bytes[i] = curr_buffer[i]
     /\ \A i \in 1..size : bytes[Len(curr_buffer) + i] = appended + i
     /\ appended' = appended + size
     /\ remain' = [remain EXCEPT ![w] = remain[w] - size]
     /\ \/ /\ Len(bytes) = BuffSize
           /\ full_buffers' = Append(full_buffers, bytes)
           /\ curr_buffer' = NoBuffer
           /\ wpc' = [wpc EXCEPT ![w] = IF remain[w] = size THEN "written" ELSE "alloc"]
        \/ /\ Len(bytes) < BuffSize
           /\ full_buffers' = full_buffers
           /\ curr_buffer' = bytes
           /\ remain[w] = size
           /\ wpc' = [wpc EXCEPT ![w] = "written"]

\* Every turn of the loop of appendLockless() copies at least one byte and either
\* fills the buffer up or finishes the call.
LEMMA WriteEffect ==
  ASSUME TypeOK, Slots, NEW w \in Writers, writeBuffer(w)
  PROVE  \E bytes : Written(w, bytes)
<1> USE ConfigAssumption, BoundAssumption DEF TypeOK
<1> DEFINE size == Fit(remain[w])
           bytes == curr_buffer \o [i \in 1..size |-> appended + i]
<1>1. /\ curr_buffer \in Seq(Nat) /\ Len(curr_buffer) \in Nat /\ Len(curr_buffer) < BuffSize
      /\ remain[w] \in Nat \ {0}
  BY DEF Slots, writeBuffer
<1>2. /\ size \in 1..remain[w]
      /\ Len(curr_buffer) + size <= BuffSize
      /\ Len(curr_buffer) + size < BuffSize => size = remain[w]
  BY <1>1 DEF Fit
<1> HIDE DEF size
<1>3. /\ bytes \in Seq(Nat) /\ Len(bytes) = Len(curr_buffer) + size
      /\ \A i \in 1..Len(curr_buffer) : bytes[i] = curr_buffer[i]
      /\ \A i \in 1..size : bytes[Len(curr_buffer) + i] = appended + i
  BY <1>1, <1>2, Concat
<1>4. /\ appended' = appended + size
      /\ remain' = [remain EXCEPT ![w] = remain[w] - size]
      /\ full_buffers' = IF Len(bytes) = BuffSize THEN Append(full_buffers, bytes)
                         ELSE full_buffers
      /\ curr_buffer' = IF Len(bytes) = BuffSize THEN NoBuffer ELSE bytes
      /\ wpc' = [wpc EXCEPT ![w] = IF remain[w] - size = 0 THEN "written"
                                   ELSE IF Len(bytes) = BuffSize THEN "alloc" ELSE "write"]
  BY DEF writeBuffer, size
<1> HIDE DEF bytes
<1>5. Len(bytes) \in Nat /\ Len(bytes) - Len(curr_buffer) = size /\ Len(bytes) <= BuffSize
  BY <1>1, <1>2, <1>3
<1>6. /\ Len(bytes) = BuffSize \/ (Len(bytes) < BuffSize /\ remain[w] = size)
      /\ remain[w] - size = 0 <=> remain[w] = size
  <2>1. Len(bytes) = Len(curr_buffer) + size
    BY <1>3
  <2>2. Len(bytes) = BuffSize \/ Len(bytes) < BuffSize
    BY <1>5
  <2>3. Len(bytes) < BuffSize => remain[w] = size
    BY <1>2, <2>1
  <2>4. remain[w] - size = 0 <=> remain[w] = size
    BY <1>1, <1>2
  <2> QED
    BY <2>2, <2>3, <2>4
<1>7. Written(w, bytes)
  BY <1>2, <1>3, <1>4, <1>5, <1>6 DEF Written
<1> QED
  BY <1>7

\* No step takes curr_buffer_mutex_ from the session that holds it.
LEMMA LockingStep ==
  ASSUME TypeOK, Locking, Phases, Slots, [Next]_vars
  PROVE  Locking'
<1> USE BoundAssumption DEF TypeOK, Locking, Phases
<1>1. CASE initialize
  BY <1>1 DEF initialize, buffers
<1>2. CASE cleanupStop
  BY <1>2 DEF cleanupStop, buffers
<1>3. CASE cleanupJoin
  BY <1>3 DEF cleanupJoin, buffers
<1>4. ASSUME NEW w \in Writers, appendLock(w) PROVE Locking'
  BY <1>4 DEF appendLock, buffers
<1>5. ASSUME NEW w \in Writers, allocBuffer(w) PROVE Locking'
  BY <1>5 DEF allocBuffer, buffers
<1>6. ASSUME NEW w \in Writers, wakeFree(w) PROVE Locking'
  BY <1>6 DEF wakeFree, buffers
<1>7. ASSUME NEW w \in Writers, writeBuffer(w) PROVE Locking'
  BY <1>7 DEF writeBuffer, buffers
<1>8. ASSUME NEW w \in Writers, appendUnlock(w) PROVE Locking'
  BY <1>8 DEF appendUnlock, buffers
<1>9. ASSUME NEW w \in Writers, NEW n \in 1..MaxBytes, appendLockless(w, n)
      PROVE  Locking'
  BY <1>9 DEF appendLockless, buffers
<1>10. CASE backendCheck
  BY <1>10 DEF backendCheck, buffers
<1>11. CASE backendWake
  BY <1>11 DEF backendWake, buffers
<1>12. CASE backendFlush
  BY <1>12 DEF backendFlush, buffers
<1>13. CASE backendPop
  BY <1>13 DEF backendPop, buffers
<1>14. CASE backendDeliver
  BY <1>14 DEF backendDeliver, buffers
<1>15. CASE backendRecycle
  BY <1>15 DEF backendRecycle, buffers
<1>16. CASE backendFree
  BY <1>16 DEF backendFree, buffers
<1>17. CASE UNCHANGED vars
  BY <1>17 DEF vars, buffers, control
<1> QED
  BY <1>1, <1>2, <1>3, <1>4, <1>5, <1>6, <1>7, <1>8, <1>9,
     <1>10, <1>11, <1>12, <1>13, <1>14, <1>15, <1>16, <1>17
     DEF Next, Owner, Writer, Backend

\* No step lets the backend quit while the pipe is in use.
LEMMA PhasesStep ==
  ASSUME TypeOK, Locking, Phases, Slots, [Next]_vars
  PROVE  Phases'
<1> USE BoundAssumption DEF TypeOK, Locking, Phases
<1>1. CASE initialize
  BY <1>1 DEF initialize, buffers
<1>2. CASE cleanupStop
  BY <1>2 DEF cleanupStop, buffers
<1>3. CASE cleanupJoin
  BY <1>3 DEF cleanupJoin, buffers
<1>4. ASSUME NEW w \in Writers, appendLock(w) PROVE Phases'
  BY <1>4 DEF appendLock, buffers
<1>5. ASSUME NEW w \in Writers, allocBuffer(w) PROVE Phases'
  BY <1>5 DEF allocBuffer, buffers
<1>6. ASSUME NEW w \in Writers, wakeFree(w) PROVE Phases'
  BY <1>6 DEF wakeFree, buffers
<1>7. ASSUME NEW w \in Writers, writeBuffer(w) PROVE Phases'
  BY <1>7 DEF writeBuffer, buffers
<1>8. ASSUME NEW w \in Writers, appendUnlock(w) PROVE Phases'
  BY <1>8 DEF appendUnlock, buffers
<1>9. ASSUME NEW w \in Writers, NEW n \in 1..MaxBytes, appendLockless(w, n)
      PROVE  Phases'
  BY <1>9 DEF appendLockless, buffers
<1>10. CASE backendCheck
  BY <1>10 DEF backendCheck, buffers
<1>11. CASE backendWake
  BY <1>11 DEF backendWake, buffers
<1>12. CASE backendFlush
  BY <1>12 DEF backendFlush, buffers
<1>13. CASE backendPop
  BY <1>13 DEF backendPop, buffers
<1>14. CASE backendDeliver
  BY <1>14 DEF backendDeliver, buffers
<1>15. CASE backendRecycle
  BY <1>15 DEF backendRecycle, buffers
<1>16. CASE backendFree
  BY <1>16 DEF backendFree, buffers
<1>17. CASE UNCHANGED vars
  BY <1>17 DEF vars, buffers, control
<1> QED
  BY <1>1, <1>2, <1>3, <1>4, <1>5, <1>6, <1>7, <1>8, <1>9,
     <1>10, <1>11, <1>12, <1>13, <1>14, <1>15, <1>16, <1>17
     DEF Next, Owner, Writer, Backend

\* No step leaves the types.
LEMMA TypeStep ==
  ASSUME TypeOK, Slots, [Next]_vars
  PROVE  TypeOK'
<1> USE DEF TypeOK
<1>1. CASE initialize
  BY <1>1, ConfigAssumption DEF initialize
<1>2. CASE cleanupStop
  BY <1>2 DEF cleanupStop, buffers
<1>3. CASE cleanupJoin
  BY <1>3 DEF cleanupJoin, buffers
<1>4. ASSUME NEW w \in Writers, appendLock(w) PROVE TypeOK'
  BY <1>4 DEF appendLock, buffers
<1>5. ASSUME NEW w \in Writers, allocBuffer(w) PROVE TypeOK'
  <2>0. /\ UNCHANGED <<full_buffers, buff, inited, stop_signal, curr_lock, remain, bpc,
                       for_quit, opc, inits, appended, delivered>>
        /\ wpc' \in [Writers -> {"idle", "locked", "alloc", "waitfree", "write", "written"}]
    BY <1>5 DEF allocBuffer
  <2>1. curr_buffer' \in Seq(Nat) \cup {NoBuffer}
    BY <1>5, EmptyBuffer DEF allocBuffer
  <2>2. free_buffers' \in Nat /\ buff_num' \in Nat
    BY <1>5 DEF allocBuffer
  <2> QED
    BY <2>0, <2>1, <2>2
<1>6. ASSUME NEW w \in Writers, wakeFree(w) PROVE TypeOK'
  BY <1>6, EmptyBuffer DEF wakeFree
<1>7. ASSUME NEW w \in Writers, writeBuffer(w) PROVE TypeOK'
  <2>1. PICK bytes : Written(w, bytes)
    BY <1>7, WriteEffect
  <2>2. UNCHANGED <<free_buffers, buff_num, buff, inited, stop_signal, curr_lock, bpc,
                    for_quit, opc, inits, delivered>>
    BY <1>7 DEF writeBuffer
  <2>3. full_buffers' \in Seq(Seq(Nat)) /\ curr_buffer' \in Seq(Nat) \cup {NoBuffer}
    <3>1. Append(full_buffers, bytes) \in Seq(Seq(Nat))
      BY <2>1 DEF Written
    <3> QED
      BY <2>1, <3>1 DEF Written
  <2>4. appended' \in Nat /\ remain' \in [Writers -> Nat]
    <3>1. PICK size \in 1..remain[w] :
            /\ appended' = appended + size
            /\ remain' = [remain EXCEPT ![w] = remain[w] - size]
      BY <2>1 DEF Written
    <3>2. remain[w] - size \in Nat /\ appended + size \in Nat
      BY <3>1
    <3> QED
      BY <3>1, <3>2
  <2>5. wpc' \in [Writers -> {"idle", "locked", "alloc", "waitfree", "write", "written"}]
    BY <2>1 DEF Written
  <2> QED
    BY <2>2, <2>3, <2>4, <2>5
<1>8. ASSUME NEW w \in Writers, appendUnlock(w) PROVE TypeOK'
  BY <1>8 DEF appendUnlock, buffers
<1>9. ASSUME NEW w \in Writers, NEW n \in 1..MaxBytes, appendLockless(w, n)
      PROVE  TypeOK'
  BY <1>9 DEF appendLockless, buffers
<1>10. CASE backendCheck
  BY <1>10 DEF backendCheck, buffers
<1>11. CASE backendWake
  BY <1>11 DEF backendWake, buffers
<1>12. CASE backendFlush
  <2>1. curr_buffer # NoBuffer => Append(full_buffers, curr_buffer) \in Seq(Seq(Nat))
    OBVIOUS
  <2> QED
    BY <1>12, <2>1 DEF backendFlush
<1>13. CASE backendPop
  <2>1. full_buffers # <<>> => /\ Head(full_buffers) \in Seq(Nat)
                               /\ Tail(full_buffers) \in Seq(Seq(Nat))
    OBVIOUS
  <2> QED
    BY <1>13, <2>1 DEF backendPop
<1>14. CASE backendDeliver
  <2>1. buff \in Seq(Nat)
    BY <1>14 DEF backendDeliver, Slots
  <2> QED
    BY <1>14, <2>1, EmptyBuffer DEF backendDeliver
<1>15. CASE backendRecycle
  BY <1>15, ConfigAssumption DEF backendRecycle
<1>16. CASE backendFree
  BY <1>16 DEF backendFree, buffers
<1>17. CASE UNCHANGED vars
  BY <1>17 DEF vars, buffers, control
<1> QED
  BY <1>1, <1>2, <1>3, <1>4, <1>5, <1>6, <1>7, <1>8, <1>9,
     <1>10, <1>11, <1>12, <1>13, <1>14, <1>15, <1>16, <1>17
     DEF Next, Owner, Writer, Backend

\* No step of one thread disturbs the slots the other one relies on.
LEMMA SlotsStep ==
  ASSUME TypeOK, Locking, Phases, Slots, [Next]_vars
  PROVE  Slots'
<1> USE DEF TypeOK, Locking, Phases, Slots
<1>1. CASE initialize
  BY <1>1 DEF initialize, buffers
<1>2. CASE cleanupStop
  BY <1>2 DEF cleanupStop, buffers
<1>3. CASE cleanupJoin
  BY <1>3 DEF cleanupJoin, buffers
<1>4. ASSUME NEW w \in Writers, appendLock(w) PROVE Slots'
  BY <1>4 DEF appendLock, buffers
<1>5. ASSUME NEW w \in Writers, allocBuffer(w) PROVE Slots'
  <2>1. curr_lock = w /\ curr_buffer = NoBuffer /\ inited /\ bpc # "off" /\ opc # "join"
    BY <1>5, BoundAssumption DEF allocBuffer
  <2>2. \A v \in Writers \ {w} : wpc'[v] = "idle"
    BY <1>5, <2>1 DEF allocBuffer
  <2>3. UNCHANGED <<full_buffers, buff, inited, curr_lock, remain, bpc, for_quit, opc>>
    BY <1>5 DEF allocBuffer
  <2>4. CASE curr_buffer' = <<>> /\ wpc' = [wpc EXCEPT ![w] = "write"]
    BY <1>5, <2>1, <2>2, <2>3, <2>4, EmptyBuffer, ConfigAssumption, BoundAssumption DEF allocBuffer
  <2>5. CASE curr_buffer' = curr_buffer /\ wpc' = [wpc EXCEPT ![w] = "waitfree"]
    BY <1>5, <2>1, <2>2, <2>3, <2>5, EmptyBuffer DEF allocBuffer
  <2> QED
    BY <1>5, <2>4, <2>5 DEF allocBuffer
<1>6. ASSUME NEW w \in Writers, wakeFree(w) PROVE Slots'
  <2>1. curr_lock = w /\ inited /\ bpc # "off" /\ opc # "join"
    BY <1>6, BoundAssumption DEF wakeFree
  <2> QED
    BY <1>6, <2>1, EmptyBuffer, ConfigAssumption, BoundAssumption DEF wakeFree
<1>7. ASSUME NEW w \in Writers, writeBuffer(w) PROVE Slots'
  <2>1. PICK bytes : Written(w, bytes)
    BY <1>7, WriteEffect
  <2>2. UNCHANGED <<free_buffers, buff_num, buff, inited, stop_signal, curr_lock, bpc,
                    for_quit, opc, inits, delivered>>
    BY <1>7 DEF writeBuffer
  <2>3. curr_lock = w /\ inited /\ bpc # "off" /\ opc # "join"
    BY <1>7, BoundAssumption DEF writeBuffer
  <2>4. \A v \in Writers \ {w} : wpc'[v] = "idle"
    BY <1>7, <2>1, <2>3 DEF Written, writeBuffer
  <2>5. CASE Len(bytes) = BuffSize
    <3>1. curr_buffer' = NoBuffer /\ NoBuffer # <<>>
      BY <2>1, <2>5, EmptyBuffer DEF Written
    <3>2. wpc'[w] = "written" \/ (wpc'[w] = "alloc" /\ remain'[w] > 0)
      BY <2>1, <2>5, SMTT(30) DEF Written
    <3> QED
      BY <2>2, <2>3, <2>4, <3>1, <3>2
  <2>6. CASE Len(bytes) < BuffSize
    <3>1. curr_buffer' = bytes /\ bytes # <<>> /\ bytes # NoBuffer
      BY <2>1, <2>6, BoundAssumption, EmptyBuffer, SMTT(30) DEF Written
    <3>2. wpc'[w] = "written"
      BY <2>1, <2>6 DEF Written
    <3>3. ~(for_quit /\ bpc \in {"drain", "cb", "recycle", "tofree"})
      BY <2>3
    <3> QED
      BY <2>2, <2>3, <2>4, <2>6, <3>1, <3>2, <3>3
  <2> QED
    BY <2>1, <2>5, <2>6, ConfigAssumption DEF Written
<1>8. ASSUME NEW w \in Writers, appendUnlock(w) PROVE Slots'
  BY <1>8 DEF appendUnlock, buffers
<1>9. ASSUME NEW w \in Writers, NEW n \in 1..MaxBytes, appendLockless(w, n)
      PROVE  Slots'
  BY <1>9 DEF appendLockless, buffers
<1>10. CASE backendCheck
  BY <1>10 DEF backendCheck, buffers
<1>11. CASE backendWake
  BY <1>11 DEF backendWake, buffers
<1>12. CASE backendFlush
  <2>1. \A w \in Writers : wpc[w] # "idle" => curr_lock # NoThread
    BY BoundAssumption
  <2>2. for_quit => curr_lock = NoThread
    BY <1>12 DEF backendFlush
  <2>3. CASE curr_lock = NoThread
    BY <1>12, <2>1, <2>2, <2>3, EmptyBuffer DEF backendFlush
  <2>4. CASE curr_lock # NoThread
    BY <1>12, <2>1, <2>2, <2>4 DEF backendFlush
  <2> QED
    BY <2>3, <2>4
<1>13. CASE backendPop
  <2>1. full_buffers # <<>> => Head(full_buffers) \in Seq(Nat)
    OBVIOUS
  <2> QED
    BY <1>13, <2>1, BoundAssumption DEF backendPop
<1>14. CASE backendDeliver
  BY <1>14, EmptyBuffer DEF backendDeliver
<1>15. CASE backendRecycle
  BY <1>15 DEF backendRecycle, buffers
<1>16. CASE backendFree
  BY <1>16 DEF backendFree, buffers
<1>17. CASE UNCHANGED vars
  BY <1>17 DEF vars, buffers, control
<1> QED
  BY <1>1, <1>2, <1>3, <1>4, <1>5, <1>6, <1>7, <1>8, <1>9,
     <1>10, <1>11, <1>12, <1>13, <1>14, <1>15, <1>16, <1>17
     DEF Next, Owner, Writer, Backend

\* Every step that moves, creates or deletes a buffer keeps buff_num_ the number of
\* buffers and within its limits.
LEMMA AccountingStep ==
  ASSUME TypeOK, Locking, Phases, Slots,
         BufferAccounting, BufferBound, [Next]_vars
  PROVE  (BufferAccounting /\ BufferBound)'
<1>a. /\ inited \in BOOLEAN /\ free_buffers \in Nat /\ buff_num \in Nat
      /\ full_buffers \in Seq(Seq(Nat)) /\ Len(full_buffers) \in Nat
  BY DEF TypeOK
<1>b. BufferAccounting /\ BufferBound
  OBVIOUS
<1>1. CASE initialize
  <2>1. full_buffers = <<>> /\ curr_buffer = NoBuffer /\ buff = NoBuffer
    BY <1>1 DEF initialize, Slots, Phases
  <2> QED
    BY <1>1, <2>1, ConfigAssumption, EmptyBuffer DEF initialize, BufferAccounting, BufferBound, Held
<1>2. CASE cleanupStop
  BY <1>2, <1>b DEF cleanupStop, buffers, BufferAccounting, BufferBound, Held
<1>3. CASE cleanupJoin
  BY <1>3 DEF cleanupJoin, BufferAccounting, BufferBound
<1>4. ASSUME NEW w \in Writers, appendLock(w) PROVE (BufferAccounting /\ BufferBound)'
  BY <1>4, <1>b DEF appendLock, buffers, BufferAccounting, BufferBound, Held
<1>5. ASSUME NEW w \in Writers, allocBuffer(w) PROVE (BufferAccounting /\ BufferBound)'
  <2>1. curr_buffer = NoBuffer
    BY <1>5 DEF allocBuffer, Slots
  <2>2. <<>> # NoBuffer /\ UNCHANGED <<inited, full_buffers, buff>>
    BY <1>5, EmptyBuffer DEF allocBuffer
  <2>3. CASE free_buffers > 0 /\ free_buffers' = free_buffers - 1 /\ curr_buffer' = <<>>
             /\ buff_num' = buff_num
    BY <1>a, <1>b, <2>1, <2>2, <2>3, ConfigAssumption DEF BufferAccounting, BufferBound, Held
  <2>4. CASE buff_num < MaxNum /\ buff_num' = buff_num + 1 /\ curr_buffer' = <<>>
             /\ free_buffers' = free_buffers
    BY <1>a, <1>b, <2>1, <2>2, <2>4, ConfigAssumption DEF BufferAccounting, BufferBound, Held
  <2>5. CASE UNCHANGED <<free_buffers, curr_buffer, buff_num>>
    BY <1>a, <1>b, <2>2, <2>5 DEF BufferAccounting, BufferBound, Held
  <2> QED
    BY <1>5, <2>3, <2>4, <2>5 DEF allocBuffer
<1>6. ASSUME NEW w \in Writers, wakeFree(w) PROVE (BufferAccounting /\ BufferBound)'
  <2>1. curr_buffer = NoBuffer /\ <<>> # NoBuffer
    BY <1>6, EmptyBuffer DEF wakeFree, Slots
  <2>2. /\ free_buffers > 0 /\ free_buffers' = free_buffers - 1 /\ curr_buffer' = <<>>
        /\ UNCHANGED <<inited, full_buffers, buff_num, buff>>
    BY <1>6 DEF wakeFree
  <2> QED
    BY <1>a, <1>b, <2>1, <2>2, ConfigAssumption DEF BufferAccounting, BufferBound, Held
<1>7. ASSUME NEW w \in Writers, writeBuffer(w) PROVE (BufferAccounting /\ BufferBound)'
  <2>1. PICK bytes : Written(w, bytes)
    BY <1>7, WriteEffect
  <2>2. UNCHANGED <<free_buffers, buff_num, buff, inited, stop_signal, curr_lock, bpc,
                    for_quit, opc, inits, delivered>>
    BY <1>7 DEF writeBuffer
  <2>3. curr_buffer # NoBuffer
    BY <1>7 DEF writeBuffer, Slots
  <2>4. CASE Len(bytes) = BuffSize
    <3>1. Len(full_buffers') = Len(full_buffers) + 1 /\ curr_buffer' = NoBuffer
      BY <1>a, <2>1, <2>4 DEF Written
    <3> QED
      BY <1>a, <1>b, <2>2, <2>3, <3>1 DEF BufferAccounting, BufferBound, Held
  <2>5. CASE Len(bytes) < BuffSize
    <3>1. full_buffers' = full_buffers /\ curr_buffer' # NoBuffer
      BY <2>1, <2>5, BoundAssumption DEF Written
    <3> QED
      BY <1>a, <1>b, <2>2, <2>3, <3>1 DEF BufferAccounting, BufferBound, Held
  <2> QED
    BY <2>1, <2>4, <2>5, ConfigAssumption DEF Written
<1>8. ASSUME NEW w \in Writers, appendUnlock(w) PROVE (BufferAccounting /\ BufferBound)'
  BY <1>8, <1>b DEF appendUnlock, buffers, BufferAccounting, BufferBound, Held
<1>9. ASSUME NEW w \in Writers, NEW n \in 1..MaxBytes, appendLockless(w, n)
      PROVE  (BufferAccounting /\ BufferBound)'
  BY <1>9, <1>b DEF appendLockless, buffers, BufferAccounting, BufferBound, Held
<1>10. CASE backendCheck
  BY <1>10, <1>b DEF backendCheck, buffers, BufferAccounting, BufferBound, Held
<1>11. CASE backendWake
  BY <1>11, <1>b DEF backendWake, buffers, BufferAccounting, BufferBound, Held
<1>12. CASE backendFlush
  <2>1. CASE curr_lock = NoThread /\ curr_buffer # NoBuffer
    <3>1. Len(full_buffers') = Len(full_buffers) + 1 /\ curr_buffer' = NoBuffer
      BY <1>12, <1>a, <2>1 DEF backendFlush, TypeOK
    <3>2. UNCHANGED <<inited, free_buffers, buff_num, buff>>
      BY <1>12 DEF backendFlush
    <3> QED
      BY <1>a, <1>b, <2>1, <3>1, <3>2 DEF BufferAccounting, BufferBound, Held
  <2>2. CASE ~(curr_lock = NoThread /\ curr_buffer # NoBuffer)
    BY <1>12, <1>b, <2>2 DEF backendFlush, BufferAccounting, BufferBound, Held
  <2> QED
    BY <2>1, <2>2
<1>13. CASE backendPop
  <2>1. buff = NoBuffer
    BY <1>13 DEF backendPop, Slots
  <2>2. CASE full_buffers # <<>>
    <3>1. Len(full_buffers') = Len(full_buffers) - 1 /\ buff' # NoBuffer
      BY <1>13, <1>a, <2>2, BoundAssumption DEF backendPop
    <3>2. UNCHANGED <<inited, free_buffers, buff_num, curr_buffer>>
      BY <1>13 DEF backendPop
    <3> QED
      BY <1>a, <1>b, <2>1, <3>1, <3>2, ConfigAssumption DEF BufferAccounting, BufferBound, Held
  <2>3. CASE full_buffers = <<>>
    BY <1>13, <1>b, <2>3 DEF backendPop, BufferAccounting, BufferBound, Held
  <2> QED
    BY <2>2, <2>3
<1>14. CASE backendDeliver
  <2>1. buff # NoBuffer /\ <<>> # NoBuffer
    BY <1>14, EmptyBuffer DEF backendDeliver, Slots
  <2>2. buff' = <<>> /\ UNCHANGED <<inited, free_buffers, buff_num, full_buffers, curr_buffer>>
    BY <1>14 DEF backendDeliver
  <2> QED
    BY <1>b, <2>1, <2>2 DEF BufferAccounting, BufferBound, Held
<1>15. CASE backendRecycle
  <2>1. buff # NoBuffer
    BY <1>15 DEF backendRecycle, Slots
  <2>2. UNCHANGED <<inited, free_buffers, full_buffers, curr_buffer>>
    BY <1>15 DEF backendRecycle
  <2>3. CASE buff_num > MinNum
    <3>1. buff_num' = buff_num - 1 /\ buff' = NoBuffer
      BY <1>15, <1>a, <2>3, ConfigAssumption DEF backendRecycle
    <3>2. BufferAccounting'
      BY <1>a, <1>b, <2>1, <2>2, <3>1 DEF BufferAccounting, Held
    <3>3. BufferBound'
      BY <1>a, <1>b, <2>2, <2>3, <3>1, ConfigAssumption DEF BufferBound
    <3> QED
      BY <3>2, <3>3
  <2>4. CASE ~(buff_num > MinNum)
    <3>1. UNCHANGED <<buff_num, buff>>
      BY <1>15, <2>4 DEF backendRecycle
    <3> QED
      BY <1>b, <2>2, <3>1 DEF BufferAccounting, BufferBound, Held
  <2> QED
    BY <2>3, <2>4
<1>16. CASE backendFree
  <2>1. buff # NoBuffer
    BY <1>16 DEF backendFree, Slots
  <2>2. /\ free_buffers' = free_buffers + 1 /\ buff' = NoBuffer
        /\ UNCHANGED <<inited, buff_num, full_buffers, curr_buffer>>
    BY <1>16 DEF backendFree
  <2> QED
    BY <1>a, <1>b, <2>1, <2>2 DEF BufferAccounting, BufferBound, Held
<1>17. CASE UNCHANGED vars
  BY <1>17, <1>b DEF vars, buffers, control, BufferAccounting, BufferBound, Held
<1> QED
  BY <1>1, <1>2, <1>3, <1>4, <1>5, <1>6, <1>7, <1>8, <1>9,
     <1>10, <1>11, <1>12, <1>13, <1>14, <1>15, <1>16, <1>17
     DEF Next, Owner, Writer, Backend

\* A step that touches no buffer and no byte keeps the order.
LEMMA OrderKept ==
  ASSUME InOrder, UNCHANGED <<buff, full_buffers, curr_buffer, appended, delivered>>
  PROVE  InOrder'
  BY DEF InOrder, Follows, Before, Size

\* The byte before a queue position is a byte number.
LEMMA BeforeType ==
  ASSUME TypeOK, InOrder
  PROVE  \A q \in 1..(Len(full_buffers) + 1) : Before(q) \in Nat
<1> SUFFICES ASSUME NEW q \in 1..(Len(full_buffers) + 1) PROVE Before(q) \in Nat
  OBVIOUS
<1>1. CASE q = 1
  BY <1>1 DEF TypeOK, Before, Size
<1>2. CASE q # 1
  <2>1. q - 1 \in 1..Len(full_buffers) /\ full_buffers \in Seq(Seq(Nat))
    BY <1>2 DEF TypeOK
  <2>2. full_buffers[q - 1] \in Seq(Nat) /\ full_buffers[q - 1] # <<>>
    BY <2>1 DEF InOrder
  <2> QED
    BY <1>2, <2>2 DEF Before
<1> QED
  BY <1>1, <1>2

\* Queueing a buffer that continues the queue keeps the order, whether the front end
\* hands over a full one or the backend flushes curr_buffer_.
LEMMA PushOrder ==
  ASSUME TypeOK, InOrder, NEW b \in Seq(Nat), b # <<>>,
         Follows(b, Before(Len(full_buffers) + 1)),
         full_buffers' = Append(full_buffers, b), curr_buffer' = NoBuffer,
         appended' = Before(Len(full_buffers) + 1) + Len(b),
         UNCHANGED <<buff, delivered>>
  PROVE  InOrder'
<1>n. PICK n : n = Len(full_buffers)
  OBVIOUS
<1>0. n = Len(full_buffers) /\ full_buffers \in Seq(Seq(Nat)) /\ n \in Nat /\ b # NoBuffer
  BY <1>n, BoundAssumption DEF TypeOK
<1>1. /\ Len(full_buffers') = n + 1 /\ full_buffers'[n + 1] = b
      /\ \A q \in 1..n : full_buffers'[q] = full_buffers[q]
  BY <1>0
<1>2. \A q \in 1..(n + 1) : Before(q)' = Before(q)
  BY <1>0, <1>1 DEF Before, Size
<1>3. Before(n + 1) \in Nat
  BY <1>0, BeforeType
<1>4. Before(n + 2)' = Before(n + 1) + Len(b)
  <2>1. b[Len(b)] = Before(n + 1) + Len(b)
    BY <1>0 DEF Follows
  <2>2. Before(n + 2)' = b[Len(b)]
    BY <1>0, <1>1 DEF Before
  <2> QED
    BY <2>1, <2>2
<1>5. Follows(buff, delivered)'
  BY DEF InOrder, Follows
<1>6. ASSUME NEW q \in 1..(n + 1)
      PROVE  full_buffers'[q] # <<>> /\ Follows(full_buffers'[q], Before(q)')
  <2>1. CASE q \in 1..n
    BY <1>1, <1>2, <2>1 DEF InOrder, Follows
  <2>2. CASE q = n + 1
    BY <1>1, <1>2, <2>2 DEF Follows
  <2> QED
    BY <1>0, <2>1, <2>2
<1>7. Follows(curr_buffer, Before(n + 2))' /\ appended' = Before(n + 2)' + Size(curr_buffer)'
  BY <1>0, <1>3, <1>4 DEF Follows, Size
<1>8. Len(full_buffers)' + 1 = n + 2
  BY <1>0, <1>1
<1> QED
  BY <1>1, <1>5, <1>6, <1>7, <1>8, SMTT(30) DEF InOrder, Follows, Before

\* Taking the oldest buffer off the queue keeps the order.
LEMMA PopOrder ==
  ASSUME TypeOK, InOrder, full_buffers # <<>>, buff = NoBuffer,
         buff' = full_buffers[1], full_buffers' = Tail(full_buffers), buff' # NoBuffer,
         UNCHANGED <<curr_buffer, appended, delivered>>
  PROVE  InOrder'
<1>n. PICK n : n = Len(full_buffers)
  OBVIOUS
<1>0. n = Len(full_buffers) /\ full_buffers \in Seq(Seq(Nat)) /\ n \in Nat \ {0} /\ delivered \in Nat
  BY <1>n DEF TypeOK
<1>1. /\ Len(full_buffers') = n - 1
      /\ \A q \in 1..(n - 1) : full_buffers'[q] = full_buffers[q + 1]
  BY <1>0
<1>2. /\ full_buffers[1] \in Seq(Nat) /\ full_buffers[1] # <<>>
      /\ \A i \in 1..Len(full_buffers[1]) : full_buffers[1][i] = delivered + i
  <2>1. Before(1) = delivered
    BY <1>0 DEF Before, Size
  <2>2. full_buffers[1] # <<>> /\ Follows(full_buffers[1], Before(1))
    BY <1>0 DEF InOrder
  <2>3. full_buffers[1] \in Seq(Nat) /\ full_buffers[1] # NoBuffer
    BY <1>0, BoundAssumption
  <2> QED
    BY <2>1, <2>2, <2>3 DEF Follows
<1>3. ASSUME NEW q \in 1..n PROVE Before(q)' = Before(q + 1)
  <2>1. CASE q = 1
    <3>1. Before(1)' = delivered + Len(full_buffers[1])
      BY DEF Before, Size
    <3>2. Before(2) = delivered + Len(full_buffers[1])
      <4>1. Len(full_buffers[1]) \in 1..Len(full_buffers[1])
        BY <1>2
      <4>2. Before(2) = full_buffers[1][Len(full_buffers[1])]
        BY DEF Before
      <4> QED
        BY <1>2, <4>1, <4>2
    <3> QED
      BY <2>1, <3>1, <3>2
  <2>2. CASE q # 1
    <3>1. q - 1 \in 1..(n - 1) /\ (q - 1) + 1 = q /\ q + 1 # 1 /\ (q + 1) - 1 = q
      BY <1>0, <2>2
    <3>2. full_buffers'[q - 1] = full_buffers[q]
      BY <1>1, <3>1
    <3> QED
      BY <2>2, <3>1, <3>2 DEF Before
  <2> QED
    BY <2>1, <2>2
<1>4. ASSUME NEW q \in 1..(n - 1)
      PROVE  full_buffers'[q] # <<>> /\ Follows(full_buffers'[q], Before(q)')
  <2>1. q + 1 \in 1..n /\ q \in 1..n
    BY <1>0
  <2>2. full_buffers[q + 1] # <<>> /\ Follows(full_buffers[q + 1], Before(q + 1))
    BY <1>0, <2>1 DEF InOrder
  <2> QED
    BY <1>1, <1>3, <2>1, <2>2
<1>5. Follows(buff, delivered)'
  BY <1>2 DEF Follows
<1>6. Len(full_buffers)' + 1 = n /\ n \in 1..n
  BY <1>0, <1>1
<1>7. /\ Follows(curr_buffer', Before(n)')
      /\ appended' = Before(n)' + Size(curr_buffer')
  BY <1>0, <1>3, <1>6 DEF InOrder, Size
<1> QED
  BY <1>1, <1>4, <1>5, <1>6, <1>7, SMTT(30) DEF InOrder, Follows, Before, Size

\* Letting go of a buffer that was handed to the callback keeps the order.
LEMMA GoneOrder ==
  ASSUME TypeOK, InOrder, buff = <<>>, buff' = NoBuffer,
         UNCHANGED <<full_buffers, curr_buffer, appended, delivered>>
  PROVE  InOrder'
<1>1. /\ full_buffers \in Seq(Seq(Nat)) /\ Len(full_buffers) \in Nat
      /\ delivered \in Nat /\ <<>> # NoBuffer /\ Len(<<>>) = 0
  BY EmptyBuffer DEF TypeOK
<1>2. Size(buff) = 0 /\ Size(buff)' = 0
  BY <1>1 DEF Size
<1>3. \A q \in 1..(Len(full_buffers) + 1) : Before(q)' = Before(q)
  BY <1>1, <1>2 DEF Before
<1>4. Len(full_buffers) + 1 \in 1..(Len(full_buffers) + 1)
  BY <1>1
<1>5. Follows(buff, delivered)'
  BY DEF Follows
<1>6. \A q \in 1..Len(full_buffers) :
        full_buffers'[q] # <<>> /\ Follows(full_buffers'[q], Before(q)')
  <2> SUFFICES ASSUME NEW q \in 1..Len(full_buffers)
               PROVE  full_buffers'[q] # <<>> /\ Follows(full_buffers'[q], Before(q)')
    OBVIOUS
  <2>1. full_buffers[q] # <<>> /\ Follows(full_buffers[q], Before(q))
    BY DEF InOrder
  <2>2. Before(q)' = Before(q)
    BY <1>1, <1>3
  <2> QED
    BY <2>1, <2>2
<1>7. /\ Follows(curr_buffer', Before(Len(full_buffers) + 1)')
      /\ appended' = Before(Len(full_buffers) + 1)' + Size(curr_buffer')
  BY <1>3, <1>4 DEF InOrder, Size
<1> QED
  BY <1>5, <1>6, <1>7 DEF InOrder, Follows, Before, Size

\* A longer current buffer that continues where the queue ends keeps the order.
LEMMA GrowOrder ==
  ASSUME TypeOK, InOrder, NEW b \in Seq(Nat), b # NoBuffer,
         Follows(b, Before(Len(full_buffers) + 1)),
         curr_buffer' = b, appended' = Before(Len(full_buffers) + 1) + Len(b),
         UNCHANGED <<buff, full_buffers, delivered>>
  PROVE  InOrder'
<1>1. \A q : Before(q)' = Before(q)
  BY DEF Before, Size
<1>2. Follows(buff', delivered')
  BY DEF InOrder
<1>3. \A q \in 1..Len(full_buffers) :
        full_buffers'[q] # <<>> /\ Follows(full_buffers'[q], Before(q)')
  BY <1>1 DEF InOrder
<1>4. /\ Follows(curr_buffer', Before(Len(full_buffers) + 1)')
      /\ appended' = Before(Len(full_buffers) + 1)' + Size(curr_buffer')
  BY <1>1 DEF Size
<1> QED
  BY <1>2, <1>3, <1>4, SMTT(30) DEF InOrder, Follows, Before, Size

\* No step loses, duplicates or reorders a byte.
LEMMA InOrderStep ==
  ASSUME TypeOK, Locking, Phases, Slots, InOrder, [Next]_vars
  PROVE  InOrder'
<1>a. /\ appended \in Nat /\ delivered \in Nat /\ full_buffers \in Seq(Seq(Nat))
      /\ buff \in Seq(Nat) \cup {NoBuffer} /\ curr_buffer \in Seq(Nat) \cup {NoBuffer}
  BY DEF TypeOK
<1>1. CASE initialize
  <2>1. UNCHANGED <<buff, full_buffers, curr_buffer, appended, delivered>>
    BY <1>1 DEF initialize, buffers
  <2> QED
    BY <2>1, OrderKept
<1>2. CASE cleanupStop
  <2>1. UNCHANGED <<buff, full_buffers, curr_buffer, appended, delivered>>
    BY <1>2 DEF cleanupStop, buffers
  <2> QED
    BY <2>1, OrderKept
<1>3. CASE cleanupJoin
  <2>1. UNCHANGED <<buff, full_buffers, curr_buffer, appended, delivered>>
    BY <1>3 DEF cleanupJoin, Slots
  <2> QED
    BY <2>1, OrderKept
<1>4. ASSUME NEW w \in Writers, appendLock(w) PROVE InOrder'
  <2>1. UNCHANGED <<buff, full_buffers, curr_buffer, appended, delivered>>
    BY <1>4 DEF appendLock, buffers
  <2> QED
    BY <2>1, OrderKept
<1>5. ASSUME NEW w \in Writers, allocBuffer(w) PROVE InOrder'
  <2>1. curr_buffer = NoBuffer /\ <<>> # NoBuffer /\ Len(<<>>) = 0
    BY <1>5, EmptyBuffer DEF allocBuffer, Slots
  <2>2. /\ curr_buffer' \in {<<>>, NoBuffer}
        /\ UNCHANGED <<buff, full_buffers, appended, delivered>>
    BY <1>5, <2>1 DEF allocBuffer
  <2> QED
    BY <1>a, <2>1, <2>2 DEF InOrder, Follows, Before, Size
<1>6. ASSUME NEW w \in Writers, wakeFree(w) PROVE InOrder'
  <2>1. curr_buffer = NoBuffer /\ <<>> # NoBuffer /\ Len(<<>>) = 0
    BY <1>6, EmptyBuffer DEF wakeFree, Slots
  <2>2. /\ curr_buffer' \in {<<>>, NoBuffer}
        /\ UNCHANGED <<buff, full_buffers, appended, delivered>>
    BY <1>6, <2>1 DEF wakeFree
  <2> QED
    BY <1>a, <2>1, <2>2 DEF InOrder, Follows, Before, Size
<1>7. ASSUME NEW w \in Writers, writeBuffer(w) PROVE InOrder'
  <2>1. PICK bytes : Written(w, bytes)
    BY <1>7, WriteEffect
  <2>2. UNCHANGED <<free_buffers, buff_num, buff, inited, stop_signal, curr_lock, bpc,
                    for_quit, opc, inits, delivered>>
    BY <1>7 DEF writeBuffer
  <2>3. /\ curr_buffer \in Seq(Nat) /\ curr_buffer # NoBuffer
        /\ bytes \in Seq(Nat) /\ bytes # <<>> /\ bytes # NoBuffer
    BY <1>7, <2>1, BoundAssumption DEF writeBuffer, Slots, TypeOK, Written
  <2> DEFINE k == Before(Len(full_buffers) + 1)
  <2>4. /\ appended = k + Len(curr_buffer)
        /\ \A i \in 1..Len(curr_buffer) : curr_buffer[i] = k + i
    BY <2>3 DEF InOrder, Follows, Size
  <2>5. k \in Nat
    BY <1>a, BeforeType
  <2> HIDE DEF k
  <2>55. appended' = k + Len(bytes) /\ \A i \in 1..Len(bytes) : bytes[i] = k + i
    <3>1. appended' = k + Len(bytes)
      BY <1>a, <2>1, <2>3, <2>4, <2>5 DEF Written
    <3>2. ASSUME NEW i \in 1..Len(bytes) PROVE bytes[i] = k + i
      <4>1. CASE i <= Len(curr_buffer)
        BY <2>1, <2>3, <2>4, <4>1 DEF Written
      <4>2. CASE i > Len(curr_buffer)
        <5>1. /\ i - Len(curr_buffer) \in 1..(Len(bytes) - Len(curr_buffer))
              /\ Len(curr_buffer) + (i - Len(curr_buffer)) = i
          BY <2>3, <4>2
        <5>2. bytes[i] = appended + (i - Len(curr_buffer))
          BY <2>1, <5>1 DEF Written
        <5> QED
          BY <2>3, <2>4, <2>5, <5>2
      <4> QED
        BY <2>3, <4>1, <4>2
    <3> QED
      BY <3>1, <3>2
  <2>6. CASE Len(bytes) = BuffSize
    <3>1. full_buffers' = Append(full_buffers, bytes) /\ curr_buffer' = NoBuffer
      BY <2>1, <2>6 DEF Written
    <3> QED
      BY <2>2, <2>3, <2>55, <3>1, PushOrder DEF Follows, k
  <2>7. CASE Len(bytes) < BuffSize
    <3>1. full_buffers' = full_buffers /\ curr_buffer' = bytes
      BY <2>1, <2>7 DEF Written
    <3> QED
      BY <2>2, <2>3, <2>55, <3>1, GrowOrder DEF Follows, k
  <2> QED
    BY <2>1, <2>6, <2>7, ConfigAssumption DEF Written
<1>8. ASSUME NEW w \in Writers, appendUnlock(w) PROVE InOrder'
  <2>1. UNCHANGED <<buff, full_buffers, curr_buffer, appended, delivered>>
    BY <1>8 DEF appendUnlock, buffers
  <2> QED
    BY <2>1, OrderKept
<1>9. ASSUME NEW w \in Writers, NEW n \in 1..MaxBytes, appendLockless(w, n)
      PROVE  InOrder'
  <2>1. UNCHANGED <<buff, full_buffers, curr_buffer, appended, delivered>>
    BY <1>9 DEF appendLockless, buffers
  <2> QED
    BY <2>1, OrderKept
<1>10. CASE backendCheck
  <2>1. UNCHANGED <<buff, full_buffers, curr_buffer, appended, delivered>>
    BY <1>10 DEF backendCheck, buffers
  <2> QED
    BY <2>1, OrderKept
<1>11. CASE backendWake
  <2>1. UNCHANGED <<buff, full_buffers, curr_buffer, appended, delivered>>
    BY <1>11 DEF backendWake, buffers
  <2> QED
    BY <2>1, OrderKept
<1>12. CASE backendFlush
  <2>1. CASE curr_lock = NoThread /\ curr_buffer # NoBuffer
    <3>1. /\ full_buffers' = Append(full_buffers, curr_buffer) /\ curr_buffer' = NoBuffer
          /\ UNCHANGED <<buff, appended, delivered>>
      BY <1>12, <2>1 DEF backendFlush
    <3>2. curr_buffer \in Seq(Nat) /\ curr_buffer # <<>>
      BY <2>1 DEF TypeOK, Slots
    <3> QED
      BY <2>1, <3>1, <3>2, PushOrder DEF InOrder, Size
  <2>2. CASE ~(curr_lock = NoThread /\ curr_buffer # NoBuffer)
    BY <1>12, <2>2, OrderKept DEF backendFlush
  <2> QED
    BY <2>1, <2>2
<1>13. CASE backendPop
  <2>1. CASE full_buffers # <<>>
    <3>1. /\ buff' = full_buffers[1] /\ full_buffers' = Tail(full_buffers)
          /\ UNCHANGED <<curr_buffer, appended, delivered>> /\ buff = NoBuffer
          /\ buff' # NoBuffer
      BY <1>13, <1>a, <2>1, BoundAssumption DEF backendPop, Slots
    <3> QED
      BY <2>1, <3>1, PopOrder
  <2>2. CASE full_buffers = <<>>
    BY <1>13, <2>2, OrderKept DEF backendPop
  <2> QED
    BY <2>1, <2>2
<1>14. CASE backendDeliver
  <2>1. /\ buff \in Seq(Nat) /\ buff # NoBuffer /\ buff' = <<>> /\ <<>> # NoBuffer
        /\ delivered' = delivered + Len(buff) /\ Len(<<>>) = 0
        /\ UNCHANGED <<full_buffers, curr_buffer, appended>>
    BY <1>14, EmptyBuffer DEF backendDeliver, Slots, TypeOK
  <2>2. \A q \in 1..(Len(full_buffers) + 1) : Before(q)' = Before(q)
    BY <1>a, <2>1 DEF Before, Size
  <2>3. Len(full_buffers) + 1 \in 1..(Len(full_buffers) + 1) /\ Len(full_buffers) \in Nat
    BY <1>a
  <2>4. Follows(buff, delivered)'
    BY <2>1 DEF Follows
  <2>5. \A q \in 1..Len(full_buffers) :
          full_buffers'[q] # <<>> /\ Follows(full_buffers'[q], Before(q)')
    BY <2>1, <2>2, <2>3 DEF InOrder
  <2>6. /\ Follows(curr_buffer', Before(Len(full_buffers) + 1)')
        /\ appended' = Before(Len(full_buffers) + 1)' + Size(curr_buffer')
    BY <2>1, <2>2, <2>3 DEF InOrder, Size
  <2> QED
    BY <2>1, <2>4, <2>5, <2>6 DEF InOrder, Follows, Before, Size
<1>15. CASE backendRecycle
  <2>1. /\ buff = <<>> /\ buff' \in {<<>>, NoBuffer} /\ <<>> # NoBuffer /\ Len(<<>>) = 0
        /\ UNCHANGED <<full_buffers, curr_buffer, appended, delivered>>
    BY <1>15, EmptyBuffer DEF backendRecycle, Slots
  <2>2. CASE buff' = buff
    BY <2>1, <2>2, OrderKept
  <2>3. CASE buff' = NoBuffer
    BY <2>1, <2>3, GoneOrder
  <2> QED
    BY <2>1, <2>2, <2>3
<1>16. CASE backendFree
  <2>1. /\ buff = <<>> /\ buff' = NoBuffer /\ <<>> # NoBuffer /\ Len(<<>>) = 0
        /\ UNCHANGED <<full_buffers, curr_buffer, appended, delivered>>
    BY <1>16, EmptyBuffer DEF backendFree, Slots
  <2> QED
    BY <2>1, GoneOrder
<1>17. CASE UNCHANGED vars
  BY <1>17, OrderKept DEF vars, buffers
<1> QED
  BY <1>1, <1>2, <1>3, <1>4, <1>5, <1>6, <1>7, <1>8, <1>9,
     <1>10, <1>11, <1>12, <1>13, <1>14, <1>15, <1>16, <1>17
     DEF Next, Owner, Writer, Backend

-----------------------------------------------------------------------------
IInv == /\ TypeOK /\ Locking /\ Phases /\ Slots
        /\ BufferAccounting /\ BufferBound /\ InOrder

\* The constructor establishes the invariant.
LEMMA InvInit == Init => IInv
<1> SUFFICES ASSUME Init PROVE IInv
  OBVIOUS
<1> USE EmptyBuffer, BoundAssumption DEF Init
<1>1. TypeOK
  <2>1. <<>> \in Seq(Seq(Nat))
    OBVIOUS
  <2>2. /\ wpc \in [Writers -> {"idle", "locked", "alloc", "waitfree", "write", "written"}]
        /\ remain \in [Writers -> Nat]
    OBVIOUS
  <2> QED
    BY <2>1, <2>2 DEF TypeOK
<1>2. Locking /\ Phases /\ Slots
  BY DEF Locking, Phases, Slots
<1>3. BufferAccounting /\ BufferBound
  BY DEF BufferAccounting, BufferBound
<1>4. InOrder
  BY DEF InOrder, Follows, Before, Size
<1> QED
  BY <1>1, <1>2, <1>3, <1>4 DEF IInv

\* Every step of every thread preserves it.
LEMMA InvStep == IInv /\ [Next]_vars => IInv'
  BY LockingStep, PhasesStep, TypeStep, SlotsStep, AccountingStep, InOrderStep DEF IInv

\* IInv is an invariant of the pipe.
THEOREM Invariance == Spec => []IInv
  BY InvInit, InvStep, PTL DEF Spec

\* Type correctness: in particular free_buffers_ is never popped when it is empty and
\* buff_num_, an unsigned number, never goes below zero.
THEOREM TypeCorrect == Spec => []TypeOK
<1>1. IInv => TypeOK
  BY DEF IInv
<1> QED
  BY <1>1, Invariance, PTL

\* buff_num_ counts the buffers and keeps between buff_min_num and buff_max_num.
THEOREM PoolAccounted == Spec => [](BufferAccounting /\ BufferBound)
<1>1. IInv => BufferAccounting /\ BufferBound
  BY DEF IInv
<1> QED
  BY <1>1, Invariance, PTL

\* Back pressure: append() waits on free_buffers_cv_ only while a buffer is on its way
\* to the backend, so buff_max_num never leaves a writer without a supplier.
THEOREM BackPressure == Spec => []WaiterHasSupplier
<1>1. IInv => WaiterHasSupplier
  <2> SUFFICES ASSUME IInv, NEW w \in Writers, wpc[w] = "waitfree", free_buffers = 0
               PROVE  full_buffers # <<>> \/ buff # NoBuffer
    BY DEF WaiterHasSupplier
  <2>1. curr_lock = w /\ inited /\ curr_buffer = NoBuffer
    BY BoundAssumption DEF IInv, Locking, Phases, Slots, TypeOK
  <2>2. buff_num >= 1 /\ buff_num = Len(full_buffers) + Held(buff)
    BY <2>1, ConfigAssumption
       DEF IInv, BufferAccounting, BufferBound, Held, TypeOK
  <2>3. full_buffers = <<>> => Len(full_buffers) = 0
    OBVIOUS
  <2> QED
    BY <2>2, <2>3 DEF Held
<1> QED
  BY <1>1, Invariance, PTL

\* The callback receives the appended bytes, all of them, once and in order.
THEOREM BytesInOrder == Spec => []InOrder
<1>1. IInv => InOrder
  BY DEF IInv
<1> QED
  BY <1>1, Invariance, PTL

\* cleanup() drops nothing: when the backend has ended every byte was delivered.
THEOREM CleanupComplete == Spec => []CleanupFlushed
<1>1. IInv => CleanupFlushed
  <2> SUFFICES ASSUME IInv, bpc = "off"
               PROVE  full_buffers = <<>> /\ delivered = appended
    BY DEF CleanupFlushed
  <2>1. full_buffers = <<>> /\ buff = NoBuffer /\ curr_buffer = NoBuffer
    BY DEF IInv, Slots
  <2>2. appended = Before(1) /\ Before(1) = delivered
    BY <2>1 DEF IInv, InOrder, Before, Size, TypeOK
  <2> QED
    BY <2>1, <2>2
<1> QED
  BY <1>1, Invariance, PTL
-----------------------------------------------------------------------------
(* AsyncPipe implements ByteChannel.                                       *)

\* The queue holds only bytes that were appended.  (That the last bytes of its buffers
\* increase would say the same, but only by induction over the queue.)
Issued ==
  \A q \in 1..Len(full_buffers) : full_buffers[q][Len(full_buffers[q])] <= appended

\* What the steps do to the queue: nothing, one buffer less, or the current one more.
QueueMoves ==
  \/ full_buffers' = full_buffers
  \/ full_buffers # <<>> /\ full_buffers' = Tail(full_buffers)
  \/ /\ curr_buffer' = NoBuffer
     /\ \E b \in Seq(Nat) : full_buffers' = Append(full_buffers, b)

\* Each step moves the queue in one of these ways, and no byte is taken back.
LEMMA QueueStep ==
  ASSUME TypeOK, Slots, [Next]_vars
  PROVE  QueueMoves /\ appended' >= appended
<1>a. appended \in Nat /\ appended >= appended
  BY DEF TypeOK
<1>1. ASSUME NEW w \in Writers, writeBuffer(w) PROVE QueueMoves /\ appended' >= appended
  <2>1. PICK bytes : Written(w, bytes)
    BY <1>1, WriteEffect
  <2>2. bytes \in Seq(Nat) /\ Len(bytes) <= BuffSize /\ Len(bytes) \in Nat
    BY <2>1 DEF Written
  <2>3. PICK size \in 1..remain[w] : appended' = appended + size
    BY <2>1 DEF Written
  <2>4. appended' >= appended
    BY <1>a, <2>3
  <2>5. \/ full_buffers' = full_buffers
        \/ full_buffers' = Append(full_buffers, bytes) /\ curr_buffer' = NoBuffer
    BY <2>1 DEF Written
  <2> QED
    BY <2>2, <2>4, <2>5 DEF QueueMoves
<1>2. CASE backendFlush
  <2>1. appended' = appended
    BY <1>2 DEF backendFlush
  <2>2. CASE curr_lock = NoThread /\ curr_buffer # NoBuffer
    <3>1. curr_buffer \in Seq(Nat)
      BY <2>2 DEF TypeOK
    <3>2. full_buffers' = Append(full_buffers, curr_buffer) /\ curr_buffer' = NoBuffer
      BY <1>2, <2>2 DEF backendFlush
    <3> QED
      BY <1>a, <2>1, <3>1, <3>2 DEF QueueMoves
  <2>3. CASE ~(curr_lock = NoThread /\ curr_buffer # NoBuffer)
    BY <1>2, <1>a, <2>1, <2>3 DEF backendFlush, QueueMoves
  <2> QED
    BY <2>2, <2>3
<1>3. CASE backendPop
  BY <1>3, <1>a DEF backendPop, QueueMoves
<1>4. CASE Owner
  BY <1>4, <1>a DEF Owner, initialize, cleanupStop, cleanupJoin, buffers, QueueMoves
<1>5. ASSUME NEW w \in Writers, Writer(w), ~writeBuffer(w)
      PROVE  QueueMoves /\ appended' >= appended
  BY <1>5, <1>a DEF Writer, appendLock, allocBuffer, wakeFree, appendUnlock, appendLockless,
                    buffers, QueueMoves
<1>6. CASE backendCheck \/ backendWake \/ backendDeliver \/ backendRecycle \/ backendFree
  BY <1>6, <1>a DEF backendCheck, backendWake, backendDeliver, backendRecycle, backendFree,
                    buffers, QueueMoves
<1>7. CASE UNCHANGED vars
  BY <1>7, <1>a DEF vars, buffers, QueueMoves
<1> QED
  BY <1>1, <1>2, <1>3, <1>4, <1>5, <1>6, <1>7 DEF Next, Backend

\* The order of the bytes bounds those of a buffer that is pushed.
LEMMA IssuedStep ==
  ASSUME IInv, InOrder', TypeOK', Issued, [Next]_vars
  PROVE  Issued'
<1>1. QueueMoves /\ appended' >= appended
  BY QueueStep DEF IInv
<1>2. /\ full_buffers \in Seq(Seq(Nat)) /\ full_buffers' \in Seq(Seq(Nat))
      /\ appended \in Nat /\ appended' \in Nat
  BY DEF IInv, TypeOK
<1>3. ASSUME NEW q \in 1..Len(full_buffers)
      PROVE  full_buffers[q][Len(full_buffers[q])] <= appended'
  <2>1. full_buffers[q] \in Seq(Nat) /\ full_buffers[q] # <<>>
    BY <1>2 DEF IInv, InOrder
  <2>2. full_buffers[q][Len(full_buffers[q])] \in Nat
    BY <2>1
  <2>3. full_buffers[q][Len(full_buffers[q])] <= appended
    BY DEF Issued
  <2> QED
    BY <1>1, <1>2, <2>2, <2>3
<1>4. CASE full_buffers' = full_buffers
  BY <1>3, <1>4 DEF Issued
<1>5. CASE full_buffers # <<>> /\ full_buffers' = Tail(full_buffers)
  <2>1. /\ Len(full_buffers') = Len(full_buffers) - 1
        /\ \A q \in 1..Len(full_buffers') :
             q + 1 \in 1..Len(full_buffers) /\ full_buffers'[q] = full_buffers[q + 1]
    BY <1>2, <1>5
  <2> QED
    BY <1>3, <2>1 DEF Issued
<1>6. ASSUME curr_buffer' = NoBuffer, NEW b \in Seq(Nat),
             full_buffers' = Append(full_buffers, b)
      PROVE  Issued'
  <2>1. /\ Len(full_buffers') = Len(full_buffers) + 1
        /\ full_buffers'[Len(full_buffers) + 1] = b
        /\ \A q \in 1..Len(full_buffers) : full_buffers'[q] = full_buffers[q]
    BY <1>2, <1>6
  <2>2. b # <<>> /\ Len(b) \in Nat \ {0} /\ b[Len(b)] \in Nat
    <3>1. b # <<>>
      BY <1>2, <2>1 DEF InOrder
    <3> QED
      BY <3>1
  <2>3. appended' = b[Len(b)]
    <3>1. appended' = Before(Len(full_buffers) + 1)' + Size(curr_buffer)'
      BY DEF InOrder
    <3>2. Size(curr_buffer)' = 0
      BY <1>6 DEF Size
    <3>3. Before(Len(full_buffers) + 1)' = b[Len(b)]
      BY <1>2, <2>1 DEF Before
    <3> QED
      BY <2>2, <3>1, <3>2, <3>3
  <2>4. ASSUME NEW q \in 1..Len(full_buffers')
        PROVE  full_buffers'[q][Len(full_buffers'[q])] <= appended'
    <3>1. CASE q \in 1..Len(full_buffers)
      BY <1>3, <2>1, <3>1
    <3>2. CASE q = Len(full_buffers) + 1
      BY <1>2, <2>1, <2>3, <3>2
    <3> QED
      BY <1>2, <2>1, <3>1, <3>2
  <2> QED
    BY <2>4 DEF Issued
<1> QED
  BY <1>1, <1>4, <1>5, <1>6 DEF QueueMoves

\* A buffer whose bytes follow the k-th is the chunk the channel hands over next.
LEMMA ChunkIs ==
  ASSUME NEW b \in Seq(Nat), b # NoBuffer, NEW k \in Nat, Follows(b, k)
  PROVE  b = [i \in 1..Len(b) |-> k + i]
<1>1. \A i \in 1..Len(b) : b[i] = k + i
  BY DEF Follows
<1>2. b = [i \in 1..Len(b) |-> b[i]]
  OBVIOUS
<1> QED
  BY <1>1, <1>2

\* What the oldest buffer of the queue holds was appended and not delivered.
LEMMA QueueWithin ==
  ASSUME IInv, Issued, buff = NoBuffer, full_buffers # <<>>
  PROVE  LET b == Head(full_buffers)
         IN b = [i \in 1..Len(b) |-> delivered + i] /\ Len(b) \in 1..(appended - delivered)
<1> DEFINE b == Head(full_buffers)
<1>1. /\ full_buffers \in Seq(Seq(Nat)) /\ 1 \in 1..Len(full_buffers) /\ b = full_buffers[1]
      /\ delivered \in Nat /\ appended \in Nat
  BY DEF IInv, TypeOK
<1>2. b \in Seq(Nat) /\ b # NoBuffer
  BY <1>1, BoundAssumption
<1>3. b # <<>> /\ Follows(b, Before(1))
  BY <1>1 DEF IInv, InOrder
<1>4. Before(1) = delivered
  BY <1>1 DEF Before, Size
<1>5. b[Len(b)] <= appended
  BY <1>1 DEF Issued
<1> HIDE DEF b
<1>6. Len(b) \in Nat \ {0}
  BY <1>2, <1>3
<1>7. b[Len(b)] = delivered + Len(b)
  BY <1>2, <1>3, <1>4, <1>6 DEF Follows
<1>8. Len(b) \in 1..(appended - delivered)
  BY <1>1, <1>5, <1>6, <1>7
<1>9. b = [i \in 1..Len(b) |-> delivered + i]
  BY <1>1, <1>2, <1>3, <1>4, ChunkIs
<1> QED
  BY <1>8, <1>9 DEF b

\* The constructor leaves the channel down.
LEMMA ChannelInit == Init => Channel!Init
  BY DEF Init, Channel!Init

\* A step of the pipe is a step of the channel, or none that it shows.
LEMMA ChannelStep ==
  ASSUME IInv, Issued, [Next]_vars
  PROVE  [Channel!Next]_(Channel!chanVars)
<1>a. /\ inited \in BOOLEAN /\ appended \in Nat /\ delivered \in Nat
      /\ opc \in {"idle", "join"}
  BY DEF IInv, TypeOK
<1> USE DEF Channel!Next, Channel!chanVars
<1>1. CASE initialize
  BY <1>1 DEF initialize, Channel!Open, IInv, Phases
<1>2. CASE cleanupStop
  BY <1>2 DEF cleanupStop, buffers, Channel!Close
<1>3. CASE cleanupJoin
  <2>1. inited /\ delivered = appended
    <3>1. full_buffers = <<>> /\ buff = NoBuffer /\ curr_buffer = NoBuffer
      BY <1>3 DEF cleanupJoin, IInv, Slots
    <3>2. appended = Before(1) /\ Before(1) = delivered
      BY <3>1 DEF IInv, InOrder, Before, Size, TypeOK
    <3> QED
      BY <1>3, <3>2 DEF cleanupJoin, IInv, Phases
  <2> QED
    BY <1>3, <2>1 DEF cleanupJoin, Channel!Down
<1>4. ASSUME NEW w \in Writers, writeBuffer(w) PROVE [Channel!Next]_(Channel!chanVars)
  <2>1. PICK bytes : Written(w, bytes)
    BY <1>4, WriteEffect DEF IInv
  <2>2. curr_buffer \in Seq(Nat)
    BY <1>4 DEF IInv, TypeOK, Slots, writeBuffer
  <2>3. \E n \in 1..BuffSize : appended' = appended + n
    <3>1. PICK size : /\ size = Len(bytes) - Len(curr_buffer) /\ size \in 1..remain[w]
                      /\ appended' = appended + size
                      /\ bytes \in Seq(Nat) /\ Len(bytes) <= BuffSize
      BY <2>1 DEF Written
    <3>2. size \in 1..BuffSize
      BY <2>2, <3>1, ConfigAssumption
    <3> QED
      BY <3>1, <3>2
  <2>4. inited /\ opc # "join"
    BY <1>4, BoundAssumption DEF writeBuffer, IInv, Locking, Phases
  <2>5. UNCHANGED <<inited, opc, bpc, buff, delivered>>
    BY <1>4 DEF writeBuffer
  <2> QED
    BY <2>3, <2>4, <2>5 DEF Channel!Accept
<1>5. ASSUME NEW w \in Writers, Writer(w), ~writeBuffer(w)
      PROVE  UNCHANGED Channel!chanVars
  BY <1>5 DEF Writer, appendLock, allocBuffer, wakeFree, appendUnlock, appendLockless, buffers
<1>6. CASE backendPop
  <2>1. UNCHANGED <<inited, opc, appended, delivered>> /\ bpc = "drain"
    BY <1>6 DEF backendPop
  <2>2. CASE full_buffers # <<>>
    <3>1. buff = NoBuffer /\ inited
      BY <2>1 DEF IInv, Slots, Phases
    <3>2. buff' = Head(full_buffers) /\ bpc' = "cb"
      BY <1>6, <2>2 DEF backendPop
    <3>3. \E n \in 1..(appended - delivered) : buff' = [i \in 1..n |-> delivered + i]
      BY <2>2, <3>1, <3>2, QueueWithin
    <3> QED
      BY <1>a, <2>1, <3>1, <3>2, <3>3 DEF Channel!Take
  <2>3. CASE full_buffers = <<>>
    BY <1>6, <2>1, <2>3 DEF backendPop
  <2> QED
    BY <2>2, <2>3
<1>7. CASE backendDeliver
  <2>1. buff # NoBuffer
    BY <1>7 DEF backendDeliver, IInv, Slots
  <2> QED
    BY <1>7, <2>1 DEF backendDeliver, Channel!Deliver
<1>8. CASE backendCheck \/ backendWake \/ backendFlush \/ backendRecycle \/ backendFree
  BY <1>8 DEF backendCheck, backendWake, backendFlush, backendRecycle, backendFree, buffers
<1>9. CASE UNCHANGED vars
  BY <1>9 DEF vars, buffers, control
<1> QED
  BY <1>1, <1>2, <1>3, <1>4, <1>5, <1>6, <1>7, <1>8, <1>9 DEF Next, Owner, Backend

\* The pipe implements the byte channel: what the callback is handed continues, byte for
\* byte, what it had; nothing is accepted after cleanup() has begun, nothing is left when
\* the pipe goes down.
THEOREM Refinement == Spec => ImplementsChannel
<1>1. Init => Issued
  BY DEF Init, Issued
<1>2. IInv /\ IInv' /\ Issued /\ [Next]_vars => Issued'
  BY IssuedStep DEF IInv
<1>3. IInv /\ Issued /\ [Next]_vars => [Channel!Next]_(Channel!chanVars)
  BY ChannelStep
<1> QED
  BY <1>1, <1>2, <1>3, ChannelInit, Invariance, PTL DEF Spec, ImplementsChannel, Channel!Spec
=============================================================================
