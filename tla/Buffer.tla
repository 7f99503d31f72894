------------------------------- MODULE Buffer -------------------------------
(***************************************************************************)
(* util::Buffer: a block of memory with a read and a write index.  Two     *)
(* buffers are used in any order, copied, moved and swapped.  Memory is a  *)
(* sequence of cells; what new[] returns holds Garbage.  Indexes count     *)
(* from 0, as in the code: the readable cells are r + 1 .. w.              *)
(***************************************************************************)
EXTENDS Integers, SequencesExt

CONSTANTS Bytes,        \* the values of a byte
          MaxBlock,     \* bound: bytes of one call
          MaxMemory     \* bound: size of the two blocks together

ASSUME BlockAssumption == MaxBlock \in Nat

VARIABLE bu

Garbage == "garbage"
Ends == {"left", "right"}
Other(e) == IF e = "left" THEN "right" ELSE "left"

Fresh(n) == [i \in 1 .. n |-> Garbage]
NewBuffer(n) == [mem |-> Fresh(n), r |-> 0, w |-> 0]

\* want: history, the bytes that were put in and not taken out
BufferInit ==
  \E n \in 0 .. 1 : bu = [buf |-> [e \in Ends |-> NewBuffer(n)], want |-> [e \in Ends |-> <<>>]]

writableSize(b) == Len(b.mem) - b.w
readableSize(b) == b.w - b.r
Readable(b) ==
  [i \in 1 .. readableSize(b) |-> IF b.r + i <= Len(b.mem) THEN b.mem[b.r + i] ELSE Garbage]

\* memcpy() or memmove() of the bytes s to offset at
Copied(mem, at, s) ==
  [i \in 1 .. Len(mem) |-> IF i \in at + 1 .. at + Len(s) THEN s[i - at] ELSE mem[i]]

\* mutant: the readable bytes are copied to the front of the new block, the indexes kept
ensureWritableSizeFront(b, n) ==
  CASE writableSize(b) >= n -> b
    [] writableSize(b) < n /\ writableSize(b) + b.r >= n ->
         [mem |-> Copied(b.mem, 0, Readable(b)), r |-> 0, w |-> b.w - b.r]
    [] OTHER -> [b EXCEPT !.mem = Copied(Fresh(2 * (b.w + n)), 0, Readable(b))]

\* enough room; enough when the readable bytes are moved to the front; a new block
ensureWritableSize(b, n) ==
  CASE n = 0 \/ writableSize(b) >= n -> b
    [] writableSize(b) < n /\ writableSize(b) + b.r >= n ->
         [mem |-> Copied(b.mem, 0, Readable(b)), r |-> 0, w |-> b.w - b.r]
    [] OTHER -> [b EXCEPT !.mem = Copied(Fresh(2 * (b.w + n)), b.r, Readable(b))]

\* the bytes s are put at writableBegin(), then hasWritten(n): no more than there is room for
hasWritten(b, s, n) ==
  [b EXCEPT !.mem = Copied(@, b.w, s),
            !.w = IF b.w + n > Len(b.mem) THEN Len(b.mem) ELSE b.w + n]

hasRead(b, n) ==
  IF b.r + n >= b.w THEN [b EXCEPT !.r = 0, !.w = 0] ELSE [b EXCEPT !.r = @ + n]

\* cloneFrom(): only the readable bytes
Clone(b) == [mem |-> Readable(b), r |-> 0, w |-> readableSize(b)]

-----------------------------------------------------------------------------
(* Calls of the user                                                       *)

\* the cells outside the readable part are forgotten
Tidy(b) == [b EXCEPT !.mem = [i \in DOMAIN @ |-> IF i \in b.r + 1 .. b.w THEN @[i] ELSE Garbage]]

Put(e, b, want) == bu' = [bu EXCEPT !.buf[e] = Tidy(b), !.want[e] = want]

Blocks == UNION {[1 .. n -> Bytes] : n \in 0 .. MaxBlock}

bufAppend(e, s) ==
  LET b == ensureWritableSize(bu.buf[e], Len(s))
  IN Put(e, hasWritten(b, s, Len(s)), bu.want[e] \o s)

bufEnsure(e, n) == Put(e, ensureWritableSize(bu.buf[e], n), bu.want[e])

\* the user fills what there is and reports more than that: the rest is cut off
bufWrite(e, v, n) ==
  LET b == bu.buf[e]
      room == writableSize(b)
      s == [i \in 1 .. (IF n < room THEN n ELSE room) |-> v]
  IN Put(e, hasWritten(b, s, n), bu.want[e] \o s)

\* fetch() of n bytes, or hasRead(n), with n more than there is too
bufFetch(e, n) ==
  LET b == bu.buf[e]
  IN Put(e, hasRead(b, n), SubSeq(bu.want[e], n + 1, Len(bu.want[e])))

bufReadAll(e) == Put(e, [bu.buf[e] EXCEPT !.r = 0, !.w = 0], <<>>)
bufReset(e)   == Put(e, NewBuffer(0), <<>>)
bufShrink(e)  == Put(e, Clone(bu.buf[e]), bu.want[e])
bufAssign(e)  == Put(e, Clone(bu.buf[Other(e)]), bu.want[Other(e)])

\* operator = (Buffer &&): the other one is left empty
bufMove(e) ==
  bu' = [buf |-> [f \in Ends |-> IF f = e THEN bu.buf[Other(e)] ELSE NewBuffer(0)],
         want |-> [f \in Ends |-> IF f = e THEN bu.want[Other(e)] ELSE <<>>]]

bufSwap ==
  bu' = [buf |-> [e \in Ends |-> bu.buf[Other(e)]], want |-> [e \in Ends |-> bu.want[Other(e)]]]

BufferNext ==
  /\ \/ bufSwap
     \/ \E e \in Ends :
          \/ bufReadAll(e) \/ bufReset(e) \/ bufShrink(e) \/ bufAssign(e) \/ bufMove(e)
          \/ \E s \in Blocks : bufAppend(e, s)
          \/ \E n \in 0 .. MaxBlock : bufEnsure(e, n) \/ bufFetch(e, n)
          \/ \E v \in Bytes, n \in 0 .. MaxBlock : bufWrite(e, v, n)
  /\ Len(bu'.buf["left"].mem) + Len(bu'.buf["right"].mem) <= MaxMemory

BufferSpec == BufferInit /\ [][BufferNext]_bu

-----------------------------------------------------------------------------
(* Properties                                                              *)

\* The readable bytes of a buffer are exactly those put in and not taken out, in order,
\* through every growth, move to the front, copy, shrink, move and swap; a byte that was
\* never written is never readable, and the indexes stay within the block.
BufferFaithful ==
  \A e \in Ends :
    LET b == bu.buf[e]
    IN /\ 0 <= b.r /\ b.r <= b.w /\ b.w <= Len(b.mem)
       /\ Readable(b) = bu.want[e]
=============================================================================
