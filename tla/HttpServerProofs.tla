-------------------------- MODULE HttpServerProofs --------------------------
(***************************************************************************)
(* Proofs about the HTTP server over the TCP server: the connections it    *)
(* knows, found by their tokens in a Cabinet, for any number of them, of   *)
(* requests and of starts.                                                 *)
(***************************************************************************)
EXTENDS HttpServer, FiniteSetTheorems, WellFoundedInduction, TLAPS

-----------------------------------------------------------------------------
(* Cabinet                                                                 *)

TokenType == [id : Nat, pos : Nat]
CellType  == [id : Nat, obj : Conns \cup {NoObj}, next_free : Nat]
CabType   == [last_id : Nat, cells : Seq(CellType), first_free : Nat]

\* The cells that are used, and those that are free.
Used(k)  == {p \in 1..Len(k.cells) : k.cells[p].id # 0}
Vacant(k) == {p \in 1..Len(k.cells) : k.cells[p].id = 0}

\* The free list runs through free cells only, and no cell is on it twice: no two links
\* lead to the same cell, and none to its head.  No cell has an id that is yet to be given.
CabOK(k) ==
  /\ k \in CabType
  /\ k.first_free # NoPos => k.first_free \in Vacant(k)
  /\ \A p \in Vacant(k) : k.cells[p].next_free # NoPos =>
       /\ k.cells[p].next_free \in Vacant(k) \ {k.first_free}
       /\ \A q \in Vacant(k) \ {p} : k.cells[q].next_free # k.cells[p].next_free
  /\ \A p \in Used(k) : k.cells[p].id <= k.last_id

-----------------------------------------------------------------------------
(* The invariant                                                           *)

CtxType == [alive : BOOLEAN, req : 0..MaxReqs, res : 0..MaxReqs, close : 0..MaxReqs,
            buff : SUBSET Messages]
RxType  == [c : Conns \cup {NoConn}, buf : Seq(Kinds), handling : BOOLEAN, late : BOOLEAN]

HttpType ==
  /\ server \in {"none", "inited", "running"}
  /\ accepted \in 0..MaxConns /\ token \in [Conns -> TokenType]
  /\ sock \in [Conns -> SockType(Messages)] /\ ctx \in [Conns -> CtxType]
  /\ held \in SUBSET Contexts /\ rx \in RxType /\ starts \in 0..MaxStarts

\* The open connections are those in the cabinet, each under its token, with their contexts.
Linked ==
  /\ \A c \in Conns : Open(c) =>
       /\ ctx[c].alive /\ c <= accepted
       /\ token[c].pos \in Used(cab) /\ cab.cells[token[c].pos].obj = c
  /\ \A p \in Used(cab) : \E c \in Conns :
       /\ c = cab.cells[p].obj /\ Open(c)
       /\ token[c] = [id |-> cab.cells[p].id, pos |-> p]

\* The receive loop: what it still has to parse is of a live context and within the quota,
\* and its connection, once given up, is not found any more.
RxOK ==
  /\ rx.c = NoConn => rx = Idle
  /\ rx.c # NoConn => Open(rx.c) \/ ~Holds(cab, token[rx.c])
  /\ rx.c # NoConn => ctx[rx.c].req + Len(rx.buf) <= MaxReqs
  /\ rx.handling => rx.c # NoConn /\ ctx[rx.c].req >= 1
  /\ rx.c # NoConn /\ rx.buf # <<>> => ctx[rx.c].alive

\* A server that is not running has no connection.
Halted == server # "running" => \A c \in Conns : ~Open(c)

HttpInv == HttpType /\ CabOK(cab) /\ Linked /\ RxOK /\ Halted
-----------------------------------------------------------------------------
(* What the operations of a cabinet do                                     *)

\* An empty cabinet.
LEMMA CabEmpty == CabOK(Empty) /\ Used(Empty) = {}
<1>1. Empty \in CabType
  BY DEF Empty, CabType, NoPos
<1>2. Empty.cells = <<>> /\ Empty.first_free = NoPos
  BY DEF Empty
<1>3. Vacant(Empty) = {} /\ Used(Empty) = {}
  BY <1>2 DEF Vacant, Used
<1> QED
  BY <1>1, <1>2, <1>3 DEF CabOK

\* The fields of a cabinet, and of its cells.
LEMMA CabFields ==
  ASSUME NEW k \in CabType
  PROVE  /\ k.last_id \in Nat /\ k.cells \in Seq(CellType) /\ k.first_free \in Nat
         /\ Len(k.cells) \in Nat
         /\ \A p \in 1..Len(k.cells) : /\ k.cells[p] \in CellType
                                       /\ k.cells[p].id \in Nat
                                       /\ k.cells[p].obj \in Conns \cup {NoObj}
                                       /\ k.cells[p].next_free \in Nat
<1>1. k.last_id \in Nat /\ k.cells \in Seq(CellType) /\ k.first_free \in Nat
  BY DEF CabType
<1>2. Len(k.cells) \in Nat /\ \A p \in 1..Len(k.cells) : k.cells[p] \in CellType
  BY <1>1
<1> QED
  BY <1>1, <1>2 DEF CellType

\* alloc() uses a free cell or a new one, under an id never given before.
LEMMA CabAlloc ==
  ASSUME NEW k, CabOK(k), NEW o \in Conns, NEW t, t = NewToken(k), NEW z, z = Alloc(k, o)
  PROVE  /\ CabOK(z) /\ t \in TokenType /\ t.id # 0 /\ t.pos \notin Used(k)
         /\ t.id = k.last_id + 1 /\ z.last_id = t.id
         /\ Used(z) = Used(k) \cup {t.pos}
         /\ z.cells[t.pos].id = t.id /\ z.cells[t.pos].obj = o
         /\ \A p \in Used(k) : z.cells[p] = k.cells[p]
<1>1. /\ k \in CabType /\ k.last_id \in Nat /\ k.first_free \in Nat /\ Len(k.cells) \in Nat
      /\ \A p \in 1..Len(k.cells) : k.cells[p] \in CellType /\ k.cells[p].next_free \in Nat
  BY CabFields DEF CabOK
<1>2. t.id = k.last_id + 1 /\ t.pos = AllocPos(k) /\ t = [id |-> t.id, pos |-> t.pos]
  BY DEF NewToken, AllocId
<1>3. \/ k.first_free # NoPos /\ t.pos = k.first_free /\ t.pos \in Vacant(k)
      \/ k.first_free = NoPos /\ t.pos = Len(k.cells) + 1
  BY <1>1, <1>2 DEF AllocPos, CabOK
<1>4. t.pos \in Nat /\ t.pos # NoPos /\ t.pos \notin Used(k)
  BY <1>1, <1>3 DEF Used, Vacant, NoPos
<1>5. t \in TokenType
  BY <1>1, <1>2, <1>4 DEF TokenType
<1> DEFINE cell == [id |-> AllocId(k), obj |-> o, next_free |-> NoPos]
           n    == IF t.pos > Len(k.cells) THEN t.pos ELSE Len(k.cells)
           f    == IF k.first_free # NoPos THEN k.cells[t.pos].next_free ELSE NoPos
<1>6. z = [last_id |-> t.id, cells |-> [p \in 1..n |-> IF p = t.pos THEN cell ELSE k.cells[p]],
           first_free |-> f]
  BY <1>2 DEF Alloc, AllocId
<1>7. cell \in CellType /\ cell.id = t.id /\ cell.obj = o
  BY <1>1, <1>2 DEF CellType, AllocId, NoPos
<1>8. n \in Nat /\ t.pos \in 1..n /\ \A p \in 1..n : p # t.pos => p \in 1..Len(k.cells)
  BY <1>1, <1>3, <1>4 DEF Vacant
<1>9. \A p \in 1..Len(k.cells) : p \in 1..n
  BY <1>1, <1>3, <1>4
<1>10. f \in Nat
  BY <1>1, <1>3 DEF NoPos, Vacant
<1> HIDE DEF cell, n, f
<1>11. PICK cs \in Seq(CellType) : /\ cs = [p \in 1..n |-> IF p = t.pos THEN cell ELSE k.cells[p]]
                                   /\ Len(cs) = n
  <2>1. [p \in 1..n |-> IF p = t.pos THEN cell ELSE k.cells[p]] \in [1..n -> CellType]
    BY <1>1, <1>7, <1>8
  <2>2. ASSUME NEW g \in [1..n -> CellType] PROVE g \in Seq(CellType) /\ Len(g) = n
    BY <1>8
  <2> QED
    BY <2>1, <2>2
<1>12. z.last_id = t.id /\ z.cells = cs /\ z.first_free = f /\ z \in CabType
  BY <1>2, <1>5, <1>6, <1>10, <1>11 DEF CabType, TokenType
<1>13. cs[t.pos] = cell /\ \A p \in 1..Len(k.cells) : p # t.pos => cs[p] = k.cells[p]
  BY <1>8, <1>9, <1>11
<1>14. t.id # 0
  BY <1>1, <1>2
<1>15. Used(z) = Used(k) \cup {t.pos}
  BY <1>4, <1>7, <1>8, <1>9, <1>11, <1>12, <1>13, <1>14 DEF Used
<1>16. Vacant(z) = Vacant(k) \ {t.pos}
  BY <1>4, <1>7, <1>8, <1>9, <1>11, <1>12, <1>13, <1>14 DEF Vacant
<1>17. \A p \in Used(k) : cs[p] = k.cells[p]
  BY <1>4, <1>13 DEF Used
<1>18. \A p \in Vacant(z) : p \in Vacant(k) /\ p # t.pos /\ cs[p] = k.cells[p]
  BY <1>13, <1>16 DEF Vacant
<1>19. f # NoPos => /\ f \in Vacant(z)
                    /\ \A p \in Vacant(z) : k.cells[p].next_free # f
  BY <1>3, <1>16 DEF f, CabOK
<1>20. ASSUME NEW p \in Vacant(z), cs[p].next_free # NoPos
       PROVE  /\ cs[p].next_free \in Vacant(z) \ {f}
              /\ \A q \in Vacant(z) \ {p} : cs[q].next_free # cs[p].next_free
  <2>1. p \in Vacant(k) /\ k.cells[p].next_free # NoPos /\ cs[p].next_free = k.cells[p].next_free
    BY <1>18, <1>20
  <2>2. /\ k.cells[p].next_free \in Vacant(k) \ {k.first_free}
        /\ \A q \in Vacant(k) \ {p} : k.cells[q].next_free # k.cells[p].next_free
    BY <2>1 DEF CabOK
  <2>3. k.cells[p].next_free # t.pos
    BY <2>2, <1>1, <1>3 DEF Vacant
  <2>4. k.cells[p].next_free # f
    BY <1>19, <2>1
  <2> QED
    BY <2>1, <2>2, <2>3, <2>4, <1>16, <1>18
<1>21. \A p \in Used(z) : cs[p].id <= t.id
  <2>1. \A p \in Used(k) : k.cells[p].id <= k.last_id /\ k.cells[p].id \in Nat
    BY <1>1, CabFields DEF CabOK, Used
  <2> QED
    BY <2>1, <1>1, <1>2, <1>7, <1>13, <1>15, <1>17
<1>22. CabOK(z)
  BY <1>12, <1>19, <1>20, <1>21 DEF CabOK
<1> QED
  BY <1>2, <1>4, <1>5, <1>7, <1>12, <1>13, <1>14, <1>15, <1>17, <1>22

\* free() empties the cell a token names, and puts it at the head of the free list.
LEMMA CabFree ==
  ASSUME NEW k, CabOK(k), NEW t \in TokenType, Holds(k, t), NEW z, z = Free(k, t)
  PROVE  /\ CabOK(z) /\ t.pos \in Used(k) /\ Used(z) = Used(k) \ {t.pos}
         /\ z.last_id = k.last_id
         /\ \A p \in Used(z) : z.cells[p] = k.cells[p]
<1>1. /\ k \in CabType /\ k.last_id \in Nat /\ k.first_free \in Nat /\ Len(k.cells) \in Nat
      /\ k.cells \in Seq(CellType)
      /\ \A p \in 1..Len(k.cells) : k.cells[p] \in CellType /\ k.cells[p].next_free \in Nat
  BY CabFields DEF CabOK
<1>2. t.pos \in Used(k) /\ t.pos \in 1..Len(k.cells) /\ t.pos \in Nat /\ t.pos # NoPos
  BY <1>1 DEF Holds, Used, NoPos
<1> DEFINE cell == [id |-> 0, obj |-> NoObj, next_free |-> k.first_free]
<1>3. cell \in CellType /\ cell.id = 0 /\ cell.next_free = k.first_free
  BY <1>1 DEF CellType
<1>4. z = [k EXCEPT !.cells = [k.cells EXCEPT ![t.pos] = cell], !.first_free = t.pos]
  BY DEF Free
<1> HIDE DEF cell
<1>5. PICK cs \in Seq(CellType) : /\ cs = [k.cells EXCEPT ![t.pos] = cell]
                                  /\ Len(cs) = Len(k.cells)
  <2>1. ASSUME NEW s \in Seq(CellType), NEW i \in 1..Len(s), NEW x \in CellType
        PROVE  [s EXCEPT ![i] = x] \in Seq(CellType) /\ Len([s EXCEPT ![i] = x]) = Len(s)
    OBVIOUS
  <2>2. PICK s \in Seq(CellType) : s = k.cells
    BY <1>1
  <2>3. t.pos \in 1..Len(s)
    BY <2>2, <1>2
  <2>4. [s EXCEPT ![t.pos] = cell] \in Seq(CellType) /\ Len([s EXCEPT ![t.pos] = cell]) = Len(s)
    BY <2>1, <2>3, <1>3
  <2> QED
    BY <2>2, <2>4
<1>6. cs[t.pos] = cell /\ \A p \in 1..Len(k.cells) : p # t.pos => cs[p] = k.cells[p]
  BY <1>1, <1>2, <1>5
<1>7. z.last_id = k.last_id /\ z.cells = cs /\ z.first_free = t.pos /\ z \in CabType
  BY <1>1, <1>2, <1>4, <1>5 DEF CabType
<1>8. Used(z) = Used(k) \ {t.pos} /\ Vacant(z) = Vacant(k) \cup {t.pos}
  BY <1>1, <1>2, <1>3, <1>5, <1>6, <1>7 DEF Used, Vacant
<1>9. \A p \in Used(z) : cs[p] = k.cells[p] /\ p \in Used(k)
  BY <1>6, <1>8 DEF Used
<1>10. t.pos \notin Vacant(k) /\ \A p \in Vacant(k) : cs[p] = k.cells[p]
  BY <1>2, <1>6 DEF Used, Vacant
<1>11. ASSUME NEW p \in Vacant(z), cs[p].next_free # NoPos
       PROVE  /\ cs[p].next_free \in Vacant(z) \ {t.pos}
              /\ \A q \in Vacant(z) \ {p} : cs[q].next_free # cs[p].next_free
  <2>1. CASE p = t.pos
    BY <2>1, <1>3, <1>6, <1>8, <1>10, <1>11 DEF CabOK
  <2>2. CASE p # t.pos
    <3>1. p \in Vacant(k) /\ cs[p].next_free = k.cells[p].next_free /\ k.cells[p].next_free # NoPos
      BY <2>2, <1>8, <1>10, <1>11
    <3>2. /\ k.cells[p].next_free \in Vacant(k) \ {k.first_free}
          /\ \A q \in Vacant(k) \ {p} : k.cells[q].next_free # k.cells[p].next_free
      BY <3>1 DEF CabOK
    <3> QED
      BY <3>1, <3>2, <1>3, <1>6, <1>8, <1>10
  <2> QED
    BY <2>1, <2>2
<1>12. CabOK(z)
  <2>1. z.first_free \in Vacant(z)
    BY <1>7, <1>8
  <2>2. \A p \in Used(z) : z.cells[p].id <= z.last_id
    BY <1>7, <1>9 DEF CabOK
  <2> QED
    BY <2>1, <2>2, <1>7, <1>11 DEF CabOK
<1> QED
  BY <1>2, <1>7, <1>8, <1>9, <1>12

-----------------------------------------------------------------------------
(* Sockets and responses                                                   *)

\* Every nonempty set of natural numbers has a least element.
LEMMA LeastOf ==
  ASSUME NEW S, S \subseteq Nat, S # {}
  PROVE  \E n \in S : \A m \in S : n <= m
<1> DEFINE R == OpToRel(<, Nat)
<1>1. PICK n \in S : \A m \in S : ~(<<m, n>> \in R)
  BY WFMin, NatLessThanWellFounded, Zenon
<1>2. \A m \in S : ~(m < n)
  BY <1>1 DEF OpToRel
<1> QED
  BY <1>2

\* Part of a sequence.
LEMMA PartOf ==
  ASSUME NEW s \in Seq(Messages), NEW a \in 1..(Len(s) + 1), NEW b \in 0..Len(s)
  PROVE  /\ SubSeq(s, a, b) \in Seq(Messages)
         /\ Len(SubSeq(s, a, b)) = IF a <= b THEN b - a + 1 ELSE 0
         /\ \A i \in 1..Len(SubSeq(s, a, b)) : SubSeq(s, a, b)[i] = s[a + i - 1]
  OBVIOUS

\* What send() does to a socket.
SentFrom(s, ms, n, dropped, z) ==
  /\ z \in SockType(Messages) /\ z.bfd = s.bfd /\ z.peer = s.peer
  /\ s.out # <<>> => z.wire = s.wire /\ z.out = s.out \o ms /\ z.wev = s.wev
  /\ s.out = <<>> => /\ z.wire = s.wire \o SubSeq(ms, 1, n)
                     /\ z.out = IF dropped THEN <<>> ELSE SubSeq(ms, n + 1, Len(ms))
  /\ s.out = <<>> => z.wev = (s.wev \/ n > 0 \/ (~dropped /\ ms # <<>>))

\* send() does that.
LEMMA SentIs ==
  ASSUME NEW s \in SockType(Messages), NEW ms \in Seq(Messages), NEW n \in 0..Len(ms),
         NEW dropped \in BOOLEAN, NEW z, z = Sent(s, ms, n, dropped)
  PROVE  SentFrom(s, ms, n, dropped, z)
<1>1. s.out \in Seq(Messages) /\ s.wire \in Seq(Messages) /\ s.wev \in BOOLEAN
  BY DEF SockType
<1>2. s.out \o ms \in Seq(Messages)
  BY <1>1
<1>3. SubSeq(ms, 1, n) \in Seq(Messages) /\ SubSeq(ms, n + 1, Len(ms)) \in Seq(Messages)
  OBVIOUS
<1>4. s.wire \o SubSeq(ms, 1, n) \in Seq(Messages)
  BY <1>1, <1>3
<1>5. CASE s.out # <<>>
  <2>1. z = [s EXCEPT !.out = s.out \o ms]
    BY <1>5 DEF Sent
  <2>2. z \in SockType(Messages)
    BY <2>1, <1>2 DEF SockType
  <2>3. z.bfd = s.bfd /\ z.peer = s.peer /\ z.wire = s.wire /\ z.out = s.out \o ms
    BY <2>1 DEF SockType
  <2>4. z.wev = s.wev
    BY <2>1 DEF SockType
  <2> QED
    BY <2>2, <2>3, <2>4, <1>5 DEF SentFrom
<1>6. CASE s.out = <<>>
  <2> DEFINE w == s.wire \o SubSeq(ms, 1, n)
             o == IF dropped THEN <<>> ELSE SubSeq(ms, n + 1, Len(ms))
  <2>1. PICK e \in BOOLEAN : e = (s.wev \/ n > 0 \/ (~dropped /\ ms # <<>>))
    OBVIOUS
  <2>2. z = [s EXCEPT !.wire = w, !.out = o, !.wev = e]
    BY <2>1, <1>6 DEF Sent
  <2>3. w \in Seq(Messages) /\ o \in Seq(Messages)
    BY <1>3, <1>4
  <2> HIDE DEF w, o
  <2>4. z \in SockType(Messages)
    BY <2>2, <2>3 DEF SockType
  <2>5. z.bfd = s.bfd /\ z.peer = s.peer /\ z.wire = w /\ z.out = o
    BY <2>2 DEF SockType
  <2>6. z.wev = e
    BY <2>2 DEF SockType
  <2> QED
    BY <2>1, <2>4, <2>5, <2>6, <1>6 DEF w, o, SentFrom
<1> QED
  BY <1>5, <1>6

\* After() finds the first response that does not follow.
LEMMA AfterIs ==
  ASSUME NEW x \in CtxType, NEW idx \in Indexes
  PROVE  LET end == After(x, idx)
         IN /\ end \in (idx + 1)..MaxReqs
            /\ end > x.close \/ \A m \in x.buff : m[2] # end
            /\ \A j \in (idx + 1)..(end - 1) : j <= x.close /\ \E m \in x.buff : m[2] = j
<1> DEFINE S == {k \in Nat : k > idx /\ (k > x.close \/ \A m \in x.buff : m[2] # k)}
           P(k) == /\ k > x.close \/ \A m \in x.buff : m[2] # k
                   /\ \A j \in (idx + 1)..(k - 1) : j <= x.close /\ \E m \in x.buff : m[2] = j
<1>1. /\ MaxReqs \in Nat /\ idx \in Nat /\ idx < MaxReqs /\ x.close \in 0..MaxReqs
      /\ x.buff \in SUBSET Messages
  BY ReqsAssumption DEF Indexes, CtxType
<1>2. \A m \in x.buff : m[2] \in Nat /\ m[2] < MaxReqs
  BY <1>1 DEF Messages, Indexes
<1>3. MaxReqs \in S
  BY <1>1, <1>2
<1>4. PICK k \in S : \A j \in S : k <= j
  BY <1>3, LeastOf
<1>5. k \in (idx + 1)..(MaxReqs + 1) /\ k <= MaxReqs
  BY <1>1, <1>3, <1>4
<1>6. P(k)
  <2>1. ASSUME NEW j \in (idx + 1)..(k - 1) PROVE j <= x.close /\ \E m \in x.buff : m[2] = j
    <3>1. j \in Nat /\ j > idx /\ ~(k <= j)
      BY <1>1, <1>4
    <3>2. j \notin S
      BY <3>1, <1>4
    <3> QED
      BY <3>1, <3>2, <1>1
  <2> QED
    BY <2>1, <1>4
<1>7. ASSUME NEW l \in (idx + 1)..(MaxReqs + 1), P(l) PROVE l = k
  <2>1. l \in S
    BY <1>1, <1>7
  <2>2. k <= l
    BY <2>1, <1>4
  <2>3. ~(k < l)
    BY <1>1, <1>4, <1>5, <1>7
  <2> QED
    BY <2>2, <2>3, <1>1, <1>5
<1>8. After(x, idx) = k
  <2>1. After(x, idx) = CHOOSE l \in (idx + 1)..(MaxReqs + 1) : P(l)
    BY DEF After
  <2> HIDE DEF P
  <2> QED
    BY <2>1, <1>5, <1>6, <1>7
<1> QED
  BY <1>1, <1>5, <1>6, <1>8

\* What leaves when response idx is committed in its turn.
Batch(x, own, idx) ==
  [k \in 1..(After(x, idx) - idx) |-> IF k = 1 THEN <<own, idx>> ELSE Buffered(x, idx + k - 1)]

\* It is that response, followed by the buffered ones, with consecutive indexes.
LEMMA BatchIs ==
  ASSUME NEW x \in CtxType, NEW idx \in Indexes, NEW own \in Conns, NEW b, b = Batch(x, own, idx)
  PROVE  /\ b \in Seq(Messages) /\ Len(b) = After(x, idx) - idx /\ Len(b) >= 1
         /\ b[1] = <<own, idx>>
         /\ \A k \in 1..Len(b) : b[k][2] = idx + k - 1 /\ (b[k] \in x.buff \/ b[k] = <<own, idx>>)
<1> DEFINE end == After(x, idx)
<1>1. /\ end \in (idx + 1)..MaxReqs /\ MaxReqs \in Nat /\ idx \in Nat /\ x.buff \in SUBSET Messages
      /\ \A j \in (idx + 1)..(end - 1) : \E m \in x.buff : m[2] = j
  BY AfterIs, ReqsAssumption DEF CtxType, Indexes
<1> HIDE DEF end
<1>2. b = [k \in 1..(end - idx) |-> IF k = 1 THEN <<own, idx>> ELSE Buffered(x, idx + k - 1)]
  BY DEF Batch, end
<1>3. end - idx \in Nat /\ end - idx >= 1
  BY <1>1
<1>4. ASSUME NEW k \in 1..(end - idx), k # 1
      PROVE  Buffered(x, idx + k - 1) \in x.buff /\ Buffered(x, idx + k - 1)[2] = idx + k - 1
  <2>1. idx + k - 1 \in (idx + 1)..(end - 1)
    BY <1>1, <1>4
  <2>2. \E m \in x.buff : m[2] = idx + k - 1
    BY <2>1, <1>1
  <2> QED
    BY <2>2 DEF Buffered
<1>5. <<own, idx>> \in Messages /\ <<own, idx>>[2] = idx
  BY DEF Messages
<1>6. \A k \in 1..(end - idx) : (IF k = 1 THEN <<own, idx>> ELSE Buffered(x, idx + k - 1)) \in Messages
  BY <1>1, <1>4, <1>5
<1>7. b \in [1..(end - idx) -> Messages]
  BY <1>2, <1>6
<1>8. b \in Seq(Messages) /\ Len(b) = end - idx
  <2>1. ASSUME NEW n \in Nat, NEW g \in [1..n -> Messages] PROVE g \in Seq(Messages) /\ Len(g) = n
    OBVIOUS
  <2> QED
    BY <2>1, <1>3, <1>7
<1>9. b[1] = <<own, idx>>
  BY <1>2, <1>3
<1>10. ASSUME NEW k \in 1..Len(b)
       PROVE  b[k][2] = idx + k - 1 /\ (b[k] \in x.buff \/ b[k] = <<own, idx>>)
  <2>1. CASE k = 1
    BY <2>1, <1>1, <1>5, <1>9
  <2>2. CASE k # 1
    BY <2>2, <1>2, <1>4, <1>8, ZenonT(30)
  <2> QED
    BY <2>1, <2>2
<1> QED
  BY <1>3, <1>8, <1>9, <1>10 DEF end

\* Deleting a context changes nothing else of it.
LEMMA CtxDead ==
  ASSUME NEW x \in CtxType
  PROVE  \E z \in CtxType : /\ z = [x EXCEPT !.alive = FALSE] /\ z.alive = FALSE
                            /\ z.req = x.req /\ z.close = x.close /\ z.res = x.res /\ z.buff = x.buff
<1>1. [x EXCEPT !.alive = FALSE] \in CtxType
  BY DEF CtxType
<1>2. [x EXCEPT !.alive = FALSE].req = x.req /\ [x EXCEPT !.alive = FALSE].close = x.close /\ [x EXCEPT !.alive = FALSE].res = x.res /\ [x EXCEPT !.alive = FALSE].buff = x.buff
  BY DEF CtxType
<1>3. [x EXCEPT !.alive = FALSE].alive = FALSE
  BY DEF CtxType
<1> QED
  BY <1>1, <1>2, <1>3

\* The connection a token finds is open, and the token is its own.
LEMMA Found ==
  ASSUME HttpInv, NEW tok \in TokenType, At(cab, tok) # NoObj
  PROVE  /\ Holds(cab, tok) /\ At(cab, tok) \in Conns
         /\ Open(At(cab, tok)) /\ token[At(cab, tok)] = tok
<1>1. Holds(cab, tok) /\ At(cab, tok) = cab.cells[tok.pos].obj
  BY DEF At
<1>2. tok.pos \in Used(cab) /\ cab.cells[tok.pos].id = tok.id
  BY <1>1 DEF Holds, Used
<1>3. tok = [id |-> tok.id, pos |-> tok.pos]
  BY DEF TokenType
<1> QED
  BY <1>1, <1>2, <1>3 DEF HttpInv, Linked

\* An open connection is found by its token.
LEMMA OpenHeld ==
  ASSUME HttpInv, NEW c \in Conns, Open(c)
  PROVE  Holds(cab, token[c]) /\ At(cab, token[c]) = c /\ token[c] \in TokenType
<1>1. /\ token[c].pos \in Used(cab) /\ cab.cells[token[c].pos].obj = c
      /\ token[c] = [id |-> cab.cells[token[c].pos].id, pos |-> token[c].pos]
      /\ token[c] \in TokenType
  <2>1. token[c].pos \in Used(cab) /\ cab.cells[token[c].pos].obj = c /\ token[c] \in TokenType
    BY DEF HttpInv, Linked, HttpType
  <2>2. PICK p \in Used(cab) : p = token[c].pos
    BY <2>1
  <2>3. PICK d \in Conns : d = cab.cells[p].obj /\ token[d] = [id |-> cab.cells[p].id, pos |-> p]
    BY DEF HttpInv, Linked
  <2> QED
    BY <2>1, <2>2, <2>3
<1>2. cab.cells[token[c].pos].id # 0 /\ token[c].pos \in 1..Len(cab.cells)
  BY <1>1 DEF Used
<1>3. token[c].id = cab.cells[token[c].pos].id
  BY <1>1
<1> QED
  BY <1>1, <1>2, <1>3 DEF Holds, At

\* commitRespond() finds no connection; or an open one whose turn it is, and sends; or an
\* open one, and lets the response wait.
CommitOutcome(tok, idx, own) ==
  \/ At(cab, tok) = NoObj /\ UNCHANGED <<sock, ctx>>
  \/ \E c \in Conns :
       /\ c = At(cab, tok) /\ Open(c) /\ token[c] = tok /\ idx = ctx[c].res
       /\ Send(c, Batch(ctx[c], own, idx))
       /\ ctx' = [ctx EXCEPT ![c] = [ctx[c] EXCEPT !.res = After(ctx[c], idx),
                    !.buff = {m \in ctx[c].buff : m[2] \notin (idx + 1)..(After(ctx[c], idx) - 1)}]]
  \/ \E c \in Conns :
       /\ c = At(cab, tok) /\ Open(c) /\ token[c] = tok /\ idx # ctx[c].res
       /\ sock' = sock
       /\ ctx' = [ctx EXCEPT ![c] = [ctx[c] EXCEPT
                    !.buff = {m \in ctx[c].buff : m[2] # idx} \cup {<<own, idx>>}]]

\* It has no other outcome.
LEMMA CommitCases ==
  ASSUME HttpInv, NEW tok \in TokenType, NEW idx \in Indexes, NEW own \in Conns,
         commitRespond(tok, idx, own)
  PROVE  CommitOutcome(tok, idx, own)
<1>1. CASE At(cab, tok) = NoObj
  BY <1>1 DEF commitRespond, CommitOutcome
<1>2. CASE At(cab, tok) # NoObj
  <2>1. PICK c \in Conns : c = At(cab, tok) /\ Open(c) /\ token[c] = tok
    BY <1>2, Found
  <2>2. c # NoObj /\ ctx \in [Conns -> CtxType]
    BY <1>2, <2>1 DEF HttpInv, HttpType
  <2>3. CASE idx = ctx[c].res
    <3>1. Send(c, Batch(ctx[c], own, idx))
      BY <2>1, <2>2, <2>3 DEF commitRespond, Batch
    <3> DEFINE end == After(ctx[c], idx)
    <3>2. ctx' = [ctx EXCEPT ![c].res = end,
                             ![c].buff = {m \in @ : m[2] \notin (idx + 1)..(end - 1)}]
      BY <2>1, <2>2, <2>3 DEF commitRespond
    <3> HIDE DEF end
    <3>3. ctx' = [ctx EXCEPT ![c] = [ctx[c] EXCEPT !.res = end,
                             !.buff = {m \in ctx[c].buff : m[2] \notin (idx + 1)..(end - 1)}]]
      BY <3>2, <2>2 DEF CtxType
    <3> QED
      BY <3>1, <3>3, <2>1, <2>3 DEF end, CommitOutcome
  <2>4. CASE idx # ctx[c].res
    BY <2>1, <2>2, <2>4 DEF commitRespond, CommitOutcome
  <2> QED
    BY <2>3, <2>4
<1> QED
  BY <1>1, <1>2

\* Committing a response keeps the types, the connections that are open, and their requests.
LEMMA Committed ==
  ASSUME HttpInv, NEW tok \in TokenType, NEW idx \in Indexes, NEW own \in Conns,
         commitRespond(tok, idx, own)
  PROVE  /\ sock' \in [Conns -> SockType(Messages)] /\ ctx' \in [Conns -> CtxType]
         /\ \A c \in Conns : sock'[c].bfd = sock[c].bfd /\ ctx'[c].req = ctx[c].req
         /\ \A c \in Conns : ctx'[c].alive = ctx[c].alive
<1>1. sock \in [Conns -> SockType(Messages)] /\ ctx \in [Conns -> CtxType]
  BY DEF HttpInv, HttpType
<1>2. CASE At(cab, tok) = NoObj /\ UNCHANGED <<sock, ctx>>
  BY <1>1, <1>2
<1>3. ASSUME NEW c \in Conns, idx = ctx[c].res, Send(c, Batch(ctx[c], own, idx)),
             ctx' = [ctx EXCEPT ![c] = [ctx[c] EXCEPT !.res = After(ctx[c], idx),
                       !.buff = {m \in ctx[c].buff : m[2] \notin (idx + 1)..(After(ctx[c], idx) - 1)}]]
      PROVE  /\ sock' \in [Conns -> SockType(Messages)] /\ ctx' \in [Conns -> CtxType]
             /\ \A d \in Conns : sock'[d].bfd = sock[d].bfd /\ ctx'[d].req = ctx[d].req
             /\ \A d \in Conns : ctx'[d].alive = ctx[d].alive
  <2>1. ctx[c] \in CtxType /\ sock[c] \in SockType(Messages)
    BY <1>1
  <2>2. PICK ms \in Seq(Messages) : ms = Batch(ctx[c], own, idx)
    BY <2>1, BatchIs
  <2>3. PICK n \in 0..Len(ms), dropped \in BOOLEAN :
          sock' = [sock EXCEPT ![c] = Sent(sock[c], ms, n, dropped)]
    BY <1>3, <2>2 DEF Send
  <2>a. PICK s : s = Sent(sock[c], ms, n, dropped)
    OBVIOUS
  <2>b. PICK s0 \in SockType(Messages) : s0 = sock[c]
    BY <2>1
  <2>c. s = Sent(s0, ms, n, dropped)
    BY <2>a, <2>b
  <2>d. SentFrom(s0, ms, n, dropped, s)
    BY <2>c, SentIs
  <2>4. s \in SockType(Messages) /\ s.bfd = sock[c].bfd
    BY <2>b, <2>d DEF SentFrom
  <2>5. sock' = [sock EXCEPT ![c] = s]
    BY <2>3, <2>a
  <2>6. PICK r \in 0..MaxReqs, b \in SUBSET Messages :
          /\ r = After(ctx[c], idx)
          /\ b = {m \in ctx[c].buff : m[2] \notin (idx + 1)..(After(ctx[c], idx) - 1)}
    <3>1. After(ctx[c], idx) \in 0..MaxReqs
      BY <2>1, AfterIs, ReqsAssumption DEF Indexes
    <3>2. ctx[c].buff \in SUBSET Messages
      BY <2>1 DEF CtxType
    <3> QED
      BY <3>1, <3>2
  <2>7. ctx' = [ctx EXCEPT ![c] = [ctx[c] EXCEPT !.res = r, !.buff = b]]
    BY <1>3, <2>6
  <2>11. PICK x \in CtxType : /\ x = [ctx[c] EXCEPT !.res = r, !.buff = b]
                              /\ x.req = ctx[c].req /\ x.alive = ctx[c].alive
    <3>1. PICK y \in CtxType : y = ctx[c]
      BY <2>1
    <3>2. [y EXCEPT !.res = r, !.buff = b] \in CtxType
      BY DEF CtxType
    <3>3. [y EXCEPT !.res = r, !.buff = b].req = y.req
      BY DEF CtxType
    <3>4. [y EXCEPT !.res = r, !.buff = b].alive = y.alive
      BY DEF CtxType
    <3> QED
      BY <3>1, <3>2, <3>3, <3>4
  <2>12. ctx' = [ctx EXCEPT ![c] = x]
    BY <2>7, <2>11
  <2> QED
    BY <1>1, <2>4, <2>5, <2>11, <2>12
<1>4. ASSUME NEW c \in Conns, sock' = sock,
             ctx' = [ctx EXCEPT ![c] = [ctx[c] EXCEPT
                       !.buff = {m \in ctx[c].buff : m[2] # idx} \cup {<<own, idx>>}]]
      PROVE  /\ sock' \in [Conns -> SockType(Messages)] /\ ctx' \in [Conns -> CtxType]
             /\ \A d \in Conns : sock'[d].bfd = sock[d].bfd /\ ctx'[d].req = ctx[d].req
             /\ \A d \in Conns : ctx'[d].alive = ctx[d].alive
  <2>1. ctx[c] \in CtxType
    BY <1>1
  <2>a. <<own, idx>> \in Messages /\ ctx[c].buff \in SUBSET Messages
    BY <2>1 DEF CtxType, Messages
  <2>2. PICK b \in SUBSET Messages : b = {m \in ctx[c].buff : m[2] # idx} \cup {<<own, idx>>}
    BY <2>a
  <2>3. PICK x \in CtxType : /\ x = [ctx[c] EXCEPT !.buff = b]
                             /\ x.req = ctx[c].req /\ x.alive = ctx[c].alive
    <3>1. PICK y \in CtxType : y = ctx[c]
      BY <2>1
    <3>2. [y EXCEPT !.buff = b] \in CtxType
      BY DEF CtxType
    <3>3. [y EXCEPT !.buff = b].req = y.req
      BY DEF CtxType
    <3>4. [y EXCEPT !.buff = b].alive = y.alive
      BY DEF CtxType
    <3> QED
      BY <3>1, <3>2, <3>3, <3>4
  <2>4. ctx' = [ctx EXCEPT ![c] = x]
    BY <1>4, <2>2, <2>3
  <2> QED
    BY <1>1, <1>4, <2>3, <2>4
<1>5. CASE \E c \in Conns :
              /\ c = At(cab, tok) /\ Open(c) /\ token[c] = tok /\ idx = ctx[c].res
              /\ Send(c, Batch(ctx[c], own, idx))
              /\ ctx' = [ctx EXCEPT ![c] = [ctx[c] EXCEPT !.res = After(ctx[c], idx),
                           !.buff = {m \in ctx[c].buff : m[2] \notin (idx + 1)..(After(ctx[c], idx) - 1)}]]
  BY <1>3, <1>5, Zenon
<1>6. CASE \E c \in Conns :
              /\ c = At(cab, tok) /\ Open(c) /\ token[c] = tok /\ idx # ctx[c].res
              /\ sock' = sock
              /\ ctx' = [ctx EXCEPT ![c] = [ctx[c] EXCEPT
                           !.buff = {m \in ctx[c].buff : m[2] # idx} \cup {<<own, idx>>}]]
  BY <1>4, <1>6, Zenon
<1>7. CommitOutcome(tok, idx, own)
  BY CommitCases
<1> QED
  BY <1>2, <1>5, <1>6, <1>7, Zenon DEF CommitOutcome

-----------------------------------------------------------------------------
(* Every step keeps the invariant                                          *)

\* What a new connection gets.
LEMMA NewTyped ==
  /\ NewSock \in SockType(Messages) /\ NewSock.bfd = "open" /\ NewSock.peer = "open"
  /\ NewSock.wire = <<>> /\ NewSock.out = <<>>
  /\ NewCtx \in CtxType /\ NewCtx.alive /\ NewCtx.req = 0 /\ NewCtx.res = 0
  /\ NewCtx.close = Never /\ NewCtx.buff = {}
<1>1. NewSock \in SockType(Messages)
  BY DEF NewSock, SockType
<1>2. NewSock.bfd = "open" /\ NewSock.peer = "open" /\ NewSock.wire = <<>> /\ NewSock.out = <<>>
  BY DEF NewSock
<1>3. NewCtx \in CtxType
  BY ReqsAssumption DEF NewCtx, CtxType, Never
<1>4. NewCtx.req = 0 /\ NewCtx.res = 0 /\ NewCtx.close = Never /\ NewCtx.buff = {}
  BY DEF NewCtx
<1>5. NewCtx.alive
  BY DEF NewCtx
<1> QED
  BY <1>1, <1>2, <1>3, <1>4, <1>5

\* At the start there is no connection.
LEMMA HttpInvInit == Init => HttpInv
<1> SUFFICES ASSUME Init PROVE HttpInv
  OBVIOUS
<1> USE DEF Init, TcpInit
<1>1. MaxConns \in Nat /\ MaxReqs \in Nat /\ MaxStarts \in Nat
  BY ConnsAssumption, ReqsAssumption
<1>2. [NewSock EXCEPT !.bfd = "none"] \in SockType(Messages)
  <2>1. ASSUME NEW s \in SockType(Messages) PROVE [s EXCEPT !.bfd = "none"] \in SockType(Messages)
    BY DEF SockType
  <2> QED
    BY <2>1, NewTyped
<1>3. [NewSock EXCEPT !.bfd = "none"].bfd = "none"
  BY DEF NewSock
<1>4. [NewCtx EXCEPT !.alive = FALSE] \in CtxType
  BY NewTyped, CtxDead
<1>5. Idle \in RxType /\ Idle.c = NoConn /\ ~Idle.handling
  BY DEF Idle, RxType
<1>6. [id |-> 0, pos |-> 0] \in TokenType
  BY DEF TokenType
<1>7. HttpType
  BY <1>1, <1>2, <1>4, <1>5, <1>6 DEF HttpType
<1>8. \A c \in Conns : ~Open(c)
  BY <1>3 DEF Open
<1>9. Linked
  BY <1>8, CabEmpty DEF Linked
<1>10. RxOK
  BY <1>5 DEF RxOK
<1> QED
  BY <1>7, <1>8, <1>9, <1>10, CabEmpty DEF HttpInv, Halted

\* A step that opens and closes no connection.
LEMMA Kept ==
  ASSUME HttpInv, UNCHANGED <<cab, token, accepted>>,
         \A c \in Conns : sock'[c].bfd = sock[c].bfd,
         \A c \in Conns : Open(c) => ctx'[c].alive
  PROVE  CabOK(cab)' /\ Linked'
<1>1. \A c \in Conns : Open(c)' <=> Open(c)
  BY DEF Open
<1>2. CabOK(cab)'
  BY DEF HttpInv
<1>3. Used(cab') = Used(cab)
  OBVIOUS
<1>4. Linked
  BY DEF HttpInv
<1>5. ASSUME NEW c \in Conns, Open(c)'
      PROVE  /\ ctx'[c].alive /\ c <= accepted'
             /\ token'[c].pos \in Used(cab') /\ cab'.cells[token'[c].pos].obj = c
  BY <1>1, <1>3, <1>4, <1>5 DEF Linked
<1>6. ASSUME NEW p \in Used(cab')
      PROVE  \E c \in Conns : /\ c = cab'.cells[p].obj /\ Open(c)'
                              /\ token'[c] = [id |-> cab'.cells[p].id, pos |-> p]
  <2>1. PICK c \in Conns : c = cab.cells[p].obj /\ Open(c) /\ token[c] = [id |-> cab.cells[p].id, pos |-> p]
    BY <1>3, <1>4 DEF Linked
  <2> QED
    BY <2>1, <1>1
<1> QED
  BY <1>2, <1>5, <1>6 DEF Linked

\* A step that closes one connection.
LEMMA Closed1 ==
  ASSUME HttpInv, NEW c \in Conns, Open(c), cab' = Free(cab, token[c]),
         UNCHANGED <<token, accepted>>, sock'[c].bfd # "open",
         \A d \in Conns \ {c} : sock'[d].bfd = sock[d].bfd,
         \A d \in Conns \ {c} : ctx'[d].alive = ctx[d].alive
  PROVE  CabOK(cab)' /\ Linked' /\ ~Holds(cab', token[c])
<1>1. Holds(cab, token[c]) /\ At(cab, token[c]) = c /\ token[c] \in TokenType /\ CabOK(cab)
  BY OpenHeld DEF HttpInv
<1>2. PICK t \in TokenType : t = token[c]
  BY <1>1
<1>3. PICK k : k = cab /\ CabOK(k)
  BY <1>1
<1>4. PICK z : z = Free(k, t) /\ z = cab'
  BY <1>2, <1>3
<1>5. /\ CabOK(z) /\ t.pos \in Used(k) /\ Used(z) = Used(k) \ {t.pos}
      /\ \A p \in Used(z) : z.cells[p] = k.cells[p]
  BY <1>1, <1>2, <1>3, <1>4, CabFree
<1>6. cab.cells[t.pos].obj = c
  BY <1>1, <1>2 DEF At
<1>7. \A d \in Conns : Open(d)' <=> Open(d) /\ d # c
  BY DEF Open
<1>8. ~Holds(cab', token[c])
  <2>1. t.pos \notin Used(z)
    BY <1>5
  <2> QED
    BY <2>1, <1>2, <1>4 DEF Holds, Used
<1>9. Linked
  BY DEF HttpInv
<1>10. ASSUME NEW d \in Conns, Open(d)'
       PROVE  /\ ctx'[d].alive /\ d <= accepted'
              /\ token'[d].pos \in Used(cab') /\ cab'.cells[token'[d].pos].obj = d
  <2>1. Open(d) /\ d # c
    BY <1>7, <1>10
  <2>2. ctx[d].alive /\ d <= accepted /\ token[d].pos \in Used(cab) /\ cab.cells[token[d].pos].obj = d
    BY <2>1, <1>9 DEF Linked
  <2>3. token[d].pos # t.pos
    BY <2>1, <2>2, <1>6
  <2> QED
    BY <2>1, <2>2, <2>3, <1>3, <1>4, <1>5
<1>11. ASSUME NEW p \in Used(cab')
       PROVE  \E d \in Conns : /\ d = cab'.cells[p].obj /\ Open(d)'
                               /\ token'[d] = [id |-> cab'.cells[p].id, pos |-> p]
  <2>1. p \in Used(cab) /\ p # t.pos /\ cab'.cells[p] = cab.cells[p]
    BY <1>3, <1>4, <1>5
  <2>2. PICK d \in Conns : /\ d = cab.cells[p].obj /\ Open(d)
                           /\ token[d] = [id |-> cab.cells[p].id, pos |-> p]
    BY <2>1, <1>9 DEF Linked
  <2>3. d # c
    BY <2>1, <2>2, <1>2
  <2> QED
    BY <2>1, <2>2, <2>3, <1>7
<1> QED
  <2>1. CabOK(cab')
    BY <1>4, <1>5
  <2>2. Linked'
    BY <1>10, <1>11 DEF Linked
  <2> QED
    BY <2>1, <2>2, <1>8

\* disconnect() by the server, with the context deleted.
LEMMA Disconnected ==
  ASSUME HttpInv, NEW c \in Conns, Open(c) \/ ~Holds(cab, token[c]), TcpDisconnect(token[c]),
         ctx' = [ctx EXCEPT ![c].alive = FALSE], UNCHANGED <<token, accepted>>
  PROVE  /\ sock' \in [Conns -> SockType(Messages)] /\ ctx' \in [Conns -> CtxType]
         /\ CabOK(cab)' /\ Linked' /\ ~Holds(cab', token'[c])
         /\ \A d \in Conns : ctx'[d].req = ctx[d].req
         /\ \A d \in Conns : Open(d)' => Open(d)
<1>1. sock \in [Conns -> SockType(Messages)] /\ ctx \in [Conns -> CtxType]
  BY DEF HttpInv, HttpType
<1>2. PICK x \in CtxType : x = [ctx[c] EXCEPT !.alive = FALSE] /\ x.req = ctx[c].req
  BY <1>1, CtxDead
<1>3. ctx' = [ctx EXCEPT ![c] = x]
  BY <1>2
<1>4. /\ ctx' \in [Conns -> CtxType] /\ \A d \in Conns : ctx'[d].req = ctx[d].req
      /\ \A d \in Conns \ {c} : ctx'[d] = ctx[d]
  BY <1>1, <1>2, <1>3
<1>5. CASE Open(c)
  <2>1. At(cab, token[c]) = c
    BY <1>5, OpenHeld
  <2>2. /\ cab' = Free(cab, token[c])
        /\ sock' = [d \in Conns |-> IF d = c THEN [sock[d] EXCEPT !.bfd = "dropped", !.wev = FALSE]
                                    ELSE sock[d]]
    BY <2>1 DEF TcpDisconnect
  <2>3. PICK s \in SockType(Messages) : s = [sock[c] EXCEPT !.bfd = "dropped", !.wev = FALSE]
                                        /\ s.bfd = "dropped"
    <3>1. PICK s0 \in SockType(Messages) : s0 = sock[c]
      BY <1>1
    <3>2. [s0 EXCEPT !.bfd = "dropped", !.wev = FALSE] \in SockType(Messages)
      BY DEF SockType
    <3>3. [s0 EXCEPT !.bfd = "dropped", !.wev = FALSE].bfd = "dropped"
      BY DEF SockType
    <3> QED
      BY <3>1, <3>2, <3>3
  <2>4. sock' \in [Conns -> SockType(Messages)] /\ sock'[c].bfd = "dropped"
        /\ \A d \in Conns \ {c} : sock'[d] = sock[d]
    BY <1>1, <2>2, <2>3
  <2>5. CabOK(cab)' /\ Linked' /\ ~Holds(cab', token[c])
    BY <1>4, <1>5, <2>2, <2>4, Closed1
  <2>6. \A d \in Conns : Open(d)' => Open(d)
    BY <1>5, <2>4 DEF Open
  <2> QED
    BY <1>4, <2>4, <2>5, <2>6
<1>6. CASE ~Open(c)
  <2>1. ~Holds(cab, token[c]) /\ At(cab, token[c]) = NoObj /\ Free(cab, token[c]) = cab
    BY <1>6 DEF At, Free
  <2>2. cab' = cab /\ sock' = sock
    <3>1. \A d \in Conns : d # NoObj
      BY ConnsAssumption DEF Conns
    <3>2. cab' = cab
      BY <2>1 DEF TcpDisconnect
    <3>3. sock' = [d \in Conns |-> sock[d]]
      BY <2>1, <3>1 DEF TcpDisconnect
    <3> QED
      BY <3>2, <3>3, <1>1
  <2>3. \A d \in Conns : Open(d) => ctx'[d].alive
    BY <1>4, <1>6 DEF HttpInv, Linked
  <2>4. CabOK(cab)' /\ Linked'
    BY <2>2, <2>3, Kept
  <2>5. \A d \in Conns : Open(d)' => Open(d)
    BY <2>2 DEF Open
  <2> QED
    BY <1>1, <1>4, <2>1, <2>2, <2>4, <2>5
<1> QED
  BY <1>5, <1>6

\* The receive callback is over, and no write callback follows.
LEMMA RxIdle ==
  ASSUME rx' = Idle
  PROVE  RxOK' /\ rx' \in RxType
<1>1. Idle \in RxType /\ Idle.c = NoConn /\ ~Idle.handling
  BY DEF Idle, RxType
<1> QED
  BY <1>1 DEF RxOK

\* It is over, and the write callback of the same event follows.
LEMMA RxLate ==
  ASSUME NEW c \in Conns, NEW late \in BOOLEAN, rx' = AfterRead(c, late),
         ctx' \in [Conns -> CtxType], Open(c)' \/ ~Holds(cab', token'[c])
  PROVE  RxOK' /\ rx' \in RxType
<1>1. CASE ~late
  BY <1>1, RxIdle DEF AfterRead
<1>2. CASE late
  <2> DEFINE r == [Idle EXCEPT !.c = c, !.late = TRUE]
  <2>1. r \in RxType
    <3>1. ASSUME NEW i \in RxType PROVE [i EXCEPT !.c = c, !.late = TRUE] \in RxType
      BY DEF RxType
    <3>2. Idle \in RxType
      BY DEF Idle, RxType
    <3> QED
      BY <3>1, <3>2
  <2>2. r.c = c /\ r.buf = <<>>
    BY DEF Idle
  <2>3. ~r.handling
    BY DEF Idle
  <2>4. rx' = r
    BY <1>2 DEF AfterRead
  <2> HIDE DEF r
  <2>5. c # NoConn
    BY DEF Conns, NoConn
  <2>6. ctx'[c].req \in 0..MaxReqs
    BY DEF CtxType
  <2>7. ctx'[rx'.c].req + Len(rx'.buf) <= MaxReqs
    BY <2>2, <2>4, <2>6, ReqsAssumption
  <2> QED
    BY <2>1, <2>2, <2>3, <2>4, <2>5, <2>7 DEF RxOK
<1> QED
  BY <1>1, <1>2

\* A step beside the receive loop, or of a handler.
LEMMA RxKept ==
  ASSUME HttpInv, rx' = rx \/ (rx.handling /\ rx' = [rx EXCEPT !.handling = FALSE]), UNCHANGED token,
         \A c \in Conns : ctx'[c].req = ctx[c].req,
         \A c \in Conns : ctx'[c].alive = ctx[c].alive,
         \/ UNCHANGED cab /\ \A c \in Conns : sock'[c].bfd = sock[c].bfd
         \/ cab' = Empty
  PROVE  RxOK' /\ rx' \in RxType
<1>1. rx \in RxType /\ RxOK
  BY DEF HttpInv, HttpType
<1>2. rx' \in RxType /\ rx'.c = rx.c /\ rx'.buf = rx.buf
  <2>1. ASSUME NEW r \in RxType
        PROVE  LET z == [r EXCEPT !.handling = FALSE]
               IN z \in RxType /\ z.c = r.c /\ z.buf = r.buf
    BY DEF RxType
  <2> QED
    BY <1>1, <2>1
<1>3. rx'.handling => rx.handling
  <2>1. ASSUME NEW r \in RxType PROVE ~[r EXCEPT !.handling = FALSE].handling
    BY DEF RxType
  <2> QED
    BY <1>1, <2>1
<1>4. rx.c = NoConn => rx' = Idle
  BY <1>1 DEF RxOK
<1>5. rx.c # NoConn => rx.c \in Conns
  BY <1>1 DEF RxType
<1>6. rx.c # NoConn => sock'[rx.c].bfd = "open" \/ ~Holds(cab', token'[rx.c])
  <2>1. CASE cab' = Empty
    BY <2>1 DEF Holds, Empty
  <2>2. CASE UNCHANGED cab /\ \A c \in Conns : sock'[c].bfd = sock[c].bfd
    BY <2>2, <1>1, <1>5 DEF RxOK, Open
  <2> QED
    BY <2>1, <2>2
<1>7. rx'.c # NoConn => ctx'[rx'.c].req + Len(rx'.buf) <= MaxReqs
  BY <1>1, <1>2, <1>5 DEF RxOK
<1>8. rx'.handling => rx'.c # NoConn /\ ctx'[rx'.c].req >= 1
  BY <1>1, <1>2, <1>3, <1>5 DEF RxOK
<1>9. rx'.c # NoConn /\ rx'.buf # <<>> => ctx'[rx'.c].alive
  BY <1>1, <1>2, <1>5 DEF RxOK
<1>10. rx'.c # NoConn => sock'[rx'.c].bfd = "open" \/ ~Holds(cab', token'[rx'.c])
  BY <1>2, <1>6
<1> QED
  BY <1>2, <1>4, <1>7, <1>8, <1>9, <1>10 DEF RxOK, Open

\* stop() closes every connection.
LEMMA AllStopped ==
  ASSUME HttpInv, TcpStopped
  PROVE  /\ sock' \in [Conns -> SockType(Messages)] /\ cab' = Empty
         /\ \A c \in Conns : ~Open(c)'
         /\ \A c \in Conns : sock'[c].wire = sock[c].wire /\ sock'[c].out = sock[c].out
                             /\ sock'[c].peer = sock[c].peer
<1>1. sock \in [Conns -> SockType(Messages)]
  BY DEF HttpInv, HttpType
<1>2. cab' = Empty
  BY DEF TcpStopped, Clear
<1>3. \A c \in Conns : Open(c) => c \in Objects(cab)
  <2> SUFFICES ASSUME NEW c \in Conns, Open(c) PROVE c \in Objects(cab)
    OBVIOUS
  <2>1. token[c].pos \in Used(cab) /\ cab.cells[token[c].pos].obj = c
    BY DEF HttpInv, Linked
  <2> QED
    BY <2>1 DEF Objects, Used
<1>4. ASSUME NEW c \in Conns
      PROVE  /\ sock'[c] \in SockType(Messages) /\ sock'[c].bfd # "open"
             /\ sock'[c].wire = sock[c].wire /\ sock'[c].out = sock[c].out
             /\ sock'[c].peer = sock[c].peer
  <2>1. PICK s \in SockType(Messages) : s = sock[c]
    BY <1>1
  <2>2. CASE c \in Objects(cab)
    <3>1. sock'[c] = [s EXCEPT !.bfd = "stopped", !.wev = FALSE]
      BY <2>1, <2>2 DEF TcpStopped
    <3>2. sock'[c] \in SockType(Messages)
      BY <3>1 DEF SockType
    <3>3. /\ sock'[c].bfd = "stopped" /\ sock'[c].wire = s.wire /\ sock'[c].out = s.out
          /\ sock'[c].peer = s.peer
      BY <3>1 DEF SockType
    <3> QED
      BY <3>2, <3>3, <2>1
  <2>3. CASE c \notin Objects(cab)
    <3>1. sock'[c] = s
      BY <2>1, <2>3 DEF TcpStopped
    <3> QED
      BY <3>1, <2>1, <2>3, <1>3 DEF Open
  <2> QED
    BY <2>2, <2>3
<1>5. sock' = [c \in Conns |-> sock'[c]]
  BY DEF TcpStopped
<1>6. sock' \in [Conns -> SockType(Messages)]
  BY <1>4, <1>5
<1> QED
  BY <1>2, <1>4, <1>6 DEF Open

\* No connection is left.
LEMMA NoneOpen ==
  ASSUME CabOK(cab'), Used(cab') = {}, \A c \in Conns : ~Open(c)'
  PROVE  CabOK(cab)' /\ Linked' /\ Halted'
  BY DEF Linked, Halted

\* The server that does not run is found with no connection, or it loses them all.
LEMMA Emptied ==
  ASSUME HttpInv, TcpCleanup
  PROVE  /\ sock' \in [Conns -> SockType(Messages)] /\ CabOK(cab') /\ Used(cab') = {}
         /\ \A c \in Conns : ~Open(c)'
<1>1. CASE server = "running"
  <2>1. TcpStopped
    BY <1>1 DEF TcpCleanup
  <2> QED
    BY <2>1, AllStopped, CabEmpty
<1>2. CASE server # "running"
  <2>1. UNCHANGED <<cab, sock>> /\ \A c \in Conns : ~Open(c)
    BY <1>2 DEF TcpCleanup, HttpInv, Halted
  <2>2. Used(cab) = {}
    BY <2>1 DEF HttpInv, Linked
  <2> QED
    BY <2>1, <2>2 DEF HttpInv, HttpType, Open
<1> QED
  BY <1>1, <1>2

\* A new connection is put into the cabinet, under a new token.
LEMMA Accepted1 ==
  ASSUME HttpInv, NEW c \in Conns, onTcpConnected(c)
  PROVE  HttpInv'
<1>1. /\ HttpType /\ CabOK(cab) /\ Linked /\ rx = Idle /\ rx' = Idle
      /\ server' = "running" /\ c = accepted + 1 /\ accepted' = c
      /\ UNCHANGED <<held, starts>>
  BY DEF HttpInv, onTcpConnected, TcpConnected, Between
<1>2. PICK k, t, z : k = cab /\ CabOK(k) /\ t = NewToken(k) /\ z = Alloc(k, c)
  BY <1>1
<1>3. /\ CabOK(z) /\ t \in TokenType /\ t.pos \notin Used(k)
      /\ Used(z) = Used(k) \cup {t.pos}
      /\ z.cells[t.pos].id = t.id /\ z.cells[t.pos].obj = c
      /\ \A p \in Used(k) : z.cells[p] = k.cells[p]
  BY <1>2, CabAlloc
<1>4. /\ cab' = z /\ token' = [token EXCEPT ![c] = t] /\ sock' = [sock EXCEPT ![c] = NewSock]
      /\ ctx' = [ctx EXCEPT ![c] = NewCtx]
  BY <1>2 DEF onTcpConnected, TcpConnected
<1>5. HttpType'
  <2>1. token' \in [Conns -> TokenType]
    BY <1>1, <1>3, <1>4 DEF HttpType
  <2>2. sock' \in [Conns -> SockType(Messages)] /\ ctx' \in [Conns -> CtxType]
    BY <1>1, <1>4, NewTyped DEF HttpType
  <2>3. accepted' \in 0..MaxConns
    BY <1>1 DEF Conns
  <2> QED
    BY <1>1, <2>1, <2>2, <2>3, RxIdle DEF HttpType
<1>6. \A d \in Conns : d # c => sock'[d] = sock[d] /\ ctx'[d] = ctx[d] /\ token'[d] = token[d]
  BY <1>1, <1>4 DEF HttpType
<1>7. sock'[c] = NewSock /\ ctx'[c] = NewCtx /\ token'[c] = t
  BY <1>1, <1>4 DEF HttpType
<1>8. \A d \in Conns : Open(d) => d # c /\ d <= accepted'
  BY <1>1 DEF Linked, HttpType, Conns
<1>9. \A d \in Conns : Open(d)' <=> Open(d) \/ d = c
  BY <1>6, <1>7, NewTyped DEF Open
<1>10. ASSUME NEW d \in Conns, Open(d)'
       PROVE  /\ ctx'[d].alive /\ d <= accepted'
              /\ token'[d].pos \in Used(cab') /\ cab'.cells[token'[d].pos].obj = d
  <2>1. CASE d = c
    BY <2>1, <1>1, <1>3, <1>4, <1>7, NewTyped DEF Conns
  <2>2. CASE d # c
    <3>1. Open(d)
      BY <2>2, <1>9, <1>10
    <3>2. ctx[d].alive /\ token[d].pos \in Used(cab) /\ cab.cells[token[d].pos].obj = d
      BY <3>1, <1>1 DEF Linked
    <3> QED
      BY <2>2, <3>1, <3>2, <1>2, <1>3, <1>4, <1>6, <1>8
  <2> QED
    BY <2>1, <2>2
<1>11. ASSUME NEW p \in Used(cab')
       PROVE  \E d \in Conns : /\ d = cab'.cells[p].obj /\ Open(d)'
                               /\ token'[d] = [id |-> cab'.cells[p].id, pos |-> p]
  <2>1. CASE p = t.pos
    <3>1. t = [id |-> t.id, pos |-> t.pos]
      BY <1>3 DEF TokenType
    <3> QED
      BY <2>1, <3>1, <1>3, <1>4, <1>7, <1>9
  <2>2. CASE p # t.pos
    <3>1. p \in Used(cab) /\ cab'.cells[p] = cab.cells[p]
      BY <2>2, <1>2, <1>3, <1>4
    <3>2. PICK d \in Conns : /\ d = cab.cells[p].obj /\ Open(d)
                             /\ token[d] = [id |-> cab.cells[p].id, pos |-> p]
      BY <3>1, <1>1 DEF Linked
    <3> QED
      BY <3>1, <3>2, <1>6, <1>8, <1>9
  <2> QED
    BY <2>1, <2>2
<1>12. Linked'
  BY <1>10, <1>11 DEF Linked
<1>13. CabOK(cab')
  BY <1>3, <1>4
<1> QED
  BY <1>1, <1>5, <1>12, <1>13, RxIdle DEF HttpInv, Halted

\* The receive loop takes a request.
LEMMA Handled1 ==
  ASSUME HttpInv, handle
  PROVE  HttpInv'
<1>1. /\ HttpType /\ RxOK /\ rx \in RxType /\ rx.c # NoConn /\ rx.c \in Conns /\ rx.buf # <<>>
      /\ sock \in [Conns -> SockType(Messages)] /\ ctx \in [Conns -> CtxType]
  BY DEF HttpInv, HttpType, RxType, handle
<1>2. PICK c \in Conns : c = rx.c
  BY <1>1
<1>3. PICK b \in Seq(Kinds) : b = rx.buf /\ b # <<>> /\ Tail(b) \in Seq(Kinds) /\ Len(Tail(b)) = Len(b) - 1
                              /\ Len(b) \in Nat
  BY <1>1 DEF RxType
<1>4. /\ sock' = (IF Head(b) = "last" THEN Shut(token[c]) ELSE sock)
      /\ rx' = [rx EXCEPT !.buf = Tail(b), !.handling = TRUE]
      /\ ctx' = [ctx EXCEPT ![c].req = @ + 1,
                            ![c].close = IF Head(b) = "last" THEN ctx[c].req ELSE @]
      /\ UNCHANGED <<server, cab, accepted, token, held, starts>>
  BY <1>1, <1>2, <1>3 DEF handle
<1>5. PICK r \in RxType : /\ r = rx' /\ r.c = c /\ r.buf = Tail(b)
  <2>1. ASSUME NEW i \in RxType, NEW e \in Seq(Kinds)
        PROVE  LET z == [i EXCEPT !.buf = e, !.handling = TRUE]
               IN z \in RxType /\ z.c = i.c /\ z.buf = e
    BY DEF RxType
  <2> QED
    BY <2>1, <1>1, <1>2, <1>3, <1>4, ZenonT(30)
<1>6. PICK y \in CtxType : y = ctx[c]
  BY <1>1
<1>7. y.req \in 0..MaxReqs /\ y.close \in 0..MaxReqs /\ y.req + Len(b) <= MaxReqs /\ y.alive
      /\ y.req + 1 \in 0..MaxReqs /\ MaxReqs \in Nat
  <2>1. y.req \in 0..MaxReqs /\ y.close \in 0..MaxReqs /\ MaxReqs \in Nat
    BY ReqsAssumption DEF CtxType
  <2>2. y.req + Len(b) <= MaxReqs /\ y.alive
    BY <1>1, <1>2, <1>3, <1>6 DEF RxOK
  <2>3. Len(b) >= 1
    BY <1>3
  <2> QED
    BY <2>1, <2>2, <2>3, <1>3
<1>8. PICK e \in 0..MaxReqs : e = IF Head(b) = "last" THEN y.req ELSE y.close
  BY <1>7
<1>9. ctx' = [ctx EXCEPT ![c] = [y EXCEPT !.req = y.req + 1, !.close = e]]
  BY <1>1, <1>4, <1>6, <1>8 DEF CtxType
<1>10. PICK x \in CtxType : /\ ctx' = [ctx EXCEPT ![c] = x] /\ x.req = y.req + 1 /\ x.alive
  <2>1. [y EXCEPT !.req = y.req + 1, !.close = e] \in CtxType
    BY <1>7 DEF CtxType
  <2>2. [y EXCEPT !.req = y.req + 1, !.close = e].req = y.req + 1
    BY DEF CtxType
  <2>3. [y EXCEPT !.req = y.req + 1, !.close = e].alive = y.alive
    BY DEF CtxType
  <2> QED
    BY <2>1, <2>2, <2>3, <1>7, <1>9
<1>11. sock' \in [Conns -> SockType(Messages)] /\ \A d \in Conns : sock'[d].bfd = sock[d].bfd
  <2>1. ASSUME NEW s \in SockType(Messages)
        PROVE  LET z == [s EXCEPT !.rd = TRUE] IN z \in SockType(Messages) /\ z.bfd = s.bfd
    BY DEF SockType
  <2>2. CASE sock' = sock
    BY <2>2, <1>1
  <2>3. CASE sock' = [d \in Conns |-> IF At(cab, token[c]) = d THEN [sock[d] EXCEPT !.rd = TRUE] ELSE sock[d]]
    <3>1. \A d \in Conns : /\ sock'[d] \in SockType(Messages) /\ sock'[d].bfd = sock[d].bfd
      BY <2>1, <2>3, <1>1
    <3> QED
      BY <3>1, <2>3
  <2> QED
    BY <2>2, <2>3, <1>4 DEF Shut
<1>12. ctx' \in [Conns -> CtxType] /\ \A d \in Conns : ctx[d].alive => ctx'[d].alive
  BY <1>1, <1>6, <1>7, <1>10
<1>13. CabOK(cab)' /\ Linked'
  <2>1. \A d \in Conns : Open(d) => ctx'[d].alive
    BY <1>12 DEF HttpInv, Linked
  <2> QED
    BY <2>1, <1>4, <1>11, Kept
<1>14. HttpType'
  BY <1>1, <1>4, <1>5, <1>11, <1>12 DEF HttpType
<1>15. Halted'
  BY <1>4, <1>11 DEF HttpInv, Halted, Open
<1>16. RxOK'
  <2>1. sock'[c].bfd = "open" \/ ~Holds(cab', token'[c])
    BY <1>1, <1>2, <1>4, <1>11 DEF RxOK, Open
  <2>2. ctx'[c].req = y.req + 1 /\ ctx'[c].alive /\ c # NoConn
    BY <1>1, <1>2, <1>10
  <2>3. ctx'[c].req + Len(Tail(b)) <= MaxReqs /\ ctx'[c].req >= 1
    BY <2>2, <1>3, <1>7
  <2> QED
    BY <2>1, <2>2, <2>3, <1>5 DEF RxOK, Open
<1> QED
  BY <1>13, <1>14, <1>15, <1>16 DEF HttpInv

\* A step that only commits a response, and one that only writes, open and close nothing.
LEMMA Settled ==
  ASSUME HttpInv, UNCHANGED <<server, cab, accepted, token, starts>>,
         sock' \in [Conns -> SockType(Messages)], ctx' \in [Conns -> CtxType],
         held' \in SUBSET Contexts,
         \A c \in Conns : sock'[c].bfd = sock[c].bfd /\ ctx'[c].req = ctx[c].req,
         \A c \in Conns : ctx'[c].alive = ctx[c].alive,
         \/ rx' = rx \/ (rx.handling /\ rx' = [rx EXCEPT !.handling = FALSE])
         \/ rx' = Idle
  PROVE  HttpInv'
<1>1. CabOK(cab)' /\ Linked'
  <2>1. \A c \in Conns : Open(c) => ctx'[c].alive
    BY DEF HttpInv, Linked
  <2> QED
    BY <2>1, Kept
<1>2. RxOK' /\ rx' \in RxType
  BY RxKept, RxIdle
<1>3. HttpType'
  BY <1>2 DEF HttpInv, HttpType
<1>4. Halted'
  BY DEF HttpInv, Halted, Open
<1> QED
  BY <1>1, <1>2, <1>3, <1>4 DEF HttpInv

\* The connection of a receive loop and the index of the request being handled.
LEMMA Handling ==
  ASSUME HttpInv, rx.handling
  PROVE  /\ rx.c \in Conns /\ token[rx.c] \in TokenType /\ ctx[rx.c].req - 1 \in Indexes
         /\ [tok |-> token[rx.c], idx |-> ctx[rx.c].req - 1, own |-> rx.c] \in Contexts
<1>1. rx.c \in Conns /\ ctx[rx.c].req >= 1
  BY DEF HttpInv, HttpType, RxOK, RxType
<1>2. token[rx.c] \in TokenType /\ ctx[rx.c].req \in 0..MaxReqs
  BY <1>1 DEF HttpInv, HttpType, CtxType
<1>3. ctx[rx.c].req - 1 \in Indexes
  BY <1>1, <1>2, ReqsAssumption DEF Indexes
<1> QED
  BY <1>1, <1>2, <1>3 DEF Contexts, TokenType

\* The write callback.
LEMMA Wrote ==
  ASSUME HttpInv, NEW c \in Conns, onWriteCallback(c)
  PROVE  HttpInv'
<1>1. /\ sock \in [Conns -> SockType(Messages)] /\ ctx \in [Conns -> CtxType] /\ HttpType
      /\ rx' = Idle /\ UNCHANGED <<server, accepted, token, held, starts>>
  BY DEF HttpInv, HttpType, onWriteCallback
<1>2. PICK s0 \in SockType(Messages) : s0 = sock[c]
  BY <1>1
<1>3. ASSUME NEW s \in SockType(Messages), s.bfd = s0.bfd, sock' = [sock EXCEPT ![c] = s],
             UNCHANGED <<cab, ctx>>
      PROVE  HttpInv'
  <2>1. sock' \in [Conns -> SockType(Messages)] /\ \A d \in Conns : sock'[d].bfd = sock[d].bfd
    BY <1>1, <1>2, <1>3
  <2>2. held' \in SUBSET Contexts /\ ctx' \in [Conns -> CtxType]
    BY <1>1, <1>3 DEF HttpType
  <2> QED
    BY <1>1, <1>3, <2>1, <2>2, Settled
<1>4. CASE s0.out # <<>>
  <2>1. Flush(c) /\ UNCHANGED <<cab, ctx>>
    BY <1>2, <1>4 DEF onWriteCallback
  <2>2. s0.out \in Seq(Messages) /\ s0.wire \in Seq(Messages) /\ Len(s0.out) \in Nat
    BY DEF SockType
  <2>3. PICK n \in 0..Len(s0.out) :
          sock' = [sock EXCEPT ![c].wire = @ \o SubSeq(s0.out, 1, n),
                               ![c].out  = SubSeq(@, n + 1, Len(@))]
    BY <2>1, <1>2 DEF Flush
  <2>4. SubSeq(s0.out, 1, n) \in Seq(Messages) /\ SubSeq(s0.out, n + 1, Len(s0.out)) \in Seq(Messages)
    BY <2>2
  <2>5. PICK w \in Seq(Messages) : w = s0.wire \o SubSeq(s0.out, 1, n)
    <3>1. ASSUME NEW a \in Seq(Messages), NEW b \in Seq(Messages) PROVE a \o b \in Seq(Messages)
      OBVIOUS
    <3>2. s0.wire \o SubSeq(s0.out, 1, n) \in Seq(Messages)
      BY <3>1, <2>2, <2>4
    <3> QED
      BY <3>2
  <2>6. PICK o \in Seq(Messages) : o = SubSeq(s0.out, n + 1, Len(s0.out))
    BY <2>4
  <2>7. sock' = [sock EXCEPT ![c] = [s0 EXCEPT !.wire = w, !.out = o]]
    BY <1>1, <1>2, <2>3, <2>5, <2>6 DEF SockType
  <2>8. [s0 EXCEPT !.wire = w, !.out = o] \in SockType(Messages)
    BY DEF SockType
  <2>9. [s0 EXCEPT !.wire = w, !.out = o].bfd = s0.bfd
    BY DEF SockType
  <2> QED
    BY <1>3, <2>1, <2>7, <2>8, <2>9
<1>5. CASE s0.out = <<>> /\ At(cab, token[c]) # NoObj /\ ctx[c].res > ctx[c].close
  <2>1. TcpDisconnect(token[c]) /\ ctx' = [ctx EXCEPT ![c].alive = FALSE]
    BY <1>2, <1>5 DEF onWriteCallback, onTcpSendCompleted
  <2>2. Open(c) \/ ~Holds(cab, token[c])
    BY DEF onWriteCallback, HttpInv, RxOK, Conns, NoConn
  <2>3. /\ sock' \in [Conns -> SockType(Messages)] /\ ctx' \in [Conns -> CtxType]
        /\ CabOK(cab)' /\ Linked' /\ \A d \in Conns : Open(d)' => Open(d)
    BY <1>1, <2>1, <2>2, Disconnected
  <2> QED
    BY <1>1, <2>3, RxIdle DEF HttpInv, HttpType, Halted
<1>6. CASE s0.out = <<>> /\ ~(At(cab, token[c]) # NoObj /\ ctx[c].res > ctx[c].close)
  <2>1. sock' = [sock EXCEPT ![c] = [s0 EXCEPT !.wev = FALSE]] /\ UNCHANGED <<cab, ctx>>
    BY <1>1, <1>2, <1>6 DEF onWriteCallback, onTcpSendCompleted, WriteIdle
  <2>2. [s0 EXCEPT !.wev = FALSE] \in SockType(Messages)
    BY DEF SockType
  <2>3. [s0 EXCEPT !.wev = FALSE].bfd = s0.bfd
    BY DEF SockType
  <2> QED
    BY <1>3, <2>1, <2>2, <2>3
<1> QED
  BY <1>4, <1>5, <1>6

\* The end of a socket, reported to the server.
LEMMA Ended ==
  ASSUME HttpInv, NEW c \in Conns, NEW late \in BOOLEAN, onTcpDisconnected(c, late)
  PROVE  HttpInv'
<1>1. /\ sock \in [Conns -> SockType(Messages)] /\ ctx \in [Conns -> CtxType] /\ HttpType
      /\ Open(c) /\ rx' = AfterRead(c, late) /\ cab' = Free(cab, token[c])
      /\ UNCHANGED <<server, accepted, token, held, starts>>
      /\ sock' = [sock EXCEPT ![c].bfd = "closed", ![c].wev = FALSE]
      /\ ctx' = [ctx EXCEPT ![c].alive = FALSE]
  BY DEF HttpInv, HttpType, onTcpDisconnected, TcpDisconnected
<1>2. PICK s0 \in SockType(Messages) : s0 = sock[c]
  BY <1>1
<1>3. PICK s \in SockType(Messages) : s.bfd = "closed" /\ sock' = [sock EXCEPT ![c] = s]
  <2>1. [s0 EXCEPT !.bfd = "closed", !.wev = FALSE] \in SockType(Messages)
    BY DEF SockType
  <2>2. [s0 EXCEPT !.bfd = "closed", !.wev = FALSE].bfd = "closed"
    BY DEF SockType
  <2>3. sock' = [sock EXCEPT ![c] = [s0 EXCEPT !.bfd = "closed", !.wev = FALSE]]
    BY <1>1, <1>2
  <2> QED
    BY <2>1, <2>2, <2>3
<1>4. PICK x \in CtxType : x = [ctx[c] EXCEPT !.alive = FALSE]
  BY <1>1, CtxDead
<1>5. ctx' = [ctx EXCEPT ![c] = x]
  BY <1>1, <1>4
<1>6. /\ sock' \in [Conns -> SockType(Messages)] /\ ctx' \in [Conns -> CtxType]
      /\ sock'[c].bfd = "closed" /\ \A d \in Conns \ {c} : sock'[d] = sock[d] /\ ctx'[d] = ctx[d]
  BY <1>1, <1>3, <1>5, ZenonT(30)
<1>7. CabOK(cab)' /\ Linked' /\ ~Holds(cab', token[c])
  BY <1>1, <1>6, Closed1
<1>8. RxOK' /\ rx' \in RxType
  BY <1>1, <1>6, <1>7, RxLate
<1>9. Halted'
  <2>1. \A d \in Conns : Open(d)' => Open(d)
    BY <1>1, <1>6 DEF Open
  <2> QED
    BY <1>1, <2>1 DEF HttpInv, Halted
<1>10. HttpType'
  BY <1>1, <1>6, <1>8 DEF HttpType
<1> QED
  BY <1>7, <1>8, <1>9, <1>10 DEF HttpInv

\* A request that does not parse.
LEMMA ParseFailed ==
  ASSUME HttpInv, parseFail
  PROVE  HttpInv'
<1>1. /\ HttpType /\ RxOK /\ rx \in RxType /\ rx.c # NoConn /\ rx.c \in Conns /\ ~rx.handling
      /\ UNCHANGED <<server, accepted, token, held, starts>>
      /\ rx' = [rx EXCEPT !.buf = <<>>] /\ ctx \in [Conns -> CtxType]
  BY DEF HttpInv, HttpType, RxType, parseFail
<1>2. PICK c \in Conns : c = rx.c
  BY <1>1
<1>3. TcpDisconnect(token[c]) /\ ctx' = [ctx EXCEPT ![c].alive = FALSE]
      /\ (Open(c) \/ ~Holds(cab, token[c]))
  BY <1>1, <1>2 DEF parseFail, RxOK
<1>4. /\ sock' \in [Conns -> SockType(Messages)] /\ ctx' \in [Conns -> CtxType]
      /\ CabOK(cab)' /\ Linked' /\ ~Holds(cab', token'[c])
      /\ \A d \in Conns : ctx'[d].req = ctx[d].req
      /\ \A d \in Conns : Open(d)' => Open(d)
  BY <1>1, <1>3, Disconnected
<1>5. rx' \in RxType /\ rx'.c = c /\ rx'.buf = <<>>
  <2>1. ASSUME NEW i \in RxType, NEW e \in Seq(Kinds)
        PROVE  LET z == [i EXCEPT !.buf = e] IN z \in RxType /\ z.c = i.c /\ z.buf = e
    BY DEF RxType
  <2>2. <<>> \in Seq(Kinds)
    OBVIOUS
  <2> QED
    BY <2>1, <2>2, <1>1, <1>2
<1>6. rx'.handling = rx.handling
  <2>1. ASSUME NEW i \in RxType PROVE [i EXCEPT !.buf = <<>>].handling = i.handling
    BY DEF RxType
  <2> QED
    BY <2>1, <1>1
<1>7. RxOK'
  <2>1. ctx'[c].req \in 0..MaxReqs
    BY <1>4 DEF CtxType
  <2>2. ctx'[rx'.c].req + Len(rx'.buf) <= MaxReqs
    BY <2>1, <1>5, ReqsAssumption
  <2> QED
    BY <2>2, <1>1, <1>2, <1>4, <1>5, <1>6 DEF RxOK
<1>8. HttpType' /\ Halted'
  BY <1>1, <1>4, <1>5 DEF HttpInv, HttpType, Halted
<1> QED
  BY <1>4, <1>7, <1>8 DEF HttpInv

\* Every step keeps the invariant.
LEMMA HttpInvStep == HttpInv /\ [Next]_vars => HttpInv'
<1> SUFFICES ASSUME HttpInv, [Next]_vars PROVE HttpInv'
  OBVIOUS
<1>1. /\ HttpType /\ CabOK(cab) /\ Linked /\ RxOK /\ Halted
      /\ sock \in [Conns -> SockType(Messages)] /\ ctx \in [Conns -> CtxType]
      /\ held \in SUBSET Contexts /\ rx \in RxType
  BY DEF HttpInv, HttpType
<1>2. CASE UNCHANGED vars
  BY <1>2 DEF vars, tcpVars, httpVars, HttpInv, HttpType, Linked, RxOK, Halted, Open
<1>3. CASE initialize
  <2>1. /\ UNCHANGED <<cab, accepted, token, sock, ctx, held, rx, starts>>
        /\ server = "none" /\ server' = "inited"
    BY <1>3 DEF initialize, TcpInitialize, httpVars
  <2> QED
    BY <1>1, <2>1 DEF HttpInv, HttpType, Linked, RxOK, Halted, Open
<1>4. CASE start
  <2>1. /\ UNCHANGED <<cab, accepted, token, sock, ctx, held, rx>> /\ server' = "running"
        /\ starts < MaxStarts /\ starts' = starts + 1
    BY <1>4 DEF start, TcpStart
  <2>2. starts' \in 0..MaxStarts
    BY <1>1, <2>1, ReqsAssumption DEF HttpType
  <2> QED
    BY <1>1, <2>1, <2>2 DEF HttpInv, HttpType, Linked, RxOK, Halted, Open
<1>5. CASE stop
  <2>1. /\ TcpStopped /\ server' = "inited"
        /\ UNCHANGED <<accepted, token, ctx, held, rx, starts>>
    BY <1>5 DEF stop, TcpStop, httpVars
  <2>2. /\ sock' \in [Conns -> SockType(Messages)] /\ cab' = Empty /\ \A c \in Conns : ~Open(c)'
    BY <2>1, AllStopped
  <2>3. CabOK(cab)' /\ Linked' /\ Halted'
    BY <2>2, CabEmpty, NoneOpen
  <2>4. RxOK'
    BY <2>1, <2>2, RxKept
  <2> QED
    BY <1>1, <2>1, <2>2, <2>3, <2>4 DEF HttpInv, HttpType
<1>6. CASE cleanup
  <2>1. /\ TcpCleanup /\ server' = "none" /\ rx' = Idle
        /\ UNCHANGED <<accepted, token, held, starts>>
        /\ ctx' = [c \in Conns |-> [ctx[c] EXCEPT !.alive = FALSE]]
    BY <1>6 DEF cleanup, TcpCleanup, Between
  <2>2. \A c \in Conns : [ctx[c] EXCEPT !.alive = FALSE] \in CtxType
    BY <1>1, CtxDead
  <2>3. ctx' \in [Conns -> CtxType]
    BY <2>1, <2>2
  <2>4. /\ sock' \in [Conns -> SockType(Messages)] /\ CabOK(cab') /\ Used(cab') = {}
        /\ \A c \in Conns : ~Open(c)'
    BY <2>1, Emptied
  <2> QED
    BY <1>1, <2>1, <2>3, <2>4, NoneOpen, RxIdle DEF HttpInv, HttpType
<1>7. CASE \E c \in Conns : onTcpConnected(c)
  BY <1>7, Accepted1
<1>8. CASE \E c \in Conns : onWriteCallback(c)
  BY <1>8, Wrote
<1>9. ASSUME NEW c \in Conns, peerLeaves(c) PROVE HttpInv'
  <2>1. /\ sock' = [sock EXCEPT ![c].peer = "gone"]
        /\ UNCHANGED <<server, cab, accepted, token, ctx, held, rx, starts>>
    BY <1>9 DEF peerLeaves, httpVars
  <2>2. PICK s0 \in SockType(Messages) : s0 = sock[c]
    BY <1>1
  <2>3. [s0 EXCEPT !.peer = "gone"] \in SockType(Messages) /\ [s0 EXCEPT !.peer = "gone"].bfd = s0.bfd
    BY DEF SockType
  <2>4. sock' = [sock EXCEPT ![c] = [s0 EXCEPT !.peer = "gone"]]
    BY <1>1, <2>1, <2>2
  <2>5. sock' \in [Conns -> SockType(Messages)] /\ \A d \in Conns : sock'[d].bfd = sock[d].bfd
    BY <1>1, <2>2, <2>3, <2>4
  <2> QED
    BY <1>1, <2>1, <2>5, Settled
<1>10. CASE \E c \in Conns, late \in BOOLEAN : onTcpDisconnected(c, late)
  BY <1>10, Ended
<1>11. ASSUME NEW c \in Conns, NEW late \in BOOLEAN, NEW batch \in Batches,
              onTcpReceived(c, batch, late)
       PROVE  HttpInv'
  <2>1. /\ Open(c) /\ ctx[c].req + Len(batch) <= Quota[c]
        /\ UNCHANGED <<server, cab, accepted, token, sock, ctx, held, starts>>
        /\ rx' = IF ctx[c].close = Never
                 THEN [c |-> c, buf |-> batch, handling |-> FALSE, late |-> late]
                 ELSE AfterRead(c, late)
    BY <1>11 DEF onTcpReceived, tcpVars
  <2>2. RxOK' /\ rx' \in RxType
    <3>1. CASE ctx[c].close # Never
      BY <3>1, <1>1, <2>1, RxLate DEF Open
    <3>2. CASE ctx[c].close = Never
      <4>1. batch \in Seq(Kinds) /\ Len(batch) \in Nat
        <5>1. PICK n \in 1..MaxReqs : batch \in [1..n -> Kinds]
          BY DEF Batches
        <5> QED
          BY <5>1, ReqsAssumption
      <4>2. rx' = [c |-> c, buf |-> batch, handling |-> FALSE, late |-> late]
        BY <2>1, <3>2
      <4>3. rx' \in RxType /\ rx'.c = c /\ rx'.buf = batch
        BY <4>1, <4>2 DEF RxType
      <4>4. ~rx'.handling
        BY <4>2
      <4>5. c # NoConn /\ ctx[c].alive
        BY <1>1, <2>1 DEF Linked, Conns, NoConn
      <4>6. ctx[c].req + Len(batch) <= MaxReqs
        <5>1. Quota[c] \in 0..MaxReqs /\ ctx[c].req \in 0..MaxReqs /\ MaxReqs \in Nat
          BY <1>1, ReqsAssumption DEF CtxType
        <5> QED
          BY <5>1, <4>1, <2>1
      <4> QED
        BY <4>3, <4>4, <4>5, <4>6, <2>1 DEF RxOK, Open
    <3> QED
      BY <3>1, <3>2
  <2>3. CabOK(cab)' /\ Linked' /\ Halted'
    BY <1>1, <2>1 DEF Linked, Halted, Open
  <2> QED
    BY <1>1, <2>1, <2>2, <2>3 DEF HttpInv, HttpType
<1>12. ASSUME NEW h \in held, finish(h) PROVE HttpInv'
  <2>1. h.tok \in TokenType /\ h.idx \in Indexes /\ h.own \in Conns
    BY <1>1 DEF Contexts, TokenType
  <2>2. /\ UNCHANGED <<server, cab, accepted, token, rx, starts>> /\ held' \in SUBSET Contexts
        /\ commitRespond(h.tok, h.idx, h.own)
    BY <1>1, <1>12 DEF finish
  <2>3. /\ sock' \in [Conns -> SockType(Messages)] /\ ctx' \in [Conns -> CtxType]
        /\ \A c \in Conns : sock'[c].bfd = sock[c].bfd /\ ctx'[c].req = ctx[c].req
        /\ \A c \in Conns : ctx'[c].alive = ctx[c].alive
    BY <2>1, <2>2, Committed
  <2> QED
    BY <2>2, <2>3, Settled
<1>13. CASE handle
  BY <1>13, Handled1
<1>14. CASE parseFail
  BY <1>14, ParseFailed
<1>15. CASE receiveReturns
  <2>1. rx' = Idle /\ UNCHANGED <<server, cab, accepted, token, sock, ctx, held, starts>>
    BY <1>15 DEF receiveReturns, tcpVars
  <2> QED
    BY <1>1, <2>1, Settled
<1>16. ASSUME NEW keep \in BOOLEAN, handled(keep) PROVE HttpInv'
  <2>1. /\ rx.handling /\ rx' = [rx EXCEPT !.handling = FALSE]
        /\ UNCHANGED <<server, cab, accepted, token, starts>>
    BY <1>16 DEF handled
  <2>2. /\ rx.c \in Conns /\ token[rx.c] \in TokenType /\ ctx[rx.c].req - 1 \in Indexes
        /\ [tok |-> token[rx.c], idx |-> ctx[rx.c].req - 1, own |-> rx.c] \in Contexts
    BY <2>1, Handling
  <2>3. CASE keep
    <3>1. /\ held' = held \cup {[tok |-> token[rx.c], idx |-> ctx[rx.c].req - 1, own |-> rx.c]}
          /\ UNCHANGED <<sock, ctx>>
      BY <1>16, <2>3 DEF handled
    <3>2. held' \in SUBSET Contexts
      BY <1>1, <2>2, <3>1
    <3> QED
      BY <1>1, <2>1, <3>1, <3>2, Settled
  <2>4. CASE ~keep
    <3>1. commitRespond(token[rx.c], ctx[rx.c].req - 1, rx.c) /\ UNCHANGED held
      BY <1>16, <2>4 DEF handled
    <3>2. /\ sock' \in [Conns -> SockType(Messages)] /\ ctx' \in [Conns -> CtxType]
          /\ \A c \in Conns : sock'[c].bfd = sock[c].bfd /\ ctx'[c].req = ctx[c].req
          /\ \A c \in Conns : ctx'[c].alive = ctx[c].alive
      BY <2>2, <3>1, Committed
    <3> QED
      BY <1>1, <2>1, <3>1, <3>2, Settled
  <2> QED
    BY <2>3, <2>4
<1> QED
  BY <1>2, <1>3, <1>4, <1>5, <1>6, <1>7, <1>8, <1>9, <1>10, <1>11, <1>12, <1>13, <1>14, <1>15,
     <1>16, Zenon DEF Next, Loop

\* HttpInv is an invariant: the cabinet of connections is sound, its free list included.
THEOREM HttpInvariance == Spec => []HttpInv
<1> QED
  BY HttpInvInit, HttpInvStep, PTL DEF Spec

\* A connection that TcpServer knows is found by its token and has its Connection structure,
\* and so has the one whose requests the receive loop still parses, however often the server
\* is stopped and started, by handlers too: what the assertions on getContext() need.
THEOREM ContextsAlive == Spec => []ContextAlive
<1>1. HttpInv => ContextAlive
  <2> SUFFICES ASSUME HttpInv, NEW c \in Conns
               PROVE  /\ Open(c) => ctx[c].alive /\ At(cab, token[c]) = c
                      /\ rx.c = c /\ rx.buf # <<>> => ctx[c].alive
    BY DEF ContextAlive
  <2>1. Open(c) => ctx[c].alive
    BY DEF HttpInv, Linked
  <2>2. Open(c) => At(cab, token[c]) = c
    BY OpenHeld
  <2>3. rx.c = c /\ rx.buf # <<>> => ctx[c].alive
    BY DEF HttpInv, RxOK, Conns, NoConn
  <2> QED
    BY <2>1, <2>2, <2>3
<1> QED
  BY <1>1, HttpInvariance, PTL
=============================================================================
