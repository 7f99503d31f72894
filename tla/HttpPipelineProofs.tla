------------------------- MODULE HttpPipelineProofs -------------------------
(***************************************************************************)
(* Proofs about the pipelining of the HTTP server: responses leave in the   *)
(* order of the requests, for any number of connections and requests, as   *)
(* long as the server is started once.  A second start() gives the tokens   *)
(* of the first out again, and with them the theorem is lost.               *)
(***************************************************************************)
EXTENDS HttpServerProofs

\* Tokens count the connections: no two have the same, because clear() is followed by no
\* start().
TokenIds ==
  /\ \A c \in Conns : c <= accepted => token[c].id = c
  /\ server = "running" \/ starts = 0 => cab.last_id = accepted
  /\ server = "running" => starts > 0

\* The Contexts that handlers keep carry the tokens of the connections they came from.
HeldOK ==
  /\ \A h \in held : h.own <= accepted /\ h.tok = token[h.own]
  /\ rx.c <= accepted

\* The request a handler works on is no kept one.
Apart(c) ==
  Open(c) /\ rx.c = c /\ rx.handling => \A h \in held : h.own = c => h.idx # ctx[c].req - 1

\* A connection's responses are in order; while it is open its requests are accounted for,
\* and what waits is its own.
Piped(c) ==
  /\ InRequestOrder(c)
  /\ Open(c) => Accounted(c) /\ WriteArmed(c) /\ \A m \in ctx[c].buff : m[1] = c

PipeInv == TokenIds /\ HeldOK /\ \A c \in Conns : Piped(c) /\ Apart(c)

-----------------------------------------------------------------------------
(* What leaves                                                             *)

\* What was written and what waits to be.
Chain(s) == s.wire \o s.out

\* v is a followed by b.
Joined(a, b, v) ==
  /\ v = a \o b /\ v \in Seq(Messages)
  /\ Len(a) \in Nat /\ Len(b) \in Nat /\ Len(v) = Len(a) + Len(b)
  /\ \A i \in 1..Len(a) : v[i] = a[i]
  /\ \A i \in 1..Len(b) : v[Len(a) + i] = b[i]

\* Two sequences one after the other.
LEMMA CatIs ==
  ASSUME NEW a \in Seq(Messages), NEW b \in Seq(Messages)
  PROVE  Joined(a, b, a \o b)
<1>1. a \o b \in Seq(Messages) /\ Len(a) \in Nat /\ Len(b) \in Nat /\ Len(a \o b) = Len(a) + Len(b)
  OBVIOUS
<1>2. \A i \in 1..Len(a) : (a \o b)[i] = a[i]
  OBVIOUS
<1>3. \A i \in 1..Len(b) : (a \o b)[Len(a) + i] = b[i]
  BY <1>1
<1> QED
  BY <1>1, <1>2, <1>3 DEF Joined

\* A sequence cut in two.
LEMMA CutIs ==
  ASSUME NEW ms \in Seq(Messages), NEW n \in 0..Len(ms)
  PROVE  \E a \in Seq(Messages), b \in Seq(Messages) :
           /\ a = SubSeq(ms, 1, n) /\ b = SubSeq(ms, n + 1, Len(ms))
           /\ Len(a) = n /\ Len(b) = Len(ms) - n
           /\ \A i \in 1..n : a[i] = ms[i]
           /\ \A i \in 1..(Len(ms) - n) : b[i] = ms[n + i]
<1>1. Len(ms) \in Nat
  OBVIOUS
<1>2. /\ SubSeq(ms, 1, n) \in Seq(Messages) /\ Len(SubSeq(ms, 1, n)) = n
      /\ \A i \in 1..n : SubSeq(ms, 1, n)[i] = ms[i]
  BY <1>1
<1>3. /\ SubSeq(ms, n + 1, Len(ms)) \in Seq(Messages)
      /\ Len(SubSeq(ms, n + 1, Len(ms))) = Len(ms) - n
      /\ \A i \in 1..(Len(ms) - n) : SubSeq(ms, n + 1, Len(ms))[i] = ms[n + i]
  BY <1>1
<1> QED
  BY <1>2, <1>3

\* Two sequences with the same values are one.
LEMMA SameValues ==
  ASSUME NEW x \in Seq(Messages), NEW y \in Seq(Messages), Len(x) = Len(y),
         \A i \in 1..Len(y) : x[i] = y[i]
  PROVE  x = y
<1>1. x \in [1..Len(y) -> Messages] /\ y \in [1..Len(y) -> Messages]
  OBVIOUS
<1> QED
  BY <1>1

\* Its parts make the sequence again.
LEMMA CutJoins ==
  ASSUME NEW o \in Seq(Messages), NEW n \in 0..Len(o),
         NEW a \in Seq(Messages), NEW b \in Seq(Messages),
         Len(a) = n, Len(b) = Len(o) - n,
         \A i \in 1..n : a[i] = o[i],
         \A i \in 1..(Len(o) - n) : b[i] = o[n + i]
  PROVE  a \o b = o
<1>1. Len(o) \in Nat /\ n \in Nat /\ n <= Len(o)
  OBVIOUS
<1>2. a \o b \in Seq(Messages) /\ Len(a \o b) = Len(o)
  BY <1>1, SMTT(30)
<1>3. ASSUME NEW i \in 1..Len(o) PROVE (a \o b)[i] = o[i]
  <2>1. CASE i <= n
    <3>1. (a \o b)[i] = a[i]
      BY <1>1, <2>1, SMTT(30)
    <3> QED
      BY <1>1, <2>1, <3>1
  <2>2. CASE i > n
    <3>1. (a \o b)[i] = b[i - n]
      BY <1>1, <2>2, SMTT(30)
    <3>2. i - n \in 1..(Len(o) - n) /\ n + (i - n) = i
      BY <1>1, <2>2
    <3> QED
      BY <3>1, <3>2
  <2> QED
    BY <1>1, <2>1, <2>2
<1> QED
  BY <1>2, <1>3, SameValues, Zenon

\* From s to z the first k of ms were added; all of them unless the peer is gone.
Grown(s, ms, z, k) ==
  /\ Chain(z) \in Seq(Messages) /\ Len(Chain(z)) = Len(Chain(s)) + k
  /\ \A i \in 1..Len(Chain(s)) : Chain(z)[i] = Chain(s)[i]
  /\ \A i \in 1..k : Chain(z)[Len(Chain(s)) + i] = ms[i]
  /\ s.peer = "open" => k = Len(ms)

\* A socket's sequences.
LEMMA SockSeqs ==
  ASSUME NEW s \in SockType(Messages)
  PROVE  /\ s.wire \in Seq(Messages) /\ s.out \in Seq(Messages) /\ Chain(s) \in Seq(Messages)
         /\ Len(s.wire) \in Nat /\ Len(s.out) \in Nat /\ Len(Chain(s)) \in Nat
         /\ Len(Chain(s)) = Len(s.wire) + Len(s.out)
<1>1. s.wire \in Seq(Messages) /\ s.out \in Seq(Messages)
  BY DEF SockType
<1>2. Joined(s.wire, s.out, Chain(s))
  BY <1>1, CatIs DEF Chain
<1>3. Len(Chain(s)) \in Nat
  <2>1. ASSUME NEW v \in Seq(Messages) PROVE Len(v) \in Nat
    OBVIOUS
  <2>2. Chain(s) \in Seq(Messages)
    BY <1>2 DEF Joined
  <2> QED
    BY <2>1, <2>2
<1> QED
  BY <1>1, <1>2, <1>3 DEF Joined

\* send() adds to what leaves, and arms the write event unless nothing waits and the peer is
\* gone.
LEMMA SendGrows ==
  ASSUME NEW s \in SockType(Messages), NEW ms \in Seq(Messages), NEW n \in 0..Len(ms),
         NEW dropped \in BOOLEAN, NEW z, SentFrom(s, ms, n, dropped, z), ms # <<>>,
         dropped => s.peer = "gone", s.out # <<>> => n = 0 /\ ~dropped /\ s.wev
  PROVE  /\ \E k \in 0..Len(ms) : Grown(s, ms, z, k)
         /\ z.wev \/ (z.out = <<>> /\ z.peer # "open")
<1>1. /\ s.wire \in Seq(Messages) /\ s.out \in Seq(Messages) /\ Chain(s) \in Seq(Messages)
      /\ Len(s.wire) \in Nat /\ Len(s.out) \in Nat /\ Len(ms) \in Nat /\ Len(ms) >= 1
  <2>1. Len(ms) \in Nat /\ Len(ms) >= 1
    OBVIOUS
  <2> QED
    BY <2>1, SockSeqs
<1>2. CASE s.out # <<>>
  <2>1. z.wire = s.wire /\ z.out = s.out \o ms /\ ~dropped
    BY <1>2 DEF SentFrom
  <2>2. z.wev
    BY <1>2 DEF SentFrom
  <2>3. PICK w \in Seq(Messages), o \in Seq(Messages) : w = s.wire /\ o = s.out
    BY <1>1
  <2>4. PICK p, q, r : Joined(o, ms, p) /\ Joined(w, o, q) /\ Joined(w, p, r)
    <3>1. Joined(o, ms, o \o ms) /\ Joined(w, o, w \o o)
      BY CatIs
    <3>2. o \o ms \in Seq(Messages)
      BY <3>1 DEF Joined
    <3>3. Joined(w, o \o ms, w \o (o \o ms))
      BY <3>2, CatIs
    <3> QED
      BY <3>1, <3>3
  <2>5. Chain(s) = q /\ Chain(z) = r
    BY <2>1, <2>3, <2>4 DEF Chain, Joined
  <2>6. Len(r) = Len(q) + Len(ms) /\ r \in Seq(Messages) /\ Len(q) = Len(w) + Len(o)
        /\ Len(w) \in Nat /\ Len(o) \in Nat /\ Len(p) = Len(o) + Len(ms)
    BY <2>4 DEF Joined
  <2>7. ASSUME NEW i \in 1..Len(q) PROVE r[i] = q[i]
    <3>1. CASE i <= Len(w)
      BY <3>1, <2>4, <2>6 DEF Joined
    <3>2. CASE i > Len(w)
      <4>1. PICK j \in 1..Len(o) : i = Len(w) + j /\ j \in 1..Len(p)
        <5>1. i - Len(w) \in 1..Len(o) /\ i - Len(w) \in 1..Len(p) /\ i = Len(w) + (i - Len(w))
          BY <3>2, <2>6, <1>1, SMTT(30)
        <5> QED
          BY <5>1
      <4>2. r[Len(w) + j] = p[j] /\ p[j] = o[j] /\ q[Len(w) + j] = o[j]
        BY <4>1, <2>4 DEF Joined
      <4> QED
        BY <4>1, <4>2
    <3> QED
      BY <3>1, <3>2, <2>6
  <2>8. ASSUME NEW i \in 1..Len(ms) PROVE r[Len(q) + i] = ms[i]
    <3>1. Len(o) + i \in 1..Len(p) /\ Len(w) + (Len(o) + i) = Len(q) + i
      BY <2>6, <1>1
    <3>2. r[Len(w) + (Len(o) + i)] = p[Len(o) + i] /\ p[Len(o) + i] = ms[i]
      BY <3>1, <2>4 DEF Joined
    <3> QED
      BY <3>1, <3>2
  <2>9. Grown(s, ms, z, Len(ms))
    BY <2>5, <2>6, <2>7, <2>8 DEF Grown
  <2> QED
    BY <1>1, <2>2, <2>9
<1>3. CASE s.out = <<>> /\ ~dropped
  <2>1. /\ z.wire = s.wire \o SubSeq(ms, 1, n) /\ z.out = SubSeq(ms, n + 1, Len(ms))
    BY <1>3 DEF SentFrom
  <2>2. z.wev
    BY <1>3 DEF SentFrom
  <2>3. PICK a \in Seq(Messages), b \in Seq(Messages) :
          /\ a = SubSeq(ms, 1, n) /\ b = SubSeq(ms, n + 1, Len(ms))
          /\ Len(a) = n /\ Len(b) = Len(ms) - n
          /\ \A i \in 1..n : a[i] = ms[i]
          /\ \A i \in 1..(Len(ms) - n) : b[i] = ms[n + i]
    BY CutIs
  <2>4. PICK w \in Seq(Messages) : w = s.wire
    BY <1>1
  <2>5. PICK v, u : Joined(w, a, v) /\ Joined(v, b, u)
    <3>1. Joined(w, a, w \o a)
      BY CatIs
    <3>2. w \o a \in Seq(Messages)
      BY <3>1 DEF Joined
    <3>3. Joined(w \o a, b, (w \o a) \o b)
      BY <3>2, CatIs
    <3> QED
      BY <3>1, <3>3
  <2>6. /\ Len(w) \in Nat /\ Len(v) = Len(w) + n /\ u \in Seq(Messages)
        /\ Len(u) = Len(v) + (Len(ms) - n)
    BY <2>3, <2>5 DEF Joined
  <2>7. Chain(s) = w /\ Chain(z) = u
    BY <1>1, <1>3, <2>1, <2>3, <2>4, <2>5 DEF Chain, Joined
  <2>8. ASSUME NEW i \in 1..Len(w) PROVE u[i] = w[i]
    <3>1. i \in 1..Len(v)
      BY <2>6
    <3> QED
      BY <3>1, <2>5 DEF Joined
  <2>9. ASSUME NEW i \in 1..Len(ms) PROVE u[Len(w) + i] = ms[i]
    <3>1. CASE i <= n
      <4>1. i \in 1..Len(a) /\ Len(w) + i \in 1..Len(v)
        BY <3>1, <2>3, <2>6
      <4> QED
        BY <4>1, <3>1, <2>3, <2>5 DEF Joined
    <3>2. CASE i > n
      <4>1. PICK j \in 1..(Len(ms) - n) : i = n + j
        <5>1. i - n \in 1..(Len(ms) - n) /\ i = n + (i - n)
          BY <3>2, <1>1
        <5> QED
          BY <5>1
      <4>2. u[Len(v) + j] = b[j] /\ b[j] = ms[n + j]
        BY <2>3, <2>5 DEF Joined
      <4>3. Len(v) + j = Len(w) + i
        BY <4>1, <2>6
      <4> QED
        BY <4>1, <4>2, <4>3
    <3> QED
      BY <3>1, <3>2
  <2>10. Grown(s, ms, z, Len(ms))
    <3>1. PICK d : d = Len(ms)
      OBVIOUS
    <3>2. Chain(z) \in Seq(Messages) /\ Len(Chain(z)) = Len(Chain(s)) + d
      BY <1>1, <2>6, <2>7, <3>1
    <3>3. \A i \in 1..Len(Chain(s)) : Chain(z)[i] = Chain(s)[i]
      BY <2>7, <2>8
    <3>4. \A i \in 1..d : Chain(z)[Len(Chain(s)) + i] = ms[i]
      BY <2>7, <2>9, <3>1
    <3> QED
      BY <3>1, <3>2, <3>3, <3>4 DEF Grown
  <2> QED
    BY <1>1, <2>2, <2>10
<1>4. CASE s.out = <<>> /\ dropped
  <2>1. z.wire = s.wire \o SubSeq(ms, 1, n) /\ z.out = <<>> /\ z.peer = s.peer /\ s.peer = "gone"
    BY <1>4 DEF SentFrom
  <2>2. PICK a \in Seq(Messages) : a = SubSeq(ms, 1, n) /\ Len(a) = n /\ \A i \in 1..n : a[i] = ms[i]
    BY CutIs
  <2>3. PICK w \in Seq(Messages) : w = s.wire
    BY <1>1
  <2>4. Joined(w, a, w \o a)
    BY CatIs
  <2>5. PICK v : v = w \o a
    OBVIOUS
  <2>6. Chain(s) = w /\ Chain(z) = v
    BY <1>4, <2>1, <2>2, <2>3, <2>4, <2>5 DEF Chain, Joined
  <2>7. v \in Seq(Messages) /\ Len(v) = Len(w) + n /\ \A i \in 1..Len(w) : v[i] = w[i]
    BY <2>2, <2>4, <2>5 DEF Joined
  <2>8. \A i \in 1..n : v[Len(w) + i] = ms[i]
    BY <2>2, <2>4, <2>5 DEF Joined
  <2>9. Grown(s, ms, z, n)
    BY <2>1, <2>6, <2>7, <2>8 DEF Grown
  <2> QED
    BY <2>1, <2>9
<1> QED
  BY <1>2, <1>3, <1>4

\* The responses of L are of connection c, in order and before res; with the peer open they
\* are all of them.
Ordered(L, c, res, peer) ==
  /\ \A i, j \in 1..Len(L) : i < j => L[i][2] < L[j][2]
  /\ \A i \in 1..Len(L) : L[i][1] = c /\ L[i][2] < res
  /\ peer = "open" => Len(L) = res

\* Responses that follow in order keep the order.
LEMMA OrderGrows ==
  ASSUME NEW c \in Conns, NEW s \in SockType(Messages), NEW z, NEW ms \in Seq(Messages),
         NEW k \in 0..Len(ms), Grown(s, ms, z, k), NEW res \in Nat, NEW end \in Nat,
         Ordered(Chain(s), c, res, s.peer), Len(ms) = end - res,
         \A i \in 1..Len(ms) : ms[i][1] = c /\ ms[i][2] = res + i - 1
  PROVE  Ordered(Chain(z), c, end, s.peer)
<1>1. PICK L \in Seq(Messages) : L = Chain(s)
  BY SockSeqs
<1>2. PICK M \in Seq(Messages) : M = Chain(z)
  BY DEF Grown
<1>3. Len(L) \in Nat /\ Len(M) \in Nat /\ Len(ms) \in Nat
  OBVIOUS
<1>4. /\ Len(M) = Len(L) + k
      /\ s.peer = "open" => k = Len(ms)
      /\ \A i \in 1..Len(L) : M[i] = L[i]
      /\ \A i \in 1..k : M[Len(L) + i] = ms[i]
  BY <1>1, <1>2 DEF Grown
<1>5. /\ \A i, j \in 1..Len(L) : i < j => L[i][2] < L[j][2]
      /\ \A i \in 1..Len(L) : L[i][1] = c /\ L[i][2] < res
      /\ s.peer = "open" => Len(L) = res
  BY <1>1 DEF Ordered
<1>6. \A i \in 1..Len(L) : L[i][2] \in Nat
  <2>1. ASSUME NEW i \in 1..Len(L) PROVE L[i][2] \in Nat
    <3>1. L[i] \in Messages
      OBVIOUS
    <3> QED
      BY <3>1, ReqsAssumption, SMTT(30) DEF Messages, Indexes
  <2> QED
    BY <2>1
<1>7. ASSUME NEW i \in 1..Len(M), i > Len(L)
      PROVE  M[i][1] = c /\ M[i][2] = res + (i - Len(L)) - 1 /\ i - Len(L) \in 1..Len(ms)
  <2>1. PICK j \in 1..k : j = i - Len(L) /\ i = Len(L) + j
    <3>1. i - Len(L) \in 1..k /\ i = Len(L) + (i - Len(L))
      BY <1>3, <1>4, <1>7
    <3> QED
      BY <3>1
  <2>2. M[i] = ms[j] /\ j \in 1..Len(ms)
    BY <2>1, <1>3, <1>4
  <2> QED
    BY <2>1, <2>2
<1>8. ASSUME NEW i \in 1..Len(M) PROVE M[i][1] = c /\ M[i][2] < end
  <2>1. CASE i <= Len(L)
    <3>1. i \in 1..Len(L)
      BY <2>1, <1>3
    <3>2. M[i] = L[i] /\ L[i][1] = c /\ L[i][2] < res /\ L[i][2] \in Nat /\ res <= end
      BY <3>1, <1>3, <1>4, <1>5, <1>6
    <3> QED
      BY <3>2
  <2>2. CASE i > Len(L)
    <3>1. M[i][1] = c /\ M[i][2] = res + (i - Len(L)) - 1 /\ i - Len(L) \in 1..Len(ms)
      BY <2>2, <1>7
    <3> QED
      BY <3>1, <1>3
  <2> QED
    BY <2>1, <2>2, <1>3
<1>9. ASSUME NEW i \in 1..Len(M), NEW j \in 1..Len(M), i < j PROVE M[i][2] < M[j][2]
  <2>1. CASE j <= Len(L)
    <3>1. i \in 1..Len(L) /\ j \in 1..Len(L)
      BY <2>1, <1>3, <1>9
    <3> QED
      BY <3>1, <1>4, <1>5, <1>9
  <2>2. CASE i <= Len(L) /\ j > Len(L)
    <3>1. i \in 1..Len(L)
      BY <2>2, <1>3
    <3>2. M[i] = L[i] /\ L[i][2] < res /\ L[i][2] \in Nat
      BY <3>1, <1>4, <1>5, <1>6
    <3>3. M[j][2] = res + (j - Len(L)) - 1
      BY <2>2, <1>7
    <3> QED
      BY <2>2, <3>2, <3>3, <1>3, SMTT(30)
  <2>3. CASE i > Len(L)
    <3>1. j > Len(L)
      BY <2>3, <1>3, <1>9
    <3>2. M[i][2] = res + (i - Len(L)) - 1 /\ M[j][2] = res + (j - Len(L)) - 1
      BY <2>3, <3>1, <1>7
    <3> QED
      BY <3>2, <1>3, <1>9
  <2> QED
    BY <2>1, <2>2, <2>3, <1>3
<1>10. s.peer = "open" => Len(M) = end
  <2> SUFFICES ASSUME s.peer = "open" PROVE Len(M) = end
    OBVIOUS
  <2>1. Len(M) = Len(L) + k /\ k = Len(ms) /\ Len(L) = res
    BY <1>4, <1>5
  <2>2. Len(ms) = end - res
    OBVIOUS
  <2>3. res + (end - res) = end
    OBVIOUS
  <2> QED
    BY <2>1, <2>2, <2>3
<1> QED
  BY <1>2, <1>8, <1>9, <1>10 DEF Ordered

-----------------------------------------------------------------------------
(* The account of a connection's requests                                  *)

\* W are with their handlers, B wait, those below res were sent; req in all.  seen: a last
\* request was seen.
Account(W, B, res, req, seen) ==
  /\ W \cup B \cup 0..(res - 1) = 0..(req - 1)
  /\ W \cap B = {} /\ W \cap 0..(res - 1) = {} /\ B \cap 0..(res - 1) = {}
  /\ B # {} => res \in W \/ seen

\* The numbers in an account.
LEMMA AccountNumbers ==
  ASSUME NEW W, NEW B, NEW res \in Nat, NEW req \in Nat, NEW seen, Account(W, B, res, req, seen)
  PROVE  /\ res <= req
         /\ \A i \in W : i \in Nat /\ i >= res /\ i < req
         /\ \A i \in B : i \in Nat /\ i >= res /\ i < req
         /\ \A i \in Nat : i >= res /\ i < req => i \in W \/ i \in B
<1>1. \A i \in W : i \in 0..(req - 1) /\ i \notin 0..(res - 1)
  BY DEF Account
<1>2. \A i \in B : i \in 0..(req - 1) /\ i \notin 0..(res - 1)
  BY DEF Account
<1>3. \A i \in 0..(req - 1) : i \in W \/ i \in B \/ i \in 0..(res - 1)
  BY DEF Account
<1>4. \A i \in 0..(res - 1) : i \in 0..(req - 1)
  BY DEF Account
<1>5. res <= req
  <2>1. CASE res = 0
    BY <2>1
  <2>2. CASE res > 0
    <3>1. res - 1 \in 0..(res - 1)
      BY <2>2
    <3> QED
      BY <3>1, <1>4
  <2> QED
    BY <2>1, <2>2
<1> QED
  BY <1>1, <1>2, <1>3, <1>5

\* The next response leaves, with those that follow it.
LEMMA AccountSent ==
  ASSUME NEW W, NEW B, NEW res \in Nat, NEW req \in Nat, NEW end \in Nat, NEW seen,
         Account(W, B, res, req, seen), res \in W, end > res,
         \A j \in (res + 1)..(end - 1) : j \in B, end \notin B \/ seen
  PROVE  Account(W \ {res}, B \ ((res + 1)..(end - 1)), end, req, seen)
<1>1. /\ res <= req
      /\ \A i \in W : i \in Nat /\ i >= res /\ i < req
      /\ \A i \in B : i \in Nat /\ i >= res /\ i < req
      /\ \A i \in Nat : i >= res /\ i < req => i \in W \/ i \in B
  BY AccountNumbers
<1>2. W \cap B = {}
  BY DEF Account
<1> DEFINE W2 == W \ {res}
           B2 == B \ ((res + 1)..(end - 1))
<1>3. \A i \in W2 : i \in W /\ i # res /\ i >= end
  BY <1>1, <1>2
<1>4. \A i \in B2 : i \in B /\ i >= end
  BY <1>1, <1>2
<1>5. end <= req
  <2>1. CASE end = res + 1
    BY <2>1, <1>1
  <2>2. CASE end > res + 1
    <3>1. end - 1 \in (res + 1)..(end - 1)
      BY <2>2
    <3> QED
      BY <3>1, <1>1
  <2> QED
    BY <2>1, <2>2
<1>6. \A i \in Nat : i >= end /\ i < req => i \in W2 \/ i \in B2
  BY <1>1
<1>7. W2 \cup B2 \cup 0..(end - 1) = 0..(req - 1)
  <2>1. \A i \in W2 \cup B2 \cup 0..(end - 1) : i \in 0..(req - 1)
    BY <1>1, <1>3, <1>4, <1>5
  <2>2. \A i \in 0..(req - 1) : i \in W2 \cup B2 \cup 0..(end - 1)
    BY <1>5, <1>6
  <2> QED
    BY <2>1, <2>2
<1>8. W2 \cap B2 = {} /\ W2 \cap 0..(end - 1) = {} /\ B2 \cap 0..(end - 1) = {}
  BY <1>1, <1>2, <1>3, <1>4
<1>9. B2 # {} => end \in W2 \/ seen
  <2> SUFFICES ASSUME NEW i \in B2, ~seen PROVE end \in W2
    OBVIOUS
  <2>1. end \notin B
    OBVIOUS
  <2>2. i > end /\ i < req /\ i \in Nat
    BY <2>1, <1>1, <1>4
  <2> QED
    BY <2>1, <2>2, <1>6
<1> QED
  BY <1>7, <1>8, <1>9 DEF Account

\* A response that is not the next one waits.
LEMMA AccountWaits ==
  ASSUME NEW W, NEW B, NEW res \in Nat, NEW req \in Nat, NEW idx, NEW seen,
         Account(W, B, res, req, seen), idx \in W, idx # res
  PROVE  Account(W \ {idx}, B \cup {idx}, res, req, seen)
<1>1. /\ res <= req
      /\ \A i \in W : i \in Nat /\ i >= res /\ i < req
      /\ \A i \in Nat : i >= res /\ i < req => i \in W \/ i \in B
  BY AccountNumbers
<1>2. (W \ {idx}) \cup (B \cup {idx}) \cup 0..(res - 1) = 0..(req - 1)
  <2>1. (W \ {idx}) \cup (B \cup {idx}) = W \cup B
    OBVIOUS
  <2> QED
    BY <2>1 DEF Account
<1>3. idx \notin 0..(res - 1)
  BY DEF Account
<1>4. /\ (W \ {idx}) \cap (B \cup {idx}) = {} /\ (W \ {idx}) \cap 0..(res - 1) = {}
      /\ (B \cup {idx}) \cap 0..(res - 1) = {}
  BY <1>3 DEF Account
<1>5. res \in W \ {idx} \/ seen
  <2>1. res \in W \/ res \in B
    BY <1>1
  <2> QED
    BY <2>1 DEF Account
<1> QED
  BY <1>2, <1>4, <1>5 DEF Account

\* A request comes in.
LEMMA AccountNew ==
  ASSUME NEW W, NEW B, NEW res \in Nat, NEW req \in Nat, NEW seen, NEW seen2,
         Account(W, B, res, req, seen), seen => seen2
  PROVE  Account(W \cup {req}, B, res, req + 1, seen2)
<1>1. /\ res <= req
      /\ \A i \in W : i \in Nat /\ i >= res /\ i < req
      /\ \A i \in B : i \in Nat /\ i >= res /\ i < req
      /\ \A i \in Nat : i >= res /\ i < req => i \in W \/ i \in B
  BY AccountNumbers
<1>2. (W \cup {req}) \cup B \cup 0..(res - 1) = 0..((req + 1) - 1)
  <2>1. \A i \in (W \cup {req}) \cup B \cup 0..(res - 1) : i \in 0..((req + 1) - 1)
    BY <1>1
  <2>2. \A i \in 0..((req + 1) - 1) : i \in (W \cup {req}) \cup B \cup 0..(res - 1)
    BY <1>1
  <2> QED
    BY <2>1, <2>2
<1>3. /\ (W \cup {req}) \cap B = {} /\ (W \cup {req}) \cap 0..(res - 1) = {}
      /\ B \cap 0..(res - 1) = {}
  BY <1>1 DEF Account
<1>4. B # {} => res \in W \cup {req} \/ seen2
  BY DEF Account
<1> QED
  BY <1>2, <1>3, <1>4 DEF Account

-----------------------------------------------------------------------------
(* One connection                                                          *)

\* What is said of a connection, in terms of its parts.
LEMMA PipedParts ==
  ASSUME NEW c \in Conns
  PROVE  Piped(c) <=> /\ Ordered(Chain(sock[c]), c, ctx[c].res, sock[c].peer)
                      /\ Open(c) => /\ Account(WithHandler(c), Waiting(c), ctx[c].res, ctx[c].req,
                                               ctx[c].close # Never)
                                    /\ WriteArmed(c) /\ \A m \in ctx[c].buff : m[1] = c
<1>1. InRequestOrder(c) <=> Ordered(Chain(sock[c]), c, ctx[c].res, sock[c].peer)
  BY Zenon DEF InRequestOrder, Ordered, Leaving, Chain
<1>2. Accounted(c) <=> Account(WithHandler(c), Waiting(c), ctx[c].res, ctx[c].req, ctx[c].close # Never)
  BY Zenon DEF Accounted, Account
<1> QED
  BY <1>1, <1>2, Zenon DEF Piped

\* The same after a step.
LEMMA PipedPartsNext ==
  ASSUME NEW c \in Conns, NEW z, z = sock'[c], NEW x, x = ctx'[c],
         Ordered(Chain(z), c, x.res, z.peer),
         z.bfd = "open" => /\ Account(WithHandler(c)', {m[2] : m \in x.buff}, x.res, x.req,
                                      x.close # Never)
                           /\ z.out # <<>> \/ (x.res > x.close /\ z.peer = "open") => z.wev
                           /\ \A m \in x.buff : m[1] = c
  PROVE  Piped(c)'
<1>1. InRequestOrder(c)'
  BY Zenon DEF InRequestOrder, Ordered, Leaving, Chain
<1>2. Open(c)' => z.bfd = "open"
  BY DEF Open
<1>3. ASSUME z.bfd = "open" PROVE Accounted(c)'
  <2>1. Account(WithHandler(c)', {m[2] : m \in x.buff}, x.res, x.req, x.close # Never)
    BY <1>3
  <2>2. Waiting(c)' = {m[2] : m \in x.buff}
    BY DEF Waiting
  <2>3. Account(WithHandler(c)', Waiting(c)', ctx'[c].res, ctx'[c].req, ctx'[c].close # Never)
    BY <2>1, <2>2
  <2> QED
    BY <2>3, Zenon DEF Accounted, Account, Never
<1>4. ASSUME z.bfd = "open" PROVE WriteArmed(c)' /\ \A m \in ctx'[c].buff : m[1] = c
  BY <1>4, Zenon DEF WriteArmed
<1> QED
  BY <1>1, <1>2, <1>3, <1>4, Zenon DEF Piped

\* A connection that a step leaves alone, or closes.
LEMMA PipedKept ==
  ASSUME NEW c \in Conns, Piped(c), Chain(sock'[c]) = Chain(sock[c]),
         sock'[c].peer = sock[c].peer \/ sock'[c].peer = "gone", ctx'[c].res = ctx[c].res,
         sock'[c].bfd = "open" =>
           /\ Open(c) /\ ctx'[c].req = ctx[c].req /\ ctx'[c].buff = ctx[c].buff
           /\ ctx'[c].close = ctx[c].close
           /\ WithHandler(c)' = WithHandler(c)
           /\ \/ sock'[c].wev = sock[c].wev /\ sock'[c].out = sock[c].out
              \/ WriteArmed(c)'
  PROVE  Piped(c)'
<1>1. Ordered(Chain(sock[c]), c, ctx[c].res, sock[c].peer)
  BY PipedParts
<1>2. Ordered(Chain(sock'[c]), c, ctx'[c].res, sock'[c].peer)
  BY <1>1 DEF Ordered
<1>3. ASSUME sock'[c].bfd = "open"
      PROVE  /\ Account(WithHandler(c)', {m[2] : m \in ctx'[c].buff}, ctx'[c].res, ctx'[c].req,
                        ctx'[c].close # Never)
             /\ \A m \in ctx'[c].buff : m[1] = c
  <2>1. /\ Account(WithHandler(c), Waiting(c), ctx[c].res, ctx[c].req, ctx[c].close # Never)
        /\ \A m \in ctx[c].buff : m[1] = c
    BY <1>3, PipedParts
  <2> QED
    BY <1>3, <2>1 DEF Waiting
<1>4. ASSUME sock'[c].bfd = "open"
      PROVE  sock'[c].out # <<>> \/ (ctx'[c].res > ctx'[c].close /\ sock'[c].peer = "open") => sock'[c].wev
  <2>1. CASE WriteArmed(c)'
    BY <2>1, Zenon DEF WriteArmed
  <2>2. CASE sock'[c].wev = sock[c].wev /\ sock'[c].out = sock[c].out
    <3>1. WriteArmed(c)
      BY <1>4, PipedParts
    <3>2. sock[c].out # <<>> \/ (ctx[c].res > ctx[c].close /\ sock[c].peer = "open") => sock[c].wev
      BY <3>1, Zenon DEF WriteArmed
    <3> QED
      BY <3>2, <2>2, <1>4
  <2> QED
    BY <1>4, <2>1, <2>2
<1> QED
  BY <1>2, <1>3, <1>4, PipedPartsNext

\* The next response is committed: it leaves with those that waited for it.
LEMMA PipedSent ==
  ASSUME HttpInv, NEW c \in Conns, Open(c), Piped(c), NEW idx \in Indexes, idx = ctx[c].res,
         idx \in WithHandler(c), WithHandler(c)' = WithHandler(c) \ {idx},
         Send(c, Batch(ctx[c], c, idx)),
         ctx' = [ctx EXCEPT ![c] = [ctx[c] EXCEPT !.res = After(ctx[c], idx),
                    !.buff = {m \in ctx[c].buff : m[2] \notin (idx + 1)..(After(ctx[c], idx) - 1)}]]
  PROVE  Piped(c)'
<1>1. sock \in [Conns -> SockType(Messages)] /\ ctx \in [Conns -> CtxType]
  BY DEF HttpInv, HttpType
<1>2. PICK y \in CtxType : y = ctx[c]
  BY <1>1
<1>3. PICK s \in SockType(Messages) : s = sock[c]
  BY <1>1
<1>4. PICK end \in Nat : /\ end = After(y, idx) /\ end \in (idx + 1)..MaxReqs
                         /\ end > y.close \/ \A m \in y.buff : m[2] # end
                         /\ \A j \in (idx + 1)..(end - 1) : \E m \in y.buff : m[2] = j
  <2>1. LET e == After(y, idx)
        IN /\ e \in (idx + 1)..MaxReqs
           /\ e > y.close \/ \A m \in y.buff : m[2] # e
           /\ \A j \in (idx + 1)..(e - 1) : j <= y.close /\ \E m \in y.buff : m[2] = j
    BY AfterIs
  <2>2. After(y, idx) \in Nat
    BY <2>1, ReqsAssumption DEF Indexes
  <2> QED
    BY <2>1, <2>2
<1>5. PICK ms \in Seq(Messages) : /\ ms = Batch(y, c, idx) /\ Len(ms) = end - idx /\ Len(ms) >= 1
                                  /\ \A k \in 1..Len(ms) : ms[k][2] = idx + k - 1
                                  /\ \A k \in 1..Len(ms) : ms[k] \in y.buff \/ ms[k] = <<c, idx>>
  BY <1>4, BatchIs
<1>6. PICK n \in 0..Len(ms), dropped \in BOOLEAN :
        /\ dropped => s.peer = "gone" /\ n < Len(ms)
        /\ s.out # <<>> => n = 0 /\ ~dropped
        /\ sock' = [sock EXCEPT ![c] = Sent(s, ms, n, dropped)]
  BY <1>2, <1>3, <1>5 DEF Send
<1>7. PICK z : z = Sent(s, ms, n, dropped) /\ z = sock'[c]
  BY <1>1, <1>6
<1>8. SentFrom(s, ms, n, dropped, z)
  BY <1>7, SentIs
<1>9. z.peer = s.peer /\ z.bfd = s.bfd
  BY <1>8 DEF SentFrom
<1>10. /\ Ordered(Chain(s), c, y.res, s.peer)
       /\ Account(WithHandler(c), Waiting(c), y.res, y.req, y.close # Never)
       /\ WriteArmed(c) /\ \A m \in y.buff : m[1] = c
  BY <1>2, <1>3, PipedParts
<1>11. s.out # <<>> => s.wev
  BY <1>3, <1>10 DEF WriteArmed
<1>12. ms # <<>>
  BY <1>5
<1>13. /\ \E k \in 0..Len(ms) : Grown(s, ms, z, k)
       /\ z.wev \/ (z.out = <<>> /\ z.peer # "open")
  BY <1>6, <1>8, <1>11, <1>12, SendGrows
<1>14. Ordered(Chain(z), c, end, z.peer)
  <2>1. PICK k \in 0..Len(ms) : Grown(s, ms, z, k)
    BY <1>13
  <2>2. \A i \in 1..Len(ms) : ms[i][1] = c /\ ms[i][2] = idx + i - 1
    BY <1>5, <1>10
  <2>3. idx \in Nat
    BY ReqsAssumption DEF Indexes
  <2>4. Ordered(Chain(s), c, idx, s.peer)
    BY <1>2, <1>10
  <2>5. Ordered(Chain(z), c, end, s.peer)
    BY <2>1, <2>2, <2>3, <2>4, <1>4, <1>5, OrderGrows, ZenonT(30)
  <2> QED
    BY <2>5, <1>9
<1>15. PICK b \in SUBSET Messages : b = {m \in y.buff : m[2] \notin (idx + 1)..(end - 1)}
  <2>1. y.buff \in SUBSET Messages
    BY DEF CtxType
  <2> QED
    BY <2>1
<1>16. PICK x : x = [y EXCEPT !.res = end, !.buff = b] /\ x = ctx'[c]
  BY <1>1, <1>2, <1>4, <1>15
<1>17. x.res = end /\ x.buff = b /\ x.req = y.req /\ x.close = y.close
  BY <1>16 DEF CtxType
<1>18. Account(WithHandler(c)', {m[2] : m \in x.buff}, x.res, x.req, x.close # Never)
  <2>1. y.req \in Nat /\ y.res \in Nat /\ idx = y.res /\ y.close \in Nat /\ MaxReqs \in Nat
    BY <1>2, ReqsAssumption DEF CtxType
  <2>2. Waiting(c) = {m[2] : m \in y.buff}
    BY <1>2 DEF Waiting
  <2>3. PICK B : B = {m[2] : m \in y.buff}
    OBVIOUS
  <2>4. \A j \in (idx + 1)..(end - 1) : j \in B
    BY <2>3, <1>4
  <2>5. end \notin B \/ y.close # Never
    <3>1. end > y.close => y.close # Never
      BY <2>1, <1>4 DEF Never
    <3> QED
      BY <2>3, <3>1, <1>4
  <2>6. Account(WithHandler(c) \ {idx}, B \ ((idx + 1)..(end - 1)), end, y.req, y.close # Never)
    <3>a. PICK W : W = WithHandler(c)
      OBVIOUS
    <3>b. PICK q \in Nat : q = y.req
      BY <2>1
    <3>1. W = WithHandler(c) /\ q = y.req
      BY <3>a, <3>b
    <3>2. Account(W, B, idx, q, y.close # Never)
      BY <3>1, <2>1, <2>2, <2>3, <1>10
    <3>3. idx \in W /\ idx \in Nat /\ end > idx
      BY <3>1, <2>1, <1>4
    <3>4. Account(W \ {idx}, B \ ((idx + 1)..(end - 1)), end, q, y.close # Never)
      BY <3>2, <3>3, <2>4, <2>5, AccountSent
    <3> QED
      BY <3>1, <3>4
  <2>7. {m[2] : m \in b} = B \ ((idx + 1)..(end - 1))
    BY <2>3, <1>15, ZenonT(30)
  <2> QED
    BY <2>6, <2>7, <1>17
<1>19. \A m \in x.buff : m[1] = c
  BY <1>10, <1>15, <1>17
<1>20. z.out # <<>> \/ (x.res > x.close /\ z.peer = "open") => z.wev
  BY <1>13
<1> QED
  BY <1>7, <1>14, <1>16, <1>17, <1>18, <1>19, <1>20, PipedPartsNext

\* A response that is not the next one is committed: it waits.
LEMMA PipedWaits ==
  ASSUME HttpInv, NEW c \in Conns, Open(c), Piped(c), NEW idx \in Indexes, idx # ctx[c].res,
         idx \in WithHandler(c), WithHandler(c)' = WithHandler(c) \ {idx}, sock' = sock,
         ctx' = [ctx EXCEPT ![c] = [ctx[c] EXCEPT
                    !.buff = {m \in ctx[c].buff : m[2] # idx} \cup {<<c, idx>>}]]
  PROVE  Piped(c)'
<1>1. sock \in [Conns -> SockType(Messages)] /\ ctx \in [Conns -> CtxType]
  BY DEF HttpInv, HttpType
<1>2. PICK y \in CtxType : y = ctx[c]
  BY <1>1
<1>3. PICK s \in SockType(Messages) : s = sock[c] /\ s = sock'[c]
  BY <1>1
<1>4. /\ Ordered(Chain(s), c, y.res, s.peer)
      /\ Account(WithHandler(c), Waiting(c), y.res, y.req, y.close # Never)
      /\ WriteArmed(c) /\ \A m \in y.buff : m[1] = c
  BY <1>2, <1>3, PipedParts
<1>5. PICK b : b = {m \in y.buff : m[2] # idx} \cup {<<c, idx>>}
  OBVIOUS
<1>6. PICK x : x = [y EXCEPT !.buff = b] /\ x = ctx'[c]
  BY <1>1, <1>2, <1>5
<1>7. x.buff = b /\ x.res = y.res /\ x.req = y.req /\ x.close = y.close
  BY <1>6 DEF CtxType
<1>8. Account(WithHandler(c)', {m[2] : m \in x.buff}, x.res, x.req, x.close # Never)
  <2>1. y.req \in Nat /\ y.res \in Nat /\ idx # y.res
    BY <1>2, ReqsAssumption DEF CtxType
  <2>2. PICK B : B = {m[2] : m \in y.buff} /\ B = Waiting(c)
    BY <1>2 DEF Waiting
  <2>3. Account(WithHandler(c) \ {idx}, B \cup {idx}, y.res, y.req, y.close # Never)
    BY <2>1, <2>2, <1>4, AccountWaits
  <2>4. {m[2] : m \in b} = B \cup {idx}
    <3>1. ASSUME NEW i \in {m[2] : m \in b} PROVE i \in B \cup {idx}
      <4>1. PICK m \in b : i = m[2]
        BY <3>1
      <4> QED
        BY <4>1, <2>2, <1>5
    <3>2. ASSUME NEW i \in B \cup {idx} PROVE i \in {m[2] : m \in b}
      <4>1. CASE i = idx
        BY <4>1, <1>5
      <4>2. CASE i # idx
        BY <4>2, <2>2, <1>5
      <4> QED
        BY <4>1, <4>2
    <3> QED
      BY <3>1, <3>2
  <2> QED
    BY <2>3, <2>4, <1>7
<1>9. \A m \in x.buff : m[1] = c
  BY <1>4, <1>5, <1>7
<1>10. s.out # <<>> \/ (x.res > x.close /\ s.peer = "open") => s.wev
  BY <1>2, <1>3, <1>4, <1>7, Zenon DEF WriteArmed
<1> QED
  BY <1>3, <1>4, <1>6, <1>7, <1>8, <1>9, <1>10, PipedPartsNext

-----------------------------------------------------------------------------
(* Every step keeps the invariant                                          *)

\* Two connections have different tokens.
LEMMA TokenTells ==
  ASSUME HttpInv, TokenIds, NEW c \in Conns, c <= accepted, NEW d \in Conns, Open(d),
         token[d] = token[c]
  PROVE  d = c
<1>1. d <= accepted
  BY DEF HttpInv, Linked
<1>2. token[c].id = c /\ token[d].id = d
  BY <1>1 DEF TokenIds
<1> QED
  BY <1>2

\* What concerns the connections other than c, and c if it is not open, when a response of
\* c is committed or nothing is.
LEMMA OthersKept ==
  ASSUME \A d \in Conns : Piped(d), NEW S, \A d \in Conns \ S : sock'[d] = sock[d],
         \A d \in Conns \ S : ctx'[d] = ctx[d],
         \A d \in Conns \ S : Open(d) => WithHandler(d)' = WithHandler(d)
  PROVE  \A d \in Conns \ S : Piped(d)'
<1> SUFFICES ASSUME NEW d \in Conns \ S PROVE Piped(d)'
  OBVIOUS
<1>1. Piped(d) /\ sock'[d] = sock[d] /\ ctx'[d] = ctx[d] /\ (Open(d) => WithHandler(d)' = WithHandler(d))
  OBVIOUS
<1>2. /\ Chain(sock'[d]) = Chain(sock[d]) /\ sock'[d].peer = sock[d].peer
      /\ ctx'[d].res = ctx[d].res
      /\ sock'[d].bfd = "open" =>
           /\ Open(d) /\ ctx'[d].req = ctx[d].req /\ ctx'[d].buff = ctx[d].buff
           /\ ctx'[d].close = ctx[d].close
           /\ WithHandler(d)' = WithHandler(d)
           /\ sock'[d].wev = sock[d].wev /\ sock'[d].out = sock[d].out
  BY <1>1 DEF Open
<1> QED
  BY <1>1, <1>2, PipedKept

\* commitRespond() of a response that was with its handler.
LEMMA PipedCommitted ==
  ASSUME HttpInv, PipeInv, NEW c \in Conns, c <= accepted, NEW idx \in Indexes,
         commitRespond(token[c], idx, c), Open(c) => idx \in WithHandler(c),
         Open(c) => WithHandler(c)' = WithHandler(c) \ {idx},
         \A d \in Conns \ {c} : WithHandler(d)' = WithHandler(d)
  PROVE  \A d \in Conns : Piped(d)'
<1>1. sock \in [Conns -> SockType(Messages)] /\ ctx \in [Conns -> CtxType] /\ token[c] \in TokenType
      /\ TokenIds /\ \A d \in Conns : Piped(d)
  BY DEF HttpInv, HttpType, PipeInv
<1>2. CommitOutcome(token[c], idx, c)
  BY <1>1, CommitCases
<1>3. CASE At(cab, token[c]) = NoObj /\ UNCHANGED <<sock, ctx>>
  <2>1. ~Open(c)
    <3>1. c # NoObj
      BY ConnsAssumption DEF Conns
    <3> QED
      BY <3>1, <1>3, OpenHeld
  <2>2. \A d \in Conns : Open(d) => WithHandler(d)' = WithHandler(d)
    BY <2>1
  <2> QED
    BY <1>1, <1>3, <2>2, OthersKept
<1>4. ASSUME NEW d \in Conns, d = At(cab, token[c]), Open(d), token[d] = token[c],
             idx = ctx[d].res, Send(d, Batch(ctx[d], c, idx)),
             ctx' = [ctx EXCEPT ![d] = [ctx[d] EXCEPT !.res = After(ctx[d], idx),
                    !.buff = {m \in ctx[d].buff : m[2] \notin (idx + 1)..(After(ctx[d], idx) - 1)}]]
      PROVE  \A e \in Conns : Piped(e)'
  <2>1. d = c
    BY <1>1, <1>4, TokenTells
  <2>2. PICK x : ctx' = [ctx EXCEPT ![c] = x]
    BY <1>4, <2>1
  <2>3. PICK z : sock' = [sock EXCEPT ![c] = z]
    BY <1>4, <2>1 DEF Send
  <2>4. \A e \in Conns \ {c} : sock'[e] = sock[e] /\ ctx'[e] = ctx[e]
    BY <1>1, <2>2, <2>3
  <2>5. \A e \in Conns \ {c} : Piped(e)'
    BY <1>1, <2>4, OthersKept
  <2>6. Piped(c)'
    BY <1>1, <1>4, <2>1, PipedSent
  <2> QED
    BY <2>5, <2>6
<1>5. ASSUME NEW d \in Conns, d = At(cab, token[c]), Open(d), token[d] = token[c],
             idx # ctx[d].res, sock' = sock,
             ctx' = [ctx EXCEPT ![d] = [ctx[d] EXCEPT
                      !.buff = {m \in ctx[d].buff : m[2] # idx} \cup {<<c, idx>>}]]
      PROVE  \A e \in Conns : Piped(e)'
  <2>1. d = c
    BY <1>1, <1>5, TokenTells
  <2>2. PICK x : ctx' = [ctx EXCEPT ![c] = x]
    BY <1>5, <2>1
  <2>4. \A e \in Conns \ {c} : sock'[e] = sock[e] /\ ctx'[e] = ctx[e]
    BY <1>1, <1>5, <2>2
  <2>5. \A e \in Conns \ {c} : Piped(e)'
    BY <1>1, <2>4, OthersKept
  <2>6. Piped(c)'
    BY <1>1, <1>5, <2>1, PipedWaits
  <2> QED
    BY <2>5, <2>6
<1> QED
  BY <1>2, <1>3, <1>4, <1>5, Zenon DEF CommitOutcome

\* Requests with their handlers, where the connection's own part of the state is unchanged.
LEMMA SameHandlers ==
  ASSUME NEW c \in Conns, ctx'[c].req = ctx[c].req,
         \A h : h \in held' /\ h.own = c <=> h \in held /\ h.own = c,
         (rx'.c = c /\ rx'.handling) <=> (rx.c = c /\ rx.handling)
  PROVE  WithHandler(c)' = WithHandler(c)
<1>1. {g \in held' : g.own = c} = {g \in held : g.own = c}
  OBVIOUS
<1>2. (IF rx'.c = c /\ rx'.handling THEN {ctx'[c].req - 1} ELSE {})
        = (IF rx.c = c /\ rx.handling THEN {ctx[c].req - 1} ELSE {})
  OBVIOUS
<1> QED
  BY <1>1, <1>2, Zenon DEF WithHandler

\* A step that leaves tokens, contexts kept and the loop's handler alone.
LEMMA RestKept ==
  ASSUME HttpInv, PipeInv, UNCHANGED <<token, accepted, held>>, rx'.c <= accepted,
         rx'.handling => rx.handling /\ rx'.c = rx.c,
         \A c \in Conns : ctx'[c].req = ctx[c].req,
         \A c \in Conns : sock'[c].bfd = "open" => Open(c)
  PROVE  HeldOK' /\ \A c \in Conns : Apart(c)'
<1>1. HeldOK /\ \A c \in Conns : Apart(c)
  BY DEF PipeInv
<1>2. HeldOK'
  BY <1>1 DEF HeldOK
<1>3. ASSUME NEW c \in Conns PROVE Apart(c)'
  BY <1>1 DEF Apart, Open
<1> QED
  BY <1>2, <1>3

\* At the start nothing was accepted.
LEMMA PipeInvInit == Init => PipeInv
<1> SUFFICES ASSUME Init PROVE PipeInv
  OBVIOUS
<1>1. /\ server = "none" /\ cab = Empty /\ accepted = 0 /\ held = {} /\ rx = Idle /\ starts = 0
      /\ sock = [c \in Conns |-> [NewSock EXCEPT !.bfd = "none"]]
      /\ ctx = [c \in Conns |-> [NewCtx EXCEPT !.alive = FALSE]]
  BY DEF Init, TcpInit
<1>2. TokenIds
  BY <1>1 DEF TokenIds, Empty, Conns
<1>3. Idle.c = NoConn
  BY DEF Idle
<1>4. HeldOK
  BY <1>1, <1>3 DEF HeldOK, NoConn
<1>5. ASSUME NEW c \in Conns PROVE Piped(c) /\ Apart(c)
  <2>1. sock[c] = [NewSock EXCEPT !.bfd = "none"] /\ ctx[c] = [NewCtx EXCEPT !.alive = FALSE]
    BY <1>1
  <2>2. sock[c].bfd = "none" /\ sock[c].wire = <<>> /\ sock[c].out = <<>>
    BY <2>1 DEF NewSock
  <2>3. ctx[c].res = 0
    BY <2>1 DEF NewCtx
  <2>4. Chain(sock[c]) = <<>>
    BY <2>2 DEF Chain
  <2>5. Ordered(Chain(sock[c]), c, ctx[c].res, sock[c].peer)
    BY <2>3, <2>4 DEF Ordered
  <2>6. ~Open(c)
    BY <2>2 DEF Open
  <2> QED
    BY <2>5, <2>6, PipedParts DEF Apart
<1> QED
  BY <1>2, <1>4, <1>5 DEF PipeInv

\* Steps that change no connection, or end some of them.
LEMMA PipeQuiet ==
  ASSUME HttpInv, PipeInv, TokenIds', UNCHANGED <<token, accepted, held>>,
         rx'.c <= accepted, rx'.handling <=> rx.handling, rx.handling => rx'.c = rx.c,
         \A c \in Conns : /\ ctx'[c].req = ctx[c].req /\ ctx'[c].res = ctx[c].res
                          /\ ctx'[c].buff = ctx[c].buff /\ ctx'[c].close = ctx[c].close,
         \A c \in Conns : /\ Chain(sock'[c]) = Chain(sock[c])
                          /\ sock'[c].peer = sock[c].peer \/ sock'[c].peer = "gone",
         \A c \in Conns : sock'[c].bfd = "open" =>
                            /\ Open(c)
                            /\ \/ sock'[c].wev = sock[c].wev /\ sock'[c].out = sock[c].out
                               \/ WriteArmed(c)'
  PROVE  PipeInv'
<1>1. HeldOK' /\ \A c \in Conns : Apart(c)'
  BY RestKept
<1>2. ASSUME NEW c \in Conns PROVE Piped(c)'
  <2>1. WithHandler(c)' = WithHandler(c)
    <3>1. (rx'.c = c /\ rx'.handling) <=> (rx.c = c /\ rx.handling)
      OBVIOUS
    <3> QED
      BY <3>1, SameHandlers
  <2>2. Piped(c)
    BY DEF PipeInv
  <2> QED
    BY <2>1, <2>2, PipedKept
<1> QED
  BY <1>1, <1>2 DEF PipeInv

\* Closing a descriptor for good leaves what it wrote and holds.
LEMMA ChainClosed ==
  ASSUME NEW s \in SockType(Messages), NEW b \in {"closed", "dropped", "stopped"}, NEW z,
         z = [s EXCEPT !.bfd = b, !.wev = FALSE]
  PROVE  Chain(z) = Chain(s) /\ z.peer = s.peer /\ z.bfd = b
<1>1. z.wire = s.wire /\ z.out = s.out /\ z.peer = s.peer /\ z.bfd = b
  BY DEF SockType
<1> QED
  BY <1>1 DEF Chain

\* disconnect() by the server ends a connection, and changes no other.
LEMMA DisconnectedChains ==
  ASSUME HttpInv, NEW tok \in TokenType, TcpDisconnect(tok)
  PROVE  /\ \A d \in Conns : Chain(sock'[d]) = Chain(sock[d]) /\ sock'[d].peer = sock[d].peer
         /\ \A d \in Conns : sock'[d].bfd = "open" => sock'[d] = sock[d]
         /\ cab'.last_id = cab.last_id
<1>1. sock \in [Conns -> SockType(Messages)] /\ CabOK(cab)
  BY DEF HttpInv, HttpType
<1>2. ASSUME NEW d \in Conns
      PROVE  /\ Chain(sock'[d]) = Chain(sock[d]) /\ sock'[d].peer = sock[d].peer
             /\ sock'[d].bfd = "open" => sock'[d] = sock[d]
  <2>1. PICK s \in SockType(Messages) : s = sock[d]
    BY <1>1
  <2>2. CASE d = At(cab, tok)
    <3>1. PICK z : z = sock'[d] /\ z = [s EXCEPT !.bfd = "dropped", !.wev = FALSE]
      BY <2>1, <2>2 DEF TcpDisconnect
    <3>2. Chain(z) = Chain(s) /\ z.peer = s.peer /\ z.bfd = "dropped"
      BY <3>1, ChainClosed
    <3> QED
      BY <2>1, <3>1, <3>2
  <2>3. CASE d # At(cab, tok)
    BY <2>3 DEF TcpDisconnect
  <2> QED
    BY <2>2, <2>3
<1>3. cab'.last_id = cab.last_id
  <2>1. cab' = Free(cab, tok)
    BY DEF TcpDisconnect
  <2>2. CASE Holds(cab, tok)
    BY <1>1, <2>1, <2>2, CabFree
  <2>3. CASE ~Holds(cab, tok)
    BY <2>1, <2>3 DEF Free
  <2> QED
    BY <2>2, <2>3
<1> QED
  BY <1>2, <1>3

\* Deleting a context leaves its numbers.
LEMMA DeadNumbers ==
  ASSUME HttpInv, NEW c \in Conns, ctx' = [ctx EXCEPT ![c].alive = FALSE]
  PROVE  \A d \in Conns : /\ ctx'[d].req = ctx[d].req /\ ctx'[d].res = ctx[d].res
                          /\ ctx'[d].buff = ctx[d].buff /\ ctx'[d].close = ctx[d].close
<1>1. ctx \in [Conns -> CtxType]
  BY DEF HttpInv, HttpType
<1>2. PICK x \in CtxType : /\ x = [ctx[c] EXCEPT !.alive = FALSE] /\ x.req = ctx[c].req
                           /\ x.close = ctx[c].close /\ x.res = ctx[c].res /\ x.buff = ctx[c].buff
  BY <1>1, CtxDead
<1>3. ctx' = [ctx EXCEPT ![c] = x]
  BY <1>2
<1> QED
  BY <1>1, <1>2, <1>3

\* A new connection has a new token and no request.
LEMMA PipeConnected ==
  ASSUME HttpInv, PipeInv, NEW c \in Conns, onTcpConnected(c)
  PROVE  PipeInv'
<1>1. /\ HttpType /\ CabOK(cab) /\ Linked /\ TokenIds /\ HeldOK
      /\ rx = Idle /\ rx' = Idle /\ UNCHANGED <<server, held, starts>>
      /\ server = "running" /\ c = accepted + 1 /\ accepted' = c /\ accepted \in Nat
      /\ \A d \in Conns : Piped(d) /\ Apart(d)
  BY DEF HttpInv, HttpType, PipeInv, onTcpConnected, TcpConnected, Between
<1>2. PICK k, t, z : k = cab /\ CabOK(k) /\ t = NewToken(k) /\ z = Alloc(k, c)
  BY <1>1
<1>3. t.id = k.last_id + 1 /\ z.last_id = t.id
  BY <1>2, CabAlloc
<1>4. /\ cab' = z /\ token' = [token EXCEPT ![c] = t] /\ sock' = [sock EXCEPT ![c] = NewSock]
      /\ ctx' = [ctx EXCEPT ![c] = NewCtx]
  BY <1>2 DEF onTcpConnected, TcpConnected
<1>5. \A d \in Conns : d # c => sock'[d] = sock[d] /\ ctx'[d] = ctx[d] /\ token'[d] = token[d]
  BY <1>1, <1>4 DEF HttpType
<1>6. sock'[c] = NewSock /\ ctx'[c] = NewCtx /\ token'[c] = t
  BY <1>1, <1>4 DEF HttpType
<1>7. k.last_id = accepted /\ t.id = c
  BY <1>1, <1>2, <1>3 DEF TokenIds
<1>8. TokenIds'
  <2>1. ASSUME NEW d \in Conns, d <= accepted' PROVE token'[d].id = d
    <3>1. CASE d = c
      BY <3>1, <1>6, <1>7
    <3>2. CASE d # c
      <4>1. d <= accepted
        BY <2>1, <3>2, <1>1 DEF Conns
      <4> QED
        BY <3>2, <4>1, <1>1, <1>5 DEF TokenIds
    <3> QED
      BY <3>1, <3>2
  <2> QED
    BY <2>1, <1>1, <1>3, <1>4, <1>7 DEF TokenIds
<1>9. Idle.c = NoConn /\ ~Idle.handling
  BY DEF Idle
<1>10. \A h \in held : h.own \in Conns /\ h.own <= accepted /\ h.own # c
  <2>1. \A h \in held : h.own \in Conns
    BY <1>1 DEF HttpType, Contexts
  <2> QED
    BY <2>1, <1>1 DEF HeldOK, Conns
<1>11. HeldOK'
  <2>1. ASSUME NEW h \in held' PROVE h.own <= accepted' /\ h.tok = token'[h.own]
    <3>1. h.own \in Conns /\ h.own <= accepted /\ h.own # c /\ h.tok = token[h.own]
      BY <1>1, <1>10 DEF HeldOK
    <3> QED
      BY <3>1, <1>1, <1>5 DEF Conns
  <2> QED
    BY <2>1, <1>1, <1>9 DEF HeldOK, NoConn, Conns
<1>12. \A d \in Conns : Apart(d)'
  BY <1>1, <1>9 DEF Apart
<1>13. \A d \in Conns \ {c} : Piped(d)'
  <2>1. ASSUME NEW d \in Conns \ {c} PROVE WithHandler(d)' = WithHandler(d)
    <3>1. ctx'[d].req = ctx[d].req
      BY <1>5
    <3> QED
      BY <3>1, <1>1, SameHandlers
  <2> QED
    BY <1>1, <1>5, <2>1, OthersKept
<1>14. Piped(c)'
  <2>1. /\ NewSock.peer = "open" /\ NewSock.wire = <<>> /\ NewSock.out = <<>>
        /\ NewCtx.req = 0 /\ NewCtx.res = 0 /\ NewCtx.close = Never /\ NewCtx.buff = {}
    BY NewTyped
  <2>2. Ordered(Chain(NewSock), c, NewCtx.res, NewSock.peer)
    <3>1. Chain(NewSock) = <<>>
      BY <2>1 DEF Chain
    <3> QED
      BY <2>1, <3>1 DEF Ordered
  <2>3. WithHandler(c)' = {}
    <3>1. {g \in held' : g.own = c} = {}
      BY <1>1, <1>10
    <3>2. ~(rx'.c = c /\ rx'.handling)
      BY <1>1, <1>9
    <3> QED
      BY <3>1, <3>2, Zenon DEF WithHandler
  <2>4. Account(WithHandler(c)', {m[2] : m \in NewCtx.buff}, NewCtx.res, NewCtx.req, NewCtx.close # Never)
    <3>1. {m[2] : m \in NewCtx.buff} = {}
      BY <2>1
    <3>2. Account({}, {}, 0, 0, NewCtx.close # Never)
      BY DEF Account
    <3> QED
      BY <2>1, <2>3, <3>1, <3>2
  <2>5. ~(NewCtx.res > NewCtx.close)
    BY <2>1, ReqsAssumption DEF Never
  <2>6. NewSock.out # <<>> \/ (NewCtx.res > NewCtx.close /\ NewSock.peer = "open") => NewSock.wev
    BY <2>1, <2>5
  <2>7. \A m \in NewCtx.buff : m[1] = c
    BY <2>1
  <2> QED
    BY <2>2, <2>4, <2>6, <2>7, <1>6, PipedPartsNext
<1> QED
  BY <1>8, <1>11, <1>12, <1>13, <1>14 DEF PipeInv

\* A request is taken, and is with its handler.
LEMMA PipeHandle ==
  ASSUME HttpInv, PipeInv, handle
  PROVE  PipeInv'
<1>1. /\ HttpType /\ TokenIds /\ HeldOK /\ \A d \in Conns : Piped(d)
      /\ sock \in [Conns -> SockType(Messages)] /\ ctx \in [Conns -> CtxType] /\ rx \in RxType
      /\ rx.c # NoConn /\ rx.c \in Conns /\ ~rx.handling
      /\ UNCHANGED <<server, cab, accepted, token, held, starts>>
  BY DEF HttpInv, HttpType, PipeInv, RxType, handle
<1>2. PICK c \in Conns : c = rx.c
  BY <1>1
<1>3. PICK y \in CtxType : y = ctx[c]
  BY <1>1
<1>4. /\ y.req \in Nat /\ y.res \in Nat /\ y.close \in Nat /\ MaxReqs \in Nat /\ y.req < MaxReqs
  <2>1. y.req \in 0..MaxReqs /\ y.res \in 0..MaxReqs /\ y.close \in 0..MaxReqs /\ MaxReqs \in Nat
    BY ReqsAssumption DEF CtxType
  <2>2. PICK b \in Seq(Kinds) : b = rx.buf
    BY <1>1 DEF RxType
  <2>3. Len(b) \in Nat /\ Len(b) >= 1 /\ y.req + Len(b) <= MaxReqs
    <3>1. b # <<>>
      BY <2>2 DEF handle
    <3>2. y.req + Len(b) <= MaxReqs
      BY <1>1, <1>2, <1>3, <2>2 DEF HttpInv, RxOK
    <3>3. Len(b) \in Nat /\ Len(b) >= 1
      BY <3>1
    <3> QED
      BY <3>2, <3>3
  <2> QED
    BY <2>1, <2>3
<1>5. PICK last \in BOOLEAN : last = (Head(rx.buf) = "last")
  OBVIOUS
<1>6. PICK e \in Nat : e = IF last THEN y.req ELSE y.close
  BY <1>4
<1>7. PICK x : x = ctx'[c] /\ ctx' = [ctx EXCEPT ![c] = x] /\ x = [y EXCEPT !.req = y.req + 1, !.close = e]
  <2>1. ctx' = [ctx EXCEPT ![c] = [y EXCEPT !.req = y.req + 1, !.close = e]]
    BY <1>1, <1>2, <1>3, <1>5, <1>6 DEF handle, CtxType
  <2> QED
    BY <1>1, <2>1
<1>8. x.req = y.req + 1 /\ x.close = e /\ x.res = y.res /\ x.buff = y.buff
  BY <1>7 DEF CtxType
<1>9. /\ rx'.c = c /\ rx'.handling
  <2>1. ASSUME NEW i \in RxType, NEW b
        PROVE  [i EXCEPT !.buf = b, !.handling = TRUE].c = i.c /\ [i EXCEPT !.buf = b, !.handling = TRUE].handling
    BY DEF RxType
  <2>2. rx' = [rx EXCEPT !.buf = Tail(rx.buf), !.handling = TRUE]
    BY DEF handle
  <2> QED
    BY <1>1, <1>2, <2>1, <2>2
<1>10. ASSUME NEW d \in Conns
       PROVE  /\ Chain(sock'[d]) = Chain(sock[d]) /\ sock'[d].peer = sock[d].peer
              /\ sock'[d].bfd = sock[d].bfd /\ sock'[d].out = sock[d].out
              /\ sock'[d].wev = sock[d].wev
  <2>1. PICK s \in SockType(Messages) : s = sock[d]
    BY <1>1
  <2>2. sock'[d] = s \/ sock'[d] = [s EXCEPT !.rd = TRUE]
    BY <2>1 DEF handle, Shut
  <2>3. LET z == [s EXCEPT !.rd = TRUE]
        IN z.wire = s.wire /\ z.out = s.out /\ z.peer = s.peer /\ z.bfd = s.bfd
    BY DEF SockType
  <2>4. [s EXCEPT !.rd = TRUE].wev = s.wev
    BY DEF SockType
  <2>5. sock'[d].wire = s.wire /\ sock'[d].out = s.out /\ sock'[d].peer = s.peer /\ sock'[d].bfd = s.bfd
    BY <2>2, <2>3
  <2>6. sock'[d].wev = s.wev
    BY <2>2, <2>4
  <2> QED
    BY <2>1, <2>5, <2>6 DEF Chain
<1>11. ASSUME NEW d \in Conns \ {c} PROVE Piped(d)'
  <2>1. ctx'[d] = ctx[d]
    BY <1>1, <1>7
  <2>2. WithHandler(d)' = WithHandler(d)
    BY <2>1, <1>1, <1>2, <1>9, SameHandlers
  <2>3. Piped(d)
    BY <1>1
  <2>4. sock'[d].bfd = "open" => Open(d)
    BY <1>10 DEF Open
  <2> QED
    BY <2>1, <2>2, <2>3, <2>4, <1>10, PipedKept
<1>12. /\ Ordered(Chain(sock[c]), c, y.res, sock[c].peer)
       /\ Open(c) => /\ Account(WithHandler(c), Waiting(c), y.res, y.req, y.close # Never)
                     /\ WriteArmed(c) /\ \A m \in y.buff : m[1] = c
  BY <1>1, <1>3, PipedParts
<1>13. Open(c) => \A h \in held : h.own = c => h.idx < y.req
  <2> SUFFICES ASSUME Open(c), NEW h \in held, h.own = c PROVE h.idx < y.req
    OBVIOUS
  <2>1. h.idx \in WithHandler(c)
    BY Zenon DEF WithHandler
  <2>2. PICK W : W = WithHandler(c)
    OBVIOUS
  <2>3. PICK B : B = Waiting(c)
    OBVIOUS
  <2>4. Account(W, B, y.res, y.req, y.close # Never)
    BY <2>2, <2>3, <1>12
  <2>5. \A i \in W : i < y.req
    BY <2>4, <1>4, AccountNumbers
  <2> QED
    BY <2>1, <2>2, <2>5
<1>14. Piped(c)'
  <2>1. PICK z : z = sock'[c]
    OBVIOUS
  <2>2. Ordered(Chain(z), c, x.res, z.peer)
    BY <2>1, <1>8, <1>10, <1>12
  <2>3. ASSUME z.bfd = "open"
        PROVE  /\ Account(WithHandler(c)', {m[2] : m \in x.buff}, x.res, x.req, x.close # Never)
               /\ \A m \in x.buff : m[1] = c
    <3>1. Open(c)
      BY <2>1, <2>3, <1>10 DEF Open
    <3>2. PICK W : W = WithHandler(c)
      OBVIOUS
    <3>3. PICK B : B = Waiting(c)
      OBVIOUS
    <3>4. Account(W, B, y.res, y.req, y.close # Never)
      BY <3>1, <3>2, <3>3, <1>12
    <3>5. WithHandler(c)' = W \cup {y.req}
      <4>1. (rx'.c = c /\ rx'.handling) /\ ~(rx.c = c /\ rx.handling)
        BY <1>1, <1>9
      <4>2. ctx'[c].req - 1 = y.req
        BY <1>4, <1>7, <1>8
      <4>3. held' = held
        BY <1>1
      <4>4. WithHandler(c)' = {h.idx : h \in {g \in held : g.own = c}} \cup {y.req}
        BY <4>1, <4>2, <4>3, Zenon DEF WithHandler
      <4>5. W = {h.idx : h \in {g \in held : g.own = c}}
        BY <3>2, <4>1, Zenon DEF WithHandler
      <4> QED
        BY <4>4, <4>5
    <3>6. y.close # Never => e # Never
      BY <1>4, <1>6 DEF Never
    <3>7. Account(W \cup {y.req}, B, y.res, y.req + 1, e # Never)
      BY <3>4, <3>6, <1>4, AccountNew
    <3>8. B = {m[2] : m \in x.buff}
      BY <3>3, <1>3, <1>8 DEF Waiting
    <3> QED
      BY <3>1, <3>5, <3>7, <3>8, <1>8, <1>12
  <2>4. ASSUME z.bfd = "open"
        PROVE  z.out # <<>> \/ (x.res > x.close /\ z.peer = "open") => z.wev
    <3>1. Open(c)
      BY <2>1, <2>4, <1>10 DEF Open
    <3>2. sock[c].out # <<>> \/ (y.res > y.close /\ sock[c].peer = "open") => sock[c].wev
      BY <3>1, <1>3, <1>12 DEF WriteArmed
    <3>3. z.out = sock[c].out /\ z.peer = sock[c].peer /\ z.wev = sock[c].wev
      BY <2>1, <1>10
    <3>4. x.res > x.close => y.res > y.close
      <4>1. PICK W : W = WithHandler(c)
        OBVIOUS
      <4>2. PICK B : B = Waiting(c)
        OBVIOUS
      <4>3. Account(W, B, y.res, y.req, y.close # Never)
        BY <3>1, <4>1, <4>2, <1>12
      <4>4. y.res <= y.req
        BY <4>3, <1>4, AccountNumbers
      <4> QED
        BY <4>4, <1>4, <1>6, <1>8
    <3> QED
      BY <3>2, <3>3, <3>4
  <2> QED
    BY <2>1, <2>2, <2>3, <2>4, <1>7, PipedPartsNext
<1>15. HeldOK' /\ TokenIds'
  BY <1>1, <1>2, <1>9 DEF HeldOK, TokenIds
<1>16. ASSUME NEW d \in Conns PROVE Apart(d)'
  <2> SUFFICES ASSUME sock'[d].bfd = "open", rx'.c = d, NEW h \in held, h.own = d
               PROVE  h.idx # ctx'[d].req - 1
    BY <1>1 DEF Apart, Open
  <2>1. d = c /\ Open(c)
    BY <1>9, <1>10 DEF Open
  <2>2. ctx'[c].req - 1 = y.req
    BY <1>4, <1>7, <1>8
  <2>3. h.idx < y.req
    BY <2>1, <1>13
  <2> QED
    BY <2>1, <2>2, <2>3, <1>4
<1> QED
  BY <1>11, <1>14, <1>15, <1>16 DEF PipeInv

\* A kept Context is let go of.
LEMMA PipeFinish ==
  ASSUME HttpInv, PipeInv, NEW h \in held, finish(h)
  PROVE  PipeInv'
<1>1. /\ HttpType /\ TokenIds /\ HeldOK /\ \A d \in Conns : Apart(d)
      /\ held' = held \ {h} /\ commitRespond(h.tok, h.idx, h.own)
      /\ UNCHANGED <<server, cab, accepted, token, rx, starts>> /\ held \in SUBSET Contexts
  BY DEF HttpInv, HttpType, PipeInv, finish
<1>2. PICK c \in Conns : c = h.own /\ c <= accepted /\ h.tok = token[c]
  BY <1>1 DEF HeldOK, Contexts
<1>3. PICK idx \in Indexes : idx = h.idx
  BY <1>1 DEF Contexts
<1>4. commitRespond(token[c], idx, c) /\ token[c] \in TokenType
  BY <1>1, <1>2, <1>3 DEF HttpType
<1>5. /\ \A d \in Conns : sock'[d].bfd = sock[d].bfd /\ ctx'[d].req = ctx[d].req
  BY <1>4, Committed
<1>6. ASSUME NEW g \in held, g.own = c, g.idx = idx PROVE g = h
  <2>1. g \in Contexts /\ h \in Contexts /\ g.tok = token[g.own]
    BY <1>1 DEF HeldOK
  <2>2. g.tok = h.tok /\ g.idx = h.idx /\ g.own = h.own
    BY <2>1, <1>2, <1>3, <1>6
  <2> QED
    BY <2>1, <2>2 DEF Contexts
<1>7. Open(c) => idx \in WithHandler(c)
  BY <1>2, <1>3, Zenon DEF WithHandler
<1>8. Open(c) => WithHandler(c)' = WithHandler(c) \ {idx}
  <2> SUFFICES ASSUME Open(c) PROVE WithHandler(c)' = WithHandler(c) \ {idx}
    OBVIOUS
  <2>1. PICK H : H = IF rx.c = c /\ rx.handling THEN {ctx[c].req - 1} ELSE {}
    OBVIOUS
  <2>2. WithHandler(c) = {g.idx : g \in {f \in held : f.own = c}} \cup H
    BY <2>1, Zenon DEF WithHandler
  <2>3. H = IF rx'.c = c /\ rx'.handling THEN {ctx'[c].req - 1} ELSE {}
    BY <2>1, <1>1, <1>5
  <2>4. WithHandler(c)' = {g.idx : g \in {f \in held' : f.own = c}} \cup H
    BY <2>3, Zenon DEF WithHandler
  <2>5. idx \notin H
    <3>1. rx.c = c /\ rx.handling => h.idx # ctx[c].req - 1
      BY <1>1, <1>2 DEF Apart
    <3> QED
      BY <3>1, <2>1, <1>3
  <2>6. {g.idx : g \in {f \in held' : f.own = c}} = {g.idx : g \in {f \in held : f.own = c}} \ {idx}
    <3>1. ASSUME NEW i \in {g.idx : g \in {f \in held' : f.own = c}}
          PROVE  i \in {g.idx : g \in {f \in held : f.own = c}} \ {idx}
      <4>1. PICK g \in held' : g.own = c /\ i = g.idx
        OBVIOUS
      <4> QED
        BY <4>1, <1>1, <1>6
    <3>2. ASSUME NEW i \in {g.idx : g \in {f \in held : f.own = c}} \ {idx}
          PROVE  i \in {g.idx : g \in {f \in held' : f.own = c}}
      <4>1. PICK g \in held : g.own = c /\ i = g.idx
        OBVIOUS
      <4>2. g \in held'
        BY <4>1, <3>2, <1>1, <1>3
      <4> QED
        BY <4>1, <4>2
    <3> QED
      BY <3>1, <3>2
  <2> QED
    BY <2>2, <2>4, <2>5, <2>6
<1>9. ASSUME NEW d \in Conns \ {c} PROVE WithHandler(d)' = WithHandler(d)
  <2>1. \A g : g \in held' /\ g.own = d <=> g \in held /\ g.own = d
    BY <1>1, <1>2
  <2> QED
    BY <2>1, <1>1, <1>5, SameHandlers
<1>10. \A d \in Conns : Piped(d)'
  BY <1>2, <1>4, <1>7, <1>8, <1>9, PipedCommitted
<1>11. TokenIds' /\ HeldOK'
  BY <1>1 DEF TokenIds, HeldOK
<1>12. \A d \in Conns : Apart(d)'
  BY <1>1, <1>5 DEF Apart, Open
<1> QED
  BY <1>10, <1>11, <1>12 DEF PipeInv

\* A handler returns.
LEMMA PipeHandled ==
  ASSUME HttpInv, PipeInv, NEW keep \in BOOLEAN, handled(keep)
  PROVE  PipeInv'
<1>1. /\ HttpType /\ TokenIds /\ HeldOK /\ \A d \in Conns : Apart(d) /\ Piped(d)
      /\ rx.handling /\ rx' = [rx EXCEPT !.handling = FALSE] /\ rx \in RxType
      /\ UNCHANGED <<server, cab, accepted, token, starts>> /\ held \in SUBSET Contexts
  BY DEF HttpInv, HttpType, PipeInv, handled
<1>2. PICK c \in Conns : c = rx.c
  BY <1>1, Handling
<1>3. PICK idx \in Indexes : idx = ctx[c].req - 1
  BY <1>1, <1>2, Handling
<1>4. c <= accepted /\ token[c] \in TokenType
  BY <1>1, <1>2 DEF HeldOK, HttpType
<1>5. rx'.c = c /\ ~rx'.handling
  <2>1. ASSUME NEW i \in RxType PROVE [i EXCEPT !.handling = FALSE].c = i.c
    BY DEF RxType
  <2>2. ASSUME NEW i \in RxType PROVE ~[i EXCEPT !.handling = FALSE].handling
    BY DEF RxType
  <2> QED
    BY <2>1, <2>2, <1>1, <1>2
<1>6. TokenIds' /\ \A d \in Conns : Apart(d)'
  BY <1>1, <1>5 DEF TokenIds, Apart
<1> DEFINE K == {g.idx : g \in {f \in held : f.own = c}}
<1>7. WithHandler(c) = K \cup {idx}
  BY <1>1, <1>2, <1>3, Zenon DEF WithHandler
<1>8. CASE keep
  <2>1. PICK h \in Contexts : h = [tok |-> token[c], idx |-> idx, own |-> c]
    <3>1. [tok |-> token[c], idx |-> idx, own |-> c] \in Contexts
      BY <1>1, <1>2, <1>3, Handling
    <3> QED
      BY <3>1
  <2>2. held' = held \cup {h} /\ UNCHANGED <<sock, ctx>>
    BY <1>2, <1>3, <1>8, <2>1 DEF handled
  <2>3. h.tok = token[c] /\ h.idx = idx /\ h.own = c
    BY <2>1
  <2>4. HeldOK'
    BY <1>1, <1>2, <1>4, <1>5, <2>2, <2>3 DEF HeldOK
  <2>5. WithHandler(c)' = WithHandler(c)
    <3>1. {g.idx : g \in {f \in held' : f.own = c}} = K \cup {idx}
      <4>1. ASSUME NEW i \in {g.idx : g \in {f \in held' : f.own = c}} PROVE i \in K \cup {idx}
        <5>1. PICK g \in held' : g.own = c /\ i = g.idx
          OBVIOUS
        <5> QED
          BY <5>1, <2>2, <2>3
      <4>2. ASSUME NEW i \in K \cup {idx} PROVE i \in {g.idx : g \in {f \in held' : f.own = c}}
        <5>1. CASE i = idx
          BY <5>1, <2>2, <2>3
        <5>2. CASE i \in K
          BY <5>2, <2>2
        <5> QED
          BY <5>1, <5>2
      <4> QED
        BY <4>1, <4>2
    <3>2. WithHandler(c)' = {g.idx : g \in {f \in held' : f.own = c}}
      BY <1>5, Zenon DEF WithHandler
    <3> QED
      BY <3>1, <3>2, <1>7
  <2>6. ASSUME NEW d \in Conns PROVE WithHandler(d)' = WithHandler(d)
    <3>1. CASE d = c
      BY <3>1, <2>5
    <3>2. CASE d # c
      <4>1. \A g : g \in held' /\ g.own = d <=> g \in held /\ g.own = d
        BY <3>2, <2>2, <2>3
      <4> QED
        BY <3>2, <4>1, <2>2, <1>2, <1>5, SameHandlers
    <3> QED
      BY <3>1, <3>2
  <2>7. \A d \in Conns : Piped(d)'
    BY <1>1, <2>2, <2>6, OthersKept
  <2> QED
    BY <1>6, <2>4, <2>7 DEF PipeInv
<1>9. CASE ~keep
  <2>1. commitRespond(token[c], idx, c) /\ UNCHANGED held
    BY <1>2, <1>3, <1>9 DEF handled
  <2>2. \A d \in Conns : ctx'[d].req = ctx[d].req
    BY <1>4, <2>1, Committed
  <2>3. Open(c) => WithHandler(c)' = WithHandler(c) \ {idx}
    <3> SUFFICES ASSUME Open(c) PROVE WithHandler(c)' = WithHandler(c) \ {idx}
      OBVIOUS
    <3>1. idx \notin K
      BY <1>1, <1>2, <1>3 DEF Apart
    <3>2. WithHandler(c)' = {g.idx : g \in {f \in held' : f.own = c}}
      BY <1>5, Zenon DEF WithHandler
    <3> QED
      BY <3>1, <3>2, <2>1, <1>7
  <2>4. ASSUME NEW d \in Conns \ {c} PROVE WithHandler(d)' = WithHandler(d)
    BY <2>1, <2>2, <1>2, <1>5, SameHandlers
  <2>5. \A d \in Conns : Piped(d)'
    BY <1>4, <1>7, <2>1, <2>3, <2>4, PipedCommitted
  <2>6. HeldOK'
    BY <1>1, <1>4, <1>5, <2>1 DEF HeldOK
  <2> QED
    BY <1>6, <2>5, <2>6 DEF PipeInv
<1> QED
  BY <1>8, <1>9

\* The write callback writes more, ends the connection or disarms the event.
LEMMA PipeWrote ==
  ASSUME HttpInv, PipeInv, NEW c \in Conns, onWriteCallback(c)
  PROVE  PipeInv'
<1>1. /\ sock \in [Conns -> SockType(Messages)] /\ ctx \in [Conns -> CtxType] /\ token[c] \in TokenType
      /\ HttpType /\ TokenIds /\ accepted \in Nat /\ \A d \in Conns : Piped(d)
      /\ rx' = Idle /\ UNCHANGED <<server, accepted, token, held, starts>>
  BY DEF HttpInv, HttpType, PipeInv, onWriteCallback
<1>2. rx'.c <= accepted /\ ~rx'.handling /\ ~rx.handling
  <2>1. Idle.c = 0 /\ ~Idle.handling
    BY DEF Idle, NoConn
  <2> QED
    BY <1>1, <2>1 DEF onWriteCallback, Between
<1>3. PICK s \in SockType(Messages) : s = sock[c]
  BY <1>1
<1>4. s.out \in Seq(Messages) /\ s.wire \in Seq(Messages) /\ Len(s.out) \in Nat
  BY SockSeqs
<1>5. CASE s.out = <<>> /\ At(cab, token[c]) # NoObj /\ ctx[c].res > ctx[c].close
  <2>1. TcpDisconnect(token[c]) /\ ctx' = [ctx EXCEPT ![c].alive = FALSE]
    BY <1>3, <1>5 DEF onWriteCallback, onTcpSendCompleted
  <2>2. /\ \A d \in Conns : Chain(sock'[d]) = Chain(sock[d]) /\ sock'[d].peer = sock[d].peer
        /\ \A d \in Conns : sock'[d].bfd = "open" => sock'[d] = sock[d]
        /\ cab'.last_id = cab.last_id
    BY <1>1, <2>1, DisconnectedChains
  <2>3. \A d \in Conns : /\ ctx'[d].req = ctx[d].req /\ ctx'[d].res = ctx[d].res
                         /\ ctx'[d].buff = ctx[d].buff /\ ctx'[d].close = ctx[d].close
    BY <2>1, DeadNumbers
  <2>4. TokenIds'
    BY <1>1, <2>2 DEF TokenIds
  <2>5. \A d \in Conns : sock'[d].bfd = "open" =>
                           /\ Open(d) /\ sock'[d].wev = sock[d].wev /\ sock'[d].out = sock[d].out
    BY <2>2 DEF Open
  <2> QED
    BY <1>1, <1>2, <2>2, <2>3, <2>4, <2>5, PipeQuiet
<1>6. ASSUME NEW z, sock' = [sock EXCEPT ![c] = z], UNCHANGED <<cab, ctx>>,
             Chain(z) = Chain(s), z.peer = s.peer, z.bfd = s.bfd,
             s.bfd = "open" => WriteArmed(c)'
      PROVE  PipeInv'
  <2>1. sock'[c] = z /\ \A d \in Conns : d # c => sock'[d] = sock[d]
    BY <1>1, <1>6
  <2>2. TokenIds'
    BY <1>1, <1>6 DEF TokenIds
  <2>3. ASSUME NEW d \in Conns
        PROVE  /\ Chain(sock'[d]) = Chain(sock[d]) /\ sock'[d].peer = sock[d].peer
               /\ sock'[d].bfd = "open" =>
                    /\ Open(d)
                    /\ \/ sock'[d].wev = sock[d].wev /\ sock'[d].out = sock[d].out
                       \/ WriteArmed(d)'
    BY <2>1, <1>3, <1>6 DEF Open
  <2> QED
    BY <1>1, <1>2, <1>6, <2>2, <2>3, PipeQuiet
<1>7. CASE s.out # <<>>
  <2>1. Flush(c) /\ UNCHANGED <<cab, ctx>>
    BY <1>3, <1>7 DEF onWriteCallback
  <2>2. PICK n \in 0..Len(s.out) :
          sock' = [sock EXCEPT ![c].wire = @ \o SubSeq(s.out, 1, n),
                               ![c].out  = SubSeq(@, n + 1, Len(@))]
    BY <2>1, <1>3 DEF Flush
  <2>3. PICK o \in Seq(Messages), w \in Seq(Messages) : o = s.out /\ w = s.wire
    BY <1>4
  <2>4. n \in 0..Len(o) /\ Len(o) \in Nat
    BY <2>3, <1>4
  <2>5. PICK a \in Seq(Messages), b \in Seq(Messages) :
           /\ a = SubSeq(o, 1, n) /\ b = SubSeq(o, n + 1, Len(o))
           /\ Len(a) = n /\ Len(b) = Len(o) - n
           /\ \A i \in 1..n : a[i] = o[i]
           /\ \A i \in 1..(Len(o) - n) : b[i] = o[n + i]
    BY <2>4, CutIs
  <2>6. a \o b = o
    BY <2>4, <2>5, CutJoins, Zenon
  <2>7. (w \o a) \o b = w \o o
    <3>1. ASSUME NEW x \in Seq(Messages), NEW y \in Seq(Messages), NEW z \in Seq(Messages)
          PROVE  (x \o y) \o z = x \o (y \o z)
      BY SMTT(30)
    <3>2. (w \o a) \o b = w \o (a \o b)
      BY <3>1
    <3> QED
      BY <3>2, <2>6
  <2>8. PICK v : v = w \o a
    OBVIOUS
  <2>9. sock' = [sock EXCEPT ![c] = [s EXCEPT !.wire = v, !.out = b]]
    BY <1>1, <1>3, <2>2, <2>3, <2>5, <2>8 DEF SockType
  <2>10. PICK z : z = [s EXCEPT !.wire = v, !.out = b] /\ sock' = [sock EXCEPT ![c] = z]
    BY <2>9
  <2>11. z.wire = v /\ z.out = b /\ z.peer = s.peer /\ z.bfd = s.bfd
    BY <2>10 DEF SockType
  <2>12. z.wev = s.wev
    BY <2>10 DEF SockType
  <2>13. Chain(z) = Chain(s)
    BY <2>3, <2>7, <2>8, <2>11 DEF Chain
  <2>14. s.bfd = "open" => WriteArmed(c)'
    <3>1. s.bfd = "open" => WriteArmed(c)
      BY <1>1, <1>3 DEF Piped, Open
    <3>2. s.bfd = "open" => s.wev
      BY <3>1, <1>3, <1>7 DEF WriteArmed
    <3>3. sock'[c] = z
      BY <1>1, <2>10
    <3> QED
      BY <3>2, <3>3, <2>12 DEF WriteArmed
  <2> QED
    BY <1>6, <2>1, <2>10, <2>11, <2>13, <2>14
<1>8. CASE s.out = <<>> /\ ~(At(cab, token[c]) # NoObj /\ ctx[c].res > ctx[c].close)
  <2>1. sock' = [sock EXCEPT ![c] = [s EXCEPT !.wev = FALSE]] /\ UNCHANGED <<cab, ctx>>
    BY <1>1, <1>3, <1>8 DEF onWriteCallback, onTcpSendCompleted, WriteIdle
  <2>2. PICK z : z = [s EXCEPT !.wev = FALSE] /\ sock' = [sock EXCEPT ![c] = z]
    BY <2>1
  <2>3. z.wire = s.wire /\ z.out = s.out /\ z.peer = s.peer /\ z.bfd = s.bfd
    BY <2>2 DEF SockType
  <2>4. s.bfd = "open" => WriteArmed(c)'
    <3> SUFFICES ASSUME s.bfd = "open" PROVE WriteArmed(c)'
      OBVIOUS
    <3>1. At(cab, token[c]) = c /\ c # NoObj
      BY <1>3, OpenHeld, ConnsAssumption DEF Open, Conns
    <3>2. ~(ctx[c].res > ctx[c].close)
      BY <3>1, <1>8
    <3>3. sock'[c] = z
      BY <1>1, <2>2
    <3> QED
      BY <3>2, <3>3, <2>1, <2>3, <1>8 DEF WriteArmed
  <2>5. Chain(z) = Chain(s)
    BY <2>3 DEF Chain
  <2> QED
    BY <1>6, <2>1, <2>2, <2>3, <2>4, <2>5
<1> QED
  BY <1>5, <1>7, <1>8

\* Every step keeps the invariant.
LEMMA PipeInvStep ==
  ASSUME MaxStarts <= 1
  PROVE  HttpInv /\ PipeInv /\ [Next]_vars => PipeInv'
<1> SUFFICES ASSUME HttpInv, PipeInv, [Next]_vars PROVE PipeInv'
  OBVIOUS
<1>1. /\ sock \in [Conns -> SockType(Messages)] /\ ctx \in [Conns -> CtxType] /\ rx \in RxType
      /\ token \in [Conns -> TokenType] /\ accepted \in Nat /\ starts \in Nat /\ HttpType
      /\ TokenIds /\ HeldOK /\ Linked /\ rx.c <= accepted /\ \A d \in Conns : Piped(d)
  BY ReqsAssumption DEF HttpInv, HttpType, PipeInv, HeldOK
<1>2. Idle.c = NoConn /\ NoConn <= accepted /\ ~Idle.handling
  BY <1>1 DEF Idle, NoConn
<1>3. ASSUME TokenIds', UNCHANGED <<token, accepted, held, sock, ctx>>, rx'.c <= accepted,
             rx' = rx \/ (~rx.handling /\ ~rx'.handling)
      PROVE  PipeInv'
  BY <1>3, PipeQuiet DEF Open
<1>4. CASE UNCHANGED vars
  BY <1>1, <1>3, <1>4 DEF vars, tcpVars, httpVars, TokenIds
<1>5. CASE initialize
  <2>1. /\ UNCHANGED <<cab, accepted, token, sock, ctx, held, rx, starts>>
        /\ server = "none" /\ server' = "inited"
    BY <1>5 DEF initialize, TcpInitialize, httpVars
  <2> QED
    BY <1>1, <1>3, <2>1 DEF TokenIds
<1>6. CASE start
  <2>1. /\ UNCHANGED <<cab, accepted, token, sock, ctx, held, rx>> /\ server' = "running"
        /\ starts < MaxStarts /\ starts' = starts + 1
    BY <1>6 DEF start, TcpStart
  <2>2. starts = 0
    BY <1>1, <2>1, ReqsAssumption
  <2>3. TokenIds'
    BY <1>1, <2>1, <2>2 DEF TokenIds
  <2> QED
    BY <1>1, <1>3, <2>1, <2>3
<1>7. ASSUME TcpStopped, TokenIds', UNCHANGED <<token, accepted, held, rx>>,
             \A c \in Conns : /\ ctx'[c].req = ctx[c].req /\ ctx'[c].res = ctx[c].res
                              /\ ctx'[c].buff = ctx[c].buff /\ ctx'[c].close = ctx[c].close
      PROVE  PipeInv'
  <2>1. /\ \A c \in Conns : ~Open(c)'
        /\ \A c \in Conns : sock'[c].wire = sock[c].wire /\ sock'[c].out = sock[c].out
                            /\ sock'[c].peer = sock[c].peer
    BY <1>7, AllStopped
  <2>2. \A c \in Conns : /\ Chain(sock'[c]) = Chain(sock[c]) /\ sock'[c].peer = sock[c].peer
                         /\ sock'[c].bfd # "open"
    BY <2>1 DEF Chain, Open
  <2> QED
    BY <1>1, <1>7, <2>2, PipeQuiet
<1>8. CASE stop
  <2>1. /\ TcpStopped /\ server = "running" /\ server' = "inited"
        /\ UNCHANGED <<accepted, token, ctx, held, rx, starts>>
    BY <1>8 DEF stop, TcpStop, httpVars
  <2>2. TokenIds'
    BY <1>1, <2>1 DEF TokenIds
  <2> QED
    BY <1>7, <2>1, <2>2
<1>9. CASE cleanup
  <2>1. /\ server' = "none" /\ UNCHANGED <<accepted, token, held, rx, starts>>
        /\ ctx' = [c \in Conns |-> [ctx[c] EXCEPT !.alive = FALSE]]
        /\ server = "running" => TcpStopped
        /\ server # "running" => UNCHANGED <<cab, sock>>
    BY <1>9 DEF cleanup, TcpCleanup
  <2>2. ASSUME NEW c \in Conns
        PROVE  /\ ctx'[c].req = ctx[c].req /\ ctx'[c].res = ctx[c].res
               /\ ctx'[c].buff = ctx[c].buff /\ ctx'[c].close = ctx[c].close
    <3>1. ctx'[c] = [ctx[c] EXCEPT !.alive = FALSE]
      BY <2>1
    <3>2. PICK x \in CtxType : /\ x = [ctx[c] EXCEPT !.alive = FALSE] /\ x.req = ctx[c].req
                               /\ x.close = ctx[c].close /\ x.res = ctx[c].res /\ x.buff = ctx[c].buff
      BY <1>1, CtxDead
    <3> QED
      BY <3>1, <3>2
  <2>3. TokenIds'
    BY <1>1, <2>1 DEF TokenIds
  <2>4. CASE server = "running"
    BY <1>7, <2>1, <2>2, <2>3, <2>4
  <2>5. CASE server # "running"
    BY <1>1, <2>1, <2>2, <2>3, <2>5, PipeQuiet DEF Open
  <2> QED
    BY <2>4, <2>5
<1>10. ASSUME NEW c \in Conns, peerLeaves(c) PROVE PipeInv'
  <2>1. /\ sock' = [sock EXCEPT ![c].peer = "gone"]
        /\ UNCHANGED <<server, cab, accepted, token, ctx, held, rx, starts>>
    BY <1>10 DEF peerLeaves, httpVars
  <2>2. PICK s \in SockType(Messages) : s = sock[c]
    BY <1>1
  <2>3. PICK z : z = [s EXCEPT !.peer = "gone"] /\ z = sock'[c]
    BY <1>1, <2>1, <2>2
  <2>4. z.peer = "gone" /\ z.bfd = s.bfd /\ z.wire = s.wire /\ z.out = s.out
    BY <2>3 DEF SockType
  <2>5. z.wev = s.wev
    BY <2>3 DEF SockType
  <2>6. \A d \in Conns : d # c => sock'[d] = sock[d]
    BY <1>1, <2>1
  <2>7. ASSUME NEW d \in Conns
        PROVE  /\ Chain(sock'[d]) = Chain(sock[d])
               /\ sock'[d].peer = sock[d].peer \/ sock'[d].peer = "gone"
               /\ sock'[d].bfd = "open" =>
                    /\ Open(d) /\ sock'[d].wev = sock[d].wev /\ sock'[d].out = sock[d].out
    BY <2>2, <2>3, <2>4, <2>5, <2>6 DEF Chain, Open
  <2>8. TokenIds'
    BY <1>1, <2>1 DEF TokenIds
  <2> QED
    BY <1>1, <2>1, <2>7, <2>8, PipeQuiet
<1>11. ASSUME NEW c \in Conns, NEW late \in BOOLEAN, rx' = AfterRead(c, late), Open(c)
       PROVE  rx'.c <= accepted /\ ~rx'.handling
  <2>1. c <= accepted
    BY <1>1, <1>11 DEF Linked
  <2>2. [Idle EXCEPT !.c = c, !.late = TRUE].c = c
    BY DEF Idle
  <2>3. ~[Idle EXCEPT !.c = c, !.late = TRUE].handling
    BY DEF Idle
  <2> QED
    BY <1>2, <1>11, <2>1, <2>2, <2>3 DEF AfterRead
<1>12. ASSUME NEW c \in Conns, NEW late \in BOOLEAN, onTcpDisconnected(c, late) PROVE PipeInv'
  <2>1. /\ rx = Idle /\ Open(c) /\ rx' = AfterRead(c, late) /\ cab' = Free(cab, token[c])
        /\ UNCHANGED <<server, accepted, token, held, starts>>
        /\ sock' = [sock EXCEPT ![c].bfd = "closed", ![c].wev = FALSE]
        /\ ctx' = [ctx EXCEPT ![c].alive = FALSE]
    BY <1>12 DEF onTcpDisconnected, TcpDisconnected, Between
  <2>2. PICK s \in SockType(Messages) : s = sock[c]
    BY <1>1
  <2>3. sock' = [sock EXCEPT ![c] = [s EXCEPT !.bfd = "closed", !.wev = FALSE]]
    BY <1>1, <2>1, <2>2
  <2>4. PICK z : z = [s EXCEPT !.bfd = "closed", !.wev = FALSE] /\ z = sock'[c]
    BY <1>1, <2>3
  <2>5. Chain(z) = Chain(s) /\ z.peer = s.peer /\ z.bfd = "closed"
    BY <2>4, ChainClosed
  <2>6. \A d \in Conns : d # c => sock'[d] = sock[d]
    BY <1>1, <2>3
  <2>7. ASSUME NEW d \in Conns
        PROVE  /\ Chain(sock'[d]) = Chain(sock[d]) /\ sock'[d].peer = sock[d].peer
               /\ sock'[d].bfd = "open" =>
                    /\ Open(d) /\ sock'[d].wev = sock[d].wev /\ sock'[d].out = sock[d].out
    BY <2>2, <2>4, <2>5, <2>6 DEF Open
  <2>8. cab'.last_id = cab.last_id
    <3>1. Holds(cab, token[c]) /\ token[c] \in TokenType /\ CabOK(cab)
      BY <2>1, OpenHeld DEF HttpInv
    <3> QED
      BY <3>1, <2>1, CabFree
  <2>9. TokenIds'
    BY <1>1, <2>1, <2>8 DEF TokenIds
  <2>10. \A d \in Conns : /\ ctx'[d].req = ctx[d].req /\ ctx'[d].res = ctx[d].res
                          /\ ctx'[d].buff = ctx[d].buff /\ ctx'[d].close = ctx[d].close
    BY <2>1, DeadNumbers
  <2>11. rx'.c <= accepted /\ ~rx'.handling /\ ~rx.handling
    BY <1>2, <1>11, <2>1
  <2> QED
    BY <2>1, <2>7, <2>9, <2>10, <2>11, PipeQuiet
<1>13. ASSUME NEW c \in Conns, NEW late \in BOOLEAN, NEW batch \in Batches,
              onTcpReceived(c, batch, late)
       PROVE  PipeInv'
  <2>1. /\ rx = Idle /\ Open(c)
        /\ UNCHANGED <<server, cab, accepted, token, sock, ctx, held, starts>>
        /\ \/ rx' = [c |-> c, buf |-> batch, handling |-> FALSE, late |-> late]
           \/ rx' = AfterRead(c, late)
    BY <1>13 DEF onTcpReceived, tcpVars, Between
  <2>2. c <= accepted
    BY <1>1, <2>1 DEF Linked
  <2>3. CASE rx' = [c |-> c, buf |-> batch, handling |-> FALSE, late |-> late]
    <3>1. rx'.c = c
      BY <2>3
    <3>2. ~rx'.handling
      BY <2>3
    <3> QED
      BY <1>1, <1>2, <1>3, <2>1, <2>2, <3>1, <3>2 DEF TokenIds
  <2>4. CASE rx' = AfterRead(c, late)
    <3>1. rx'.c <= accepted /\ ~rx'.handling
      BY <1>11, <2>1, <2>4
    <3> QED
      BY <1>1, <1>2, <1>3, <2>1, <3>1 DEF TokenIds
  <2> QED
    BY <2>1, <2>3, <2>4
<1>14. CASE parseFail
  <2>1. /\ ~rx.handling /\ rx' = [rx EXCEPT !.buf = <<>>] /\ rx.c \in Conns
        /\ UNCHANGED <<server, accepted, token, held, starts>>
    BY <1>1, <1>14 DEF parseFail, RxType
  <2>2. PICK c \in Conns : c = rx.c
    BY <2>1
  <2>3. TcpDisconnect(token[c]) /\ ctx' = [ctx EXCEPT ![c].alive = FALSE] /\ token[c] \in TokenType
    BY <1>1, <1>14, <2>2 DEF parseFail
  <2>4. /\ \A d \in Conns : Chain(sock'[d]) = Chain(sock[d]) /\ sock'[d].peer = sock[d].peer
        /\ \A d \in Conns : sock'[d].bfd = "open" => sock'[d] = sock[d]
        /\ cab'.last_id = cab.last_id
    BY <2>3, DisconnectedChains
  <2>5. \A d \in Conns : /\ ctx'[d].req = ctx[d].req /\ ctx'[d].res = ctx[d].res
                         /\ ctx'[d].buff = ctx[d].buff /\ ctx'[d].close = ctx[d].close
    BY <2>3, DeadNumbers
  <2>6. TokenIds'
    BY <1>1, <2>1, <2>4 DEF TokenIds
  <2>7. rx'.c = rx.c
    <3>1. ASSUME NEW i \in RxType PROVE [i EXCEPT !.buf = <<>>].c = i.c
      BY DEF RxType
    <3> QED
      BY <3>1, <1>1, <2>1
  <2>8. rx'.handling = rx.handling
    <3>1. ASSUME NEW i \in RxType PROVE [i EXCEPT !.buf = <<>>].handling = i.handling
      BY DEF RxType
    <3> QED
      BY <3>1, <1>1, <2>1
  <2>9. \A d \in Conns : sock'[d].bfd = "open" =>
                           /\ Open(d) /\ sock'[d].wev = sock[d].wev /\ sock'[d].out = sock[d].out
    BY <2>4 DEF Open
  <2> QED
    BY <1>1, <2>1, <2>4, <2>5, <2>6, <2>7, <2>8, <2>9, PipeQuiet
<1>15. CASE receiveReturns
  <2>1. /\ rx' = Idle /\ ~rx.handling
        /\ UNCHANGED <<server, cab, accepted, token, sock, ctx, held, starts>>
    BY <1>15 DEF receiveReturns, tcpVars
  <2> QED
    BY <1>1, <1>2, <1>3, <2>1 DEF TokenIds
<1>16. CASE \E c \in Conns : onTcpConnected(c)
  BY <1>16, PipeConnected
<1>17. CASE \E c \in Conns : onWriteCallback(c)
  BY <1>17, PipeWrote
<1>18. CASE \E h \in held : finish(h)
  BY <1>18, PipeFinish
<1>19. CASE handle
  BY <1>19, PipeHandle
<1>20. CASE \E keep \in BOOLEAN : handled(keep)
  BY <1>20, PipeHandled
<1> QED
  BY <1>4, <1>5, <1>6, <1>8, <1>9, <1>10, <1>12, <1>13, <1>14, <1>15, <1>16, <1>17, <1>18, <1>19,
     <1>20, Zenon DEF Next, Loop

\* Pipelining on a server that is started at most once: whatever the order in which handlers
\* let go of their Contexts, the responses of a connection leave in the order of its requests,
\* each once and on its own connection; while it is open no request is lost between handler
\* and socket, and nothing that has to be written waits with the write event disabled.
THEOREM ResponsesInOrder ==
  ASSUME MaxStarts <= 1
  PROVE  Spec => []PipelineOrder
<1>1. HttpInv /\ PipeInv => PipelineOrder
  BY DEF PipeInv, Piped, PipelineOrder
<1>2. HttpInv /\ PipeInv /\ [Next]_vars => PipeInv'
  BY PipeInvStep
<1> QED
  BY <1>1, <1>2, PipeInvInit, HttpInvariance, PTL DEF Spec
=============================================================================
