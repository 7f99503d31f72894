----------------------------- MODULE HttpParser -----------------------------
(***************************************************************************)
(* http::server::RequestParser behind the receive loop of Server::Impl.    *)
(* A peer sends requests one after the other; TCP delivers their bytes in  *)
(* pieces that begin and end anywhere.  Text is a sequence of marks: the   *)
(* method is two, as it may be cut in the middle, then come the rest of    *)
(* the first line, lines of headers, each ended by CRLF, an empty line and *)
(* the body.  A line cut in the middle is one whose CRLF is not there.     *)
(***************************************************************************)
EXTENDS Integers, FiniteSets, SequencesExt

CONSTANTS MaxRequests,  \* bound: requests sent
          MaxBody       \* bound: bytes of a body

VARIABLE hp

CRLF == <<"crlf">>
Mark(x) == <<x>>
Unset == -1             \* numeric_limits<size_t>::max()

\* len: the Content-Length, Unset for none; body: the bytes sent after the empty line;
\* bad: what is wrong with it: the URL or the version of the first line; a header line that
\* has no colon, or no value behind it; a Content-Length that is no number
Requests ==
  {[len |-> n, body |-> n, bad |-> "none"] : n \in 0 .. MaxBody}
    \cup {[len |-> Unset, body |-> 0, bad |-> "none"]}
    \cup {[len |-> MaxBody, body |-> MaxBody, bad |-> b] : b \in {"line", "header", "number"}}

Text(q) ==
  <<Mark("meth"), Mark("od"), Mark(IF q.bad = "line" THEN "badline" ELSE "line"), CRLF>>
    \o <<CASE q.len = Unset -> Mark("header")
          [] q.bad = "number" -> Mark("nonumber")
          [] OTHER -> <<"length", q.len>>, CRLF>>
    \o (IF q.bad = "header" THEN <<Mark("badheader"), CRLF>> ELSE <<>>)
    \o <<CRLF>> \o [i \in 1 .. q.body |-> Mark("byte")]

\* state, len: state_ and content_length_ of the parser; buff: the receive buffer;
\* got: history, the bodies of the requests handled; whole: history, the requests all of
\* whose bytes have come; cut: history, a piece ended within a method;
\* swallow: history, bytes followed a request without Content-Length in its piece
HttpParserInit ==
  hp = [sent |-> <<>>, wire |-> <<>>, buff |-> <<>>,
        state |-> "init", len |-> 0, got |-> <<>>, whole |-> 0,
        cut |-> FALSE, swallow |-> FALSE]

From(s, pos) == SubSeq(s, pos + 1, Len(s))

\* str.find(CRLF, pos): the offset, or npos
NPos == 999
FindCRLF(s, pos) ==
  LET at == {i \in pos + 1 .. Len(s) : s[i] = CRLF}
  IN IF at = {} THEN NPos ELSE (CHOOSE i \in at : \A j \in at : i <= j) - 1

-----------------------------------------------------------------------------
(* parse(): from the state and the bytes, to the state, the bytes consumed *)
(* and the body                                                            *)

Parsed(state, len, pos, body) == [state |-> state, len |-> len, pos |-> pos, body |-> body]

\* mutant: the Content-Length of the request before is kept
startLineKeeps(s, len) ==
  IF ~IsPrefix(<<Mark("meth"), Mark("od")>>, s) THEN Parsed("fail", len, 0, 0)
  ELSE IF FindCRLF(s, 2) = NPos THEN Parsed("init", len, 0, 0)
  ELSE IF s[3] = Mark("badline") THEN Parsed("fail", len, 0, 0)
  ELSE Parsed("startline", len, FindCRLF(s, 2) + 1, 0)

\* state kInit: an unknown method fails, an incomplete line is left for later, and of a
\* complete one the URL and the version are looked at
startLine(s, len) ==
  IF ~IsPrefix(<<Mark("meth"), Mark("od")>>, s) THEN Parsed("fail", Unset, 0, 0)
  ELSE IF FindCRLF(s, 2) = NPos THEN Parsed("init", Unset, 0, 0)
  ELSE IF s[3] = Mark("badline") THEN Parsed("fail", Unset, 0, 0)
  ELSE Parsed("startline", Unset, FindCRLF(s, 2) + 1, 0)

RECURSIVE heads(_, _)

\* state kFinishedStartLine: line after line, up to the empty one; std::stoi() throws at
\* what is no number, and nobody catches it
heads(s, p) ==
  LET end == FindCRLF(s, p.pos)
      line == s[p.pos + 1]
  IN CASE end = p.pos -> [p EXCEPT !.state = "heads", !.pos = @ + 1]
       [] end = NPos  -> p
       [] OTHER ->
            IF line[1] = "badheader" THEN [p EXCEPT !.state = "fail"]
            ELSE IF line[1] = "nonumber" THEN [p EXCEPT !.state = "thrown"]
            ELSE heads(s, [p EXCEPT !.pos = end + 1,
                                    !.len = IF line[1] = "length" THEN line[2] ELSE @])

\* state kFinishedHeads: the body, of the length given or all there is
bodyOf(s, p) ==
  CASE p.len = Unset -> [p EXCEPT !.state = "all", !.body = Len(s) - p.pos, !.pos = Len(s)]
    [] p.len # Unset ->
         IF Len(s) - p.pos >= p.len
           THEN [p EXCEPT !.state = "all", !.body = p.len, !.pos = @ + p.len] ELSE p

parse(s, state, len) ==
  LET a == IF state = "init" THEN startLine(s, len) ELSE Parsed(state, len, 0, 0)
      b == IF a.state = "startline" THEN heads(s, a) ELSE a
  IN IF b.state = "heads" THEN bodyOf(s, b) ELSE b

-----------------------------------------------------------------------------
RECURSIVE received(_)

\* the loop of onTcpReceived(): getRequest() takes the parser back to its start
received(S) ==
  LET p == parse(S.buff, S.state, S.len)
      T == [S EXCEPT !.buff = From(@, p.pos), !.len = p.len,
                     !.state = IF p.state = "all" THEN "init" ELSE p.state]
  IN IF S.buff = <<>> THEN S
     ELSE IF p.state # "all" THEN T
     ELSE received([T EXCEPT !.got = Append(@, p.body)])

peerSends(q) ==
  /\ Len(hp.sent) < MaxRequests
  /\ hp' = [hp EXCEPT !.sent = Append(@, q), !.wire = @ \o Text(q)]

\* history: how many requests end within the first n bytes the peer ever sent
Whole(sent, n) ==
  Cardinality({i \in DOMAIN sent :
                 Len(FlattenSeq([j \in 1 .. i |-> Text(sent[j])])) <= n})

\* history: where in the requests the piece ends
Came(n) ==
  Len(FlattenSeq([j \in DOMAIN hp.sent |-> Text(hp.sent[j])])) - Len(hp.wire) + n

\* a piece of n bytes arrives
onReceived(n) ==
  LET piece == SubSeq(hp.wire, 1, n)
      whole == Whole(hp.sent, Came(n))
      S == [hp EXCEPT !.buff = @ \o piece, !.wire = From(@, n), !.whole = whole,
                      !.cut = @ \/ Last(piece) = Mark("meth"),
                      !.swallow = @ \/ \E i \in 1 .. whole :
                         /\ hp.sent[i].len = Unset /\ i > hp.whole
                         /\ Came(n) > Len(FlattenSeq([j \in 1 .. i |-> Text(hp.sent[j])]))]
  IN /\ hp.state \notin {"fail", "thrown"} /\ n <= Len(hp.wire)
     /\ hp' = received(S)

HttpParserNext ==
  \/ \E q \in Requests : peerSends(q)
  \/ \E n \in 1 .. MaxRequests * (9 + MaxBody) : onReceived(n)

-----------------------------------------------------------------------------
(* Properties                                                              *)

\* However TCP cuts the bytes, the requests handled are those that have come completely,
\* each with its own body, and the parser fails, or throws, only at a request that is
\* malformed in a way it does so for.  Two
\* ways of cutting are the exceptions: a piece that ends within a method makes the parser
\* fail, and a request without Content-Length takes what follows it in its piece for its
\* body.
FramingHolds ==
  ~hp.cut /\ ~hp.swallow =>
    /\ hp.state \notin {"fail", "thrown"} =>
         hp.got = [i \in 1 .. hp.whole |-> hp.sent[i].body]
    /\ hp.state \in {"fail", "thrown"} =>
         \E i \in DOMAIN hp.sent :
           /\ i = Len(hp.got) + 1
           /\ hp.sent[i].bad \in IF hp.state = "thrown" THEN {"number"} ELSE {"line", "header"}
=============================================================================
