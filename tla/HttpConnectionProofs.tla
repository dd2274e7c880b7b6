------------------------ MODULE HttpConnectionProofs ------------------------
(***************************************************************************)
(* Proofs about a connection of the HTTP servers, for whatever pieces the  *)
(* peer sends, and that it implements HttpExchange.                        *)
(***************************************************************************)
EXTENDS HttpConnection, HttpParserProofs

-----------------------------------------------------------------------------
(* The inductive invariant.                                                *)

\* The socket's queues: one read, one response to be written, or nothing.
Queues ==
  \/ \E op \in Operations : /\ reads = <<op>> /\ op.kind \in {"header", "body"}
                            /\ op.kind = "header" => op.buffer = buffer
                            /\ writes = <<>> /\ callback = NoCallback
  \/ \E op \in Operations : /\ writes = <<op>> /\ op.kind = "write"
                            /\ op.keepAlive = KeepsOn
                            /\ reads = <<>> /\ callback = NoCallback
  \/ reads = <<>> /\ writes = <<>>

Types ==
  /\ app \in {"keep_alive", "simple"}
  /\ wire \in Seq(STRING) /\ sent \in 0 .. MaxSegments /\ peer \in {"open", "ended"}
  /\ server \in {"serves", "stopped", "aborted"} /\ timer \in {"serves", "busy", "stopped"}
  /\ closed \in BOOLEAN
  /\ callback \in [kind : {"none", "header", "body", "write"}, ok : BOOLEAN]
  /\ callback.kind = "none" => callback = NoCallback
  /\ header \in Seq(STRING) /\ Len(header) <= HeaderCap
  /\ buffer \in {0, 1}
  /\ parser \in GoodParsers(RequestRows)
  /\ idle \in 0 .. IdleLimit
  /\ wait \in {"waiting", "closing", "none"}

\* The simple server gives a new Request only to a parser that has read nothing.
NewRequestNewParser ==
  app = "simple" /\ Awaits = "header" => parser = NewParser("RequestMethodStart")

IInv == Types /\ Queues /\ NewRequestNewParser

-----------------------------------------------------------------------------
(* Sequences of at most one element.                                       *)

\* Queues of one operation.
LEMMA Single ==
  ASSUME NEW x
  PROVE  /\ <<x>> # <<>> /\ Head(<<x>>) = x /\ Tail(<<x>>) = <<>>
         /\ Len(<<x>>) = 1 /\ Append(<<>>, x) = <<x>> /\ Len(<<>>) = 0
         /\ DOMAIN <<x>> = {1} /\ <<x>>[1] = x
OBVIOUS

\* The receive of a header is an operation, into the buffer it is given.
LEMMA HeaderReadTyped ==
  ASSUME NEW b \in {0, 1}
  PROVE  HeaderRead(b) \in Operations /\ HeaderRead(b).kind = "header"
         /\ HeaderRead(b).buffer = b
BY HttpConnectionOK DEF HeaderRead, Operations

\* A new parser is one that HttpParserProofs is about.
LEMMA NewParserTyped == NewParser("RequestMethodStart") \in GoodParsers(RequestRows)
<1>1. "RequestMethodStart" \in States(RequestRows)
  <2>1. "RequestMethodStart" \in {r[1] : r \in RequestLineRows}
    BY DEF RequestLineRows
  <2> QED BY <2>1 DEF States, RequestRows
<1>2. NewMessage \in Messages
  <2>1. <<>> \in Seq(STRING) /\ <<>> \in Seq(Headers)
    OBVIOUS
  <2> QED BY <2>1 DEF NewMessage, Messages
<1>3. NewParser("RequestMethodStart") \in Parsers(RequestRows)
  <2>1. <<>> \in Seq(STRING) /\ 0 \in 0 .. SizeModulus - 1
    BY SizeModulusOK
  <2> QED BY <1>1, <1>2, <2>1 DEF NewParser, Parsers, Results
<1> QED BY <1>3 DEF GoodParsers, AtHand, NewParser, InHeader

\* What the callbacks submit are operations.
LEMMA OperationTyped ==
  ASSUME Types, NEW kind \in {"header", "body", "write"}, NEW size \in Nat,
         NEW keepAlive \in BOOLEAN
  PROVE  Operation(kind, size, keepAlive) \in Operations
BY DEF Operation, Operations, Types

\* Whether the connection goes on is decided.
LEMMA KeepsOnTyped == ASSUME Types PROVE KeepsOn \in BOOLEAN
BY DEF KeepsOn, Types, GoodParsers, Parsers, Messages

-----------------------------------------------------------------------------
(* The three forms of the queues.                                          *)

\* A read that is queued is the only thing the connection waits for, and
\* that of a header is into its own buffer.
LEMMA WhenReading ==
  ASSUME IInv, reads # <<>>
  PROVE  \E op \in Operations :
           /\ reads = <<op>> /\ op.kind \in {"header", "body"}
           /\ op.kind = "header" => op.buffer = buffer
           /\ Head(reads) = op /\ Tail(reads) = <<>>
           /\ writes = <<>> /\ callback = NoCallback /\ Awaits = op.kind
<1>1. PICK op \in Operations : /\ reads = <<op>> /\ op.kind \in {"header", "body"}
                               /\ op.kind = "header" => op.buffer = buffer
                               /\ writes = <<>> /\ callback = NoCallback
  BY Single DEF IInv, Queues
<1> QED BY <1>1, Single DEF Awaits

\* A response that is queued is the only thing the connection waits for, and
\* says what the connection will do.
LEMMA WhenWriting ==
  ASSUME IInv, writes # <<>>
  PROVE  \E op \in Operations :
           /\ writes = <<op>> /\ op.kind = "write" /\ op.keepAlive = KeepsOn
           /\ Head(writes) = op /\ Tail(writes) = <<>>
           /\ reads = <<>> /\ callback = NoCallback /\ Awaits = "write"
<1>1. PICK op \in Operations : /\ writes = <<op>> /\ op.kind = "write"
                               /\ op.keepAlive = KeepsOn
                               /\ reads = <<>> /\ callback = NoCallback
  BY Single DEF IInv, Queues
<1> QED BY <1>1, Single DEF Awaits

\* During a callback nothing is queued.
LEMMA WhenCalledBack ==
  ASSUME IInv, callback # NoCallback
  PROVE  /\ reads = <<>> /\ writes = <<>>
         /\ Awaits = callback.kind /\ callback.kind \in {"header", "body", "write"}
BY DEF IInv, Queues, Types, Awaits

\* There is one value that stands for no callback.
LEMMA WhenNoCallback == ASSUME IInv PROVE callback = NoCallback <=> callback.kind = "none"
BY DEF IInv, Types, NoCallback

\* What the callback of a header parses.
LEMMA ParsedTyped ==
  ASSUME IInv, callback.kind = "header"
  PROVE  Parsed \in GoodParsers(RequestRows)
<1> DEFINE p == IF app = "simple" THEN [parser EXCEPT !.message = NewMessage] ELSE parser
<1>1. parser \in GoodParsers(RequestRows) /\ header \in Seq(STRING)
  BY DEF IInv, Types
<1>2. Awaits = "header"
  BY WhenCalledBack, WhenNoCallback
<1>3. p \in GoodParsers(RequestRows)
  <2>1. CASE app = "simple"
    <3>1. parser = NewParser("RequestMethodStart")
      BY <1>2, <2>1 DEF IInv, NewRequestNewParser
    <3>2. parser.message = NewMessage
      BY <3>1 DEF NewParser
    <3>3. [parser EXCEPT !.message = NewMessage] = parser
      BY <1>1, <3>2 DEF GoodParsers, Parsers
    <3>4. p = parser
      BY <2>1, <3>3
    <3> QED BY <1>1, <3>4
  <2>2. CASE app # "simple"
    BY <1>1, <2>2
  <2> QED BY <2>1, <2>2
<1>4. Parsed = Parse(RequestRows, p, header)
  BY DEF Parsed
<1> HIDE DEF p
<1> QED BY <1>1, <1>3, <1>4, ParseTyped, RequestTableOK

\* The first receive is queued, and nothing else.
LEMMA InitIInv == Init => IInv
<1> SUFFICES ASSUME Init PROVE IInv
  OBVIOUS
<1>1. Types
  <2>1. <<>> \in Seq(STRING) /\ Len(<<>>) = 0
    OBVIOUS
  <2>2. sent \in 0 .. MaxSegments /\ idle \in 0 .. IdleLimit /\ Len(header) <= HeaderCap
    BY <2>1, HttpConnectionOK DEF Init
  <2>3. callback \in [kind : {"none", "header", "body", "write"}, ok : BOOLEAN]
    BY DEF Init, NoCallback
  <2>4. parser \in GoodParsers(RequestRows)
    BY NewParserTyped DEF Init
  <2> QED BY <2>1, <2>2, <2>3, <2>4 DEF Init, Types
<1>2. Queues
  BY HeaderReadTyped DEF Init, Queues
<1> QED BY <1>1, <1>2 DEF Init, IInv, NewRequestNewParser

-----------------------------------------------------------------------------
(* Every step keeps the invariant.  Most steps leave parser and app, and    *)
(* either wait for what they waited for or for nothing more.                *)

\* The simple server's parser stays new where no header is awaited anew.
LEMMA KeepsNewParser ==
  ASSUME IInv, UNCHANGED <<app, parser>>, Awaits' = "header" => Awaits = "header"
  PROVE  NewRequestNewParser'
BY DEF IInv, NewRequestNewParser

\* Whatever leaves the connection and its queues alone keeps Queues.
LEMMA KeepsQueues ==
  ASSUME IInv, UNCHANGED <<app, parser, buffer, reads, writes, callback>>
  PROVE  Queues' /\ Awaits' = Awaits
BY DEF IInv, Queues, Awaits, KeepsOn

\* With empty queues the connection waits for its callback.
LEMMA EmptyQueues ==
  ASSUME reads' = <<>>, writes' = <<>>
  PROVE  Queues' /\ Awaits' = callback'.kind
BY DEF Queues, Awaits

\* What the peer sends stays in the network.
LEMMA PeerSendIInv == ASSUME IInv, PeerSend PROVE IInv'
<1>1. Types'
  <2>1. PICK segment \in Segments : wire' = wire \o segment
    BY DEF PeerSend
  <2>2. segment \in Seq(STRING)
    BY HttpConnectionOK
  <2>3. wire' \in Seq(STRING)
    BY <2>1, <2>2 DEF IInv, Types
  <2>4. sent' \in 0 .. MaxSegments
    BY HttpConnectionOK DEF PeerSend, IInv, Types
  <2> QED BY <2>3, <2>4 DEF PeerSend, IInv, Types, socketVars, requestVars
<1>2. Queues' /\ Awaits' = Awaits
  BY KeepsQueues DEF PeerSend, socketVars, requestVars
<1> QED BY <1>1, <1>2, KeepsNewParser DEF PeerSend, requestVars, IInv

\* Steps that change nothing the queues and the parser depend on.
LEMMA OutsideIInv ==
  ASSUME IInv,
         PeerEnd \/ ServerStop \/ HangUp \/ Tick \/ Expires \/ ExpiredClose \/ TimerOfOthers
           \/ (\E q : HeaderThrows(q))
  PROVE  IInv'
<1>1. UNCHANGED <<app, requestVars, reads, writes, callback, wire, sent>>
  BY DEF PeerEnd, ServerStop, HangUp, Tick, Expires, ExpiredClose, TimerOfOthers, TimerBusy,
         TimerServes, TimerStop, HeaderThrows, peerVars, socketVars
<1>2. idle' \in 0 .. IdleLimit
  BY HttpConnectionOK DEF PeerEnd, ServerStop, HangUp, Tick, Expires, ExpiredClose, TimerOfOthers,
     TimerBusy, TimerServes, TimerStop, HeaderThrows, IInv, Types
<1>3. peer' \in {"open", "ended"} /\ server' \in {"serves", "stopped", "aborted"}
      /\ timer' \in {"serves", "busy", "stopped"} /\ closed' \in BOOLEAN
      /\ wait' \in {"waiting", "closing", "none"}
  BY DEF PeerEnd, ServerStop, HangUp, Tick, Expires, ExpiredClose, TimerOfOthers, TimerBusy,
         TimerServes, TimerStop, HeaderThrows, IInv, Types, peerVars, socketVars
<1>4. Types'
  BY <1>1, <1>2, <1>3 DEF IInv, Types, requestVars
<1>5. Queues' /\ Awaits' = Awaits
  BY <1>1, KeepsQueues DEF requestVars
<1> QED BY <1>1, <1>4, <1>5, KeepsNewParser DEF requestVars, IInv

\* A callback is called with a kind and a result.
LEMMA CallBackTyped ==
  ASSUME NEW kind \in {"header", "body", "write"}, NEW ok \in BOOLEAN, CallBack(kind, ok)
  PROVE  /\ callback' \in [kind : {"none", "header", "body", "write"}, ok : BOOLEAN]
         /\ callback'.kind = kind /\ callback' # NoCallback
BY DEF CallBack, NoCallback

\* A header received: the read leaves the queue as its callback begins.
LEMMA ReadHeaderIInv == ASSUME IInv, ReadHeader PROVE IInv'
<1> DEFINE free == {Len(wire), HeaderCap - Len(header)}
           n == Min(free)
<1>1. PICK op \in Operations : /\ op.kind = "header" /\ Tail(reads) = <<>>
                               /\ writes = <<>> /\ Awaits = "header"
  BY WhenReading DEF ReadHeader
<1>2. callback'.kind = "header" /\ callback' # NoCallback
      /\ callback' \in [kind : {"none", "header", "body", "write"}, ok : BOOLEAN]
  BY CallBackTyped DEF ReadHeader
<1>3. wire \in Seq(STRING) /\ header \in Seq(STRING) /\ Len(header) <= HeaderCap
      /\ HeaderCap \in Nat
  BY HttpConnectionOK DEF IInv, Types
<1>4. n \in Nat /\ n <= Len(wire) /\ n <= HeaderCap - Len(header)
  <2>1. free \subseteq Nat /\ free # {}
    BY <1>3
  <2>2. n \in free /\ \A m \in free : n <= m
    <3> HIDE DEF free
    <3> QED BY <2>1, MinFacts
  <2> QED BY <2>1, <2>2
<1>5. header' = header \o SubSeq(wire, 1, n) /\ wire' = SubSeq(wire, n + 1, Len(wire))
  BY DEF ReadHeader
<1> HIDE DEF n
<1>6. SubSeq(wire, 1, n) \in Seq(STRING) /\ Len(SubSeq(wire, 1, n)) = n
  BY <1>3, <1>4, SubSeqProperties
<1>7. SubSeq(wire, n + 1, Len(wire)) \in Seq(STRING)
  BY <1>3, <1>4, SubSeqProperties
<1>8. header' \in Seq(STRING) /\ Len(header') <= HeaderCap /\ wire' \in Seq(STRING)
  BY <1>3, <1>4, <1>5, <1>6, <1>7, ConcatProperties
<1>9. Types'
  BY <1>2, <1>8 DEF ReadHeader, IInv, Types
<1>10. Queues' /\ Awaits' = "header"
  BY <1>1, <1>2, EmptyQueues DEF ReadHeader
<1> QED BY <1>1, <1>9, <1>10, KeepsNewParser DEF ReadHeader, IInv

\* A body received: the same.
LEMMA ReadBodyIInv == ASSUME IInv, ReadBody PROVE IInv'
<1>1. PICK op \in Operations : /\ Head(reads) = op /\ op.kind = "body" /\ Tail(reads) = <<>>
                               /\ writes = <<>> /\ Awaits = "body"
  BY WhenReading DEF ReadBody
<1>2. callback'.kind = "body" /\ callback' # NoCallback
      /\ callback' \in [kind : {"none", "header", "body", "write"}, ok : BOOLEAN]
  BY CallBackTyped DEF ReadBody
<1>3. wire' \in Seq(STRING)
  <2>1. wire \in Seq(STRING) /\ op.size \in 1 .. Len(wire)
    BY <1>1 DEF ReadBody, IInv, Types
  <2>2. wire' = SubSeq(wire, op.size + 1, Len(wire))
    BY <1>1 DEF ReadBody
  <2> QED BY <2>1, <2>2, SubSeqProperties
<1>4. Types'
  BY <1>2, <1>3 DEF ReadBody, IInv, Types, requestVars
<1>5. Queues' /\ Awaits' = "body"
  BY <1>1, <1>2, EmptyQueues DEF ReadBody
<1> QED BY <1>1, <1>4, <1>5, KeepsNewParser DEF ReadBody, IInv, requestVars

\* Part of a body leaves the read where it is.
LEMMA ReadBodyPartIInv == ASSUME IInv, ReadBodyPart PROVE IInv'
<1>1. <<>> \in Seq(STRING)
  OBVIOUS
<1>2. Types'
  BY <1>1 DEF ReadBodyPart, IInv, Types, requestVars, socketVars
<1>3. Queues' /\ Awaits' = Awaits
  BY KeepsQueues DEF ReadBodyPart, requestVars, socketVars
<1> QED BY <1>2, <1>3, KeepsNewParser DEF ReadBodyPart, IInv, requestVars

\* A read that fails leaves the queue as its callback begins.
LEMMA ReadFailsIInv == ASSUME IInv, ReadFails PROVE IInv'
<1>1. PICK op \in Operations : /\ Head(reads) = op /\ op.kind \in {"header", "body"}
                               /\ Tail(reads) = <<>> /\ writes = <<>> /\ Awaits = op.kind
  BY WhenReading DEF ReadFails
<1>2. callback'.kind = op.kind /\ callback' # NoCallback
      /\ callback' \in [kind : {"none", "header", "body", "write"}, ok : BOOLEAN]
  <2>1. CallBack(op.kind, FALSE)
    BY <1>1 DEF ReadFails
  <2> QED BY <1>1, <2>1, CallBackTyped
<1>3. Types'
  BY <1>1, <1>2 DEF ReadFails, IInv, Types, requestVars, peerVars
<1>4. Queues' /\ Awaits' = op.kind
  BY <1>1, <1>2, EmptyQueues DEF ReadFails
<1> QED BY <1>1, <1>3, <1>4, KeepsNewParser DEF ReadFails, IInv, requestVars

\* A response that is sent, or fails, leaves the queue as its callback begins.
LEMMA WriteIInv == ASSUME IInv, Write PROVE IInv'
<1>1. reads = <<>> /\ Tail(writes) = <<>> /\ Awaits = "write"
  BY WhenWriting DEF Write
<1>2. callback'.kind = "write" /\ callback' # NoCallback
      /\ callback' \in [kind : {"none", "header", "body", "write"}, ok : BOOLEAN]
  <2>1. PICK ok \in {TRUE} \cup {peer = "open"} : CallBack("write", ok)
    BY DEF Write
  <2>2. ok \in BOOLEAN
    OBVIOUS
  <2> QED BY <2>1, <2>2, CallBackTyped
<1>3. Types'
  BY <1>2 DEF Write, IInv, Types, requestVars, peerVars
<1>4. Queues' /\ Awaits' = "write"
  BY <1>1, <1>2, EmptyQueues DEF Write
<1> QED BY <1>1, <1>3, <1>4, KeepsNewParser DEF Write, IInv, requestVars

\* close() empties the queues, and there is no callback it could meet.
LEMMA DrainEnds ==
  ASSUME IInv, Drain
  PROVE  reads' = <<>> /\ writes' = <<>> /\ callback = NoCallback /\ Awaits' = "none"
         /\ Awaits # "none"
<1>1. reads # <<>> \/ writes # <<>>
  <2>1. <<>> \o <<>> = <<>>
    OBVIOUS
  <2> QED BY <2>1 DEF Drain
<1>2. CASE reads # <<>>
  BY <1>2, WhenReading DEF Drain, Awaits, NoCallback
<1>3. CASE reads = <<>>
  <2>1. /\ Tail(writes) = <<>> /\ callback = NoCallback /\ Awaits = "write"
    BY <1>1, <1>3, WhenWriting
  <2>2. writes' = <<>> /\ reads' = <<>> /\ callback' = callback
    BY <1>3, <2>1 DEF Drain
  <2> QED BY <2>1, <2>2, EmptyQueues DEF NoCallback
<1> QED BY <1>2, <1>3

\* close() keeps the invariant.
LEMMA DrainIInv == ASSUME IInv, Drain PROVE IInv'
<1>1. Types'
  BY DEF Drain, IInv, Types, requestVars, peerVars
<1>2. Queues' /\ Awaits' = "none"
  BY DrainEnds, EmptyQueues
<1> QED BY <1>1, <1>2, KeepsNewParser DEF Drain, IInv, requestVars

-----------------------------------------------------------------------------
(* The callbacks.                                                          *)

\* Every callback returns.
LEMMA ReturnsTyped ==
  ASSUME IInv, NEW kind \in {"header", "body", "write"}, Returns(kind)
  PROVE  /\ callback # NoCallback /\ callback.kind = kind /\ callback' = NoCallback
         /\ callback' \in [kind : {"none", "header", "body", "write"}, ok : BOOLEAN]
         /\ callback'.kind = "none"
         /\ reads = <<>> /\ writes = <<>> /\ Awaits = kind
         /\ UNCHANGED <<app, peerVars, server, timer, wait>>
<1>1. callback # NoCallback /\ callback.kind = kind /\ callback' = NoCallback
  BY WhenNoCallback DEF Returns
<1>2. NoCallback \in [kind : {"none", "header", "body", "write"}, ok : BOOLEAN]
      /\ NoCallback.kind = "none"
  BY DEF NoCallback
<1> QED BY <1>1, <1>2, WhenCalledBack DEF Returns

\* After it the connection waits for one thing, or for none when it is closed.
LEMMA ThenReading ==
  ASSUME NEW op \in Operations, op.kind \in {"header", "body"},
         op.kind = "header" => op.buffer = buffer',
         reads = <<>>, Reading(op), writes' = <<>>, callback' = NoCallback
  PROVE  Queues' /\ Awaits' \in {op.kind, "none"}
<1>1. CASE closed
  BY <1>1, EmptyQueues DEF Reading, NoCallback
<1>2. CASE ~closed
  <2>1. reads' = <<op>>
    BY <1>2, Single DEF Reading
  <2> QED BY <2>1, Single DEF Queues, Awaits
<1> QED BY <1>1, <1>2

\* A callback that sends a response leaves it alone in the queue.
LEMMA ThenWriting ==
  ASSUME NEW op \in Operations, op.kind = "write", op.keepAlive = KeepsOn',
         writes = <<>>, Writing(op), reads' = <<>>, callback' = NoCallback
  PROVE  Queues' /\ Awaits' \in {"write", "none"}
<1>1. CASE closed
  BY <1>1, EmptyQueues DEF Writing, NoCallback
<1>2. CASE ~closed
  <2>1. writes' = <<op>>
    BY <1>2, Single DEF Writing
  <2> QED BY <2>1, Single DEF Queues, Awaits
<1> QED BY <1>1, <1>2

\* A callback that was told of an error ends the exchange.
LEMMA CallbackFailedStep ==
  ASSUME IInv, CallbackFailed
  PROVE  /\ reads' = <<>> /\ writes' = <<>> /\ Awaits' = "none" /\ Awaits # "none"
         /\ IInv'
<1>1. callback # NoCallback /\ callback.kind \in {"header", "body", "write"}
  <2>1. ~callback.ok
    BY DEF CallbackFailed
  <2>2. callback # NoCallback
    BY <2>1 DEF NoCallback
  <2> QED BY <2>2, WhenCalledBack
<1>2. /\ callback' = NoCallback /\ callback'.kind = "none"
      /\ callback' \in [kind : {"none", "header", "body", "write"}, ok : BOOLEAN]
      /\ reads = <<>> /\ writes = <<>> /\ Awaits = callback.kind
      /\ UNCHANGED <<app, peerVars, server, timer, wait>>
  <2>1. Returns(callback.kind)
    BY DEF CallbackFailed
  <2> QED BY <1>1, <2>1, ReturnsTyped
<1>3. closed' = TRUE /\ UNCHANGED <<reads, writes, requestVars, idle>>
  BY DEF CallbackFailed
<1>4. Types'
  BY <1>2, <1>3 DEF IInv, Types, peerVars, requestVars
<1>5. Queues' /\ Awaits' = "none"
  BY <1>2, <1>3, EmptyQueues
<1> QED BY <1>1, <1>2, <1>3, <1>4, <1>5, KeepsNewParser DEF IInv, requestVars

\* The length that a header announces is a number.
LEMMA BodyLengthTyped ==
  ASSUME NEW q, q.message \in Messages
  PROVE  BodyLength(q) \in Int
<1> DEFINE m == q.message
           hs == m.headers
           I == {i \in 1 .. Len(hs) : hs[i].name = <<"Content-Length">>}
<1>1. hs \in Seq(Headers)
  BY DEF Messages
<1>2. Announced(m) \in Seq(STRING)
  <2>1. CASE I = {}
    <3>1. Announced(m) = <<>>
      BY <2>1 DEF Announced, SelectInSeq
    <3>2. <<>> \in Seq(STRING)
      OBVIOUS
    <3> QED BY <3>1, <3>2
  <2>2. CASE I # {}
    <3>1. I \subseteq Nat /\ 0 \notin I
      OBVIOUS
    <3>2. Min(I) \in I /\ Min(I) # 0
      <4> HIDE DEF I
      <4> QED BY <2>2, <3>1, MinFacts
    <3>3. Announced(m) = hs[Min(I)].value
      BY <2>2, <3>2 DEF Announced, SelectInSeq
    <3>4. Min(I) \in 1 .. Len(hs)
      BY <3>2
    <3> HIDE DEF I, hs
    <3>5. hs[Min(I)] \in Headers
      BY <1>1, <3>4, ElementOfSeq
    <3> QED BY <3>3, <3>5 DEF Headers
  <2> QED BY <2>1, <2>2
<1> HIDE DEF m
<1>3. Value(Signed(Announced(m))) \in Int
  BY <1>2, SignedTyped
<1> QED BY <1>3 DEF BodyLength, m

\* A receive resets the time since the last one.
LEMMA ReceivedTyped == ASSUME Types, Received PROVE idle' \in 0 .. IdleLimit
BY HttpConnectionOK DEF Types, Received

\* The header has been parsed: the body is next, or the response.
LEMMA HeaderReceivedStep ==
  ASSUME IInv, HeaderReceived(Parsed)
  PROVE  Awaits = "header" /\ Awaits' \in {"body", "write", "none"} /\ IInv'
<1> DEFINE q == Parsed
<1>1. /\ reads = <<>> /\ writes = <<>> /\ Awaits = "header" /\ callback' = NoCallback
      /\ callback' \in [kind : {"none", "header", "body", "write"}, ok : BOOLEAN]
      /\ callback.kind = "header"
      /\ UNCHANGED <<app, peerVars, server, timer, wait, closed, header, buffer>>
  BY ReturnsTyped DEF HeaderReceived
<1>2. q \in GoodParsers(RequestRows) /\ parser' = q
  BY <1>1, ParsedTyped DEF HeaderReceived
<1> HIDE DEF q
<1>3. Types'
  <2>1. idle' \in 0 .. IdleLimit
    BY ReceivedTyped DEF HeaderReceived, IInv
  <2> QED BY <1>1, <1>2, <2>1 DEF IInv, Types, peerVars
<1>4. CASE ReadsBody(q)
  <2> DEFINE op == Operation("body", BodyLength(q), FALSE)
  <2>1. op \in Operations /\ op.kind = "body"
    <3>1. q.message \in Messages
      BY <1>2 DEF GoodParsers, Parsers
    <3>2. BodyLength(q) \in Nat
      <4>1. BodyLength(q) \in Int
        BY <3>1, BodyLengthTyped
      <4>2. ~ (BodyLength(q) < 0)
        BY <1>4 DEF HeaderReceived, Aborts, q
      <4> QED BY <4>1, <4>2
    <3>3. op.kind = "body"
      BY DEF Operation
    <3> QED BY <3>2, <3>3, OperationTyped DEF IInv
  <2>2. Reading(op) /\ UNCHANGED writes
    BY <1>4 DEF HeaderReceived, q
  <2> HIDE DEF op
  <2>3. Queues' /\ Awaits' \in {"body", "none"}
    BY <1>1, <2>1, <2>2, ThenReading
  <2> QED BY <1>1, <1>3, <2>3 DEF IInv, NewRequestNewParser
<1>5. CASE ~ ReadsBody(q)
  <2> DEFINE keep == app = "keep_alive" /\ q.message.keepAlive
             op == Operation("write", 0, keep)
  <2>1. keep = KeepsOn'
    BY <1>1, <1>2 DEF KeepsOn
  <2>2. op \in Operations /\ op.kind = "write" /\ op.keepAlive = KeepsOn'
    <3>1. keep \in BOOLEAN
      <4>1. q.message.keepAlive \in BOOLEAN
        BY <1>2 DEF GoodParsers, Parsers, Messages
      <4> QED BY <4>1
    <3>2. op.kind = "write" /\ op.keepAlive = keep
      BY DEF Operation
    <3> HIDE DEF keep
    <3> QED BY <2>1, <3>1, <3>2, OperationTyped DEF IInv
  <2>3. Writing(op) /\ UNCHANGED reads
    BY <1>5 DEF HeaderReceived, SendResponse, q
  <2> HIDE DEF op
  <2>4. Queues' /\ Awaits' \in {"write", "none"}
    BY <1>1, <2>2, <2>3, ThenWriting
  <2> QED BY <1>1, <1>3, <2>4 DEF IInv, NewRequestNewParser
<1> QED BY <1>4, <1>5

\* After the body comes the response.
LEMMA BodyReceivedStep ==
  ASSUME IInv, BodyReceived
  PROVE  Awaits = "body" /\ Awaits' \in {"write", "none"} /\ IInv'
<1>1. /\ reads = <<>> /\ writes = <<>> /\ Awaits = "body" /\ callback' = NoCallback
      /\ callback' \in [kind : {"none", "header", "body", "write"}, ok : BOOLEAN]
      /\ UNCHANGED <<app, peerVars, server, timer, wait, closed, reads, requestVars>>
  BY ReturnsTyped DEF BodyReceived
<1>2. Types'
  <2>1. idle' \in 0 .. IdleLimit
    BY ReceivedTyped DEF BodyReceived, IInv
  <2> QED BY <1>1, <2>1 DEF IInv, Types, peerVars, requestVars
<1> DEFINE keep == app = "keep_alive" /\ parser.message.keepAlive
           op == Operation("write", 0, keep)
<1>3. keep = KeepsOn /\ KeepsOn' = KeepsOn
  BY <1>1 DEF KeepsOn, requestVars
<1>4. op \in Operations /\ op.kind = "write" /\ op.keepAlive = KeepsOn'
  <2>1. op.kind = "write" /\ op.keepAlive = keep
    BY DEF Operation
  <2> HIDE DEF keep
  <2> QED BY <1>3, <2>1, KeepsOnTyped, OperationTyped DEF IInv
<1>5. Writing(op)
  BY DEF BodyReceived, SendResponse
<1> HIDE DEF op
<1>6. Queues' /\ Awaits' \in {"write", "none"}
  BY <1>1, <1>4, <1>5, ThenWriting
<1> QED BY <1>1, <1>2, <1>6, KeepsNewParser DEF IInv, requestVars

\* After the response comes the end, or the next header if the response said so.
LEMMA ResponseSentStep ==
  ASSUME IInv, ResponseSent
  PROVE  /\ Awaits = "write" /\ IInv'
         /\ Awaits' = "none" \/ (KeepsOn /\ Awaits' = "header")
<1>1. /\ reads = <<>> /\ writes = <<>> /\ Awaits = "write" /\ callback' = NoCallback
      /\ callback' \in [kind : {"none", "header", "body", "write"}, ok : BOOLEAN]
      /\ callback'.kind = "none"
      /\ UNCHANGED <<app, peerVars, server, timer, wait, writes, parser, idle>>
  BY ReturnsTyped DEF ResponseSent
<1>2. CASE KeepsOn
  <2>1. ReceiveNext /\ UNCHANGED closed
    BY <1>2 DEF ResponseSent
  <2>2. Types'
    <3>1. <<>> \in Seq(STRING) /\ Len(<<>>) = 0
      OBVIOUS
    <3>2. header' = <<>> /\ buffer' \in {0, 1} /\ Len(header') <= HeaderCap
      BY <2>1, <3>1, HttpConnectionOK DEF ReceiveNext, IInv, Types
    <3> QED BY <1>1, <2>1, <3>1, <3>2 DEF IInv, Types, peerVars
  <2>3. HeaderRead(1 - buffer) \in Operations /\ HeaderRead(1 - buffer).kind = "header"
        /\ HeaderRead(1 - buffer).buffer = buffer'
    BY <2>1, HeaderReadTyped DEF ReceiveNext, IInv, Types
  <2>4. Queues' /\ Awaits' \in {"header", "none"}
    BY <1>1, <2>1, <2>3, ThenReading DEF ReceiveNext
  <2>5. app' # "simple"
    BY <1>1, <1>2 DEF KeepsOn
  <2> QED BY <1>1, <1>2, <2>2, <2>4, <2>5 DEF IInv, NewRequestNewParser
<1>3. CASE ~KeepsOn
  <2>1. closed' = TRUE /\ UNCHANGED <<reads, header, buffer>>
    BY <1>3 DEF ResponseSent
  <2>2. Types'
    BY <1>1, <2>1 DEF IInv, Types, peerVars
  <2>3. Queues' /\ Awaits' = "none"
    BY <1>1, <2>1, EmptyQueues
  <2> QED BY <1>1, <2>2, <2>3, KeepsNewParser DEF IInv
<1> QED BY <1>2, <1>3

-----------------------------------------------------------------------------
\* IInv is inductive.
LEMMA NextIInv == IInv /\ [Next]_vars => IInv'
<1> SUFFICES ASSUME IInv, [Next]_vars PROVE IInv'
  OBVIOUS
<1>1. CASE PeerSend
  BY <1>1, PeerSendIInv
<1>2. CASE PeerEnd \/ ServerStop \/ HangUp \/ Tick \/ TimerSteps \/ TimerOfOthers
  BY <1>2, OutsideIInv DEF TimerSteps
<1>3. CASE SocketSteps
  BY <1>3, ReadHeaderIInv, ReadBodyIInv, ReadBodyPartIInv, ReadFailsIInv, WriteIInv,
     OutsideIInv DEF SocketSteps
<1>4. CASE Drain
  BY <1>4, DrainIInv
<1>5. CASE CallbackSteps
  BY <1>5, OutsideIInv, CallbackFailedStep, HeaderReceivedStep, BodyReceivedStep,
     ResponseSentStep DEF CallbackSteps
<1>6. CASE UNCHANGED vars
  <2>1. Types'
    BY <1>6 DEF vars, IInv, Types, peerVars, socketVars, requestVars
  <2>2. Queues' /\ Awaits' = Awaits
    BY <1>6, KeepsQueues DEF vars, socketVars, requestVars
  <2> QED BY <1>6, <2>1, <2>2, KeepsNewParser DEF vars, IInv, requestVars
<1> QED BY <1>1, <1>2, <1>3, <1>4, <1>5, <1>6 DEF Next

\* The invariant that the theorems below follow from.
THEOREM SpecIInv == Spec => []IInv
BY InitIInv, NextIInv, PTL DEF Spec

-----------------------------------------------------------------------------
(* What follows from it.                                                   *)

\* Everything has its type: the buffer's contents fit into it, the sizes the
\* connection asks for are numbers, and the parser is one its table leads to.
THEOREM SpecTypeOK == Spec => []TypeOK
<1>1. IInv => TypeOK
  <2> SUFFICES ASSUME IInv PROVE TypeOK
    OBVIOUS
  <2>1. reads \in Seq(Operations) /\ writes \in Seq(Operations)
    <3>1. <<>> \in Seq(Operations) /\ \A op \in Operations : <<op>> \in Seq(Operations)
      OBVIOUS
    <3> QED BY <3>1 DEF IInv, Queues
  <2>2. parser \in RequestParsers
    BY DEF IInv, Types, GoodParsers, RequestParsers
  <2> QED BY <2>1, <2>2 DEF IInv, Types, TypeOK
<1> QED BY <1>1, SpecIInv, PTL

\* A connection waits for one thing at a time, however reads fail, whoever
\* closes meanwhile and whatever the messages say.
THEOREM SpecOneOutstanding == Spec => []OneOutstanding
<1>1. IInv => OneOutstanding
  <2> SUFFICES ASSUME IInv PROVE OneOutstanding
    OBVIOUS
  <2>1. CASE reads # <<>>
    <3>1. Len(reads) = 1 /\ writes = <<>> /\ callback = NoCallback
      BY <2>1, WhenReading, Single
    <3> QED BY <3>1, Single DEF OneOutstanding
  <2>2. CASE writes # <<>>
    <3>1. Len(writes) = 1 /\ reads = <<>> /\ callback = NoCallback
      BY <2>2, WhenWriting, Single
    <3> QED BY <3>1, Single DEF OneOutstanding
  <2>3. CASE reads = <<>> /\ writes = <<>>
    BY <2>3, Single DEF OneOutstanding
  <2> QED BY <2>1, <2>2, <2>3
<1> QED BY <1>1, SpecIInv, PTL

\* A pending receive never writes into a buffer that has been replaced.
THEOREM SpecBufferLive == Spec => []BufferLive
<1>1. IInv => BufferLive
  <2> SUFFICES ASSUME IInv, NEW i \in DOMAIN reads, reads[i].kind = "header"
               PROVE  reads[i].buffer = buffer
    BY DEF BufferLive
  <2>1. reads # <<>>
    BY Single
  <2> QED BY <2>1, WhenReading, Single
<1> QED BY <1>1, SpecIInv, PTL

\* A response that says Keep-Alive is followed by the next receive, and one that
\* says close by the close, whatever was parsed in between.
THEOREM SpecAnnouncedIsDone == Spec => []AnnouncedIsDone
<1>1. IInv => AnnouncedIsDone
  <2> SUFFICES ASSUME IInv, NEW i \in DOMAIN writes
               PROVE  writes[i].keepAlive = KeepsOn
    BY DEF AnnouncedIsDone
  <2>1. writes # <<>>
    BY Single
  <2> QED BY <2>1, WhenWriting, Single
<1> QED BY <1>1, SpecIInv, PTL

\* The parsers of both servers, which are never reset, use headers.back() only
\* of a vector that is not empty, and decrement chunkSize only above 0.
THEOREM SpecPartsAtHand == Spec => []PartsAtHand
<1>1. IInv => PartsAtHand
  BY DEF IInv, Types, GoodParsers, PartsAtHand
<1> QED BY <1>1, SpecIInv, PTL

-----------------------------------------------------------------------------
(* Refinement of HttpExchange, step by step.                               *)

\* The exchange begins with the wait for a request.
LEMMA ExchangeInitially == Init => Exchange!ExchangeInit
<1> SUFFICES ASSUME Init PROVE Exchange!ExchangeInit
  OBVIOUS
<1>1. Awaits = "header"
  BY Single, HeaderReadTyped DEF Init, Awaits
<1>2. KeepsOn = FALSE
  BY DEF Init, KeepsOn, NewParser, NewMessage
<1> QED BY <1>1, <1>2 DEF Exchange!ExchangeInit

\* Steps of the socket and of the peer are not seen: what the connection waits
\* for arrives, or fails to, and its callback is still to be called.
LEMMA Unseen ==
  ASSUME IInv,
         PeerSend \/ PeerEnd \/ ServerStop \/ SocketSteps \/ Tick \/ TimerSteps
           \/ TimerOfOthers \/ (\E q : HeaderThrows(q)) \/ UNCHANGED vars
  PROVE  UNCHANGED <<Awaits, KeepsOn>>
<1>1. KeepsOn' = KeepsOn
  BY DEF KeepsOn, PeerSend, PeerEnd, ServerStop, SocketSteps, ReadHeader, ReadBody,
         ReadBodyPart, ReadFails, Write, HangUp, Tick, TimerSteps, Expires, ExpiredClose,
         TimerOfOthers, TimerBusy, TimerServes, TimerStop, HeaderThrows, vars, requestVars
<1>2. Awaits' = Awaits
  <2>1. CASE ReadHeader \/ ReadBody \/ ReadFails
    <3>1. PICK op \in Operations : /\ Head(reads) = op /\ op.kind \in {"header", "body"}
                                   /\ Tail(reads) = <<>> /\ writes = <<>> /\ Awaits = op.kind
      BY <2>1, WhenReading DEF ReadHeader, ReadBody, ReadFails
    <3>2. reads' = <<>> /\ writes' = <<>>
      BY <2>1, <3>1 DEF ReadHeader, ReadBody, ReadFails
    <3>3. callback'.kind = op.kind
      BY <2>1, <3>1 DEF ReadHeader, ReadBody, ReadFails, CallBack
    <3> QED BY <3>1, <3>2, <3>3, EmptyQueues
  <2>2. CASE Write
    <3>1. reads = <<>> /\ Tail(writes) = <<>> /\ Awaits = "write"
      BY <2>2, WhenWriting DEF Write
    <3>2. callback'.kind = "write" /\ reads' = <<>> /\ writes' = <<>>
      BY <2>2, <3>1 DEF Write, CallBack
    <3> QED BY <3>1, <3>2, EmptyQueues
  <2>3. CASE ~ (ReadHeader \/ ReadBody \/ ReadFails \/ Write)
    <3>1. UNCHANGED <<reads, writes, callback>>
      BY <2>3 DEF PeerSend, PeerEnd, ServerStop, SocketSteps, ReadBodyPart, HangUp, Tick,
         TimerSteps, Expires, ExpiredClose, TimerOfOthers, TimerBusy, TimerServes, TimerStop,
         HeaderThrows, vars, socketVars
    <3> QED BY <3>1 DEF Awaits
  <2> QED BY <2>1, <2>2, <2>3
<1> QED BY <1>1, <1>2

\* Every step is one of the exchange, or leaves it alone.
LEMMA ExchangeStep ==
  ASSUME IInv, IInv', [Next]_vars
  PROVE  [Exchange!ExchangeNext]_(Exchange!evars)
<1> USE DEF Exchange!ExchangeNext, Exchange!evars
<1>1. CASE PeerSend \/ PeerEnd \/ ServerStop \/ SocketSteps \/ Tick \/ TimerSteps
           \/ TimerOfOthers \/ (\E q : HeaderThrows(q)) \/ UNCHANGED vars
  BY <1>1, Unseen
<1>2. CASE Drain
  <2>1. KeepsOn' = KeepsOn
    BY <1>2 DEF Drain, KeepsOn, requestVars
  <2>2. Awaits # "none" /\ Awaits' = "none"
    BY <1>2, DrainEnds
  <2> QED BY <2>1, <2>2 DEF Exchange!Ends
<1>3. CASE CallbackFailed
  <2>1. KeepsOn' = KeepsOn
    BY <1>3 DEF CallbackFailed, Returns, KeepsOn, requestVars
  <2>2. Awaits # "none" /\ Awaits' = "none"
    BY <1>3, CallbackFailedStep
  <2> QED BY <2>1, <2>2 DEF Exchange!Ends
<1>4. CASE HeaderReceived(Parsed)
  <2>1. Awaits = "header" /\ Awaits' \in {"body", "write", "none"}
    BY <1>4, HeaderReceivedStep
  <2>2. KeepsOn' \in BOOLEAN
    BY KeepsOnTyped DEF IInv, KeepsOn
  <2> QED BY <2>1, <2>2 DEF Exchange!HeaderArrives
<1>5. CASE BodyReceived
  <2>1. KeepsOn' = KeepsOn
    BY <1>5 DEF BodyReceived, Returns, KeepsOn, requestVars
  <2>2. Awaits = "body" /\ Awaits' \in {"write", "none"}
    BY <1>5, BodyReceivedStep
  <2> QED BY <2>1, <2>2 DEF Exchange!BodyArrives
<1>6. CASE ResponseSent
  <2>1. KeepsOn' = KeepsOn
    BY <1>6 DEF ResponseSent, Returns, KeepsOn
  <2>2. /\ Awaits = "write"
        /\ Awaits' = "none" \/ (KeepsOn /\ Awaits' = "header")
    BY <1>6, ResponseSentStep
  <2> QED BY <2>1, <2>2 DEF Exchange!Ends, Exchange!ResponseLeaves
<1> QED BY <1>1, <1>2, <1>3, <1>4, <1>5, <1>6 DEF Next, CallbackSteps

\* Both servers implement HttpExchange, for whatever the peer sends and however
\* the socket, the peer and the timer interfere.
THEOREM SpecKeepsToExchange == Spec => KeepsToExchange
<1>1. IInv /\ IInv' /\ [Next]_vars => [Exchange!ExchangeNext]_(Exchange!evars)
  BY ExchangeStep
<1> QED BY <1>1, ExchangeInitially, SpecIInv, PTL
        DEF Spec, KeepsToExchange, Exchange!ExchangeSpec
=============================================================================
