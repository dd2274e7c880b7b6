--------------------------- MODULE HttpConnection ---------------------------
(***************************************************************************)
(* One connection of the HTTP examples: HttpConnection of the keep_alive   *)
(* and of the simple server, with the socket, the timer and the parser     *)
(* that it uses.                                                           *)
(*                                                                         *)
(* The object lives as long as somebody can call it: the callbacks of the  *)
(* operations in its socket's queues and the callback of its wait in the   *)
(* timer each hold a shared_ptr to it.  The runtime's thread calls the     *)
(* former, the timer's thread the latter, and both may close the socket.   *)
(*                                                                         *)
(* All connections share the timer, whose heap has the latest wait on top: *)
(* as long as there is a later one, such as a new connection submits, this *)
(* connection's is not looked at.  main stops the timer, then the server.  *)
(*                                                                         *)
(* Both servers look for the end of the header the wrong way round (the    *)
(* arguments of std::search are swapped), and always find it: every piece  *)
(* that is received is treated as a whole header, and the branches that    *)
(* grow the buffer and receive more are not reached.                       *)
(***************************************************************************)
EXTENDS HttpParser

CONSTANTS Segments,     \* what the peer may send at a time: sequences of symbols
          MaxSegments,  \* bound: how often it sends
          HeaderCap,    \* header_cap_, in symbols
          IdleLimit     \* 2000 ms, in ticks of the model

ASSUME HttpConnectionOK ==
  /\ \A segment \in Segments : segment \in Seq(STRING) /\ segment # <<>>
  /\ MaxSegments \in Nat /\ HeaderCap \in Nat \ {0} /\ IdleLimit \in Nat \ {0}

VARIABLES
  app,      \* "keep_alive" or "simple"
  wire,     \* what the peer has sent and the socket has not received
  sent,     \* how often it has sent
  peer,     \* "open", or "ended": it has closed or reset the connection
  server,   \* "serves"; "stopped"; "aborted": an exception has ended the program
  timer,    \* "serves"; "busy": a later wait is on top of the heap; "stopped"
  closed,   \* the socket's closed_
  reads,    \* the socket's queues: [kind, buffer, size, keepAlive]
  writes,
  callback, \* what the runtime's thread was called back with: [kind, ok], or none
  header,   \* the symbols in header_, header_len_ of them
  buffer,   \* which allocation header_ is: it alternates
  parser,   \* parser_ and request_
  idle,     \* time since last_receive_time_point_
  wait      \* the timer's callback: "waiting", "closing", or "none" once dropped

peerVars == <<wire, sent, peer>>
socketVars == <<closed, reads, writes>>
requestVars == <<header, buffer, parser>>
vars == <<app, peerVars, server, timer, socketVars, callback, requestVars, idle, wait>>

NoCallback == [kind |-> "none", ok |-> TRUE]

Operation(kind, size, keepAlive) ==
  [kind |-> kind, buffer |-> buffer, size |-> size, keepAlive |-> keepAlive]
HeaderRead(b) == [kind |-> "header", buffer |-> b, size |-> HeaderCap, keepAlive |-> FALSE]

\* The connection after start(), which the accept callback calls.
Init ==
  /\ app \in {"keep_alive", "simple"}
  /\ wire = <<>> /\ sent = 0 /\ peer = "open"
  /\ server = "serves"
  /\ timer \in IF app = "keep_alive" THEN {"serves", "stopped"} ELSE {"stopped"}
  /\ closed = FALSE
  /\ reads = <<HeaderRead(0)>> /\ writes = <<>>
  /\ callback = NoCallback
  /\ header = <<>> /\ buffer = 0
  /\ parser = NewParser("RequestMethodStart")
  /\ idle = 0
  /\ wait = IF app = "keep_alive" THEN "waiting" ELSE "none"

-----------------------------------------------------------------------------
(* The peer, and the end of the server.                                    *)

PeerSend ==
  /\ peer = "open" /\ sent < MaxSegments
  /\ \E segment \in Segments : wire' = wire \o segment
  /\ sent' = sent + 1
  /\ UNCHANGED <<app, peer, server, timer, socketVars, callback, requestVars, idle, wait>>

PeerEnd ==
  /\ peer = "open"
  /\ peer' = "ended"
  /\ UNCHANGED <<app, wire, sent, server, timer, socketVars, callback, requestVars, idle, wait>>

\* The runtime has released its handles; the queues keep their callbacks.
ServerStop ==
  /\ server = "serves" /\ timer = "stopped"
  /\ server' = "stopped"
  /\ UNCHANGED <<app, peerVars, timer, socketVars, callback, requestVars, idle, wait>>

-----------------------------------------------------------------------------
(* The socket on the runtime's thread.                                     *)

Swept == server = "serves" /\ ~closed /\ callback = NoCallback

CallBack(kind, ok) == callback' = [kind |-> kind, ok |-> ok]

ReadHeader ==
  /\ Swept /\ reads # <<>> /\ Head(reads).kind = "header"
  /\ wire # <<>>
  /\ LET n == Min({Len(wire), HeaderCap - Len(header)})
     IN  header' = header \o SubSeq(wire, 1, n) /\ wire' = SubSeq(wire, n + 1, Len(wire))
  /\ reads' = Tail(reads)
  /\ CallBack("header", TRUE)
  /\ UNCHANGED <<app, sent, peer, server, timer, closed, writes, buffer, parser, idle, wait>>

ReadBody ==
  /\ Swept /\ reads # <<>> /\ Head(reads).kind = "body"
  /\ Head(reads).size \in 1..Len(wire)
  /\ wire' = SubSeq(wire, Head(reads).size + 1, Len(wire))
  /\ reads' = Tail(reads)
  /\ CallBack("body", TRUE)
  /\ UNCHANGED <<app, sent, peer, server, timer, closed, writes, requestVars, idle, wait>>

\* async_read forgets what a recv that was too short has received.
ReadBodyPart ==
  /\ Swept /\ reads # <<>> /\ Head(reads).kind = "body"
  /\ Len(wire) \in 1 .. Head(reads).size - 1
  /\ wire' = <<>>
  /\ UNCHANGED <<app, sent, peer, server, timer, socketVars, callback, requestVars, idle, wait>>

\* recv fails when the peer has gone, and when it is asked for nothing.
ReadFails ==
  /\ Swept /\ reads # <<>>
  /\ peer = "ended" \/ Head(reads).size = 0
  /\ reads' = Tail(reads)
  /\ CallBack(Head(reads).kind, FALSE)
  /\ UNCHANGED <<app, peerVars, server, timer, closed, writes, requestVars, idle, wait>>

\* The response has been sent, or could not be.
Write ==
  /\ Swept /\ writes # <<>>
  /\ \E ok \in {TRUE} \cup {peer = "open"} : CallBack("write", ok)
  /\ writes' = Tail(writes)
  /\ UNCHANGED <<app, peerVars, server, timer, closed, reads, requestVars, idle, wait>>

\* An event with neither EPOLLIN nor EPOLLOUT: the loop closes the socket.
HangUp ==
  /\ Swept /\ peer = "ended"
  /\ closed' = TRUE
  /\ UNCHANGED <<app, peerVars, server, timer, reads, writes, callback, requestVars, idle, wait>>

\* Whoever closes calls what is queued with an error; the callbacks close the
\* socket, which is closed, and let go of the connection.
Drain ==
  /\ closed /\ reads \o writes # <<>>
  /\ IF reads # <<>> THEN reads' = Tail(reads) /\ UNCHANGED writes
                     ELSE writes' = Tail(writes) /\ UNCHANGED reads
  /\ UNCHANGED <<app, peerVars, server, timer, closed, callback, requestVars, idle, wait>>

-----------------------------------------------------------------------------
(* HttpConnection's callbacks, on the runtime's thread.                    *)

\* async_read, async_read_some and async_write refuse when the socket is
\* closed, which another thread may have done in the meantime.
Reading(op) == reads' = IF closed THEN reads ELSE Append(reads, op)
Writing(op) == writes' = IF closed THEN writes ELSE Append(writes, op)

\* send_response.
SendResponse(keepAlive) ==
  Writing(Operation("write", 0, app = "keep_alive" /\ keepAlive))

Returns(kind) ==
  /\ callback.kind = kind
  /\ callback' = NoCallback
  /\ UNCHANGED <<app, peerVars, server, timer, wait>>

CallbackRetries ==
  /\ Returns(callback.kind)
  /\ ~callback.ok
  /\ Reading(HeaderRead(buffer))
  /\ UNCHANGED <<closed, writes, requestVars, idle>>

\* Every callback closes the socket when it is told of an error.
CallbackFailed ==
  /\ Returns(callback.kind)
  /\ ~callback.ok
  /\ closed' = TRUE
  /\ UNCHANGED <<reads, writes, requestVars, idle>>

Received == idle' = IF app = "keep_alive" THEN 0 ELSE idle

\* The simple server starts with a new Request, the other with the last one.
Parsed ==
  Parse(RequestRows,
        IF app = "simple" THEN [parser EXCEPT !.message = NewMessage] ELSE parser,
        header)

\* The first header that is called exactly Content-Length.  std::stoi throws if
\* it has no number that an int holds, and there is no body then.
Announced(m) ==
  LET i == SelectInSeq(m.headers, LAMBDA h : h.name = <<"Content-Length">>)
  IN  IF i = 0 THEN <<>> ELSE m.headers[i].value
IsInt(n) == n.digits # <<>> /\ Value(n) \in - (IntMax + 1) .. IntMax

ReadsBody(q) ==
  q.result = "ParsingCompleted" /\ IsInt(Signed(Announced(q.message)))
BodyLength(q) == Value(Signed(Announced(q.message)))

\* There is no memory for a negative length, and nothing catches the exception,
\* nor one that leaves the parser.
Aborts(q) == q.result = "throws" \/ (ReadsBody(q) /\ BodyLength(q) < 0)

HeaderThrows(q) ==
  /\ callback = [kind |-> "header", ok |-> TRUE]
  /\ Aborts(q)
  /\ server' = "aborted"
  /\ UNCHANGED <<app, peerVars, timer, socketVars, callback, requestVars, idle, wait>>

\* With the return after async_read left out.
HeaderFallsThrough(q) ==
  /\ Returns("header") /\ callback.ok /\ ~ Aborts(q)
  /\ Received
  /\ parser' = q
  /\ IF ReadsBody(q)
     THEN Reading(Operation("body", BodyLength(q), FALSE))
     ELSE UNCHANGED reads
  /\ SendResponse(q.message.keepAlive)
  /\ UNCHANGED <<closed, header, buffer>>

\* With the next request received before the response has been sent.
HeaderPipelined(q) ==
  /\ Returns("header") /\ callback.ok /\ ~ Aborts(q)
  /\ Received
  /\ parser' = q
  /\ SendResponse(q.message.keepAlive)
  /\ Reading(HeaderRead(buffer))
  /\ header' = <<>>
  /\ UNCHANGED <<closed, buffer>>

HeaderReceived(q) ==
  /\ Returns("header") /\ callback.ok /\ ~ Aborts(q)
  /\ Received
  /\ parser' = q
  /\ IF ReadsBody(q)
     THEN Reading(Operation("body", BodyLength(q), FALSE))
          /\ UNCHANGED writes
     ELSE SendResponse(q.message.keepAlive) /\ UNCHANGED reads
  /\ UNCHANGED <<closed, header, buffer>>

BodyReceived ==
  /\ Returns("body") /\ callback.ok
  /\ Received
  /\ SendResponse(parser.message.keepAlive)
  /\ UNCHANGED <<closed, reads, requestVars>>

KeepsOn == app = "keep_alive" /\ parser.message.keepAlive

ReceiveFirst ==
  /\ buffer' = 1 - buffer
  /\ header' = <<>>
  /\ Reading(HeaderRead(buffer))

\* A new buffer, then the next request.
ReceiveNext ==
  /\ buffer' = 1 - buffer
  /\ header' = <<>>
  /\ Reading(HeaderRead(1 - buffer))

\* With the test of keepAlive left out.
AlwaysKeepsOn ==
  /\ Returns("write") /\ callback.ok
  /\ ReceiveNext
  /\ UNCHANGED <<closed, writes, parser, idle>>

ResponseSent ==
  /\ Returns("write") /\ callback.ok
  /\ IF KeepsOn
     THEN ReceiveNext /\ UNCHANGED closed
     ELSE closed' = TRUE /\ UNCHANGED <<reads, header, buffer>>
  /\ UNCHANGED <<writes, parser, idle>>

-----------------------------------------------------------------------------
(* check_persistent_connection, on the timer's thread: it is called again  *)
(* and again, and changes nothing as long as it finds a recent receive.    *)

Tick ==
  /\ app = "keep_alive" /\ idle < IdleLimit
  /\ idle' = idle + 1
  /\ UNCHANGED <<app, peerVars, server, timer, socketVars, callback, requestVars, wait>>

\* With the wait not submitted again after the first check.
ChecksOnce ==
  /\ wait = "waiting" /\ timer = "serves"
  /\ wait' = IF idle = IdleLimit THEN "closing" ELSE "none"
  /\ UNCHANGED <<app, peerVars, server, timer, socketVars, callback, requestVars, idle>>

\* It has read last_receive_time_point_, and may be late with what follows.
Expires ==
  /\ wait = "waiting" /\ timer = "serves" /\ idle = IdleLimit
  /\ wait' = "closing"
  /\ UNCHANGED <<app, peerVars, server, timer, socketVars, callback, requestVars, idle>>

ExpiredClose ==
  /\ wait = "closing"
  /\ closed' = TRUE
  /\ wait' = "none"
  /\ UNCHANGED <<app, peerVars, server, timer, reads, writes, callback, requestVars, idle>>

-----------------------------------------------------------------------------
(* The timer, on behalf of others.                                         *)

\* Another connection has submitted a later wait, which only a check that has
\* expired can tell; it has been called.
TimerBusy ==
  /\ timer = "serves" /\ wait = "waiting" /\ idle = IdleLimit
  /\ timer' = "busy"
  /\ UNCHANGED <<app, peerVars, server, socketVars, callback, requestVars, idle, wait>>

TimerServes ==
  /\ timer = "busy"
  /\ timer' = "serves"
  /\ UNCHANGED <<app, peerVars, server, socketVars, callback, requestVars, idle, wait>>

\* stop() returns when the timer's thread has ended, which drops the waits.
TimerStop ==
  /\ timer # "stopped" /\ wait # "closing"
  /\ timer' = "stopped" /\ wait' = "none"
  /\ UNCHANGED <<app, peerVars, server, socketVars, callback, requestVars, idle>>

-----------------------------------------------------------------------------
SocketSteps == ReadHeader \/ ReadBody \/ ReadBodyPart \/ ReadFails \/ Write \/ HangUp
CallbackSteps ==
  \/ CallbackFailed
  \/ callback.kind = "header" /\ \E q \in {Parsed} : HeaderThrows(q) \/ HeaderReceived(q)
  \/ BodyReceived \/ ResponseSent
TimerSteps == Expires \/ ExpiredClose
TimerOfOthers == TimerBusy \/ TimerServes \/ TimerStop

Runs == server # "aborted"

Next ==
  /\ Runs
  /\ \/ PeerSend \/ PeerEnd \/ ServerStop
     \/ SocketSteps \/ Drain \/ CallbackSteps
     \/ Tick \/ TimerSteps \/ TimerOfOthers

\* The steps of Next that do this are the CallbackSteps.
CallbackEnds == Runs /\ callback # NoCallback /\ callback' = NoCallback

\* The runtime sweeps the socket while it serves, callbacks and close() come to
\* their end, and time passes.  The timer calls a wait that has expired unless
\* others are put in its way: nothing says that they ever end.
Fairness ==
  /\ WF_vars(Runs /\ SocketSteps) /\ WF_vars(Runs /\ Drain) /\ WF_callback(CallbackEnds)
  /\ WF_vars(Runs /\ Tick) /\ WF_vars(Runs /\ TimerSteps)

Spec == Init /\ [][Next]_vars
FairSpec == Spec /\ Fairness

-----------------------------------------------------------------------------
Operations ==
  [kind : {"header", "body", "write"}, buffer : {0, 1}, size : Nat, keepAlive : BOOLEAN]

RequestParsers == Parsers(RequestRows)

TypeOK ==
  /\ app \in {"keep_alive", "simple"}
  /\ wire \in Seq(STRING)
  /\ sent \in 0..MaxSegments
  /\ peer \in {"open", "ended"}
  /\ server \in {"serves", "stopped", "aborted"}
  /\ timer \in {"serves", "busy", "stopped"}
  /\ closed \in BOOLEAN
  /\ reads \in Seq(Operations) /\ writes \in Seq(Operations)
  /\ callback \in [kind : {"none", "header", "body", "write"}, ok : BOOLEAN]
  /\ header \in Seq(STRING) /\ Len(header) <= HeaderCap
  /\ buffer \in {0, 1}
  /\ parser \in RequestParsers
  /\ idle \in 0..IdleLimit
  /\ wait \in {"waiting", "closing", "none"}

\* A connection waits for one thing at a time, so that no two callbacks of it
\* overlap, whatever pieces arrive and whoever closes meanwhile.
OneOutstanding ==
  Len(reads) + Len(writes) + (IF callback = NoCallback THEN 0 ELSE 1) <= 1

\* A pending receive writes into the buffer that the connection still owns.
BufferLive ==
  \A i \in DOMAIN reads : reads[i].kind = "header" => reads[i].buffer = buffer

\* What a response being sent announces (Keep-Alive or close) is what the
\* connection will do after it: request_ is read twice and not changed between.
AnnouncedIsDone ==
  \A i \in DOMAIN writes : writes[i].keepAlive = KeepsOn

\* What the connection waits for: a read, its response, or a callback to return.
Awaits ==
  IF reads # <<>> THEN Head(reads).kind
  ELSE IF writes # <<>> THEN "write" ELSE callback.kind

Exchange == INSTANCE HttpExchange WITH awaits <- Awaits, announces <- KeepsOn

\* The connection implements HttpExchange: whatever pieces arrive, fail or come
\* too late, requests and responses take turns, a response that announces close
\* is the last, and after its end the connection never waits again.
KeepsToExchange == Exchange!ExchangeSpec

\* headers.back() of an empty vector and --chunkSize of 0 do not come about,
\* although the simple server never resets its parser and gives it a new Request
\* for each header: had it read a part of one, it would go on in the middle of
\* headers that the new Request does not have.
PartsAtHand == AtHand(parser)

\* The socket does not refer to the connection; nobody does, and it is destroyed.
LetGo == reads = <<>> /\ writes = <<>> /\ callback = NoCallback
Freed == LetGo /\ wait = "none"

\* A connection of the keep_alive server that stays idle is closed by its check
\* and freed, whatever it waits for and even if its peer is silent, unless the
\* timer is stopped or other connections occupy it again and again.
IdleIsFreed ==
  \/ app = "keep_alive" /\ idle = IdleLimit ~> Freed \/ idle = 0 \/ timer = "stopped" \/ ~Runs
  \/ []<>(timer = "busy")

\* When the peer goes while the server serves, the socket lets go of the
\* connection; for the simple server, which has no timer, it is freed then.
EndedIsFreed ==
  peer = "ended" ~> LetGo \/ server # "serves"
=============================================================================
