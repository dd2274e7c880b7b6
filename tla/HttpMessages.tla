---------------------------- MODULE HttpMessages ----------------------------
(***************************************************************************)
(* The parsers at work, and what they promise: a message, written as HTTP  *)
(* writes it and received in pieces, is complete with its last character   *)
(* and is read as what was written.  A message here is a record            *)
(*   method, uri    of a request, or code, status of a response            *)
(*   major, minor   the version, in digits                                 *)
(*   headers        [name, value, folds]: the folds continue the value     *)
(*   body           [kind, size, content] or [kind, chunks, extension,     *)
(*                  trailers], with [size, data] for a chunk               *)
(***************************************************************************)
EXTENDS HttpResponseParser, UrlParser

CONSTANTS Requests, Responses,  \* messages
          Urls                  \* records of the parts of a URL

\* [kind, meaning, rest, into]: a text of that kind, what it was written from,
\* what of it is still to be parsed, and the parser it is parsed into.
VARIABLE document

CRLF == <<"\r", "\n">>

Concat(texts) == Fold(\o, <<>>, texts)

-----------------------------------------------------------------------------
(* How a message is written.                                               *)

RenderFold(line) == CRLF \o <<SP>> \o line

RenderHeader(h) ==
  h.name \o <<":", SP>> \o h.value \o Concat([i \in DOMAIN h.folds |-> RenderFold(h.folds[i])])
    \o CRLF

RenderHeaders(hs) == Concat([i \in DOMAIN hs |-> RenderHeader(hs[i])])

HeaderOf(name, value) == [name |-> <<name>>, value |-> value, folds |-> <<>>]

BodyHeaders(body) ==
  CASE body.kind = "none"    -> <<>>
    [] body.kind = "sized"   -> <<HeaderOf("Content-Length", body.size)>>
    [] body.kind = "chunked" -> <<HeaderOf("transfer-encoding", <<"chunked">>)>>

AllHeaders(m) == m.headers \o BodyHeaders(m.body)

RenderExtension(e) == After(Semicolon, e.name) \o After("=", e.value)

RenderChunk(chunk, extension) ==
  chunk.size \o RenderExtension(extension) \o CRLF \o chunk.data \o CRLF

RenderBody(body) ==
  CASE body.kind = "none"    -> <<>>
    [] body.kind = "sized"   -> body.content
    [] body.kind = "chunked" ->
         Concat([i \in DOMAIN body.chunks |-> RenderChunk(body.chunks[i], body.extension)])
           \o <<"0">> \o CRLF \o RenderHeaders(body.trailers) \o CRLF

RenderVersion(m) == <<"H", "T", "T", "P", "/">> \o m.major \o <<".">> \o m.minor
RequestLine(m) == m.method \o <<SP>> \o m.uri \o <<SP>> \o RenderVersion(m)
StatusLine(m) == RenderVersion(m) \o <<SP>> \o m.code \o <<SP>> \o m.status

Render(line, m) ==
  line \o CRLF \o RenderHeaders(AllHeaders(m)) \o CRLF \o RenderBody(m.body)

-----------------------------------------------------------------------------
(* What HTTP allows of it.                                                 *)

Symbols(class) == {c \in STRING : Accepts(class, c)}
Words(class) == Seq(Symbols(class)) \ {<<>>}

Named(h, word) == strcasecmp(h.name, word)
AnnouncesABody(h) == Named(h, "Content-Length") \/ Named(h, "Transfer-Encoding")

WrittenHeaders ==
  {h \in [name : Words("token"), value : Seq(Symbols("text")), folds : Seq(Words("text"))] :
     \A i \in DOMAIN h.folds : h.folds[i][1] # SP}

\* The name of a trailer does not begin with a digit.
WrittenTrailers ==
  {h \in [name : Words("alnum"), value : Seq(Symbols("alnum") \cup {SP}), folds : {<<>>}] :
     h.name[1] \notin Range(Digits)}

ExtensionOK(e) ==
  /\ e.name \in Seq(Symbols("alnum") \cup {SP}) /\ e.value \in Seq(Symbols("alnum") \cup {SP})
  /\ e.name = <<>> => e.value = <<>>

BodyOK(body) ==
  \/ body.kind = "none"
  \/ /\ body.kind = "sized"
     /\ body.size \in Seq(Range(Digits)) /\ body.content \in Seq(STRING)
     /\ atoi(body.size) = Len(body.content)
     /\ Len(body.content) < SizeModulus /\ Len(body.content) <= IntMax
  \/ /\ body.kind = "chunked"
     /\ body.chunks \in Seq([size : Seq(Range(HexDigits)), data : Seq(STRING) \ {<<>>}])
     /\ \A i \in DOMAIN body.chunks : strtol16(body.chunks[i].size) = Len(body.chunks[i].data)
     /\ ExtensionOK(body.extension)
     /\ body.trailers \in Seq(WrittenTrailers)

MessageOK(m) ==
  /\ m.major \in Words("digit") /\ atoi(m.major) <= IntMax
  /\ m.minor \in Words("digit") /\ atoi(m.minor) <= IntMax
  /\ m.headers \in Seq(WrittenHeaders)
  /\ BodyOK(m.body)

\* Only a POST or a PUT has a body, and one header announces it.
RequestOK(m) ==
  /\ m.method \in Words("token") /\ m.uri \in Words("visible")
  /\ MessageOK(m)
  /\ IF m.method \in {<<"POST">>, <<"PUT">>}
     THEN \A i \in DOMAIN m.headers : ~ AnnouncesABody(m.headers[i])
     ELSE m.body.kind = "none"

ResponseOK(m) ==
  /\ m.code \in Seq(Symbols("digit")) /\ atoi(m.code) \in 100 .. 999
  /\ m.status \in Words("inLine")
  /\ MessageOK(m)
  /\ \A i \in DOMAIN m.headers : ~ AnnouncesABody(m.headers[i])

ASSUME MessagesOK ==
  /\ \A m \in Requests : RequestOK(m)
  /\ \A m \in Responses : ResponseOK(m)
  /\ \A u \in Urls : UrlOK(u)

-----------------------------------------------------------------------------
(* The parsers, called with the pieces of a text.                          *)

Document(kind, meaning, text, into) ==
  [kind |-> kind, meaning |-> meaning, rest |-> text, into |-> into]
NoDocument == Document("none", <<>>, <<>>, <<>>)

InitDocument ==
  \/ \E m \in Requests :
       document = Document("request", m, Render(RequestLine(m), m),
                           NewParser("RequestMethodStart"))
  \/ \E m \in Responses :
       document = Document("response", m, Render(StatusLine(m), m),
                           NewParser("ResponseStatusStart"))
  \/ \E u \in Urls : document = Document("url", u, RenderUrl(u), NewUrl)

\* The parser is given one symbol, or all the rest: every cut comes about.
ParsePiece(rows) ==
  \E n \in {1, Len(document.rest)} \cap (1 .. Len(document.rest)) :
    document' = [document EXCEPT !.into = Parse(rows, @, SubSeq(document.rest, 1, n)),
                                 !.rest = SubSeq(@, n + 1, Len(@))]
ParseRequest == document.kind = "request" /\ ParsePiece(RequestRows)
ParseResponse == document.kind = "response" /\ ParsePiece(ResponseRows)

\* A URL comes whole.
ParseUrl ==
  /\ document.kind = "url" /\ document.rest # <<>>
  /\ document' = [document EXCEPT !.into = parse_(document.rest), !.rest = <<>>]

NextDocument == ParseRequest \/ ParseResponse \/ ParseUrl

DocumentSpec == InitDocument /\ [][NextDocument]_document

-----------------------------------------------------------------------------
(* What the parsers promise.                                               *)

ValueOf(h) == h.value \o Concat(h.folds)

\* The first Connection header decides, and without one the version.
Asks(m) ==
  \/ \E i \in DOMAIN m.headers :
       /\ Named(m.headers[i], "Connection")
       /\ \A j \in 1 .. i - 1 : ~ Named(m.headers[j], "Connection")
       /\ strcasecmp(ValueOf(m.headers[i]), "Keep-Alive")
  \/ /\ \A i \in DOMAIN m.headers : ~ Named(m.headers[i], "Connection")
     /\ \/ atoi(m.major) > 1
        \/ atoi(m.major) = 1 /\ atoi(m.minor) = 1

Content(body) ==
  CASE body.kind = "none"    -> <<>>
    [] body.kind = "sized"   -> body.content
    [] body.kind = "chunked" -> Concat([i \in DOMAIN body.chunks |-> body.chunks[i].data])

\* The parser's message is m, and nothing else.
HasRead(read, m) ==
  /\ read.versionMajor = atoi(m.major) /\ read.versionMinor = atoi(m.minor)
  /\ read.headers = [i \in DOMAIN AllHeaders(m) |->
                      [name |-> AllHeaders(m)[i].name, value |-> ValueOf(AllHeaders(m)[i])]]
  /\ read.content = Content(m.body)
  /\ read.keepAlive = Asks(m)

HasReadRequest(read, m) == read.method = m.method /\ read.uri = m.uri /\ HasRead(read, m)
HasReadResponse(read, m) ==
  read.statusCode = atoi(m.code) /\ read.status = m.status /\ HasRead(read, m)

CompleteAtEnd ==
  document.into.result =
    IF document.rest = <<>> THEN "ParsingCompleted" ELSE "ParsingIncompleted"

\* HttpRequestParser: whatever the headers, their case and folding, however the
\* body is measured, cut into chunks, annotated and trailed, and however the
\* text is cut into pieces, a request is complete at its last character, not
\* before, and is read right.
RequestsParsed ==
  document.kind = "request" =>
    /\ CompleteAtEnd
    /\ document.rest = <<>> => HasReadRequest(document.into.message, document.meaning)

\* HttpResponseParser: the same for responses, among them the two that the
\* server sends, whose Content-Length is the size of a C++ array.
ResponsesParsed ==
  document.kind = "response" =>
    /\ CompleteAtEnd
    /\ document.rest = <<>> => HasReadResponse(document.into.message, document.meaning)

\* UrlParser: every part of a URL with a path comes out in its place, although
\* whether a name is a user or a host, and digits a port or the beginning of a
\* password, shows only later; nothing is left aside; and the port is the one
\* meant.
UrlsParsed ==
  document.kind = "url" /\ document.rest = <<>> =>
    HasReadUrl(document.into, document.meaning)
=============================================================================
