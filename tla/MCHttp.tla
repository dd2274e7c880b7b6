------------------------------- MODULE MCHttp -------------------------------
(***************************************************************************)
(* HttpConnection and HttpMessages for TLC: the messages and the URLs the  *)
(* parsers are given, and the pieces a peer sends to a connection.         *)
(***************************************************************************)
EXTENDS HttpConnection, HttpMessages

Text(n) == [i \in 1..n |-> "word"]

Numeral(n, digits) ==
  LET base == Len(digits)
  IN  IF n < base THEN <<digits[n + 1]>>
      ELSE <<digits[(n \div base) + 1], digits[(n % base) + 1]>>

NoBody == [kind |-> "none"]
Sized(content) ==
  [kind |-> "sized", size |-> Numeral(Len(content), Digits), content |-> content]
Chunked(sizes, extension, trailers) ==
  [kind |-> "chunked",
   chunks |-> [i \in DOMAIN sizes |->
                [size |-> Numeral(sizes[i], HexDigits), data |-> Text(sizes[i])]],
   extension |-> extension, trailers |-> trailers]

\* One-digit and two-digit sizes, in either base; names, values and trailers.
Bodies ==
  {NoBody} \cup {Sized(Text(n)) : n \in {0, 1, 12}}
    \cup {Chunked(sizes, [name |-> extension[1], value |-> extension[2]], trailers) :
            sizes \in {<<>>, <<3>>, <<12, 1>>, <<16>>},
            extension \in {<<<<>>, <<>>>>, <<<<"word">>, <<>>>>, <<<<"word">>, <<"1">>>>},
            trailers \in {<<>>, <<HeaderOf("word", <<"a", " ", "1">>)>>,
                          <<HeaderOf("word", <<"1">>), HeaderOf("word", <<"2">>)>>}}

Versions == {<<"1", "0">>, <<"1", "1">>, <<"10", "0">>}
Version(v) == IF v = "10" THEN <<"1", "0">> ELSE <<v>>

OtherHeaders ==
  { <<>>, <<HeaderOf("word", <<"word", ":", "=">>)>>,
    <<[name |-> <<"word">>, value |-> <<"word">>, folds |-> <<<<"Keep-Alive">>, <<"a", " ">>>>]>> }
Connections ==
  { <<>>, <<HeaderOf("Connection", <<"keep-alive">>)>>,
    <<HeaderOf("connection", <<"Keep-Alive">>)>>, <<HeaderOf("Connection", <<"close">>)>>,
    <<HeaderOf("Connection", <<"close">>), HeaderOf("Connection", <<"Keep-Alive">>)>> }

Request(method, version, headers, body) ==
  [method |-> <<method>>, uri |-> <<"/", "word">>,
   major |-> Version(version[1]), minor |-> Version(version[2]),
   headers |-> headers, body |-> body]

MCRequests ==
  {Request("GET", v, c \o h, NoBody) :
      v \in Versions, h \in OtherHeaders \cup {<<HeaderOf("Content-Length", <<"2">>)>>},
      c \in Connections}
    \cup {Request(m, <<"1", "1">>, h, b) :
            m \in {"POST", "PUT"}, h \in OtherHeaders, b \in Bodies}

Response(code, version, headers, body) ==
  [code |-> code, status |-> <<"word">>,
   major |-> Version(version[1]), minor |-> Version(version[2]),
   headers |-> headers, body |-> body]

\* RESPONSE_KEEP_ALIVE and RESPONSE_CONNECTION_CLOSED: their Content-Length is
\* 14, and so is the size of the text with the NUL that ends it.
ServerResponses ==
  {Response(<<"2", "0", "0">>, <<"1", "1">>,
            <<HeaderOf("Content-Type", <<"word", "/", "word", ";", " ", "word">>),
              HeaderOf("Connection", <<value>>)>>, Sized(Text(14))) :
      value \in {"Keep-Alive", "close"}}

MCResponses ==
  ServerResponses
    \cup {Response(code, v, c \o h, NoBody) :
            code \in {<<"1", "0", "0">>, <<"9", "9", "9">>}, v \in Versions,
            h \in OtherHeaders, c \in Connections}
    \cup {Response(<<"2", "0", "0">>, <<"1", "1">>, h, b) :
            h \in OtherHeaders, b \in Bodies}

\* Passwords that begin like a port, and ports after both kinds of host name.
MCUrls ==
  {[scheme |-> scheme, username |-> user[1], password |-> user[2],
    hostname |-> host, port |-> port, path |-> path, query |-> query,
    fragment |-> fragment] :
      scheme \in {<<"word">>, <<"https">>, <<"word", "+", "1">>},
      user \in {<<<<>>, <<>>>>} \cup
                 ({<<"word">>, <<"a", "%", "1">>}
                    \X {<<>>, <<"word">>, <<"8", "0", "a", "1">>, <<"%", "1">>}),
      host \in {<<"word">>, <<"word", ".", "word", "-", "1">>, <<"1", ".", "2">>},
      port \in {<<>>, <<"8", "0">>, <<"6", "5", "5", "3", "5">>},
      path \in {<<"/">>, <<"/", "word", "/", ":">>},
      query \in {<<>>, <<"word", "=", "/", "@">>},
      fragment \in {<<>>, <<"word", "?", "#">>}}

-----------------------------------------------------------------------------
(* What the peer sends: whole requests, parts of one, bodies, and more than *)
(* fits into the header's buffer.                                           *)

Get(version, headers) ==
  LET m == Request("GET", version, headers, NoBody) IN Render(RequestLine(m), m)
Post(content) ==
  LET m == Request("POST", <<"1", "1">>, <<>>, Sized(content)) IN Render(RequestLine(m), m)

Announcing(method, length) ==
  LET m == Request(method, <<"1", "1">>, <<HeaderOf("Content-Length", length)>>, NoBody)
  IN  Render(RequestLine(m), m)

\* Lengths that are awaited, refused, out of an int's range and below 0.
GetWithBody == Announcing("GET", <<"3">>)
MCSegments ==
  { Get(<<"1", "1">>, <<>>), Get(<<"1", "0">>, <<>>), GetWithBody,
    SubSeq(GetWithBody, 1, 16), SubSeq(GetWithBody, 17, Len(GetWithBody)),
    Announcing("GET", <<"0">>), Announcing("GET", <<"9", "9">>),
    Announcing("GET", <<"-", "1">>), Announcing("POST", <<"-", "1">>),
    Post(<<"a">>), <<"a", "b">> }

-----------------------------------------------------------------------------
(* One behaviour serves a connection, or parses a document and is short.    *)

MCInit == Init /\ (document = NoDocument \/ (app = "simple" /\ InitDocument))
MCNext ==
  \/ document = NoDocument /\ Next /\ UNCHANGED document
  \/ NextDocument /\ UNCHANGED vars
MCSpec == MCInit /\ [][MCNext]_<<vars, document>> /\ Fairness
=============================================================================
