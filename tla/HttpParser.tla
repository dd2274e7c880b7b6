----------------------------- MODULE HttpParser -----------------------------
(***************************************************************************)
(* The request parser of the HTTP examples (httprequestparser.h): a state  *)
(* machine that is given the message a piece at a time and keeps its place *)
(* between the pieces.                                                     *)
(*                                                                         *)
(* A symbol stands for one character where the parser looks at single      *)
(* characters, and for a run of letters ("GET", "word") where it appends   *)
(* them one after the other; "control" is any control character that the   *)
(* parser does not look for, and "byte" any that is not ASCII.  The switch *)
(* over states is a table: each row is a state, what it accepts, the next  *)
(* state, and what is done with the symbol; a symbol that no row of the    *)
(* state accepts is an error.                                              *)
(***************************************************************************)
EXTENDS Integers, SequencesExt

CONSTANTS SizeModulus,  \* size_t wraps at this number
          IntMax        \* what an int holds

ASSUME SizeModulusOK == SizeModulus \in Nat \ {0}
ASSUME IntMaxOK == IntMax \in Nat

\* FoldLeft of SequencesExt, by recursion on the index, as a proof unfolds it.
Fold(op(_, _), start, symbols) ==
  LET after[i \in 0 .. Len(symbols)] ==
        IF i = 0 THEN start
        ELSE op(after[i - 1], symbols[i])
  IN  after[Len(symbols)]

-----------------------------------------------------------------------------
(* Characters.                                                             *)

Digits == <<"0", "1", "2", "3", "4", "5", "6", "7", "8", "9">>
HexDigits == Digits \o <<"a", "b", "c", "d", "e", "f">>

\* Characters that the provers cannot read within a formula.
SP == " "
Tab == "\t"
Semicolon == ";"
Separators ==
  {"(", ")", "<", ">", "@", ",", "\\", "\"", "[", "]", "?", "{", "}"}

isChar(c) == c # "byte"
isControl == {"\r", "\n", Tab, "control"}
isSpecial == Separators \cup {SP, Tab, Semicolon, ":", "/", "="}
isalnum == Range(HexDigits) \cup {"H", "T", "P", "word", "https"}

\* The symbols that a row accepts: a class of them, or one.
Accepts(class, c) ==
  CASE class = "token"   -> isChar(c) /\ c \notin isControl \cup isSpecial
    [] class = "text"    -> c \notin isControl
    [] class = "visible" -> c \notin isControl \cup {SP}
    [] class = "blank"   -> c \in {SP, Tab}
    [] class = "char"    -> isChar(c)
    [] class = "inLine"  -> isChar(c) /\ c # "\r"
    [] class = "digit"   -> c \in Range(Digits)
    [] class = "alnum"   -> c \in isalnum
    [] class = "any"     -> TRUE
    [] OTHER             -> c = class

\* strcasecmp finds no difference.
OtherCase(word) ==
  CASE word = "Connection"        -> "connection"
    [] word = "Keep-Alive"        -> "keep-alive"
    [] word = "Content-Length"    -> "content-length"
    [] word = "Transfer-Encoding" -> "transfer-encoding"
    [] word = "chunked"           -> "Chunked"
strcasecmp(s, word) == s \in {<<word>>, <<OtherCase(word)>>}

\* The number at the beginning of s, which a digit begins.
LeadingDigits(s, digits) ==
  LET end == SelectInSeq(s, LAMBDA c : c \notin Range(digits))
  IN  IF end = 0 THEN s ELSE SubSeq(s, 1, end - 1)
DigitValue(c, digits) == SelectInSeq(digits, LAMBDA d : d = c) - 1
NumberOf(s, digits) ==
  Fold(LAMBDA n, c : n * Len(digits) + DigitValue(c, digits), 0, LeadingDigits(s, digits))
atoi(s) == NumberOf(s, Digits)
strtol16(s) == NumberOf(s, HexDigits)

\* What atoi and std::stoi find at the beginning of s: blanks, a sign, digits.
Signed(s) ==
  LET i == SelectInSeq(s, LAMBDA c : c # SP)
      u == IF i = 0 THEN <<>> ELSE SubSeq(s, i, Len(s))
      sign == u # <<>> /\ u[1] \in {"-", "+"}
  IN  [negative |-> sign /\ u[1] = "-",
       digits   |-> LeadingDigits(IF sign THEN Tail(u) ELSE u, Digits)]
Value(n) == IF n.negative THEN - atoi(n.digits) ELSE atoi(n.digits)

\* atoi keeps what fits into an int of a number.
Truncated(v) == ((v + IntMax + 1) % (2 * (IntMax + 1))) - (IntMax + 1)

-----------------------------------------------------------------------------
(* The parser and the message it fills.                                    *)

NewMessage ==
  [method |-> <<>>, uri |-> <<>>, status |-> <<>>, content |-> <<>>,
   versionMajor |-> 0, versionMinor |-> 0, statusCode |-> 0,
   headers |-> <<>>, keepAlive |-> FALSE]

NewParser(start) ==
  [state |-> start, contentSize |-> 0, chunkSizeStr |-> <<>>, chunkSize |-> 0,
   chunked |-> FALSE, result |-> "ParsingIncompleted", message |-> NewMessage]

Error(p) == [p EXCEPT !.result = "ParsingError"]
Completed(p) == [p EXCEPT !.result = "ParsingCompleted"]
\* An exception leaves parse(); nothing in this program catches it.
Throws(p) == [p EXCEPT !.result = "throws"]

-----------------------------------------------------------------------------
(* The table.                                                              *)

RequestLineRows ==
  { <<"RequestMethodStart",             "token", "RequestMethod",                  "method">>,
    <<"RequestMethod",                  SP,      "RequestUriStart",                "skip">>,
    <<"RequestMethod",                  "token", "RequestMethod",                  "method">>,
    <<"RequestUriStart",                "text",  "RequestUri",                     "uri">>,
    <<"RequestUri",                     SP,      "RequestHttpVersion_h",           "skip">>,
    <<"RequestUri",                     "\r",    "RequestUri",                     "version09">>,
    <<"RequestUri",                     "visible", "RequestUri",                   "uri">>,
    <<"RequestHttpVersion_h",           "H",     "RequestHttpVersion_ht",          "skip">>,
    <<"RequestHttpVersion_ht",          "T",     "RequestHttpVersion_htt",         "skip">>,
    <<"RequestHttpVersion_htt",         "T",     "RequestHttpVersion_http",        "skip">>,
    <<"RequestHttpVersion_http",        "P",     "RequestHttpVersion_slash",       "skip">>,
    <<"RequestHttpVersion_slash",       "/",     "RequestHttpVersion_majorStart",  "clearVersion">>,
    <<"RequestHttpVersion_majorStart",  "digit", "RequestHttpVersion_major",       "versionMajor">>,
    <<"RequestHttpVersion_major",       ".",     "RequestHttpVersion_minorStart",  "skip">>,
    <<"RequestHttpVersion_major",       "digit", "RequestHttpVersion_major",       "versionMajor">>,
    <<"RequestHttpVersion_minorStart",  "digit", "RequestHttpVersion_minor",       "versionMinor">>,
    <<"RequestHttpVersion_minor",       "\r",    "ResponseHttpVersion_newLine",    "skip">>,
    <<"RequestHttpVersion_minor",       "digit", "RequestHttpVersion_minor",       "versionMinor">> }

HeaderRows ==
  { <<"ResponseHttpVersion_newLine", "\n",      "HeaderLineStart",        "skip">>,
    <<"HeaderLineStart",             "\r",      "ExpectingNewline_3",     "skip">>,
    <<"HeaderLineStart",             "blank",   "HeaderLws",              "fold">>,
    <<"HeaderLineStart",             "token",   "HeaderName",             "newHeader">>,
    <<"HeaderLws",                   "\r",      "ExpectingNewline_2",     "skip">>,
    <<"HeaderLws",                   "blank",   "HeaderLws",              "skip">>,
    <<"HeaderLws",                   "visible", "HeaderValue",            "value">>,
    <<"HeaderName",                  ":",       "SpaceBeforeHeaderValue", "skip">>,
    <<"HeaderName",                  "token",   "HeaderName",             "name">>,
    <<"SpaceBeforeHeaderValue",      SP,        "HeaderValue",            "skip">>,
    <<"HeaderValue",                 "text",    "HeaderValue",            "value">>,
    <<"ExpectingNewline_2",          "\n",      "HeaderLineStart",        "skip">>,
    <<"ExpectingNewline_3",          "any",     "ExpectingNewline_3",     "endOfHeaders">> }

\* Only the headers of a POST or a PUT announce a body.
BodyHeaderRows ==
  { <<"HeaderValue", "\r", "ExpectingNewline_2", "bodyHeaderOfPost">> }

BodyRows ==
  { <<"Post",                "any",   "Post",                "body">>,
    <<"ChunkSize",           "alnum", "ChunkSize",           "chunkDigit">>,
    <<"ChunkSize",           Semicolon, "ChunkExtensionName",  "skip">>,
    <<"ChunkSize",           "\r",    "ChunkSizeNewLine",    "skip">>,
    <<"ChunkExtensionName",  "alnum", "ChunkExtensionName",  "skip">>,
    <<"ChunkExtensionName",  SP,      "ChunkExtensionName",  "skip">>,
    <<"ChunkExtensionName",  "=",     "ChunkExtensionValue", "skip">>,
    <<"ChunkExtensionName",  "\r",    "ChunkSizeNewLine",    "skip">>,
    <<"ChunkExtensionValue", "alnum", "ChunkExtensionValue", "skip">>,
    <<"ChunkExtensionValue", SP,      "ChunkExtensionValue", "skip">>,
    <<"ChunkExtensionValue", "\r",    "ChunkSizeNewLine",    "skip">>,
    <<"ChunkSizeNewLine",    "\n",    "ChunkData",           "chunkStart">> }

TrailerRows ==
  { <<"ChunkSizeNewLine_2",  "\r",    "ChunkSizeNewLine_3",  "skip">>,
    <<"ChunkSizeNewLine_2",  "alnum", "ChunkTrailerName",    "trailer">>,
    <<"ChunkSizeNewLine_3",  "\n",    "ChunkSizeNewLine_3",  "complete">>,
    <<"ChunkTrailerName",    "alnum", "ChunkTrailerName",    "skip">>,
    <<"ChunkTrailerName",    ":",     "ChunkTrailerValue",   "skip">>,
    <<"ChunkTrailerValue",   "alnum", "ChunkTrailerValue",   "skip">>,
    <<"ChunkTrailerValue",   SP,      "ChunkTrailerValue",   "skip">>,
    <<"ChunkTrailerValue",   "\r",    "ChunkSizeNewLine",    "skip">>,
    <<"ChunkData",           "any",   "ChunkData",           "chunkData">>,
    <<"ChunkDataNewLine_1",  "\r",    "ChunkDataNewLine_2",  "skip">>,
    <<"ChunkDataNewLine_2",  "\n",    "ChunkSize",           "skip">> }

RequestRows ==
  RequestLineRows \cup HeaderRows \cup BodyHeaderRows \cup BodyRows \cup TrailerRows

-----------------------------------------------------------------------------
(* What is done with a symbol.                                             *)

AppendToLast(p, field, c) ==
  [p EXCEPT !.message.headers[Len(p.message.headers)][field] = Append(@, c)]

\* HeaderValue at the end of the line: Content-Length or Transfer-Encoding.  As
\* a size_t a negative length is more than reserve() takes, which throws.
BodyHeader(p) ==
  LET h == Last(p.message.headers)
      size == Truncated(Value(Signed(h.value)))
  IN  CASE strcasecmp(h.name, "Content-Length") ->
             IF size < 0 THEN Throws(p) ELSE [p EXCEPT !.contentSize = size % SizeModulus]
        [] strcasecmp(h.name, "Transfer-Encoding") /\ strcasecmp(h.value, "chunked") ->
             [p EXCEPT !.chunked = TRUE]
        [] OTHER -> p

\* ExpectingNewline_3.  The symbol itself matters only when there is no body.
KeepsAlive(m) ==
  LET i == SelectInSeq(m.headers, LAMBDA h : strcasecmp(h.name, "Connection"))
  IN  IF i # 0
      THEN strcasecmp(m.headers[i].value, "Keep-Alive")
      ELSE \/ m.versionMajor > 1
           \/ m.versionMajor = 1 /\ m.versionMinor = 1
           \/ m.keepAlive
EndOfHeaders(p, c) ==
  LET q == [p EXCEPT !.message.keepAlive = KeepsAlive(p.message)]
  IN  CASE q.chunked                          -> [q EXCEPT !.state = "ChunkSize"]
        [] ~ q.chunked /\ q.contentSize # 0 -> [q EXCEPT !.state = "Post"]
        [] OTHER -> IF c = "\n" THEN Completed(q) ELSE Error(q)

\* --contentSize, in the width of size_t.
Unwrapped(n) == n - 1
Decremented(n) == (n - 1) % SizeModulus

Body(p, c) ==
  LET q == [p EXCEPT !.contentSize = Decremented(@), !.message.content = Append(@, c)]
  IN  IF q.contentSize = 0 THEN Completed(q) ELSE q

\* ChunkSizeNewLine; after a trailer chunkSizeStr is empty, which is 0 again.
KeepsChunkSize(p) ==
  LET size == strtol16(p.chunkSizeStr)
  IN  [p EXCEPT !.chunkSize = size,
                !.state = IF size = 0 THEN "ChunkSizeNewLine_2" ELSE "ChunkData"]
ChunkStart(p) ==
  LET size == strtol16(p.chunkSizeStr)
  IN  [p EXCEPT !.chunkSize = size, !.chunkSizeStr = <<>>,
                !.state = IF size = 0 THEN "ChunkSizeNewLine_2" ELSE "ChunkData"]

ChunkData(p, c) ==
  [p EXCEPT !.message.content = Append(@, c), !.chunkSize = @ - 1,
            !.state = IF p.chunkSize = 1 THEN "ChunkDataNewLine_1" ELSE @]

Texts == {"method", "uri", "status"}
Numbers == {"versionMajor", "versionMinor", "statusCode"}

Done(do, p, c) ==
  CASE do \in Texts   -> [p EXCEPT !.message[do] = Append(@, c)]
    [] do \in Numbers -> [p EXCEPT !.message[do] = @ * 10 + atoi(<<c>>)]
    [] do = "skip"    -> p
    [] do = "version09" ->
         Completed([p EXCEPT !.message.versionMajor = 0, !.message.versionMinor = 9])
    [] do = "clearVersion" ->
         [p EXCEPT !.message.versionMajor = 0, !.message.versionMinor = 0]
    [] do = "fold" -> IF p.message.headers = <<>> THEN Error(p) ELSE p
    [] do = "newHeader" ->
         [p EXCEPT !.message.headers = Append(@, [name |-> <<c>>, value |-> <<>>])]
    [] do \in {"name", "value"} -> AppendToLast(p, do, c)
    [] do = "bodyHeader" -> BodyHeader(p)
    [] do = "bodyHeaderOfPost" ->
         IF p.message.method \in {<<"POST">>, <<"PUT">>} THEN BodyHeader(p) ELSE p
    [] do = "endOfHeaders" -> EndOfHeaders(p, c)
    [] do = "body" -> Body(p, c)
    [] do = "chunkDigit" -> [p EXCEPT !.chunkSizeStr = Append(@, c)]
    [] do = "chunkStart" -> ChunkStart(p)
    [] do = "chunkData" -> ChunkData(p, c)
    [] do = "trailer" -> IF c \in Range(Digits) THEN Error(p) ELSE p
    [] do = "statusCodeEnd" ->
         IF p.message.statusCode \in 100..999 THEN p ELSE Error(p)
    [] do = "complete" -> Completed(p)

\* One turn of the loop in consume; on an error the state stays.
Step(rows, p, c) ==
  LET row == {r \in rows : r[1] = p.state /\ Accepts(r[2], c)}
  IN  IF row = {} THEN Error(p)
      ELSE LET r == CHOOSE r \in row : TRUE
               q == Done(r[4], [p EXCEPT !.state = r[3]], c)
           IN  IF q.result = "ParsingError" THEN [q EXCEPT !.state = p.state] ELSE q

\* consume: what the message ends with is left unread.
Consume(rows, p, c) ==
  IF p.result = "ParsingIncompleted" THEN Step(rows, p, c) ELSE p
Parse(rows, from, symbols) ==
  Fold(LAMBDA p, c : Consume(rows, p, c),
       [from EXCEPT !.result = "ParsingIncompleted"], symbols)

-----------------------------------------------------------------------------
(* The parsers that a table leads to.                                      *)

Headers == [name : Seq(STRING), value : Seq(STRING)]

Messages ==
  [method : Seq(STRING), uri : Seq(STRING), status : Seq(STRING), content : Seq(STRING),
   versionMajor : Nat, versionMinor : Nat, statusCode : Nat,
   headers : Seq(Headers), keepAlive : BOOLEAN]

States(rows) == {r[1] : r \in rows} \cup {r[3] : r \in rows}

Results == {"ParsingIncompleted", "ParsingCompleted", "ParsingError", "throws"}

Parsers(rows) ==
  [state : States(rows), contentSize : 0 .. SizeModulus - 1, chunkSizeStr : Seq(STRING),
   chunkSize : Nat, chunked : BOOLEAN, result : Results, message : Messages]

\* The states that use headers.back().
InHeader == {"HeaderLws", "HeaderName", "SpaceBeforeHeaderValue", "HeaderValue"}

\* headers.back() and --chunkSize are defined wherever the parser uses them.
AtHand(p) ==
  /\ p.state \in InHeader => p.message.headers # <<>>
  /\ p.state = "ChunkData" => p.chunkSize > 0
=============================================================================
