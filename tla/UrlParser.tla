----------------------------- MODULE UrlParser ------------------------------
(***************************************************************************)
(* UrlParser (urlparser.h), as a table of the same form as HttpParser's.   *)
(* It cannot tell a user name from a host name, nor a password from a      *)
(* port, before it sees what follows, so it puts them aside and swaps them *)
(* into their place later.                                                 *)
(*                                                                         *)
(* Left out is IPV6Hostname, where the code calls abort().                 *)
(***************************************************************************)
EXTENDS HttpParser

NewUrl ==
  [state |-> "Scheme", valid |-> TRUE, scheme |-> <<>>, username |-> <<>>,
   password |-> <<>>, hostname |-> <<>>, port |-> <<>>, path |-> <<"/">>,
   query |-> <<>>, fragment |-> <<>>, integerPort |-> 0,
   usernameOrHostname |-> <<>>, portOrPassword |-> <<>>]

isUnreserved == isalnum \cup {"-", "."}

UrlAccepts(class, c) ==
  CASE class = "scheme"     -> c \in isalnum \cup {"+", "-", "."}
    [] class = "alnum"      -> c \in isalnum
    [] class = "name"       -> c \in isUnreserved \cup {"%"}
    [] class = "secret"     -> c \in isalnum \cup {"%"}
    [] class = "firstLetter" -> c \in (isalnum \cup {"%"}) \ Range(Digits)
    [] class = "digit"      -> c \in Range(Digits)
    [] class = "pathChar"   -> c \notin {"#", "?"}
    [] class = "any"        -> TRUE
    [] OTHER                -> c = class

UrlRows ==
  { <<"Scheme",             "scheme", "Scheme",             "scheme">>,
    <<"Scheme",             ":",      "SlashAfterScheme1",  "skip">>,
    <<"SlashAfterScheme1",  "/",      "SlashAfterScheme2",  "skip">>,
    <<"SlashAfterScheme1",  "alnum",  "UsernameOrHostname", "usernameOrHostname">>,
    <<"SlashAfterScheme2",  "/",      "UsernameOrHostname", "skip">>,
    <<"UsernameOrHostname", "name",   "UsernameOrHostname", "usernameOrHostname">>,
    <<"UsernameOrHostname", ":",      "PortOrPassword",     "skip">>,
    <<"UsernameOrHostname", "@",      "Hostname",           "isUsername">>,
    <<"UsernameOrHostname", "/",      "Path",               "isHostname">>,
    <<"Password",           "secret", "Password",           "password">>,
    <<"Password",           "@",      "Hostname",           "skip">>,
    <<"Hostname",           "name",   "Hostname",           "hostname">>,
    <<"Hostname",           ":",      "Port",               "skip">>,
    <<"Hostname",           "/",      "Path",               "skip">>,
    <<"PortOrPassword",     "digit",  "PortOrPassword",     "portOrPassword">>,
    <<"PortOrPassword",     "/",      "Path",               "areHostnameAndPort">>,
    <<"PortOrPassword",     "firstLetter", "Password",      "areUsernameAndPassword">>,
    <<"Port",               "digit",  "Port",               "portOrPassword">>,
    <<"Port",               "/",      "Path",               "isPort">>,
    <<"Path",               "#",      "Fragment",           "skip">>,
    <<"Path",               "?",      "Query",              "skip">>,
    <<"Path",               "pathChar", "Path",             "path">>,
    <<"Query",              "#",      "Fragment",           "skip">>,
    <<"Query",              "?",      "Query",              "skip">>,
    <<"Query",              "pathChar", "Query",            "query">>,
    <<"Fragment",           "any",    "Fragment",           "fragment">> }

\* std::swap of a part that is still empty with what was put aside.
IsUsername(u) == [u EXCEPT !.username = u.usernameOrHostname, !.usernameOrHostname = u.username]
IsHostname(u) == [u EXCEPT !.hostname = u.usernameOrHostname, !.usernameOrHostname = u.hostname]
TakesNothing(u) == u
IsPassword(u) == [u EXCEPT !.password = u.portOrPassword, !.portOrPassword = u.password]
IsPort(u) ==
  [u EXCEPT !.port = u.portOrPassword, !.portOrPassword = u.port,
            !.integerPort = atoi(u.portOrPassword) % 65536]

UrlDone(do, u, c) ==
  CASE do = "skip" -> u
    [] do = "isUsername" -> IsUsername(u)
    [] do = "isHostname" -> IsHostname(u)
    [] do = "isPort" -> IsPort(u)
    [] do = "areHostnameAndPort" -> IsPort(IsHostname(u))
    [] do = "areUsernameAndPassword" ->
         [IsPassword(IsUsername(u)) EXCEPT !.password = Append(@, c)]
    [] OTHER -> [u EXCEPT ![do] = Append(@, c)]

\* url = Url(): what was put aside stays.
Rejected(u) ==
  [NewUrl EXCEPT !.valid = FALSE, !.path = <<>>,
                 !.usernameOrHostname = u.usernameOrHostname,
                 !.portOrPassword = u.portOrPassword]

UrlStep(u, c) ==
  LET row == {r \in UrlRows : r[1] = u.state /\ UrlAccepts(r[2], c)}
  IN  IF row = {} THEN Rejected(u)
      ELSE LET r == CHOOSE r \in row : TRUE
           IN  UrlDone(r[4], [u EXCEPT !.state = r[3]], c)

\* parse_, with what is left aside at the end taken for the host name.
parse_(symbols) ==
  LET u == Fold(LAMBDA v, c : IF v.valid THEN UrlStep(v, c) ELSE v, NewUrl, symbols)
  IN  IF u.usernameOrHostname = <<>> THEN u
      ELSE [u EXCEPT !.hostname = u.usernameOrHostname]

httpPort(u) ==
  IF u.port # <<>> THEN u.integerPort ELSE IF u.scheme = <<"https">> THEN 443 ELSE 80

-----------------------------------------------------------------------------
(* What parse_ promises of the text of a URL u, a record of its parts.      *)

After(delimiter, part) == IF part = <<>> THEN <<>> ELSE <<delimiter>> \o part

RenderUrl(u) ==
  u.scheme \o <<":", "/", "/">>
    \o (IF u.username = <<>> THEN <<>> ELSE u.username \o After(":", u.password) \o <<"@">>)
    \o u.hostname \o After(":", u.port) \o u.path \o After("?", u.query)
    \o After("#", u.fragment)

\* What the promise is about: a URL with a path, whose password is not digits
\* only (which the parser rejects), and whose port fits into 16 bits.
NameSymbols == isUnreserved \cup {"%"}
UrlText == {c \in STRING : UrlAccepts("pathChar", c)}
UrlOK(u) ==
  /\ u \in [scheme : Seq(isalnum \cup {"+", "-", "."}),
            username : Seq(NameSymbols), hostname : Seq(NameSymbols),
            password : Seq(isalnum \cup {"%"}), port : Seq(Range(Digits)),
            path : Seq(UrlText), query : Seq(UrlText), fragment : Seq(STRING)]
  /\ u.password # <<>> => /\ u.username # <<>>
                          /\ \E i \in DOMAIN u.password : u.password[i] \notin Range(Digits)
  /\ atoi(u.port) < 65536
  /\ u.path # <<>> /\ u.path[1] = "/"

HasReadUrl(v, u) ==
  /\ v.valid /\ \A f \in DOMAIN u : v[f] = u[f]
  /\ v.portOrPassword = <<>>
  /\ httpPort(v) = IF u.port # <<>> THEN atoi(u.port)
                   ELSE IF u.scheme = <<"https">> THEN 443 ELSE 80
=============================================================================
