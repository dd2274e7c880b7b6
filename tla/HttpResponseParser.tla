------------------------- MODULE HttpResponseParser -------------------------
(***************************************************************************)
(* The response parser (httpresponseparser.h).  It has a start line of its *)
(* own, takes Content-Length and Transfer-Encoding from any message, and   *)
(* repeats the rest of the request parser.                                 *)
(***************************************************************************)
EXTENDS HttpParser

StatusLineRows ==
  { <<"ResponseStatusStart",                "H",      "ResponseHttpVersion_ht",              "skip">>,
    <<"ResponseHttpVersion_ht",             "T",      "ResponseHttpVersion_htt",             "skip">>,
    <<"ResponseHttpVersion_htt",            "T",      "ResponseHttpVersion_http",            "skip">>,
    <<"ResponseHttpVersion_http",           "P",      "ResponseHttpVersion_slash",           "skip">>,
    <<"ResponseHttpVersion_slash",          "/",      "ResponseHttpVersion_majorStart",      "clearVersion">>,
    <<"ResponseHttpVersion_majorStart",     "digit",  "ResponseHttpVersion_major",           "versionMajor">>,
    <<"ResponseHttpVersion_major",          ".",      "ResponseHttpVersion_minorStart",      "skip">>,
    <<"ResponseHttpVersion_major",          "digit",  "ResponseHttpVersion_major",           "versionMajor">>,
    <<"ResponseHttpVersion_minorStart",     "digit",  "ResponseHttpVersion_minor",           "versionMinor">>,
    <<"ResponseHttpVersion_minor",          SP,       "ResponseHttpVersion_statusCodeStart", "skip">>,
    <<"ResponseHttpVersion_minor",          "digit",  "ResponseHttpVersion_minor",           "versionMinor">>,
    <<"ResponseHttpVersion_statusCodeStart", "digit", "ResponseHttpVersion_statusCode",      "statusCode">>,
    <<"ResponseHttpVersion_statusCode",     "digit",  "ResponseHttpVersion_statusCode",      "statusCode">>,
    <<"ResponseHttpVersion_statusCode",     SP,       "ResponseHttpVersion_statusTextStart", "statusCodeEnd">>,
    <<"ResponseHttpVersion_statusTextStart", "char",  "ResponseHttpVersion_statusText",      "status">>,
    <<"ResponseHttpVersion_statusText",     "\r",     "ResponseHttpVersion_newLine",         "skip">>,
    <<"ResponseHttpVersion_statusText",     "inLine", "ResponseHttpVersion_statusText",      "status">> }

\* The cases that are those of the request parser.
ResponseHeaderRows == HeaderRows
ResponseBodyHeaderRows == { <<"HeaderValue", "\r", "ExpectingNewline_2", "bodyHeader">> }
ResponseBodyRows == BodyRows \cup TrailerRows

ResponseRows ==
  StatusLineRows \cup ResponseHeaderRows \cup ResponseBodyHeaderRows
    \cup ResponseBodyRows
=============================================================================
