----------------------------- MODULE HttpParser -----------------------------
(***************************************************************************)
(* Reading one connection's requests (http/http.cpp): CHttp::Read appends  *)
(* what has arrived to m_aReadData, HttpParse runs the state machine       *)
(* SHttpRequest::ParseInternal over it and ParseRead decides whether the   *)
(* request is complete.  A request may arrive in any number of parts.      *)
(*                                                                         *)
(* A character stands for its class, and a name of the protocol for itself *)
(* ("L" is the header name Content-Length, "G" the method GET), so that a  *)
(* token is one character long; a part may end before or after it.         *)
(* ParseInternal keeps where tokens begin and end in local variables,      *)
(* indices of m_aReadData here.                                            *)
(***************************************************************************)
EXTENDS Naturals, Sequences

CONSTANTS
  Requests,  \* the requests clients make
  Slips,     \* texts that are no request, made of Chars
  MAX_READ_DATA_BUFF_SIZE,  \* the size of m_aReadData
  MAX_WRITE_DATA_BUFF_SIZE, \* the size of m_aWriteData, which lies behind it in CHttp
  HugeLength, \* the number a Content-Length of "9" stands for
  NULL       \* a null pointer; no request

CR == "\r"
LF == "\n"
Blank == {" "}
Digits == {"0", "1", "2", "9"}
Uppers == {"G", "P", "H", "L"}
Chars == Blank \cup Digits \cup Uppers \cup
           {CR, LF, "/", "?", "=", "&", ":", ".", "a", "nul"}

\* What a name or a value is made of
Names == Chars \ (Blank \cup {CR, LF})

\* The first i of pieces, one behind another
Joint(pieces) ==
  LET first[i \in 0 .. Len(pieces)] == IF i = 0 THEN <<>> ELSE first[i - 1] \o pieces[i]
  IN  first

\* What a client writes for request r: a line, one for every header, an empty one
\* and the body
Param(r, i) == <<IF i = 1 THEN "?" ELSE "&", "a", "=", r.params[i]>>
Params(r) == Joint([i \in DOMAIN r.params |-> Param(r, i)])
Header(r, i) ==
  <<r.headers[i].key>> \o r.pad \o <<":">> \o r.pad \o <<r.headers[i].value, CR, LF>>
Headers(r) == Joint([i \in DOMAIN r.headers |-> Header(r, i)])
Text(r) ==
  <<r.method, " ", "/">> \o Params(r)[Len(r.params)]
    \o <<" ", "H", "/", "1", ".", "1", CR, LF>>
    \o Headers(r)[Len(r.headers)] \o <<CR, LF>> \o r.body

\* The first value a request gives a header
Sent(r, k) ==
  {h.value : h \in {r.headers[i] : i \in {j \in DOMAIN r.headers :
     r.headers[j].key = k /\ \A l \in 1 .. j - 1 : r.headers[l].key # k}}}

\* What is no number, and a number below zero, give no body: both are 0 here.
atoi(v) ==
  CASE v = <<"1">> -> 1 [] v = <<"2">> -> 2 [] v = <<"9">> -> HugeLength [] OTHER -> 0

\* Requests are well formed, and a Content-Length is the length of the body.
ASSUME ParserAssumption ==
  /\ \A r \in Requests :
       /\ r.method \in Uppers
       /\ r.params \in Seq(Names)
       /\ r.headers \in Seq([key : Names, value : Names])
       /\ r.pad \in Seq(Blank)
       /\ r.body \in Seq(Chars)
       /\ \A v \in Sent(r, "L") : Len(r.body) = atoi(<<v>>)
  /\ Slips \subseteq Seq(Chars)
  /\ MAX_READ_DATA_BUFF_SIZE \in Nat
  /\ MAX_WRITE_DATA_BUFF_SIZE \in Nat \ {0}
  /\ HugeLength \in Nat
  /\ NULL \notin Requests /\ NULL \notin Nat

VARIABLES
  request,     \* the request the client makes, or NULL if it makes none
  text,        \* what it sends for that
  m_iReadIdx, m_iNextPos, m_eDecodeState,
  m_str,       \* m_strMethod, m_strUrl, m_strProtocol, m_strVersion
  m_mRequestParams, m_mHeaders, m_strBody,
  m_pBegin, m_pEnd, \* local: token: where it begins and ends, or NULL
  bodyLength,  \* local
  pc,          \* "read", "parse", "answer", or "crash" (the process ends)
  status,      \* what ParseRead returned last
  cut          \* history: where a part of the request ended before its end,
               \* "nowhere", only at ends of "lines" or somewhere "inside"

input == <<request, text>>
fields == <<m_str, m_mRequestParams, m_mHeaders, m_strBody>>
locals == <<m_pBegin, m_pEnd, bodyLength>>
vars == <<input, m_iReadIdx, m_iNextPos, m_eDecodeState, fields, locals,
          pc, status, cut>>

Tokens == {"method", "url", "requestParamKey", "requestParamValue",
           "protocol", "version", "headerKey", "headerValue"}
Strings == {"method", "url", "protocol", "version"}

NoToken == [b \in Tokens |-> NULL]
EmptyMap == <<>>

\* The client starts a request
Client ==
  \/ request' \in Requests /\ text' = Text(request')
  \/ request' = NULL /\ text' \in Slips

Init ==
  /\ \/ request \in Requests /\ text = Text(request)
     \/ request = NULL /\ text \in Slips
  /\ m_iReadIdx = 0
  /\ m_iNextPos = 0
  /\ m_eDecodeState = "START"
  /\ m_str = [b \in Strings |-> <<>>]
  /\ m_mRequestParams = EmptyMap
  /\ m_mHeaders = EmptyMap
  /\ m_strBody = <<>>
  /\ m_pBegin = NoToken
  /\ m_pEnd = NoToken
  /\ bodyLength = 0
  /\ pc = "read"
  /\ status = "OPEN"
  /\ cut = "nowhere"

\* Both maps in one, f where both are defined
Joined(f, g) == [x \in DOMAIN f \cup DOMAIN g |-> IF x \in DOMAIN f THEN f[x] ELSE g[x]]

-----------------------------------------------------------------------------
(* The state machine, as the list of edges of each state.  The first whose *)
(* set holds the character is taken; "-" stays.                            *)

\* The method and the URI
UriEdges == [
  START                  |-> << <<Blank \cup {CR, LF}, "START">>, <<Uppers, "METHOD">>,
                                <<Chars, "INVALID">> >>,
  METHOD                 |-> << <<Uppers, "METHOD">>, <<Blank, "BEFORE_URI">>,
                                <<Chars, "INVALID_METHOD">> >>,
  BEFORE_URI             |-> << <<{"/"}, "IN_URI">>, <<Blank, "BEFORE_URI">>,
                                <<Chars, "INVALID">> >>,
  IN_URI                 |-> << <<{"?"}, "BEFORE_URI_PARAM_KEY">>,
                                <<Blank, "BEFORE_PROTOCOL">>, <<Chars, "IN_URI">> >>,
  BEFORE_URI_PARAM_KEY   |-> << <<Blank \cup {CR, LF}, "INVALID_URI">>,
                                <<Chars, "URI_PARAM_KEY">> >>,
  URI_PARAM_KEY          |-> << <<{"="}, "BEFORE_URI_PARAM_VALUE">>,
                                <<Blank, "INVALID_URI">>, <<Chars, "URI_PARAM_KEY">> >>,
  BEFORE_URI_PARAM_VALUE |-> << <<Blank \cup {CR, LF}, "INVALID_URI">>,
                                <<Chars, "URI_PARAM_VALUE">> >>,
  URI_PARAM_VALUE        |-> << <<{"&"}, "BEFORE_URI_PARAM_KEY">>,
                                <<Blank, "BEFORE_PROTOCOL">>, <<Chars, "URI_PARAM_VALUE">> >> ]

\* The protocol and its version
VersionEdges == [
  BEFORE_PROTOCOL        |-> << <<Blank, "BEFORE_PROTOCOL">>, <<Chars, "PROTOCOL">> >>,
  PROTOCOL               |-> << <<{"/"}, "BEFORE_VERSION">>, <<Chars, "PROTOCOL">> >>,
  BEFORE_VERSION         |-> << <<Digits, "VERSION">>, <<Chars, "INVALID_VERSION">> >>,
  VERSION                |-> << <<{CR}, "WHEN_CR">>, <<{"."}, "VERSION_SPLIT">>,
                                <<Digits, "VERSION">>, <<Chars, "INVALID_VERSION">> >>,
  VERSION_SPLIT          |-> << <<Digits, "VERSION">>, <<Chars, "INVALID_VERSION">> >> ]

\* The headers and the body
HeaderEdges == [
  HEADER_KEY             |-> << <<Blank, "HEADER_BEFORE_COLON">>,
                                <<{":"}, "HEADER_AFTER_COLON">>, <<Chars, "HEADER_KEY">> >>,
  HEADER_BEFORE_COLON    |-> << <<Blank, "HEADER_BEFORE_COLON">>,
                                <<{":"}, "HEADER_AFTER_COLON">>, <<Chars, "INVALID_HEADER">> >>,
  HEADER_AFTER_COLON     |-> << <<Blank, "HEADER_AFTER_COLON">>, <<Chars, "HEADER_VALUE">> >>,
  HEADER_VALUE           |-> << <<{CR}, "WHEN_CR">>, <<Chars, "HEADER_VALUE">> >>,
  WHEN_CR                |-> << <<{LF}, "CR_LF">>, <<Chars, "INVALID">> >>,
  CR_LF                  |-> << <<{CR}, "CR_LF_CR">>, <<Blank, "INVALID">>,
                                <<Chars, "HEADER_KEY">> >>,
  CR_LF_CR               |-> << <<{LF}, "BODY">>, <<Chars, "INVALID_HEADER">> >>,
  BODY                   |-> << <<Chars, "COMPLETE">> >> ]

Edges == Joined(UriEdges, Joined(VersionEdges, HeaderEdges))

Invalid == {"INVALID", "INVALID_METHOD", "INVALID_URI", "INVALID_VERSION", "INVALID_HEADER"}
States == DOMAIN Edges \cup Invalid \cup {"COMPLETE"}

Goto(s, ch) ==
  LET k == CHOOSE i \in DOMAIN Edges[s] :
             /\ ch \in Edges[s][i][1]
             /\ \A j \in 1 .. i - 1 : ch \notin Edges[s][j][1]
  IN  Edges[s][k][2]

\* The token a state is in the middle of
TokenOf == [METHOD |-> "method", IN_URI |-> "url",
            URI_PARAM_KEY |-> "requestParamKey", URI_PARAM_VALUE |-> "requestParamValue",
            PROTOCOL |-> "protocol", VERSION |-> "version", VERSION_SPLIT |-> "version",
            HEADER_KEY |-> "headerKey", HEADER_VALUE |-> "headerValue"]
Token(s) == IF s \in DOMAIN TokenOf THEN TokenOf[s] ELSE "none"

\* Mutant of Begins: the key of a header is not marked.
BeginsNoKey(b, s) == Token(s) = b /\ b # "headerKey" /\ Token(m_eDecodeState) # b

\* The step from m_eDecodeState to s begins, or ends, token b.
Begins(b, s) == Token(s) = b /\ Token(m_eDecodeState) # b
Ends(b, s) == Token(m_eDecodeState) = b /\ Token(s) # b /\ s \notin Invalid

-----------------------------------------------------------------------------
(* The values *)

\* StringBuffer::operator std::string: an exception if the beginning is null and
\* the end is not, the empty string if both are.
Throws(b) == m_pEnd'[b] # NULL /\ m_pBegin[b] = NULL
Str(b) ==
  IF m_pEnd'[b] = NULL THEN <<>> ELSE SubSeq(text, m_pBegin[b] + 1, m_pEnd'[b])

\* std::map::insert keeps a value that is already there.
Insert(map, k, v) == Joined(map, [x \in {k} |-> v])

\* What is found at index p of m_aReadData: nothing has been received behind
\* m_iReadIdx, and what lies behind the buffer is no part of a request.
CharAt(p) ==
  IF p < m_iReadIdx THEN text[p + 1]
  ELSE IF p < MAX_READ_DATA_BUFF_SIZE THEN "nul" ELSE "outside"

\* What a step to s converts
Converted(s) ==
  {b \in Strings : Ends(b, s)}
    \cup (IF Ends("requestParamValue", s) THEN {"requestParamKey", "requestParamValue"} ELSE {})
    \cup (IF Ends("headerValue", s) THEN {"headerKey", "headerValue"} ELSE {})

Store(s) ==
  /\ m_str' = [b \in Strings |-> IF Ends(b, s) THEN Str(b) ELSE m_str[b]]
  /\ m_mRequestParams' = IF Ends("requestParamValue", s)
       THEN Insert(m_mRequestParams, Str("requestParamKey"), Str("requestParamValue"))
       ELSE m_mRequestParams
  /\ m_mHeaders' = IF Ends("headerValue", s)
       THEN Insert(m_mHeaders, Str("headerKey"), Str("headerValue"))
       ELSE m_mHeaders
  /\ m_strBody' = IF m_eDecodeState = "BODY"
       THEN [i \in 1 .. bodyLength |-> CharAt(m_iNextPos + i - 1)]
       ELSE m_strBody

\* m_strBody.assign(p, bodyLength) takes as many bytes as the header declares,
\* whatever was received.  As far as m_aWriteData reaches that reads other bytes of
\* this CHttp; behind it the read may meet the end of the memory, and the string
\* may be too long for std::string.
Faults ==
  /\ m_eDecodeState = "BODY"
  /\ m_iNextPos + bodyLength > MAX_READ_DATA_BUFF_SIZE + MAX_WRITE_DATA_BUFF_SIZE

\* The end of the headers: with a Content-Length of zero there is no body, with
\* none the rest of the data is the body (its length counts the LF too).
AfterHeaders ==
  IF <<"L">> \in DOMAIN m_mHeaders THEN atoi(m_mHeaders[<<"L">>])
  ELSE m_iReadIdx - m_iNextPos

-----------------------------------------------------------------------------
(* Mutant of More: one character too many. *)
MoreOffByOne == m_eDecodeState \notin Invalid \cup {"COMPLETE"} /\ m_iNextPos <= m_iReadIdx

\* The condition of ParseInternal's loop
More == m_eDecodeState \notin Invalid \cup {"COMPLETE"} /\ m_iNextPos < m_iReadIdx

\* CHttp::Read, then Append and HttpParse: a part of the request arrives.
Read ==
  /\ pc = "read"
  /\ m_iReadIdx < MAX_READ_DATA_BUFF_SIZE
  /\ \E i \in m_iReadIdx + 1 .. Len(text) :
       /\ i <= MAX_READ_DATA_BUFF_SIZE
       /\ m_iReadIdx' = i
       /\ cut' = IF i = Len(text) \/ cut = "inside" THEN cut
                 ELSE IF request # NULL /\ text[i] = LF THEN "lines" ELSE "inside"
  /\ pc' = "parse"
  /\ UNCHANGED <<input, m_iNextPos, m_eDecodeState, fields, locals, status>>

\* One character
Scan ==
  LET next == Goto(m_eDecodeState, CharAt(m_iNextPos))
      ends == m_eDecodeState = "CR_LF_CR" /\ next = "BODY"
      s == IF ends /\ AfterHeaders = 0 THEN "COMPLETE" ELSE next
      p == m_iNextPos
  IN  /\ pc = "parse"
      /\ More
      /\ m_iNextPos' = p + 1
      /\ m_eDecodeState' = s
      /\ m_pBegin' = [b \in Tokens |-> IF Begins(b, s) THEN p ELSE m_pBegin[b]]
      /\ m_pEnd' = [b \in Tokens |-> IF Ends(b, s) THEN p ELSE m_pEnd[b]]
      /\ bodyLength' = IF ends THEN AfterHeaders ELSE bodyLength
      /\ \/ /\ (\E b \in Converted(s) : Throws(b)) \/ Faults
            /\ pc' = "crash"
            /\ UNCHANGED fields
         \/ /\ \A b \in Converted(s) : ~Throws(b) \* a read too far may go well
            /\ Store(s)
            /\ UNCHANGED pc
      /\ UNCHANGED <<input, m_iReadIdx, status, cut>>

\* Mutant of Status: no special case for GET.
StatusNoGet ==
  IF m_iNextPos = m_iReadIdx /\ m_eDecodeState \notin Invalid THEN "OPEN"
  ELSE m_eDecodeState

\* ParseRead's result: at the end of the data a request is taken for incomplete,
\* but for a GET whose headers are complete.
Status ==
  IF m_iNextPos = m_iReadIdx /\ m_eDecodeState = "BODY" /\ m_str["method"] = <<"G">>
    THEN "COMPLETE"
  ELSE IF m_iNextPos = m_iReadIdx /\ m_eDecodeState \notin Invalid THEN "OPEN"
  ELSE m_eDecodeState

\* HttpParse waits for the rest of the request or builds a response.  The next
\* call of ParseInternal has StringBuffers and a bodyLength of its own.
Parsed ==
  /\ pc = "parse"
  /\ ~More
  /\ status' = Status
  /\ pc' = IF Status = "OPEN" THEN "read" ELSE "answer"
  /\ m_pBegin' = NoToken
  /\ m_pEnd' = NoToken
  /\ bodyLength' = 0
  /\ UNCHANGED <<input, m_iReadIdx, m_iNextPos, m_eDecodeState, fields, cut>>

\* Mutant of Reset: the state machine stays where the last request left it.
ResetKeepsState ==
  /\ m_iReadIdx' = 0 /\ m_iNextPos' = 0
  /\ m_str' = [b \in Strings |-> <<>>]
  /\ m_mHeaders' = EmptyMap /\ m_strBody' = <<>>
  /\ m_mRequestParams' = EmptyMap
  /\ UNCHANGED m_eDecodeState

\* SHttpRequest::Init and m_iReadIdx = 0, in CHttp::Init and CHttp::Write
Reset ==
  /\ m_iReadIdx' = 0 /\ m_iNextPos' = 0 /\ m_eDecodeState' = "START"
  /\ m_str' = [b \in Strings |-> <<>>]
  /\ m_mHeaders' = EmptyMap /\ m_strBody' = <<>>
  /\ m_mRequestParams' = EmptyMap

\* The response was sent, or the connection was closed in the meantime (because
\* Read found m_aReadData full, or by its timer or its client): the next request.
NextRequest ==
  /\ pc \in {"answer", "read"}
  /\ Reset
  /\ Client
  /\ pc' = "read"
  /\ status' = "OPEN"
  /\ cut' = "nowhere"
  /\ UNCHANGED locals

Next == Read \/ Scan \/ Parsed \/ NextRequest

Spec == Init /\ [][Next]_vars

-----------------------------------------------------------------------------
(* Properties *)

TypeOK ==
  /\ request \in Requests \cup {NULL}
  /\ m_iReadIdx \in 0 .. Len(text) /\ m_iReadIdx <= MAX_READ_DATA_BUFF_SIZE
  /\ m_iNextPos \in 0 .. m_iReadIdx
  /\ m_eDecodeState \in States
  /\ DOMAIN m_str = Strings
  /\ \A b \in Tokens : m_pBegin[b] = NULL \/ m_pBegin[b] \in 0 .. m_iNextPos
  /\ \A b \in Tokens : m_pEnd[b] = NULL \/ m_pEnd[b] \in 0 .. m_iNextPos
  /\ bodyLength \in Nat
  /\ pc \in {"read", "parse", "answer", "crash"}
  /\ status \in {"OPEN", "COMPLETE"} \cup Invalid
  /\ cut \in {"nowhere", "lines", "inside"}

Whole == m_iReadIdx = Len(text)

\* The Content-Length the parser has read
DeclaredLength == IF <<"L">> \in DOMAIN m_mHeaders THEN atoi(m_mHeaders[<<"L">>]) ELSE 0

\* HttpParse survives every request, well formed or not, that arrives in one part,
\* and every request whose parts are whole lines, although the tokens' beginnings
\* are forgotten between the parts (http.cpp:40-50), as long as the body it declares
\* would not reach behind CHttp's buffers, received or not (http.cpp:341).
NoCrash ==
  cut # "inside" /\ DeclaredLength <= MAX_WRITE_DATA_BUFF_SIZE => pc # "crash"

\* HttpParse survives whatever the parts are: when the data is not complete it
\* waits for more (http.h:69, http.cpp:577, http.cpp:700).
AnyPartsParsed == pc # "crash"

\* What the parser knows of a request that arrived in whole lines is what the
\* client sent, with nothing of the request before it on this CHttp, and it is
\* accepted.  Of the body this holds when it came with the headers and they give
\* its length: bodyLength is local as well (http.cpp:52).
FieldsAreSent ==
  pc = "answer" /\ request # NULL /\ cut # "inside" =>
    /\ status = "COMPLETE"
    /\ m_str["method"] = <<request.method>>
    /\ m_str["url"] = <<"/">>
    /\ m_str["protocol"] = <<"H">>
    /\ m_str["version"] = <<"1", ".", "1">>
    /\ m_mRequestParams = IF request.params = <<>> THEN EmptyMap
                          ELSE [k \in {<<"a">>} |-> <<request.params[1]>>]
    /\ DOMAIN m_mHeaders = {<<request.headers[i].key>> : i \in DOMAIN request.headers}
    /\ \A k \in {"L", "a"} :
         \A v \in Sent(request, k) : m_mHeaders[<<k>>] = <<v>>
    /\ cut = "nowhere" /\ Sent(request, "L") # {} => m_strBody = request.body

\* Requests ParseRead can tell to be complete: a GET without a Content-Length, or
\* one with a body of at least two characters.
Recognised(r) ==
  \/ r.method = "G" /\ r.body = <<>> /\ Sent(r, "L") = {}
  \/ Len(r.body) >= 2

\* Such a request is answered when all of it is there, however it was cut: no
\* client that has sent everything is left waiting for the server to read more.
CompleteIsAnswered ==
  pc = "read" /\ request # NULL /\ Whole => ~Recognised(request)
=============================================================================
