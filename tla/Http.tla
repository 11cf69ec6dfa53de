-------------------------------- MODULE Http --------------------------------
(***************************************************************************)
(* HTTP: messages, and a client that fetches one.                          *)
(***************************************************************************)
EXTENDS Integers, Sequences, SequencesExt, FiniteSetsExt

(***************************************************************************)
(* HttpHeaders, HttpMessage, HttpRequest and HttpResponse (net/http): the  *)
(* header fields of a message, and its text.  A text is a sequence of      *)
(* characters, where a number, the word "HTTP/" and the name of a method   *)
(* are each one character; names differ in case by "a" and "A".            *)
(***************************************************************************)
CONSTANTS
  StartLines,   \* start lines of the texts that are parsed
  Chars,        \* characters behind them
  Names,        \* names and values callers give to header fields
  Values,
  MaxHeaders,   \* bound on the header fields of a message
  MaxText       \* bound on the length of a text behind its start line

VARIABLES
  kind,         \* "request" or "response"
  message,      \* m_version, m_headers and the parts of the start line
  data          \* the text that is to be parsed next

http_message_vars == <<kind, message, data>>

Strings == INSTANCE StringAlgorithm WITH full <- data, delim <- data, Char <- {}, MaxFull <- 0, MaxDelim <- 0

Number  == [t \in {"0", "1", "9", "99", "200", "1000"} |->
              CASE t = "0" -> 0 [] t = "1" -> 1 [] t = "9" -> 9 [] t = "99" -> 99
                [] t = "200" -> 200 [] t = "1000" -> 1000]
Numeral(n) == CHOOSE t \in DOMAIN Number: Number[t] = n
Methods == {"GET", "PUT"}
Unknown == "METHOD_UNKNOWN"
Crlf    == <<"cr", "lf">>

-----------------------------------------------------------------------------
(* HttpHeaders *)

Lower(s)       == [i \in DOMAIN s |-> IF s[i] = "A" THEN "a" ELSE s[i]]
Same(name, h)  == Lower(name) = Lower(h.name)
GetAll(headers, name) == LET hits == SelectSeq(headers, LAMBDA h: Same(name, h))
                         IN [i \in DOMAIN hits |-> hits[i].value]
Has(headers, name)    == \E i \in DOMAIN headers: Same(name, headers[i])
Get(headers, name)    == headers[SelectInSeq(headers, LAMBDA h: Same(name, h))].value
Add(headers, name, value) == Append(headers, [name |-> name, value |-> value])
RemoveOne(headers, name) == LET i == SelectInSeq(headers, LAMBDA h: Same(name, h))
                             IN IF i = 0 THEN headers ELSE RemoveAt(headers, i)
RemoveHeader(headers, name) == SelectSeq(headers, LAMBDA h: ~Same(name, h))
SetHeader(headers, name, value) == Add(RemoveHeader(headers, name), name, value)

AppendToString(headers) ==
  FoldLeft(LAMBDA text, h: text \o h.name \o <<":", "sp">> \o h.value \o Crlf, <<>>, headers)

Field(line) ==
  LET pos == Strings!Find(line, <<":">>, 0)
  IN [name |-> Strings!TrimSpace(Strings!Substr(line, 0, pos)),
      value |-> Strings!TrimSpace(Strings!From(line, pos + 1))]

\* A line without a colon is left out, an empty one before the last is an error.
ParseLines(lines) ==
  IF lines = <<>> \/ Last(lines) # <<>> THEN [error |-> "ERROR_MESSAGE_NOT_COMPLETE", headers |-> <<>>]
  ELSE IF \E i \in 1..Len(lines) - 1: lines[i] = <<>> THEN [error |-> "ERROR_FIELD_NOT_COMPLETE", headers |-> <<>>]
  ELSE LET fields == SelectSeq(Front(lines), LAMBDA l: Contains(l, ":"))
       IN [error |-> "SUCCESS", headers |-> [i \in DOMAIN fields |-> Field(fields[i])]]

Parse(text) == ParseLines(Strings!SplitLines(text, FALSE))

-----------------------------------------------------------------------------
(* HttpMessage *)

ParseVersion(field) ==       \* <<>>, or the major and minor version
  IF /\ Len(field) >= 4 /\ field[1] = "HTTP/" /\ field[3] = "."
     /\ field[2] \in DOMAIN Number /\ field[4] \in DOMAIN Number
  THEN <<Number[field[2]], Number[field[4]]>> ELSE <<>>

IsEmptyVersion(m) == m.version = <<0, 0>>

\* Both parsers set the members they come past, whatever is wrong further on.
RequestStartLine(m, fields) ==
  LET named == [m EXCEPT !.method = IF fields[1] \in {<<t>>: t \in Methods} THEN fields[1][1] ELSE Unknown]
      v     == IF Len(fields) = 3 THEN ParseVersion(fields[3]) ELSE m.version
  IN IF Len(fields) \notin {2, 3} THEN [error |-> "ERROR_START_LINE_NOT_COMPLETE", message |-> m]
     ELSE IF named.method = Unknown THEN [error |-> "ERROR_METHOD_NOT_FOUND", message |-> named]
     ELSE IF v = <<>> THEN [error |-> "ERROR_VERSION_UNSUPPORTED", message |-> [named EXCEPT !.uri = fields[2]]]
     ELSE [error |-> "SUCCESS", message |-> [named EXCEPT !.uri = fields[2], !.version = v]]

ResponseStartLine(m, fields) ==
  LET versioned == [m EXCEPT !.version = ParseVersion(fields[1])]
      status    == IF Len(fields[2]) = 1 /\ fields[2][1] \in DOMAIN Number THEN Number[fields[2][1]] ELSE 0
  IN IF Len(fields) < 2 THEN [error |-> "ERROR_START_LINE_NOT_COMPLETE", message |-> m]
     ELSE IF versioned.version = <<>> THEN [error |-> "ERROR_VERSION_UNSUPPORTED", message |-> m]
     ELSE IF status < 100 \/ status > 999 THEN [error |-> "ERROR_RESPONSE_STATUS_NOT_FOUND", message |-> versioned]
     ELSE [error |-> "SUCCESS", message |-> [versioned EXCEPT !.status = status]]

ParseStartLine(k, m, line) ==
  IF k = "request" THEN RequestStartLine(m, Strings!SplitString(line, <<"sp">>))
  ELSE ResponseStartLine(m, Strings!SplitString(line, <<"sp">>))

\* Faulty: the fields of a text that is refused are left behind.
ParseFieldsKeeps(started, text) ==
  [error |-> Parse(text).error,
   message |-> [started EXCEPT !.headers = LET fields == SelectSeq(Strings!SplitLines(text, FALSE), LAMBDA l: Contains(l, ":"))
                                           IN [i \in DOMAIN fields |-> Field(fields[i])]]]
ParseFields(started, text) ==
  [error |-> Parse(text).error, message |-> [started EXCEPT !.headers = Parse(text).headers]]

ParseHeaders(k, m, text) ==
  LET found == Strings!FindFirstOf(text, <<"lf">>, 0)
      pos   == IF found = Strings!npos THEN Len(text) ELSE found
      first_line == Strings!StringTrimRight(Strings!Substr(text, 0, pos), <<"cr">>)
      started == ParseStartLine(k, m, first_line)
  IN IF first_line = <<>> THEN [error |-> "ERROR_NO_START_LINE", message |-> m]
     ELSE IF started.error # "SUCCESS" THEN started
     ELSE ParseFields(started.message, Strings!From(text, pos + 1))

VersionText(major, minor) == <<"HTTP/", Numeral(major), ".", Numeral(minor)>>

\* HttpResponse writes the major version where the minor one belongs.
AppendStartLineToString(k, m) ==
  IF k = "request"
  THEN <<m.method, "sp">> \o m.uri
         \o IF IsEmptyVersion(m) THEN <<>> ELSE <<"sp">> \o VersionText(m.version[1], m.version[2])
  ELSE VersionText(m.version[1], m.version[1]) \o <<"sp", Numeral(m.status), "sp", "OK">>

AppendHeadersToString(k, m) ==
  AppendStartLineToString(k, m) \o Crlf \o AppendToString(m.headers) \o Crlf

GetContentLength(m) ==
  IF ~Has(m.headers, <<"a">>) THEN -1
  ELSE LET v == Get(m.headers, <<"a">>) IN IF Len(v) = 1 /\ v[1] \in DOMAIN Number THEN Number[v[1]] ELSE -1

IsKeepAlive(m) ==
  IF ~Has(m.headers, <<"c">>) THEN m.version[1] > 1 \/ (m.version[1] = 1 /\ m.version[2] >= 1)
  ELSE Lower(Get(m.headers, <<"c">>)) = <<"a">>

New   == [version |-> <<1, 1>>, headers |-> <<>>, method |-> Unknown, uri |-> <<"/">>, status |-> 0]
Reset == [New EXCEPT !.version = <<0, 0>>]

-----------------------------------------------------------------------------
Init == kind \in {"request", "response"} /\ message = New /\ data \in StartLines

DoParseHeaders == /\ data # <<>>
                  /\ message' = ParseHeaders(kind, message, data).message
                  /\ data' = <<>> /\ UNCHANGED kind
DoAdd    == /\ data = <<>> /\ Len(message.headers) < MaxHeaders
            /\ \E n \in Names, v \in Values: message' = [message EXCEPT !.headers = Add(@, n, v)]
            /\ UNCHANGED <<kind, data>>
DoSet    == /\ data = <<>>
            /\ \E n \in Names, v \in Values: message' = [message EXCEPT !.headers = SetHeader(@, n, v)]
            /\ UNCHANGED <<kind, data>>
DoRemove == /\ data = <<>>
            /\ \E n \in Names: message' = [message EXCEPT !.headers = RemoveHeader(@, n)]
            /\ UNCHANGED <<kind, data>>
DoReset  == data = <<>> /\ message' = Reset /\ UNCHANGED <<kind, data>>
\* A text is typed character by character, for a new message.
Type     == /\ message.headers = <<>> /\ data # <<>>
            /\ \E s \in StartLines: Len(data) < Len(s) + MaxText /\ IsPrefix(s, data)
            /\ \E c \in Chars: data' = Append(data, c)
            /\ UNCHANGED <<kind, message>>

Next == DoParseHeaders \/ DoAdd \/ DoSet \/ DoRemove \/ DoReset \/ Type
Spec == Init /\ [][Next]_http_message_vars
-----------------------------------------------------------------------------
Printable(m)  == IF kind = "request" THEN m.method # Unknown ELSE m.status # 0
Emptied(line) == line = <<>>

\* A text that is accepted has one empty line, the last; written again and parsed
\* again the message is the same, but for the minor version of a response.  After
\* a text that is refused the header fields are the old ones or none: those of the
\* text are not left behind.
ParsingIsStable ==
  \A p \in {ParseHeaders(kind, message, data)}:
    /\ p.error # "SUCCESS" => p.message.headers \in {message.headers, <<>>}
    /\ p.error = "SUCCESS" =>
         \A lines \in {Strings!SplitLines(data, FALSE)}:
           /\ SelectSeq(lines, Emptied) = <<Last(lines)>>
           /\ \A again \in {ParseHeaders(kind, New, AppendHeadersToString(kind, p.message))}:
                again = [p EXCEPT !.message.version = IF kind = "request" THEN @ ELSE <<@[1], @[1]>>]

\* The header fields are found under their names in any case, in the order in which
\* they were added; setting one leaves exactly that one, removing leaves none, and
\* no other field moves.
FieldsAreFound ==
  \A n \in Names:
    /\ Has(message.headers, n) <=> GetAll(message.headers, n) # <<>>
    /\ Has(message.headers, n) => Get(message.headers, n) = Head(GetAll(message.headers, n))
    /\ \A v \in Values: GetAll(SetHeader(message.headers, n, v), n) = <<v>>
    /\ \A o \in Names: GetAll(RemoveHeader(message.headers, n), o) =
                         IF Lower(o) = Lower(n) THEN <<>> ELSE GetAll(message.headers, o)

\* A message with its fields comes back from its text, headers, method, status and
\* version, and so do the length of its content and whether the connection lives on.
MessageComesBack ==
  Printable(message) =>
    \A back \in {ParseHeaders(kind, New, AppendHeadersToString(kind, message)).message}:
      /\ back.headers = message.headers
      /\ GetContentLength(back) = GetContentLength(message)
      /\ kind = "request" => back = [message EXCEPT !.version = IF IsEmptyVersion(message) THEN New.version ELSE @]

-----------------------------------------------------------------------------
(***************************************************************************)
(* HttpClient and its DownloadTask (net/http/http_client.cpp): one request *)
(* to a host with several addresses, over one StreamSocket.  Each address  *)
(* has a server that is down, or that takes the connection, sends all or   *)
(* the beginning of a response and closes it.  The stream arrives in       *)
(* pieces of any size.  The block of headers is one character, and the     *)
(* blank line behind it another.                                           *)
(***************************************************************************)
CONSTANTS
  Urls,         \* the urls: whether they parse, their port and scheme
  Servers,      \* what a server may be: how a response is delimited, its text
  MaxAddresses, \* bound on the addresses of the host
  Limits        \* the limits callers set on the length of a response

VARIABLES
  pc,           \* where ProcessRequest is
  url,          \* what is asked for
  limit,        \* m_max_response_length
  addresses,    \* the servers at the addresses that are still to be tried
  server,       \* the one of the current address
  connected,    \* m_connector holds a connection
  coming,       \* what the server still sends
  buff,         \* the bytes received, behind the headers too
  begin,        \* the beginning of what was not looked at, in buff
  body,         \* the body as far as it was put together
  m_error_code,
  m_response,   \* the response that is being received...
  response,     \* ...and the caller's
  result        \* "none" while the request is made, then "true", "false" or "thrown"

client_vars == <<pc, url, limit, addresses, server, connected, coming, buff, begin, body, m_error_code,
                 m_response, response, result>>

None      == [server |-> "none", status |-> 0, body |-> <<>>]
Down      == [up |-> FALSE]
Cr        == "cr"
Lf        == "lf"
Room      == limit - 1 - Len(buff)      \* buffer_length: what the buffer still takes
Status_OK == 200

Stop(ok) == pc' = "done" /\ result' = (IF ok /\ m_error_code' = "SUCCESS" THEN "true" ELSE "false")

-----------------------------------------------------------------------------
\* ProcessRequest(url): the ports are those of the proxy if there is one, the
\* addresses are the host's.
ProcessRequest ==
  /\ pc = "request"
  /\ \/ ~url.parses /\ m_error_code' = "ERROR_INVALID_URI_ADDRESS" /\ Stop(FALSE)
     \/ url.parses /\ url.proxy = "bad" /\ m_error_code' = "ERROR_INVALID_PROXY_ADDRESS" /\ Stop(FALSE)
     \/ /\ url.parses /\ url.proxy # "bad"
        /\ \/ url.port = "none" /\ url.scheme # "http" /\ m_error_code' = "ERROR_PROTOCAL_NOT_SUPPORTED" /\ Stop(FALSE)
           \/ url.port = "bad" /\ UNCHANGED m_error_code /\ Stop(FALSE)
           \/ /\ url.port = "good" \/ (url.port = "none" /\ url.scheme = "http")
              /\ \/ addresses = <<>> /\ m_error_code' = "ERROR_FAIL_TO_RESOLVE_ADDRESS" /\ Stop(FALSE)
                 \/ addresses # <<>> /\ pc' = "connect" /\ UNCHANGED <<m_error_code, result>>
  /\ UNCHANGED <<url, limit, addresses, server, connected, coming, buff, begin, body, m_response, response>>

\* An address has failed: the next one is tried, with what the task holds.
NextAddress(error) ==
  /\ m_error_code' = error
  /\ IF addresses' = <<>> THEN Stop(FALSE) ELSE pc' = "connect" /\ UNCHANGED result

\* A handle that holds a connection cannot be connected again.
Connect ==
  /\ pc = "connect"
  /\ addresses' = Tail(addresses) /\ server' = Head(addresses)
  /\ IF connected \/ ~Head(addresses).up
     THEN NextAddress("ERROR_FAIL_TO_CONNECT_SERVER") /\ UNCHANGED <<connected, coming>>
     ELSE /\ connected' = TRUE /\ coming' = Head(addresses).sends
          /\ pc' = "send" /\ UNCHANGED <<m_error_code, result>>
  /\ buff' = <<>> /\ begin' = 0 /\ body' = <<>>
  /\ UNCHANGED <<url, limit, m_response, response>>

SendRequest ==
  /\ pc = "send" /\ UNCHANGED addresses
  /\ \/ pc' = "headers" /\ UNCHANGED <<m_error_code, result>>
     \/ coming = <<>> /\ NextAddress("ERROR_FAIL_TO_SEND_REQUEST")
  /\ UNCHANGED <<url, limit, server, connected, coming, buff, begin, body, m_response, response>>

-----------------------------------------------------------------------------
\* Receive gives some bytes, and fails at the end of the stream.
ReceiveSome(n) == n \in 1..Min({Room, Len(coming)})
Received(n)    == /\ buff' = buff \o SubSeq(coming, 1, n)
                  /\ coming' = SubSeq(coming, n + 1, Len(coming))

\* ResponseStatusHasContent and the header fields tell how the body is received.
HasContent(status) == status >= 200 /\ status \notin {204, 304}
BodyOf(s) == IF ~HasContent(s.status) THEN "finish"
             ELSE IF s.delimited = "chunks" THEN "chunk"
             ELSE IF s.delimited = "length" THEN "length"
             ELSE IF s.delimited = "byteranges" THEN "multipart" ELSE "reset"

ReceiveHeaders ==
  /\ pc = "headers" /\ UNCHANGED addresses
  /\ \/ \E n \in 1..limit: ReceiveSome(n) /\ Received(n) /\ pc' = "parse" /\ UNCHANGED <<m_error_code, result>>
     \/ /\ coming = <<>> \/ Room = 0
        /\ NextAddress("ERROR_FAIL_TO_GET_RESPONSE") /\ UNCHANGED <<buff, coming>>
  /\ UNCHANGED <<url, limit, server, connected, begin, body, m_response, response>>

\* The header is complete, the buffer is full, or more is received; a header that
\* cannot be parsed and a body in ranges end the attempt.
ParseResponseHeader ==
  /\ pc = "parse" /\ UNCHANGED addresses
  /\ \/ /\ ~Contains(buff, "end") /\ Room > 0 /\ pc' = "headers"
        /\ UNCHANGED <<begin, m_response, m_error_code, result>>
     \/ /\ \/ ~Contains(buff, "end") /\ Room = 0
           \/ Contains(buff, "end") /\ server.status = 0
        /\ NextAddress("ERROR_INVALID_RESPONSE_HEADER") /\ UNCHANGED <<begin, m_response>>
     \/ /\ Contains(buff, "end") /\ server.status # 0
        /\ m_response' = [m_response EXCEPT !.server = server, !.status = server.status]
        /\ begin' = SelectInSeq(buff, LAMBDA c: c = "end")
        /\ IF BodyOf(server) = "multipart" THEN NextAddress("ERROR_CONTENT_TYPE_NOT_SUPPORTED")
           ELSE pc' = BodyOf(server) /\ UNCHANGED <<m_error_code, result>>
  /\ UNCHANGED <<url, limit, server, connected, coming, buff, body, response>>

-----------------------------------------------------------------------------
ClientFrom(start) == SubSeq(buff, start + 1, Len(buff))
SetBody(b)  == m_response' = [m_response EXCEPT !.body = b]

\* ReceiveAll(n): all of them, or what there is and a failure.
AllOf(n)       == Min({n, Len(coming)})
Complete(n)    == n <= Len(coming)

ReceiveBodyWithContentLength ==
  /\ pc = "length"
  /\ LET have     == ClientFrom(begin)
         download == IF server.length > Len(have) THEN Min({Room, server.length - Len(have)}) ELSE 0
     IN /\ Received(AllOf(download))
        /\ SetBody(have \o SubSeq(coming, 1, AllOf(download)))
        /\ m_error_code' = IF Complete(download) THEN m_error_code ELSE "ERROR_FAIL_TO_GET_RESPONSE"
  /\ pc' = "finish"
  /\ UNCHANGED <<url, limit, addresses, server, connected, begin, body, response, result>>

\* The body is taken if the buffer was filled; Receive does not set ECONNRESET at
\* the end of the stream.
ReceiveBodyWithConnectionReset ==
  /\ pc = "reset"
  /\ Received(AllOf(Room))
  /\ IF Complete(Room) THEN SetBody(ClientFrom(begin) \o SubSeq(coming, 1, Room)) ELSE UNCHANGED m_response
  /\ pc' = "finish"
  /\ UNCHANGED <<url, limit, addresses, server, connected, begin, body, m_error_code, response, result>>

\* The number at the beginning of a line, behind blanks, or -1.
Digit      == [c \in {"0", "1", "2", "3"} |-> CASE c = "0" -> 0 [] c = "1" -> 1 [] c = "2" -> 2 [] c = "3" -> 3]
ScanHex(s) == LET first == SelectInSeq(s, LAMBDA c: c \notin {Cr, Lf})
              IN IF first = 0 \/ s[first] \notin DOMAIN Digit THEN -1 ELSE Digit[s[first]]
LineEnd(s) == IF \E i \in 1..Len(s) - 1: s[i] = Cr /\ s[i + 1] = Lf
              THEN Min({i \in 1..Len(s) - 1: s[i] = Cr /\ s[i + 1] = Lf}) ELSE 0

Failed(error) == m_error_code' = error /\ pc' = "finish"

\* Faulty: the end of line behind a chunk is taken for its data.
ChunkLengthWithoutEnd(size) == Min({size, Room})
\* The chunk with the end of line behind it, and no more than the buffer's room.
ChunkLength(size) == Min({size + 2, Room})

\* The data of a chunk whose line ends at index start of the buffer.  With room for
\* less than an end of line the length of the data is negative, and append throws.
ReceiveChunk(size, start) ==
  LET length == ChunkLength(size)
      more   == Max({0, length - (Len(buff) - start)})
  IN /\ Received(AllOf(more))
     /\ \/ /\ Complete(more) /\ length >= 2
           /\ body' = body \o SubSeq(buff \o SubSeq(coming, 1, more), start + 1, start + length - 2)
           /\ begin' = start + length
           /\ UNCHANGED <<pc, m_error_code, result>>
        \/ Complete(more) /\ length < 2 /\ pc' = "done" /\ result' = "thrown" /\ UNCHANGED <<body, begin, m_error_code>>
        \/ ~Complete(more) /\ Failed("ERROR_FAIL_TO_GET_RESPONSE") /\ UNCHANGED <<body, begin, result>>
     /\ UNCHANGED m_response

\* One round: a chunk whose line is complete, or more of it.
ReceiveBodyWithChunks ==
  /\ pc = "chunk"
  /\ \/ /\ begin >= limit - 1 /\ pc' = "finish"
        /\ UNCHANGED <<buff, coming, begin, body, m_error_code, m_response, result>>
     \/ /\ begin < limit - 1 /\ LineEnd(ClientFrom(begin)) = 0
        /\ \/ \E n \in 1..limit:
                ReceiveSome(n) /\ Received(n) /\ UNCHANGED <<pc, m_error_code>>
           \/ /\ coming = <<>> \/ Room = 0
              /\ Failed("ERROR_FAIL_TO_GET_RESPONSE") /\ UNCHANGED <<buff, coming>>
        /\ UNCHANGED <<begin, body, m_response, result>>
     \/ /\ begin < limit - 1 /\ LineEnd(ClientFrom(begin)) # 0
        /\ \/ /\ ScanHex(ClientFrom(begin)) = -1 /\ Failed("ERROR_FAIL_TO_READ_CHUNKSIZE")
              /\ UNCHANGED <<buff, coming, begin, body, m_response, result>>
           \/ /\ ScanHex(ClientFrom(begin)) = 0 /\ SetBody(body) /\ pc' = "finish"
              /\ UNCHANGED <<buff, coming, begin, body, m_error_code, result>>
           \/ ScanHex(ClientFrom(begin)) > 0 /\ ReceiveChunk(ScanHex(ClientFrom(begin)), begin + LineEnd(ClientFrom(begin)) + 1)
  /\ UNCHANGED <<url, limit, addresses, server, connected, response>>

\* The response is the caller's, also if its body was not received.
FinishResponse ==
  /\ pc = "finish"
  /\ response' = m_response /\ m_response' = None
  /\ m_error_code' = IF response'.status # Status_OK THEN "ERROR_HTTP_STATUS_CODE" ELSE m_error_code
  /\ Stop(TRUE)
  /\ UNCHANGED <<url, limit, addresses, server, connected, coming, buff, begin, body>>

-----------------------------------------------------------------------------
ClientInit ==
  /\ pc = "request" /\ url \in Urls /\ limit \in Limits
  /\ addresses \in UNION {[1..n -> Servers]: n \in 0..MaxAddresses}
  /\ server = Down /\ connected = FALSE /\ coming = <<>> /\ buff = <<>> /\ begin = 0 /\ body = <<>>
  /\ m_error_code = "SUCCESS" /\ m_response = None /\ response = None /\ result = "none"

ClientNext == \/ ProcessRequest \/ Connect \/ SendRequest \/ ReceiveHeaders \/ ParseResponseHeader
              \/ ReceiveBodyWithContentLength \/ ReceiveBodyWithConnectionReset \/ ReceiveBodyWithChunks
              \/ FinishResponse

ClientSpec == ClientInit /\ [][ClientNext]_client_vars
-----------------------------------------------------------------------------
\* With the room its length needs again, no chunk is cut to what the buffer takes.
Fits(s) == 2 * Len(s.sends) < limit

\* A request that is successful has the response of one server, with status 200 and
\* the whole body that server sent, and no other: a response that the server cut
\* short is never taken for a whole one.  And what a whole response holds does not
\* depend on how the stream was cut.  (The response must fit into the buffer twice,
\* and have a length or chunks.)
ResponseIsWhole ==
  pc = "done" /\ response # None /\ response.server.delimited \in {"length", "chunks"} /\ Fits(response.server) =>
    /\ result = "true" => response.status = Status_OK /\ response.server.whole
    /\ result = "true" \/ response.server.whole => response.body = response.server.content
=============================================================================
