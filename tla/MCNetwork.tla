----------------------------- MODULE MCNetwork -----------------------------
(***************************************************************************)
(* Sockets, addresses, URIs and HTTP for TLC.  They do not share state     *)
(* here, so a behaviour runs one of them, chosen at the start, and leaves  *)
(* the others as they were constructed.                                    *)
(***************************************************************************)
EXTENDS Sockets, StreamSocket

CONSTANTS UriChars, MaxGrow, HexBase, MaxParams, MaxQuery, MaxHeaders, MaxText,
          MaxAddresses, Limits

\* The urls that are asked for: four that are refused in different places, and one that is not.
AskedUrls ==
  {[parses |-> FALSE], [parses |-> TRUE, proxy |-> "bad"],
   [parses |-> TRUE, proxy |-> "none", scheme |-> "ftp", port |-> "none"],
   [parses |-> TRUE, proxy |-> "good", scheme |-> "http", port |-> "bad"],
   [parses |-> TRUE, proxy |-> "none", scheme |-> "http", port |-> "none"]}

\* A server that sends text or a beginning of it.
Response(status, delimited, text, content, length) ==
  {[up |-> TRUE, status |-> status, delimited |-> delimited, sends |-> SubSeq(text, 1, n),
    whole |-> n = Len(text), content |-> content, length |-> length]:
     n \in {0, 1, 4, 5, Len(text)} \cap 0..Len(text)}

AnyServer ==
  {[up |-> FALSE]}
  \cup Response(200, "chunks", <<"head", "end", "2", "cr", "lf", "x", "y", "cr", "lf", "1", "cr", "lf", "3",
                                "cr", "lf", "0", "cr", "lf", "cr", "lf">>, <<"x", "y", "3">>, 0)
  \cup Response(200, "length", <<"head", "end", "x", "y", "0">>, <<"x", "y", "0">>, 3)
  \cup Response(404, "length", <<"head", "end">>, <<>>, 0)
  \cup Response(0, "close", <<"head", "end">>, <<>>, 0)
  \cup Response(200, "byteranges", <<"head", "end">>, <<>>, 0)
  \cup Response(200, "close", <<"head", "end", "x", "x", "x", "x", "x", "x">>,
                <<"x", "x", "x", "x", "x", "x">>, 0)

\* What is given to the sockets: a peer's stream, texts of addresses, answers of the
\* name service, and addresses of interfaces.
PeerStreams == {<<"a", "lf", "b">>}
ParsedTexts ==
  {[byte |-> 2, port |-> 3, extra |-> FALSE], [byte |-> 3, port |-> 5, extra |-> FALSE],
   [byte |-> 4, port |-> 1, extra |-> FALSE], [byte |-> 1, port |-> 1, extra |-> TRUE]}
ParsedPaths == {<<1>>, <<1, 3>>, <<2, 1>>, <<3>>, <<1, 3, 3>>}
NameAnswers ==
  {[name |-> "a", aliases |-> <<"c">>, addresses |-> <<<<10, 0, 1>>, <<8, 8, 1>>, <<10, 0, 1>>>>],
   [name |-> "b", aliases |-> <<>>, addresses |-> <<<<8, 8, 2>>, <<8, 8, 1>>>>]}
HostAddresses ==
  {<<127, 0, 1>>, <<10, 1, 1>>, <<172, 31, 1>>, <<172, 32, 1>>, <<192, 168, 1>>, <<169, 254, 1>>, <<8, 8, 8>>}

VARIABLES
  which,
  text, left,
  params, query,
  kind, message, data,
  pc, url, limit, addresses, server, connected, client_coming, buff, begin, body,
    m_error_code, m_response, response, result

Uris == INSTANCE Uri
  WITH Starts <- {<<>>, <<"x", ":">>, <<"/", "/">>, <<"x", ":", "/", "/", "a">>},
       Chars <- UriChars,
       Bases <- {<<"x", ":", "/", "/", "h", "/", "b", "/", "c", "?", "q">>, <<"x", ":", "/", "b">>},
       uri_text <- text, Names <- {<<>>, <<4>>, <<4, 5>>}, Values <- {<<6>>, <<7, 8>>, <<5, 9>>},
       query_text <- query
Messages == INSTANCE Http
  WITH StartLines <- {<<"lf">>, <<"GET", "sp", "a">>, <<"GET", "sp", "a", "sp", "HTTP/", "1", ".", "0", "cr", "lf">>,
          <<"HTTP/", "1", ".", "1", "sp", "200", "sp", "OK", "cr", "lf">>,
          <<"HTTP/", "1", ".", "0", "sp", "200", "sp", "OK", "cr", "lf">>,
          <<"HTTP/", "1", ".", "0", "sp", "99", "lf">>},
       Chars <- {"cr", "lf", ":", "a", "sp"}, Names <- {<<"a">>, <<"A">>, <<"c">>},
       Values <- {<<"9">>, <<"A">>}, Urls <- AskedUrls, Servers <- AnyServer,
       coming <- client_coming
uri_vars == <<text, left>>
query_vars == <<params, query>>
http_vars == <<kind, message, data>>
client_vars == <<pc, url, limit, addresses, server, connected, client_coming, buff,
                 begin, body, m_error_code, m_response, response, result>>
suite_vars == <<which, uri_vars, query_vars, http_vars, client_vars,
                socket_vars, handle_vars, address_vars, resolver_vars>>

SuiteInit ==
  /\ which \in {"uri", "query", "http", "client", "stream", "handle", "address", "resolver"}
  /\ Uris!Init
  /\ which # "uri" => text = <<>>
  /\ Uris!QueryInit
  /\ Messages!Init
  /\ which # "http" => kind = "request" /\ data = <<"lf">>
  /\ Messages!ClientInit
  /\ which # "client" => ~url.parses /\ limit = 8 /\ addresses = <<>>
  /\ Init
  /\ HandleInit
  /\ AddressInit
  /\ ResolverInit

SuiteNext ==
  /\ UNCHANGED which
  /\ \/ which = "uri" /\ Uris!Next
        /\ UNCHANGED <<query_vars, http_vars, client_vars, socket_vars,
                       handle_vars, address_vars, resolver_vars>>
     \/ which = "query" /\ Uris!QueryNext
        /\ UNCHANGED <<uri_vars, http_vars, client_vars, socket_vars,
                       handle_vars, address_vars, resolver_vars>>
     \/ which = "http" /\ Messages!Next
        /\ UNCHANGED <<uri_vars, query_vars, client_vars, socket_vars,
                       handle_vars, address_vars, resolver_vars>>
     \/ which = "client" /\ Messages!ClientNext
        /\ UNCHANGED <<uri_vars, query_vars, http_vars, socket_vars,
                       handle_vars, address_vars, resolver_vars>>
     \/ which = "stream" /\ Next
        /\ UNCHANGED <<uri_vars, query_vars, http_vars, client_vars,
                       handle_vars, address_vars, resolver_vars>>
     \/ which = "handle" /\ HandleNext
        /\ UNCHANGED <<uri_vars, query_vars, http_vars, client_vars,
                       socket_vars, address_vars, resolver_vars>>
     \/ which = "address" /\ AddressNext
        /\ UNCHANGED <<uri_vars, query_vars, http_vars, client_vars,
                       socket_vars, handle_vars, resolver_vars>>
     \/ which = "resolver" /\ ResolverNext
        /\ UNCHANGED <<uri_vars, query_vars, http_vars, client_vars,
                       socket_vars, handle_vars, address_vars>>

\* The thread that calls goes on when it can, and the kernel delivers what the peer sends.
SuiteSpec ==
  /\ SuiteInit /\ [][SuiteNext]_suite_vars
  /\ WF_socket_vars(which = "stream" /\ Step)
  /\ WF_socket_vars(which = "stream" /\ Kernel)

\* Uri: parsing, printing, normalizing and merging agree with the grammar and with
\* each other, also after a parse that failed.  QueryParams and HttpMessage: what is
\* printed parses to what was printed, and fields are found, set and removed under
\* their name, repeated or not.  SocketAddress: addresses survive copying and printing.
\* DomainResolver and IpAddress: the lists hold each address once and where it belongs.
\* HttpClient: a request that succeeds has the whole response of one server.
MessagesComeBack ==
  /\ which = "uri" => Uris!UriAgrees
  /\ which = "query" => Uris!QueryComesBack
  /\ which = "http" => Messages!ParsingIsStable
  /\ which = "http" => Messages!FieldsAreFound
  /\ which = "http" => Messages!MessageComesBack
  /\ which = "client" => Messages!ResponseIsWhole
  /\ which = "address" => AddressesComeBack
  /\ which = "resolver" => AddressesAreListed
=============================================================================
