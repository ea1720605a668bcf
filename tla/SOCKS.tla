------------------------------- MODULE SOCKS -------------------------------
(***************************************************************************)
(* A connection to the SOCKS proxy (SOCKS.cpp): its parser, which takes the   *)
(* bytes of a request as reads cut them, and what the handler does with the   *)
(* request: a stream, or a SOCKS 4a proxy upstream.                          *)
(*                                                                         *)
(* The client says one request and some data behind it.  Bytes are numbers;   *)
(* Encode is what a client sends.  A stopped proxy marks its handlers dead     *)
(* and closes nothing, as DotNetServiceHandler::Terminate is not virtual.      *)
(***************************************************************************)
EXTENDS Integers, SequencesExt

CONSTANTS
  Requests,      \* what clients may say
  Suffix,        \* ".dotnet"
  UseUpstream,   \* m_UseUpstreamProxy
  MaxHost,       \* max_socks_hostname_size
  Reads,         \* the sizes a read may have
  Indeterminate  \* m_upstream_response_len and a byte of m_upstream_request, which nothing has set

VARIABLES
  said,      \* the request
  got,       \* how many bytes of it have been read
  parser,    \* m_state, m_parseleft and what has been parsed
  handler,   \* what it waits for, m_Dead
  replies,   \* to the client
  asked,     \* the stream or the connection upstream that was asked for
  given,     \* what is sent with the first packet of the stream
  upstream   \* m_upstream_response_len, and how much of the answer was sent

vars == <<said, got, parser, handler, replies, asked, given, upstream>>

----------------------------------------------------------------------------
(* What a client sends.                                                     *)

Encode(r) ==
  IF r.ver = 4
  THEN <<4, r.cmd, r.port \div 256, r.port % 256>> \o r.ip \o <<105, 0>>
         \o (IF r.type = "dns" THEN Append(r.host, 0) ELSE <<>>)
  ELSE <<5, Len(r.methods)>> \o r.methods \o <<5, r.cmd, 0>>
         \o (CASE r.type = "dns" -> <<3, Len(r.host)>> \o r.host
               [] r.type = "ipv4" -> <<1>> \o r.ip
               [] r.type = "ipv6" -> <<4>> \o r.ip)
         \o <<r.port \div 256, r.port % 256>>
Bytes == Encode(said) \o said.early

----------------------------------------------------------------------------
(* The parser.                                                              *)

NewParser == [state |-> "GET_SOCKSV", left |-> 1, ver |-> 0, cmd |-> 0, auth |-> FALSE, selected |-> FALSE,
              type |-> "ipv4", ip |-> <<>>, host |-> <<>>, port |-> 0, used |-> 0, rest |-> <<>>]
Stopped == {"READY", "failed", "unacceptable", "terminated"}

EnterState(p, state, left) ==
  [p EXCEPT
     !.state = state,
     !.left  = CASE state = "GET_PORT" -> 2 [] state = "GET_IPV4" -> 4 [] state = "GET5_IPV6" -> 16 [] OTHER -> left,
     !.type  = CASE state = "GET_IPV4" -> "ipv4" [] state = "GET5_IPV6" -> "ipv6"
                 [] state \in {"GET4A_HOST", "GET5_HOST"} -> "dns" [] OTHER -> @,
     !.ip    = IF state \in {"GET_IPV4", "GET5_IPV6"} THEN <<>> ELSE @,
     !.host  = IF state \in {"GET4A_HOST", "GET5_HOST"} THEN <<>> ELSE @]
Enter(p, state) == EnterState(p, state, 1)
Fails(p) == [p EXCEPT !.state = "failed"]

\* m_parseleft has 8 bits.
Less(p) == [p EXCEPT !.left = (@ - 1) % 256]
Then(p, state) == IF p.left = 0 THEN Enter(p, state) ELSE p

Is4a(ip) == ip[1] = 0 /\ ip[2] = 0 /\ ip[3] = 0 /\ ip[4] # 0

\* One byte: a case of HandleData.
Parsed(p, b) ==
  CASE p.state = "GET_SOCKSV" ->
         IF b = 4 THEN Enter([p EXCEPT !.ver = b], "GET_COMMAND")
         ELSE IF b = 5 THEN Enter([p EXCEPT !.ver = b], "GET5_AUTHNUM")
         ELSE [p EXCEPT !.state = "terminated"]
    [] p.state = "GET5_AUTHNUM" -> EnterState(p, "GET5_AUTH", b)
    [] p.state = "GET5_AUTH" ->
         LET q == Less([p EXCEPT !.auth = @ \/ b = 0])
         IN  IF q.left # 0 THEN q
             ELSE IF q.auth THEN Enter([q EXCEPT !.selected = TRUE], "GET5_REQUESTV")
             ELSE [q EXCEPT !.state = "unacceptable"]
    [] p.state = "GET5_REQUESTV" -> IF b = 5 THEN Enter(p, "GET_COMMAND") ELSE Fails(p)
    [] p.state = "GET_COMMAND" ->
         IF b \in {1, 2} \/ (b = 3 /\ p.ver = 5)
         THEN Enter([p EXCEPT !.cmd = b], IF p.ver = 5 THEN "GET5_GETRSV" ELSE "GET_PORT")
         ELSE Fails(p)
    [] p.state = "GET5_GETRSV" -> IF b = 0 THEN Enter(p, "GET5_GETADDRTYPE") ELSE Fails(p)
    [] p.state = "GET5_GETADDRTYPE" ->
         CASE b = 1 -> Enter(p, "GET_IPV4") [] b = 4 -> Enter(p, "GET5_IPV6")
           [] b = 3 -> Enter(p, "GET5_HOST_SIZE") [] OTHER -> Fails(p)
    [] p.state = "GET_PORT" ->
         Then(Less([p EXCEPT !.port = (@ * 256 + b) % 65536]), IF p.ver = 5 THEN "READY" ELSE "GET_IPV4")
    [] p.state = "GET_IPV4" ->
         Then(Less([p EXCEPT !.ip = Append(@, b)]), IF p.ver = 5 THEN "GET_PORT" ELSE "GET4_IDENT")
    [] p.state = "GET5_IPV6" -> Then(Less([p EXCEPT !.ip = Append(@, b)]), "GET_PORT")
    [] p.state = "GET4_IDENT" ->
         IF b # 0 THEN p ELSE Enter(p, IF Is4a(p.ip) THEN "GET4A_HOST" ELSE "READY")
    [] p.state = "GET4A_HOST" ->
         IF b = 0 THEN Enter(p, "READY")
         ELSE IF Len(p.host) >= MaxHost THEN Fails(p)
         ELSE [p EXCEPT !.host = Append(@, b)]
    [] p.state = "GET5_HOST_SIZE" -> EnterState(p, "GET5_HOST", b)
    [] p.state = "GET5_HOST" -> Then(Less([p EXCEPT !.host = Append(@, b)]), "GET_PORT")

Rest(p, bytes) == [p EXCEPT !.rest = SubSeq(bytes, p.used + 1, Len(bytes))]
HandleData(p, bytes) ==
  Rest(FoldLeft(LAMBDA q, b : IF q.state \in Stopped THEN q ELSE [Parsed(q, b) EXCEPT !.used = q.used + 1],
                [p EXCEPT !.used = 0], bytes), bytes)

ValidateSOCKSRequest(p) == p.cmd = 1 /\ p.type = "dns"

\* addr.rfind(".dotnet") == addrlen - 4, where npos is the largest number of its type.
IsDotNet(host) ==
  LET found == {i \in 0 .. Len(host) - Len(Suffix) : SubSeq(host, i + 1, i + Len(Suffix)) = Suffix}
      rfind == IF found = {} THEN -1 ELSE CHOOSE i \in found : \A j \in found : j <= i
  IN  rfind = Len(host) - 4

----------------------------------------------------------------------------
(* The handler.                                                             *)

NotAsked == [for |-> "nothing", host |-> <<>>, port |-> 0]
WaitsFor(what) == handler' = [handler EXCEPT !.at = what]
Replies(what) == replies' = Append(replies, what)
Finals == {"failed", "granted"}

\* SocksRequestFailed; Terminate when it is sent.
SocksRequestFailed == WaitsFor("failing") /\ Replies("failed")

\* HandleSockRecv: n bytes.
HandleSockRecv(n) ==
  /\ handler.at = "reading" /\ n <= Len(Bytes) - got
  /\ got' = got + n
  /\ parser' = HandleData(parser, SubSeq(Bytes, got + 1, got + n))
  /\ LET selects == parser'.selected /\ ~parser.selected
         told    == IF selects THEN Append(replies, "selected") ELSE replies
         fails   == WaitsFor("failing") /\ replies' = Append(told, "failed") /\ UNCHANGED asked
     IN  CASE parser'.state = "terminated" -> WaitsFor("ended") /\ UNCHANGED <<replies, asked>>
           [] parser'.state = "unacceptable" -> WaitsFor("failing") /\ Replies("unacceptable") /\ UNCHANGED asked
           [] parser'.state = "failed" -> fails
           [] parser'.state = "READY" ->
                IF ~ValidateSOCKSRequest(parser') THEN fails
                ELSE IF IsDotNet(parser'.host)
                THEN /\ WaitsFor("stream") /\ replies' = told
                     /\ asked' = [for |-> "stream", host |-> parser'.host, port |-> parser'.port]
                ELSE IF UseUpstream THEN WaitsFor("resolve") /\ replies' = told /\ UNCHANGED asked
                ELSE fails
           [] OTHER -> replies' = told /\ UNCHANGED <<handler, asked>>
  /\ UNCHANGED <<said, given, upstream>>

\* The client has closed the connection, or the proxy's service ends.
HandleSockError ==
  /\ handler.at = "reading"
  /\ WaitsFor("ended")
  /\ UNCHANGED <<said, got, parser, replies, asked, given, upstream>>

\* SentSocksFailed.
SentSocksFailed ==
  /\ handler.at = "failing"
  /\ WaitsFor("ended")
  /\ UNCHANGED <<said, got, parser, replies, asked, given, upstream>>

HandleStreamRequestComplete ==
  /\ handler.at = "stream"
  /\ \/ WaitsFor("answering") /\ Replies("granted")
     \/ SocksRequestFailed
  /\ UNCHANGED <<said, got, parser, asked, given, upstream>>

\* SentSocksDone: a dead handler drops the connection, another one hands it over.
SentSocksDone ==
  /\ handler.at = "answering"
  /\ \/ ~handler.dead /\ WaitsFor("handed") /\ given' = parser.rest
     \/ WaitsFor("ended") /\ UNCHANGED given
  /\ UNCHANGED <<said, got, parser, replies, asked, upstream>>

----------------------------------------------------------------------------
(* The proxy upstream.                                                      *)

HandleUpstreamResolved ==
  /\ handler.at = "resolve"
  /\ \/ WaitsFor("connect") /\ UNCHANGED replies
     \/ SocksRequestFailed
  /\ UNCHANGED <<said, got, parser, asked, given, upstream>>

\* GenerateUpstreamRequest: a long name is left out; the zero behind the name is written one byte too far.
UpstreamHost(b) ==
  IF Len(parser.host) > MaxHost - 14 THEN <<>>
  ELSE parser.host \o IF b = 0 THEN <<>> ELSE <<b>>

\* HandleUpstreamConnected and SendUpstreamRequest.
HandleUpstreamConnected ==
  /\ handler.at = "connect"
  /\ \/ /\ WaitsFor("handshake") /\ UNCHANGED replies
        /\ \E b \in Indeterminate : asked' = [for |-> "upstream", host |-> UpstreamHost(b), port |-> parser.port]
     \/ SocksRequestFailed /\ UNCHANGED asked
  /\ UNCHANGED <<said, got, parser, given, upstream>>

\* HandleUpstreamData: each read goes to the beginning of m_upstream_response.
HandleUpstreamData(n) ==
  /\ handler.at = "handshake" /\ n <= 8 - upstream.sent
  /\ upstream' = [len |-> upstream.len + n, sent |-> upstream.sent + n]
  /\ IF upstream'.len < 8 THEN UNCHANGED <<handler, replies>>
     ELSE IF n = 8 THEN \/ WaitsFor("handed") /\ Replies("granted")
                        \/ SocksRequestFailed
     ELSE SocksRequestFailed
  /\ UNCHANGED <<said, got, parser, asked, given>>

HandleUpstreamError ==
  /\ handler.at = "handshake"
  /\ SocksRequestFailed
  /\ UNCHANGED <<said, got, parser, asked, given, upstream>>

----------------------------------------------------------------------------
\* TCPIPAcceptor::Stop.
Stop ==
  /\ ~handler.dead
  /\ handler' = [handler EXCEPT !.dead = TRUE]
  /\ UNCHANGED <<said, got, parser, replies, asked, given, upstream>>

Init ==
  /\ said \in Requests
  /\ got = 0 /\ parser = NewParser
  /\ handler = [at |-> "reading", dead |-> FALSE]
  /\ replies = <<>> /\ asked = NotAsked /\ given = <<>>
  /\ \E n \in Indeterminate : upstream = [len |-> n, sent |-> 0]

Callback ==
  \/ SentSocksFailed \/ HandleStreamRequestComplete \/ SentSocksDone
  \/ HandleUpstreamResolved \/ HandleUpstreamConnected \/ HandleUpstreamError

Receive == \E n \in Reads : HandleSockRecv(n)

Next ==
  \/ Receive \/ HandleSockError \/ Callback \/ Stop
  \/ \E n \in 1 .. 8 : HandleUpstreamData(n)

\* Data that has come is read; the stream is created or not in the end, and a connection upstream made,
\* answered or given up.
Fairness == WF_vars(Receive) /\ WF_vars(Callback)
Spec == Init /\ [][Next]_vars /\ Fairness

----------------------------------------------------------------------------
(* However reads cut what the client sends, a stream or a connection upstream   *)
(* is asked for when the whole request has come, and for the port and the name  *)
(* the client has said.                                                       *)
AsksForWhatWasSaid ==
  asked # NotAsked =>
    /\ said.type = "dns" /\ said.cmd = 1 /\ got >= Len(Encode(said))
    /\ asked.port = said.port
    /\ asked.for = "stream" => asked.host = said.host

(* What the client has sent behind its request goes out with the stream: of     *)
(* what was read nothing is lost or repeated.                                  *)
EarlyDataGoesOn ==
  handler.at = "handed" /\ asked.for = "stream" => Encode(said) \o given = SubSeq(Bytes, 1, got)

(* The client is told of a method before anything else if it speaks version 5,  *)
(* and of one result at most; a connection is handed over when it was granted.  *)
AnswersInOrder ==
  /\ Len(SelectSeq(replies, LAMBDA r : r \in Finals)) <= 1
  /\ \A i \in DOMAIN replies : replies[i] \in {"selected", "unacceptable"} => i = 1 /\ said.ver = 5
  /\ said.ver = 5 /\ asked # NotAsked => replies[1] = "selected"
  /\ handler.at = "handed" => Last(replies) = "granted"

(* A client that has sent a whole request, and does not go away, is told of a   *)
(* result.                                                                    *)
Complete == got >= Len(Encode(said))
Answered == handler.at = "ended" \/ \E i \in DOMAIN replies : replies[i] \in Finals \cup {"unacceptable"}
RequestsAreAnswered == Complete ~> Answered

(* A name of the network is looked for in the network: "does it end with        *)
(* .dotnet?  yes it does, make an dotnet session" (SOCKS.cpp:573).              *)
DotNetGoesToDotNet ==
  handler.at = "resolve" => SubSeq(said.host, Len(said.host) - Len(Suffix) + 1, Len(said.host)) # Suffix

TypeOK ==
  /\ got \in 0 .. Len(Bytes) /\ parser.left \in 0 .. 255 /\ Len(parser.host) <= 255
  /\ handler.at \in {"reading", "stream", "answering", "resolve", "connect", "handshake", "failing", "handed", "ended"}
=============================================================================
