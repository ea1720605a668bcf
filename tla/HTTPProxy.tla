------------------------------ MODULE HTTPProxy ------------------------------
(***************************************************************************)
(* A connection to the HTTP proxy (HTTPProxy.cpp): a request is read until its *)
(* head is complete (HTTP.cpp), and is answered with a page, sent with a new    *)
(* head through a stream, or sent through the outproxy.                       *)
(*                                                                         *)
(* A request is a record of what the proxy looks at; it comes as `head' pieces *)
(* and what the client sends behind them.  A host is a record of its name, its  *)
(* length, and whether it ends with .dotnet.  When the proxy stops, the        *)
(* callbacks of the outproxy hold a bare pointer to a handler that is gone: the *)
(* model ends there.                                                         *)
(***************************************************************************)
EXTENDS Naturals, Sequences, SequencesExt

CONSTANTS
  Requests,     \* what clients may say
  NoHost,       \* an empty host
  Outproxies,   \* the settings of the outproxy
  Helper,       \* m_Addresshelper
  Known         \* the hosts in the address book at first

VARIABLES
  said,      \* the request
  outproxy,  \* m_ProxyURL
  got,       \* how many pieces of the request have been read
  handler,   \* what it waits for, m_Dead
  book,      \* the address book, where a helper may add hosts
  told,      \* what the client has been answered
  asked,     \* what was asked for: a stream, or a connection of the outproxy
  sent       \* what is sent first through the stream or the connection

vars == <<said, outproxy, got, handler, book, told, asked, sent>>

Nothing == [head |-> [host |-> NoHost, agent |-> "absent", connection |-> "absent", discloses |-> FALSE], rest |-> <<>>]
NotAsked == [for |-> "nothing", host |-> NoHost, port |-> 0]

----------------------------------------------------------------------------
(* The request.  Of its header: the Host, the User-Agent, Connection, and        *)
(* whether something discloses the client.                                     *)

\* HTTPReq::parse returns 0 until the head is complete.
Complete(n) == n >= said.head
Behind_Broken(n) == SubSeq(said.pieces, 1, n)
Behind(n) == SubSeq(said.pieces, said.head + 1, n)

\* UpdateHeader replaces what is there, and adds nothing.
UpdateHeader(header, name, value) == IF header[name] = "absent" THEN header ELSE [header EXCEPT ![name] = value]
RemoveHeader(header) == [header EXCEPT !.discloses = FALSE]
SanitizeHTTPRequest(header) ==
  LET clean == UpdateHeader(RemoveHeader(header), "agent", "ours")
  IN  IF header.connection = "upgrade" THEN clean ELSE UpdateHeader(clean, "connection", "close")

IsConnect == said.method = "CONNECT"
\* The host and the port: of a CONNECT, of an absolute URL, or of the Host header.
Destination ==
  IF IsConnect \/ said.host # NoHost THEN said.host ELSE said.header.host
Port ==
  IF IsConnect THEN said.port
  ELSE IF said.host # NoHost /\ said.port = 0 THEN (IF said.https THEN 443 ELSE 80)
  ELSE said.port
Header ==
  IF IsConnect THEN said.header
  ELSE LET clean == SanitizeHTTPRequest(said.header)
       IN  IF said.host # NoHost /\ clean.host # NoHost THEN [clean EXCEPT !.host = said.host] ELSE clean

\* URL::is_dotnet: rfind(".dotnet") is the length less four, where npos is the largest number.
is_dotnet(host) == ~host.dotnet /\ host.len = 3

----------------------------------------------------------------------------
WaitsFor(what) == handler' = [handler EXCEPT !.at = what]

\* GenericProxyError, GenericProxyInfo and HostNotFound: a page, and Terminate when it is sent.
SendProxyError(page) == WaitsFor("page") /\ told' = Append(told, page)
Page(page) == SendProxyError(page) /\ UNCHANGED <<book, asked, sent>>

Ask(what, host, port) ==
  /\ WaitsFor(what)
  /\ asked' = [for |-> what, host |-> host, port |-> port]
  /\ UNCHANGED <<book, told>>

\* A link with an address: it is added when the host is not known, or the link says so.
AddressHelper ==
  IF ~Helper THEN Page("not supported")
  ELSE IF said.host \notin DOMAIN book \/ said.update
  THEN /\ book' = [h \in DOMAIN book \cup {said.host} |-> IF h = said.host THEN said.helper ELSE book[h]]
       /\ SendProxyError("added") /\ UNCHANGED <<asked, sent>>
  ELSE Page("known already")

\* ForwardToUpstreamProxy, with m_ClientRequestBuffer; the agent becomes that of a browser.
Buffer(n) ==
  [head |-> IF IsConnect THEN Header ELSE UpdateHeader(Header, "agent", "browser"), rest |-> Behind(n)]
ForwardToUpstreamProxy(n) ==
  CASE outproxy.schema = "http" /\ is_dotnet(outproxy.host) ->
         Ask("stream", outproxy.host, outproxy.port) /\ sent' = Buffer(n)
    [] outproxy.schema \in {"http", "socks"} /\ ~(outproxy.schema = "http" /\ is_dotnet(outproxy.host)) ->
         WaitsFor("resolve") /\ sent' = Buffer(n) /\ UNCHANGED <<book, told, asked>>
    [] OTHER -> Page("unknown outproxy")

HandleRequest(n) ==
  CASE ~said.valid -> Page("invalid")
    [] said.valid /\ said.helper # "none" -> AddressHelper
    [] said.valid /\ said.helper = "none" ->
         IF (IsConnect /\ said.port = 0) \/ Destination = NoHost THEN Page("invalid")
         ELSE IF ~Destination.dotnet
         THEN CASE outproxy.schema = "none" -> Page("no outproxy")
                [] outproxy.schema = "bad"  -> Page("bad outproxy")
                [] OTHER                    -> ForwardToUpstreamProxy(n)
         ELSE IF Destination \notin DOMAIN book THEN Page("not found")
         ELSE IF IsConnect THEN Ask("connect", Destination, Port) /\ UNCHANGED sent
         ELSE Ask("stream", Destination, Port) /\ sent' = [head |-> Header, rest |-> Behind(n)]

\* HandleSockRecv: n pieces.
HandleSockRecv(n) ==
  /\ handler.at = "reading" /\ got + n <= Len(said.pieces)
  /\ got' = got + n
  /\ IF Complete(got + n) THEN HandleRequest(got + n) ELSE UNCHANGED <<handler, book, told, asked, sent>>
  /\ UNCHANGED <<said, outproxy>>

\* The client closes its connection.
HandleSockError ==
  /\ handler.at = "reading"
  /\ WaitsFor("ended")
  /\ UNCHANGED <<said, outproxy, got, book, told, asked, sent>>

\* SentHTTPFailed.
SentHTTPFailed ==
  /\ handler.at = "page"
  /\ WaitsFor("ended")
  /\ UNCHANGED <<said, outproxy, got, book, told, asked, sent>>

----------------------------------------------------------------------------
(* Streams.                                                                 *)

\* A dead handler leaves the stream alone.
HandleStreamRequestComplete ==
  /\ handler.at = "stream"
  /\ \/ WaitsFor(IF handler.dead THEN "ended" ELSE "handed") /\ UNCHANGED told
     \/ SendProxyError("host is down")
  /\ UNCHANGED <<said, outproxy, got, book, asked, sent>>

\* A connection for CONNECT is given nothing to send, and nobody asks whether the handler is dead.
HandleHTTPConnectStreamRequestComplete ==
  /\ handler.at = "connect"
  /\ \/ WaitsFor("handed") /\ told' = Append(told, "ok")
     \/ SendProxyError("failed to connect")
  /\ UNCHANGED <<said, outproxy, got, book, asked, sent>>

----------------------------------------------------------------------------
(* The outproxy.                                                            *)

HandleUpstreamProxyResolved ==
  /\ handler.at = "resolve"
  /\ \/ WaitsFor("outproxy") /\ UNCHANGED told
     \/ SendProxyError("cannot resolve")
  /\ UNCHANGED <<said, outproxy, got, book, asked, sent>>

HandleUpstreamHTTPProxyConnect ==
  /\ handler.at = "outproxy" /\ outproxy.schema = "http"
  /\ SendProxyError("not implemented")
  /\ UNCHANGED <<said, outproxy, got, book, asked, sent>>

\* HandleUpstreamSocksProxyConnect asks for the host of the URL.
HandleUpstreamSocksProxyConnect ==
  /\ handler.at = "outproxy" /\ outproxy.schema = "socks"
  /\ \/ /\ said.host.len <= 255
        /\ WaitsFor("handshake") /\ UNCHANGED told
        /\ asked' = [for |-> "outproxy", host |-> said.host, port |-> IF said.port = 0 THEN 80 ELSE said.port]
     \/ SendProxyError("cannot connect") /\ UNCHANGED asked
  /\ UNCHANGED <<said, outproxy, got, book, sent>>

HandleSocksProxySendHandshake ==
  /\ handler.at = "handshake"
  /\ \/ WaitsFor("reply") /\ UNCHANGED told
     \/ SendProxyError("cannot negotiate")
  /\ UNCHANGED <<said, outproxy, got, book, asked, sent>>

\* HandleSocksProxyReply and SocksProxySuccess: one read, whose second byte tells.
HandleSocksProxyReply ==
  /\ handler.at = "reply"
  /\ \/ WaitsFor(IF IsConnect THEN "telling" ELSE "sending") /\ told' = IF IsConnect THEN Append(told, "ok") ELSE told
     \/ SendProxyError("no success")
  /\ UNCHANGED <<said, outproxy, got, book, asked, sent>>

\* HandoverToUpstreamProxy, when the answer to the client or the request has been written.  A CONNECT sends nothing.
HandoverToUpstreamProxy ==
  /\ handler.at \in {"telling", "sending"}
  /\ \/ /\ WaitsFor("handed") /\ UNCHANGED told
        /\ sent' = IF handler.at = "telling" THEN Nothing ELSE sent
     \/ SendProxyError("failed to send") /\ UNCHANGED sent
  /\ UNCHANGED <<said, outproxy, got, book, asked>>

----------------------------------------------------------------------------
\* TCPIPAcceptor::Stop: ClearHandlers marks a handler dead; who waits for the outproxy is destroyed.
WithOutproxy == {"resolve", "outproxy", "handshake", "reply", "telling", "sending"}
Stop ==
  /\ ~handler.dead /\ handler.at \notin {"ended", "handed"}
  /\ handler' = [dead |-> TRUE, at |-> IF handler.at \in WithOutproxy THEN "ended" ELSE handler.at]
  /\ UNCHANGED <<said, outproxy, got, book, told, asked, sent>>

Init ==
  /\ said \in Requests /\ outproxy \in Outproxies
  /\ got = 0 /\ handler = [at |-> "reading", dead |-> FALSE]
  /\ book = [h \in Known |-> "first"]
  /\ told = <<>> /\ asked = NotAsked /\ sent = Nothing

Callback ==
  \/ SentHTTPFailed \/ HandleStreamRequestComplete \/ HandleHTTPConnectStreamRequestComplete
  \/ HandleUpstreamProxyResolved \/ HandleUpstreamHTTPProxyConnect \/ HandleUpstreamSocksProxyConnect
  \/ HandleSocksProxySendHandshake \/ HandleSocksProxyReply \/ HandoverToUpstreamProxy

Receive == \E n \in 1 .. Len(said.pieces) : HandleSockRecv(n)
Next == Receive \/ HandleSockError \/ Callback \/ Stop

\* What has come is read, and what was started ends.
Fairness == WF_vars(Receive) /\ WF_vars(Callback)
Spec == Init /\ [][Next]_vars /\ Fairness

----------------------------------------------------------------------------
(* Only hosts of the address book are looked for in the network, or the outproxy; *)
(* another host goes to the outproxy if there is one, and a host of the network   *)
(* never does.                                                              *)
InsideStaysInside ==
  /\ asked.for \in {"stream", "connect"} => asked.host \in DOMAIN book \cup {outproxy.host}
  /\ asked.for = "outproxy" => outproxy.schema = "socks" /\ ~Destination.dotnet
  /\ handler.at \in WithOutproxy => ~Destination.dotnet

(* A request that goes on has everything the client sent behind its head that     *)
(* was read, once, and its new head; the head tells nothing of the client.       *)
RequestGoesOn ==
  handler.at = "handed" /\ ~IsConnect =>
    /\ sent.rest = SubSeq(said.pieces, said.head + 1, got)
    /\ ~sent.head.discloses /\ sent.head.agent # "given"
    /\ said.host # NoHost /\ sent.head.host # NoHost => sent.head.host = said.host

(* A client is sent one page at most, and is told that its CONNECT has succeeded    *)
(* before its connection is handed over; nothing is put before what a site sends.  *)
ToldOnce ==
  /\ Len(SelectSeq(told, LAMBDA t : t # "ok")) <= 1
  /\ handler.at = "handed" => told = IF IsConnect THEN <<"ok">> ELSE <<>>

(* A request whose head has come is answered with a page, handed over, or ends     *)
(* with the proxy.                                                          *)
Answered == handler.at \in {"handed", "ended"}
RequestsAreAnswered == Complete(got) ~> Answered

\* These do not hold.  A CONNECT loses what the client sent with it:
EarlyDataGoesOn == handler.at = "handed" => sent.rest = SubSeq(said.pieces, said.head + 1, got)
\* a URL without a host goes to the outproxy without one:
OutproxyIsToldTheHost == asked.for = "outproxy" => asked.host = Destination
\* and "close connection, if not Connection: Upgrade" (HTTPProxy.cpp:219) needs a header to replace.
ClosesConnection == handler.at = "handed" /\ ~IsConnect => sent.head.connection \in {"close", "upgrade"}

TypeOK ==
  /\ got \in 0 .. Len(said.pieces) /\ handler.dead \in BOOLEAN
  /\ handler.at \in {"reading", "page", "stream", "connect", "handed", "ended"} \cup WithOutproxy
=============================================================================
