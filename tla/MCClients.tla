----------------------------- MODULE MCClients -----------------------------
(***************************************************************************)
(* What clients ask for is answered, and what they send is sent: nine        *)
(* components in one run.  The initial state chooses one of them and no step *)
(* changes the choice.                                                      *)
(*   "bob": a BOB session and two destinations;                              *)
(*   "dncp": a DNCP session with two messages and a lookup;                  *)
(*   "tunnel": two connections of a client service;                          *)
(*   "pipe": a pipe between two sockets;                                     *)
(*   "datagram": three datagrams to one destination;                         *)
(*   "socks", "http": one request of each kind below;                        *)
(*   "context": the client context, which reads its files anew;              *)
(*   "keys": the supplier of the key pairs the sessions use.                 *)
(***************************************************************************)
EXTENDS Integers, Sequences

----------------------------------------------------------------------------
(* What the clients say.  Of each kind there is what a path of the code tells  *)
(* apart: versions, kinds of hosts, lengths at the limits.                    *)

\* SOCKS: "a.dotnet", which ends in the suffix, and "abc", which does not.
Suffix == <<46, 100, 111, 116, 110, 101, 116>>
DotNetName == <<97>> \o Suffix
OtherName == <<97, 98, 99>>
LongName == [i \in 1 .. 10 |-> 98]

Early == {<<>>, <<1, 2, 3>>}

Said(ver, cmd, type, host, ip, methods, early) ==
  [ver |-> ver, cmd |-> cmd, type |-> type, host |-> host, ip |-> ip, methods |-> methods,
   port |-> 4321, early |-> early]

\* Of version 4 an address 0.0.0.9 is followed by a name, and 0.1.0.9 is an address.
Socks4 ==
  {Said(4, 1, "dns", h, <<0, 0, 0, 9>>, <<>>, e) : h \in {DotNetName, OtherName}, e \in Early}
  \cup {Said(4, 1, "ipv4", <<>>, <<0, 1, 0, 9>>, <<>>, <<>>), Said(4, 1, "dns", LongName, <<0, 0, 0, 9>>, <<>>, <<>>)}

Socks5 ==
  {Said(5, 1, "dns", h, <<0, 0, 0, 9>>, m, e) : h \in {DotNetName, OtherName}, m \in {<<0>>, <<2, 0>>, <<2>>}, e \in Early}
  \cup {Said(5, 1, "ipv4", <<>>, <<1, 2, 3, 4>>, <<0>>, e) : e \in Early}
  \cup {Said(5, 1, "ipv6", <<>>, [i \in 1 .. 16 |-> i], <<0>>, <<>>), Said(5, 1, "dns", LongName, <<0, 0, 0, 9>>, <<0>>, <<>>),
         Said(5, 3, "dns", DotNetName, <<0, 0, 0, 9>>, <<0>>, <<>>)}

SocksRequests == Socks4 \cup Socks5

----------------------------------------------------------------------------
\* HTTP: hosts inside, known or new, one outside, and one too long for SOCKS.
Host(name, dotnet, len) == [name |-> name, dotnet |-> dotnet, len |-> len]
NoHost == Host("", FALSE, 0)
Inside == Host("site", TRUE, 11)
New == Host("new", TRUE, 10)
Outside == Host("other", FALSE, 9)
TooLong == Host("long", FALSE, 300)

Header(host, agent, connection, discloses) ==
  [host |-> host, agent |-> agent, connection |-> connection, discloses |-> discloses]

\* Each request comes in four pieces, two of which are its head.
Http(method, host, header, helper, update) ==
  [method |-> method, host |-> host, header |-> header, port |-> IF method = "CONNECT" THEN 443 ELSE 0,
   https |-> FALSE, valid |-> TRUE, helper |-> helper, update |-> update, head |-> 2,
   pieces |-> <<"h1", "h2", "b1", "b2">>]

Headers ==
  {Header(NoHost, "absent", "absent", FALSE), Header(NoHost, "given", "keep", TRUE),
   Header(Outside, "given", "upgrade", FALSE), Header(Outside, "absent", "keep", TRUE)}
HttpRequests ==
  {Http(m, h, header, "none", FALSE) :
     m \in {"GET", "CONNECT"}, h \in {Inside, New, Outside, TooLong}, header \in Headers}
  \cup {Http("GET", NoHost, Header(hh, "given", "keep", TRUE), "none", FALSE) : hh \in {NoHost, Inside, Outside, New}}
  \cup {Http("GET", h, Header(h, "given", "absent", FALSE), "second", u) : h \in {Inside, New}, u \in BOOLEAN}
  \cup {[Http("GET", Inside, Header(Inside, "given", "keep", FALSE), "none", FALSE) EXCEPT !.valid = FALSE]}

Outproxy(schema, host) == [schema |-> schema, host |-> host, port |-> 9050]
Outproxies ==
  {Outproxy("none", NoHost), Outproxy("bad", NoHost), Outproxy("ftp", Outside), Outproxy("http", Outside),
   Outproxy("socks", Outside)}

----------------------------------------------------------------------------
\* The files of the client context: tunnels that come, go, change their keys, and share them.
Section(type, at, keys) == [type |-> type, at |-> at, keys |-> keys, port |-> 8]
Configs == {
  <<Section("client", 1, "transient"), Section("server", 7, "k1"), Section("udpclient", 2, "k2")>>,
  <<Section("client", 1, "k1"), Section("client", 1, "k2"), Section("server", 7, "k1"), Section("server", 8, "k1"),
    Section("udpserver", 9, "k1")>>,
  <<Section("proxy", 1, ""), Section("proxy", 3, "k3"), Section("server", 8, "k1"), Section("server", 7, "k2"),
    Section("udpclient", 2, "")>>,
  <<Section("client", 1, ""), Section("server", 7, "transient"), Section("server", 7, "bad")>>,
  <<Section("client", 1, "bad"), Section("server", 0, "k1"), Section("udpserver", 9, "k2"), Section("udpclient", 2, "bad")>>,
  <<>> }
----------------------------------------------------------------------------

VARIABLES
  instance,
  bSess, bDest, bNamed,
  nSession, nListed, nDest, nAsked, nJobs, nStatus, nReplies, nPayload,
  tConn, tReady, tTimer, tStopped,
  pPeers, pInput, pReading, pBuffer, pWriting, pOutput, pDead, pOpen,
  dSession, dCallers, dSent, dWorld,
  sSaid, sGot, sParser, sHandler, sReplies, sAsked, sGiven, sUpstream,
  hSaid, hOutproxy, hGot, hHandler, hBook, hTold, hAsked, hSent,
  cStep, cContext, cConfig, cSessions, cReloads,
  kThread, kRunning, kStopping, kQueue, kHeld, kMade

bVars == <<bSess, bDest, bNamed>>
nVars == <<nSession, nListed, nDest, nAsked, nJobs, nStatus, nReplies, nPayload>>
tVars == <<tConn, tReady, tTimer, tStopped>>
pVars == <<pPeers, pInput, pReading, pBuffer, pWriting, pOutput, pDead, pOpen>>
dVars == <<dSession, dCallers, dSent, dWorld>>
sVars == <<sSaid, sGot, sParser, sHandler, sReplies, sAsked, sGiven, sUpstream>>
hVars == <<hSaid, hOutproxy, hGot, hHandler, hBook, hTold, hAsked, hSent>>
cVars == <<cStep, cContext, cConfig, cSessions, cReloads>>
kVars == <<kThread, kRunning, kStopping, kQueue, kHeld, kMade>>

----------------------------------------------------------------------------
B == INSTANCE BOB WITH
  Clients <- {"c1"}, Names <- {"x"}, NoName <- "-", MaxDests <- 2, MaxReads <- 2,
  sess <- bSess, dest <- bDest, named <- bNamed

N == INSTANCE DNCP WITH
  Nonces <- {1, 2}, Lookups <- {3}, MaxLeaseSets <- 2, MaxCreates <- 2,
  session <- nSession, listed <- nListed, dest <- nDest, asked <- nAsked, jobs <- nJobs, status <- nStatus,
  replies <- nReplies, payload <- nPayload

T == INSTANCE ServiceTunnel WITH
  Connections <- {"c1", "c2"}, ConnectTimeout <- TRUE, TimerTriggered <- {FALSE}, HeaderChunks <- 0,
  MaxChunks <- 1, MayStop <- TRUE,
  conn <- tConn, ready <- tReady, timer <- tTimer, stopped <- tStopped

P == INSTANCE TCPIPPipe WITH
  MaxSent <- 3, Chunk <- 2,
  peers <- pPeers, input <- pInput, reading <- pReading, buffer <- pBuffer, writing <- pWriting,
  output <- pOutput, dead <- pDead, open <- pOpen

D == INSTANCE Datagram WITH
  MaxQueue <- 2, MaxSent <- 3, MaxIdle <- 1,
  session <- dSession, callers <- dCallers, sent <- dSent, world <- dWorld

\* The longest name is 20 for SOCKS, so that LongName with its suffix would fit and a few more do not.
S == INSTANCE SOCKS WITH
  Requests <- SocksRequests, UseUpstream <- TRUE, MaxHost <- 23, Reads <- {1, 2, 13, 40}, Indeterminate <- {0, 1000},
  said <- sSaid, got <- sGot, parser <- sParser, handler <- sHandler, replies <- sReplies, asked <- sAsked,
  given <- sGiven, upstream <- sUpstream

H == INSTANCE HTTPProxy WITH
  Requests <- HttpRequests, Helper <- TRUE, Known <- {Inside},
  said <- hSaid, outproxy <- hOutproxy, got <- hGot, handler <- hHandler, book <- hBook, told <- hTold,
  asked <- hAsked, sent <- hSent

C == INSTANCE ClientContext WITH
  Ports <- {7, 8}, Corrupt <- {"bad"}, HttpKeys <- "", SocksKeys <- "k3", Samples <- {"a"}, MaxReloads <- 2,
  step <- cStep, context <- cContext, config <- cConfig, sessions <- cSessions, reloads <- cReloads

K == INSTANCE KeySupplier WITH
  QueueSize <- 2, Burst <- 3, Torn <- {-2, 2}, MaxPairs <- 5,
  thread <- kThread, running <- kRunning, stopping <- kStopping, queue <- kQueue, held <- kHeld, made <- kMade

----------------------------------------------------------------------------
\* What differs in the initial states of a component is fixed where it was not chosen.
MCInit ==
  /\ instance \in {"bob", "dncp", "tunnel", "pipe", "datagram", "socks", "http", "context", "keys"}
  /\ B!Init /\ N!Init /\ T!Init /\ P!Init /\ D!Init /\ C!Init /\ K!Init
  /\ IF instance = "socks" THEN S!Init
     ELSE /\ sSaid = Said(4, 1, "ipv4", <<>>, <<0, 1, 0, 9>>, <<>>, <<>>)
          /\ sUpstream = [len |-> 0, sent |-> 0] /\ S!Init
  /\ IF instance = "http" THEN H!Init
     ELSE /\ hSaid = Http("GET", NoHost, Header(NoHost, "given", "keep", TRUE), "none", FALSE)
          /\ hOutproxy = Outproxy("none", NoHost) /\ H!Init
  /\ instance # "tunnel" => tReady
  /\ instance # "datagram" => dWorld.up /\ dWorld.known /\ dWorld.leases

\* A step of the chosen component leaves the others alone.
Bob == instance = "bob" /\ UNCHANGED <<instance, nVars, tVars, pVars, dVars, sVars, hVars, cVars, kVars>>
Dncp == instance = "dncp" /\ UNCHANGED <<instance, bVars, tVars, pVars, dVars, sVars, hVars, cVars, kVars>>
Tunnel == instance = "tunnel" /\ UNCHANGED <<instance, bVars, nVars, pVars, dVars, sVars, hVars, cVars, kVars>>
Pipe == instance = "pipe" /\ UNCHANGED <<instance, bVars, nVars, tVars, dVars, sVars, hVars, cVars, kVars>>
Dgrams == instance = "datagram" /\ UNCHANGED <<instance, bVars, nVars, tVars, pVars, sVars, hVars, cVars, kVars>>
Socks == instance = "socks" /\ UNCHANGED <<instance, bVars, nVars, tVars, pVars, dVars, hVars, cVars, kVars>>
Web == instance = "http" /\ UNCHANGED <<instance, bVars, nVars, tVars, pVars, dVars, sVars, cVars, kVars>>
Context == instance = "context" /\ UNCHANGED <<instance, bVars, nVars, tVars, pVars, dVars, sVars, hVars, kVars>>
Keys == instance = "keys" /\ UNCHANGED <<instance, bVars, nVars, tVars, pVars, dVars, sVars, hVars, cVars>>

MCNext ==
  \/ Bob /\ B!Next
  \/ Dncp /\ N!Next
  \/ Tunnel /\ T!Next
  \/ Pipe /\ P!Next
  \/ Dgrams /\ D!Next
  \/ Socks /\ S!Next
  \/ Web /\ H!Next
  \/ Context /\ C!Next
  \/ Keys /\ K!Next

vars == <<instance, bVars, nVars, tVars, pVars, dVars, sVars, hVars, cVars, kVars>>

\* The fairness of the component that was chosen.
MCFairness ==
  /\ WF_bVars(instance = "bob" /\ B!HandleSent("c1")) /\ WF_bVars(instance = "bob" /\ B!LookupComplete("c1"))
  /\ WF_nVars(instance = "dncp" /\ N!RunJob)
  /\ WF_tVars(instance = "tunnel" /\ T!HandleReadyCheckTimer)
  /\ \A c \in {"c1", "c2"} :
       /\ WF_tVars(instance = "tunnel" /\ T!Late(c)) /\ WF_tVars(instance = "tunnel" /\ T!HandleStreamReceive(c))
       /\ WF_tVars(instance = "tunnel" /\ T!HandleWrite(c))
  /\ WF_pVars(instance = "pipe" /\ P!Handler("up")) /\ WF_pVars(instance = "pipe" /\ P!Handler("down"))
  /\ WF_dVars(instance = "datagram" /\ D!HandleTimer) /\ WF_dVars(instance = "datagram" /\ D!HandleSend)
  /\ WF_sVars(instance = "socks" /\ S!Receive) /\ WF_sVars(instance = "socks" /\ S!Callback)
  /\ WF_hVars(instance = "http" /\ H!Receive) /\ WF_hVars(instance = "http" /\ H!Callback)
  /\ WF_kVars(instance = "keys" /\ K!Run) /\ WF_kVars(instance = "keys" /\ K!Join)

MCSpec == MCInit /\ [][MCNext]_vars /\ MCFairness

----------------------------------------------------------------------------
(* As only the chosen component moves, a leads-to between disjunctions says of each component what *)
(* its own property says (RequestsAreAnswered, EveryMessageIsTold, PipeEnds, ...).  Of the messages  *)
(* and of the connections of a component, which are treated alike, one is looked at.              *)



\* Datagrams that wait for a LeaseSet are sent or dropped, and whoever waits for the supplier of
\* keys to stop goes on.
QueueLeaves ==
  ( \/ instance = "datagram" /\ D!Waits
    \/ instance = "keys" /\ kStopping )
  ~>
  ( \/ instance = "datagram" /\ (~D!Waits \/ dSession.stopped)
    \/ instance = "keys" /\ K!Stopped )



\* DotNetServiceHandler of SOCKS: "does it end with .dotnet? ... yes it does, make an dotnet session"
DotNetGoesToDotNet == S!DotNetGoesToDotNet

\* ReloadConfig deletes the tunnels that are not configured any more, and no others.
ConfiguredTunnelsServe == C!ConfiguredTunnelsServe
=============================================================================
