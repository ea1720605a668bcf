------------------------------- MODULE UDPTunnel -------------------------------
(***************************************************************************)
(* UDP tunnels (libdotnet_client/DotNetTunnel.cpp): the client tunnel sends  *)
(* what local applications send to it as datagrams from their port, the      *)
(* server tunnel has a session with a UDP socket of its own for a remote     *)
(* destination, and sends what the server answers back to the port it        *)
(* remembers.  Datagrams are lost and reordered on the way.                 *)
(***************************************************************************)
EXTENDS Integers, FiniteSets, TLAPS

CONSTANTS
  Clients,      \* destinations with a client tunnel, all to one server tunnel
  Ports,        \* local ports of applications
  Alive,        \* the conversations there are: pairs of a client and a port
  MaxSent       \* bound on the datagrams of applications

VARIABLES
  convo,      \* m_Sessions of every client tunnel: ports that have sent
  resolved,   \* m_RemoteIdent is set
  server,     \* m_Sessions of the server tunnel
  net,        \* datagrams on their way
  socket,     \* what waits in the UDP sockets, on its way to the server and back
  got,        \* history: what applications have got, with the conversation it answers
  datagrams   \* how many applications have sent so far

udpVars == <<convo, resolved, server, net, socket, got, datagrams>>

Sessions == {s.of : s \in server}
SessionOf(c) == CHOOSE s \in server : s.of = c

----------------------------------------------------------------------------
(* The client tunnel.                                                        *)

\* TryResolving, on a thread of its own.
TryResolving(c) ==
  /\ c \notin resolved /\ resolved' = resolved \cup {c}
  /\ UNCHANGED <<convo, server, net, socket, got, datagrams>>

\* HandleRecvFromLocal: dropped while the remote is not known.
HandleRecvFromLocal(c, p) ==
  /\ <<c, p>> \in Alive /\ datagrams < MaxSent /\ datagrams' = datagrams + 1
  /\ IF c \in resolved
       THEN /\ convo' = [convo EXCEPT ![c] = @ \cup {p}]
            /\ net' = net \cup {[to |-> "server", from |-> c, port |-> p, of |-> <<c, p>>]}
       ELSE UNCHANGED <<convo, net>>
  /\ UNCHANGED <<resolved, server, socket, got>>

\* HandleRecvFromDOTNET of the client: to the application that the datagram's port is of.
HandleAnswer(m) ==
  /\ m \in net /\ m.to \in Clients
  /\ net' = net \ {m}
  /\ got' = IF m.to \in resolved /\ m.port \in convo[m.to] THEN got \cup {[at |-> <<m.to, m.port>>, of |-> m.of]} ELSE got
  /\ UNCHANGED <<convo, resolved, server, socket, datagrams>>

----------------------------------------------------------------------------
(* The server tunnel.                                                        *)

\* ObtainUDPSession: the session of that destination, or a new one that remembers the port.
ObtainUDPSession_Broken(c, p) ==   \* whichever session there is
  IF server # {} THEN CHOOSE s \in server : TRUE
  ELSE [of |-> c, port |-> p, active |-> TRUE]
ObtainUDPSession(c, p) ==
  IF c \in Sessions THEN SessionOf(c)
  ELSE [of |-> c, port |-> p, active |-> TRUE]

\* HandleRecvFromDOTNET of the server: out of the socket of the session.
HandleRecvFromDOTNET(m) ==
  /\ m \in net /\ m.to = "server"
  /\ LET s == ObtainUDPSession(m.from, m.port) IN
       /\ server' = (server \ {x \in server : x.of = s.of}) \cup {[s EXCEPT !.active = TRUE]}
       /\ socket' = socket \cup {[session |-> s.of, of |-> m.of, answer |-> FALSE]}
  /\ net' = net \ {m}
  /\ UNCHANGED <<convo, resolved, got, datagrams>>

\* The application behind the server tunnel answers.
ServerAnswers(d) ==
  /\ d \in socket /\ ~d.answer
  /\ socket' = (socket \ {d}) \cup {[d EXCEPT !.answer = TRUE]}
  /\ UNCHANGED <<convo, resolved, server, net, got, datagrams>>

\* HandleReceived of the UDPSession: to the port it remembers.
HandleReceived(d) ==
  /\ d \in socket /\ d.answer /\ d.session \in Sessions
  /\ LET s == SessionOf(d.session) IN
       /\ net' = net \cup {[to |-> s.of, from |-> "server", port |-> s.port, of |-> d.of]}
       /\ server' = (server \ {s}) \cup {[s EXCEPT !.active = TRUE]}
  /\ socket' = socket \ {d}
  /\ UNCHANGED <<convo, resolved, got, datagrams>>

\* Time passes, and ExpireStale, every 17 s: the session goes, and its socket with it.  Only
\* server tunnels are cleaned up: conversations of a client tunnel stay.
IdleTime(s) ==
  /\ s \in server /\ s.active /\ server' = (server \ {s}) \cup {[s EXCEPT !.active = FALSE]}
  /\ UNCHANGED <<convo, resolved, net, socket, got, datagrams>>

ExpireStale ==
  /\ \E s \in server : ~s.active
  /\ server' = {s \in server : s.active}
  /\ socket' = {d \in socket : \E s \in server : s.active /\ s.of = d.session}
  /\ UNCHANGED <<convo, resolved, net, got, datagrams>>

Lose(m) == m \in net /\ net' = net \ {m} /\ UNCHANGED <<convo, resolved, server, socket, got, datagrams>>

----------------------------------------------------------------------------
UDPInit ==
  /\ convo = [c \in Clients |-> {}]
  /\ resolved = {} /\ server = {} /\ net = {} /\ socket = {} /\ got = {} /\ datagrams = 0

UDPNext ==
  \/ \E c \in Clients : TryResolving(c) \/ \E p \in Ports : HandleRecvFromLocal(c, p)
  \/ \E m \in net : HandleAnswer(m) \/ HandleRecvFromDOTNET(m) \/ Lose(m)
  \/ \E d \in socket : ServerAnswers(d) \/ HandleReceived(d)
  \/ \E s \in server : IdleTime(s)
  \/ ExpireStale

UDPSpec == UDPInit /\ [][UDPNext]_udpVars

----------------------------------------------------------------------------
\* An application gets answers to what it has sent, and no others, through any expiry of sessions
\* on the way.  With two ports of one destination it does not hold: the session of the server
\* tunnel is of the destination and keeps the port that came first.
AnswersAreTheirs == \A x \in got : x.at = x.of

----------------------------------------------------------------------------
(* Proof that answers are their asker's, when every destination has one     *)
(* port: what travels to and fro remembers the conversation it is of.       *)

\* What is on the way to the server says the port it comes from, what is on the way back is
\* of the port it goes to, and what waits in a session's socket is of its destination.
OnItsWay ==
  \A m \in net :
    /\ m.of \in Alive
    /\ \/ m.to = "server" /\ m.of = <<m.from, m.port>>
       \/ m.to \in Clients /\ m.of = <<m.to, m.port>>

InItsSession ==
  /\ socket \subseteq [session : Clients, of : Alive, answer : BOOLEAN]
  /\ \A d \in socket : d.of[1] = d.session
  /\ server \subseteq [of : Clients, port : Ports, active : BOOLEAN]
  /\ \A s \in server : <<s.of, s.port>> \in Alive

IInv == OnItsWay /\ InItsSession /\ AnswersAreTheirs

\* The conversations there are: pairs, one for each destination, none of which is the server.
OnePortEach ==
  /\ Alive \subseteq Clients \X Ports /\ "server" \notin Clients
  /\ \A x, y \in Alive : x[1] = y[1] => x = y

\* ObtainUDPSession remembers a port that the destination has.
LEMMA ObtainedSession ==
  ASSUME IInv, OnePortEach, NEW c, NEW p, <<c, p>> \in Alive
  PROVE  /\ ObtainUDPSession(c, p) \in [of : Clients, port : Ports, active : BOOLEAN]
         /\ ObtainUDPSession(c, p).of = c
         /\ <<ObtainUDPSession(c, p).of, ObtainUDPSession(c, p).port>> \in Alive
<1>1. CASE c \in Sessions
  <2>1. SessionOf(c) \in server /\ SessionOf(c).of = c
    BY <1>1 DEF Sessions, SessionOf
  <2> QED BY <1>1, <2>1 DEF ObtainUDPSession, IInv, InItsSession
<1>2. CASE c \notin Sessions
  BY <1>2 DEF ObtainUDPSession, OnePortEach
<1> QED BY <1>1, <1>2

LEMMA NextKeepsIInv ==
  ASSUME OnePortEach, IInv, UDPNext
  PROVE  IInv'
<1> USE DEF IInv, OnItsWay, InItsSession, AnswersAreTheirs
<1>1. ASSUME NEW c \in Clients, TryResolving(c) PROVE IInv'
  BY <1>1 DEF TryResolving
<1>2. ASSUME NEW c \in Clients, NEW p \in Ports, HandleRecvFromLocal(c, p) PROVE IInv'
  BY <1>2 DEF HandleRecvFromLocal
<1>3. ASSUME NEW m \in net, HandleAnswer(m) PROVE IInv'
  <2>1. m.of = <<m.to, m.port>>
    BY <1>3 DEF HandleAnswer, OnePortEach
  <2> QED BY <1>3, <2>1 DEF HandleAnswer
<1>4. ASSUME NEW m \in net, HandleRecvFromDOTNET(m) PROVE IInv'
  <2> DEFINE s == ObtainUDPSession(m.from, m.port)
             t == [s EXCEPT !.active = TRUE]
             d == [session |-> s.of, of |-> m.of, answer |-> FALSE]
  <2>1. m.of = <<m.from, m.port>> /\ m.of \in Alive
    BY <1>4 DEF HandleRecvFromDOTNET, OnePortEach
  <2>2. /\ s \in [of : Clients, port : Ports, active : BOOLEAN]
        /\ s.of = m.from /\ <<s.of, s.port>> \in Alive
    BY <2>1, ObtainedSession
  <2>3. /\ server' = (server \ {x \in server : x.of = s.of}) \cup {t}
        /\ socket' = socket \cup {d} /\ net' = net \ {m} /\ got' = got
    BY <1>4 DEF HandleRecvFromDOTNET
  <2> HIDE DEF s
  <2>4. t \in [of : Clients, port : Ports, active : BOOLEAN] /\ t.of = s.of /\ t.port = s.port
    BY <2>2
  <2>5. d \in [session : Clients, of : Alive, answer : BOOLEAN] /\ d.of[1] = d.session
    BY <2>1, <2>2
  <2> HIDE DEF t, d
  <2>6. OnItsWay' /\ AnswersAreTheirs'
    BY <2>3
  <2>7. InItsSession'
    BY <2>2, <2>3, <2>4, <2>5
  <2> QED BY <2>6, <2>7
<1>5. ASSUME NEW m \in net, Lose(m) PROVE IInv'
  BY <1>5 DEF Lose
<1>6. ASSUME NEW d \in socket, ServerAnswers(d) PROVE IInv'
  <2> DEFINE x == [d EXCEPT !.answer = TRUE]
  <2>1. x \in [session : Clients, of : Alive, answer : BOOLEAN] /\ x.of[1] = x.session
    OBVIOUS
  <2>2. socket' = (socket \ {d}) \cup {x} /\ server' = server /\ net' = net /\ got' = got
    BY <1>6 DEF ServerAnswers
  <2> QED BY <2>1, <2>2
<1>7. ASSUME NEW d \in socket, HandleReceived(d) PROVE IInv'
  <2> DEFINE s == SessionOf(d.session)
             t == [s EXCEPT !.active = TRUE]
             m == [to |-> s.of, from |-> "server", port |-> s.port, of |-> d.of]
  <2>1. s \in server /\ s.of = d.session
    BY <1>7 DEF HandleReceived, Sessions, SessionOf
  <2>2. d.of = <<s.of, s.port>> /\ d.of \in Alive /\ s.of \in Clients
    BY <2>1 DEF OnePortEach
  <2>3. /\ net' = net \cup {m} /\ server' = (server \ {s}) \cup {t}
        /\ socket' = socket \ {d} /\ got' = got
    BY <1>7 DEF HandleReceived
  <2> HIDE DEF s
  <2>4. t \in [of : Clients, port : Ports, active : BOOLEAN] /\ t.of = s.of /\ t.port = s.port
    BY <2>1
  <2>5. m.of \in Alive /\ m.to \in Clients /\ m.of = <<m.to, m.port>>
    BY <2>2
  <2> HIDE DEF t, m
  <2>6. OnItsWay' /\ AnswersAreTheirs'
    BY <2>3, <2>5
  <2>7. InItsSession'
    BY <2>1, <2>3, <2>4
  <2> QED BY <2>6, <2>7
<1>8. ASSUME NEW s \in server, IdleTime(s) PROVE IInv'
  BY <1>8 DEF IdleTime
<1>9. CASE ExpireStale
  BY <1>9 DEF ExpireStale
<1> QED BY <1>1, <1>2, <1>3, <1>4, <1>5, <1>6, <1>7, <1>8, <1>9 DEF UDPNext

\* With one port for each destination, an application gets answers to what it has sent and to
\* nothing else, for any number of destinations and whatever is lost, delayed or expires.
THEOREM OnePortGetsItsAnswers ==
  ASSUME OnePortEach
  PROVE  UDPSpec => []AnswersAreTheirs
<1>1. UDPInit => IInv
  BY DEF UDPInit, IInv, OnItsWay, InItsSession, AnswersAreTheirs
<1>2. IInv /\ [UDPNext]_udpVars => IInv'
  <2>1. CASE UNCHANGED udpVars
    BY <2>1 DEF udpVars, IInv, OnItsWay, InItsSession, AnswersAreTheirs
  <2> QED BY <2>1, NextKeepsIInv
<1>3. IInv => AnswersAreTheirs
  BY DEF IInv
<1> QED BY <1>1, <1>2, <1>3, PTL DEF UDPSpec
=============================================================================
