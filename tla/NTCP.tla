---------------------------------- MODULE NTCP ----------------------------------
(***************************************************************************)
(* The sessions that NTCPServer has with one router, in both directions      *)
(* (libdotnet/NTCPSession.cpp): from the connection, through a proxy if       *)
(* there is one, over the four phases of the handshake to Terminate, and      *)
(* what Transports and the netdb are told about them.                        *)
(*                                                                         *)
(* Handlers run one after the other on the server's thread; the keys are      *)
(* agreed on in the crypto pool.  Terminate closes the socket: operations in  *)
(* progress are aborted, but the handler of one that is complete still runs   *)
(* as if nothing had happened, and what it then starts fails.                *)
(***************************************************************************)
EXTENDS Integers, Sequences, FiniteSets

CONSTANTS
  MaxSessions,   \* bound on the sessions
  Limits,        \* whether there is a limit, limits.ntcphard or ntcpsoft, on all the sessions
  Proxies,       \* of "none", "socks" and "http"
  SocksRequest   \* the size of the request that AfterSocksHandshake sends

VARIABLES
  session,   \* every session with the router, in the order of creation
  server,    \* what NTCPServer keeps
  told,      \* history: for each session, what Transports was told
  orphans    \* history: sessions that lost their place in m_NTCPSessions to another's end

vars == <<session, server, told, orphans>>

\* What the configuration says.
Proxy == server.proxy
Limited == server.limited

None == 0
Sessions == DOMAIN session

\* stage: the operation that it waits for.  dead: that operation was begun on a closed socket.
\* timer: the one of Connect.  quiet: no activity for its termination timeout.  Whose identity
\* an incoming session has is known in phase 3.
NewSession(isOutgoing, stage) ==
  [ outgoing |-> isOutgoing, known |-> isOutgoing, stage |-> stage, dead |-> FALSE, timer |-> "off",
    established |-> FALSE, terminated |-> FALSE, closing |-> FALSE, quiet |-> FALSE ]

State == [session |-> session, server |-> server, told |-> told, orphans |-> orphans]
Become(st) == session' = st.session /\ server' = st.server /\ told' = st.told /\ orphans' = st.orphans

----------------------------------------------------------------------------
(* What the handlers do to the server, as functions of its state.            *)

\* RemoveNTCPSession removes whatever is there for the router.
Terminate(s, st) ==
  LET x == st.session[s]
      t == [st EXCEPT !.session[s].terminated = TRUE, !.session[s].established = FALSE]
  IN  IF x.terminated THEN st
      ELSE IF ~x.known THEN t
      ELSE [t EXCEPT !.server.listed = None, !.told[s] = Append(@, "disconnected"),
                     !.orphans = @ \cup ({st.server.listed} \ {None, s})]

\* The handler of s starts the next operation, or none.  The crypto pool needs no socket.
Starts(s, stage, st) ==
  [st EXCEPT !.session[s].stage = stage,
             !.session[s].dead = st.session[s].terminated /\ stage \notin {"agree1", "agree2"}]
Ends(s, st) == Starts(s, "none", Terminate(s, st))

AddNTCPSession(s, st) ==
  IF st.server.listed # None THEN Terminate(s, st) ELSE [st EXCEPT !.server.listed = s]

Connected(s, st) ==
  Starts(s, "receive",
         [st EXCEPT !.session[s].established = TRUE, !.session[s].quiet = FALSE,
                    !.told[s] = Append(@, "connected")])

SetUnreachable(st) == [st EXCEPT !.server.unreachable = TRUE]
CancelTimer(s, st) == IF st.session[s].timer = "armed" THEN [st EXCEPT !.session[s].timer = "off"] ELSE st

----------------------------------------------------------------------------
(* The operation that s waits for comes to its end.                          *)

Done(s, stage) == session[s].stage = stage /\ server.running
Succeeds(s, stage) == Done(s, stage) /\ ~session[s].dead

\* It is aborted if the socket was closed under it; then most handlers just return.
Aborted(s, stage) == Done(s, stage) /\ session[s].terminated
Fails(s, stage) == Done(s, stage)

\* Stages whose handler only starts the next one, or terminates.
Simple ==
  [ phase1Sent |-> "phase2Received", agree2 |-> "phase3Sent", phase3Sent |-> "phase4Received",
    phase1Received |-> "agree1", agree1 |-> "phase2Sent", phase2Sent |-> "phase3Received" ]

\* HandlePhase1Sent, HandlePhase2 (the hash is wrong), HandlePhase3Sent; HandlePhase1Received
\* (not our identity), SendPhase2, HandlePhase2Sent.
HandleSimple(s) ==
  \E stage \in DOMAIN Simple :
    \/ Succeeds(s, stage) /\ Become(Starts(s, Simple[stage], State))
    \/ Fails(s, stage) /\ stage # "agree1" /\ Become(Ends(s, State))

HandlePhase2Received(s) ==
  \/ Succeeds(s, "phase2Received") /\ Become(Starts(s, "agree2", State))
  \/ Aborted(s, "phase2Received") /\ Become(Starts(s, "none", State))
  \/ Fails(s, "phase2Received") /\ Become(Ends(s, SetUnreachable(State)))

HandlePhase4Received(s) ==
  \/ Succeeds(s, "phase4Received") /\ Become(Connected(s, State))
  \/ Succeeds(s, "phase4Received") /\ Become(Ends(s, State))   \* the time or the signature is wrong
  \/ Aborted(s, "phase4Received") /\ Become(Starts(s, "none", State))
  \/ Fails(s, "phase4Received") /\ Become(Ends(s, SetUnreachable(State)))

\* A session exists already: this one is terminated before it knows its router, and goes on.
KnowsRouter(s) ==
  LET st == IF server.listed # None THEN Terminate(s, State) ELSE State
  IN  [st EXCEPT !.session[s].known = TRUE]

\* What follows is in the first read, or in another; HandlePhase3 checks time and signature.
HandlePhase3Received(s) ==
  \/ /\ Succeeds(s, "phase3Received")
     /\ \/ Become(Starts(s, "phase3Extra", KnowsRouter(s)))
        \/ Become(Starts(s, "phase4Sent", KnowsRouter(s)))
        \/ Become(Ends(s, KnowsRouter(s)))
  \/ Fails(s, "phase3Received") /\ Become(Ends(s, State))

HandlePhase3ExtraReceived(s) ==
  \/ Succeeds(s, "phase3Extra") /\ Become(Starts(s, "phase4Sent", State))
  \/ Fails(s, "phase3Extra") /\ Become(Ends(s, State))

HandlePhase4Sent(s) ==
  \/ Succeeds(s, "phase4Sent") /\ Become(Connected(s, AddNTCPSession(s, State)))
  \/ Fails(s, "phase4Sent") /\ Become(Ends(s, State))

\* Module NTCPFrames has what is received.
HandleReceived(s) ==
  \/ Succeeds(s, "receive") /\ Become(Starts(s, "receive", [State EXCEPT !.session[s].quiet = FALSE]))
  \/ Fails(s, "receive") /\ Become(Ends(s, State))

----------------------------------------------------------------------------
(* Outgoing sessions.                                                        *)

New(s) == Len(session) < MaxSessions /\ server.running /\ s = Len(session) + 1

\* Connect, or ConnectWithProxy, which does nothing if the proxy's name was not resolved.
Connect ==
  \E s \in 1..MaxSessions :
    /\ New(s) /\ session' = Append(session, NewSession(TRUE, "posted")) /\ told' = Append(told, <<>>)
    /\ Proxy = "none" \/ server.proxyEndpoint
    /\ UNCHANGED <<server, orphans>>

PostedConnect(s) ==
  /\ Done(s, "posted")
  /\ LET st == AddNTCPSession(s, State)
     IN  Become(IF server.listed # None THEN Starts(s, "none", st)
                ELSE [Starts(s, "connect", st) EXCEPT !.session[s].timer = "armed"])

ConnectTimerExpires(s) ==
  /\ session[s].timer = "armed" /\ session' = [session EXCEPT ![s].timer = "expired"]
  /\ UNCHANGED <<server, told, orphans>>

HandleConnectTimer(s) ==
  LET st == [State EXCEPT !.session[s].timer = "off"]
  IN  /\ session[s].timer = "expired" /\ server.running
      /\ Become(Terminate(s, IF Proxy = "none" THEN st ELSE SetUnreachable(st)))

\* ClientLogin follows.
HandleConnect(s) ==
  LET st == CancelTimer(s, State)
  IN  /\ Proxy = "none"
      /\ \/ Succeeds(s, "connect") /\ Become(Starts(s, "phase1Sent", st))
         \/ Aborted(s, "connect") /\ Become(Ends(s, st))
         \/ Fails(s, "connect") /\ ~session[s].terminated /\ Become(Ends(s, SetUnreachable(st)))

\* What it reads of a socks proxy, its handler looks for in a copy of a buffer from before: it
\* may find anything there.
HandleProxyConnect(s) ==
  LET st == CancelTimer(s, State)
  IN  /\ Proxy # "none"
      /\ \/ Succeeds(s, "connect") /\ Become(Starts(s, Proxy, State))
         \/ Fails(s, "connect") /\ Become(Ends(s, st))

HandleHttpProxy(s) ==
  LET st == CancelTimer(s, State)
  IN  \/ Succeeds(s, "http") /\ Become(Starts(s, "phase1Sent", st))
      \/ Fails(s, "http") /\ Become(Ends(s, st))

\* AfterSocksHandshake: a host name that is too long is left to the timer.
HandleSocks(s) ==
  \/ Succeeds(s, "socks") /\ Become(Starts(s, IF SocksRequest <= 256 THEN "socksReply" ELSE "none", State))
  \/ Fails(s, "socks") /\ Become(Ends(s, CancelTimer(s, State)))

\* It compares the size of the reply, 10, with that of the request.
HandleSocksReply(s) ==
  LET st == CancelTimer(s, State)
  IN  \/ Succeeds(s, "socksReply") /\ SocksRequest = 10 /\ Become(Starts(s, "phase1Sent", st))
      \/ Succeeds(s, "socksReply") /\ Become(Ends(s, SetUnreachable(st)))
      \/ Fails(s, "socksReply") /\ Become(Ends(s, st))

----------------------------------------------------------------------------
(* Incoming sessions.                                                        *)

\* ShouldLimit is about the sessions with all routers.  At the limit it returns at once.
HandleAccept(s) ==
  /\ server.accepting /\ New(s) /\ told' = Append(told, <<>>) /\ UNCHANGED orphans
  /\ \/ /\ Limited
        /\ session' = Append(session, [NewSession(FALSE, "none") EXCEPT !.terminated = TRUE])
        /\ server' = [server EXCEPT !.accepting = FALSE]
     \/ /\ session' = Append(session, NewSession(FALSE, "phase1Received"))
        /\ server' = [server EXCEPT !.pending = @ \cup {s}]

----------------------------------------------------------------------------
(* The end of sessions.                                                      *)

\* TransportSession::Done, and what HandleTerminationTimer posts.
PostsTerminate(s) ==
  /\ ~session[s].closing /\ session' = [session EXCEPT ![s].closing = TRUE]
  /\ UNCHANGED <<server, told, orphans>>
TransportsDone(s) == told[s] # <<>> /\ told[s][Len(told[s])] = "connected" /\ PostsTerminate(s)

PostedTerminate(s) ==
  /\ session[s].closing /\ server.running
  /\ Become([Terminate(s, State) EXCEPT !.session[s].closing = FALSE])

Quiet(s) ==
  /\ ~session[s].quiet /\ session' = [session EXCEPT ![s].quiet = TRUE]
  /\ UNCHANGED <<server, told, orphans>>

Expired_Broken(s) == session[s].established /\ session[s].quiet   \* a handshake has its own timer
Expired(s) == session[s].quiet

\* HandleTerminationTimer, of which each session sees its part.
TerminatesListed(s) == server.running /\ server.listed = s /\ Expired(s) /\ ~session[s].terminated /\ PostsTerminate(s)
TerminatesPending(s) ==
  LET st == [State EXCEPT !.server.pending = @ \ {s}]
  IN  /\ server.running /\ s \in server.pending
      /\ \/ (session[s].established \/ session[s].terminated) /\ Become(st)
         \/ ~session[s].established /\ Expired(s) /\ Become(Terminate(s, st))

\* Stop: terminates what is listed and what is pending; then no handler runs any more.
Stop ==
  LET listed == IF server.listed = None THEN State ELSE Terminate(server.listed, State)
      ending == {s \in server.pending : ~session[s].terminated /\ s # server.listed}
      ended(s) == s \in ending
  IN  /\ server.running
      /\ session' = [s \in Sessions |-> IF ended(s) THEN [session[s] EXCEPT !.terminated = TRUE, !.established = FALSE]
                                        ELSE listed.session[s]]
      /\ told' = [s \in Sessions |-> IF ended(s) /\ session[s].known THEN Append(told[s], "disconnected")
                                     ELSE listed.told[s]]
      /\ server' = [server EXCEPT !.running = FALSE, !.accepting = FALSE, !.listed = None]
      /\ UNCHANGED orphans

----------------------------------------------------------------------------
Init ==
  /\ session = <<>> /\ told = <<>> /\ orphans = {}
  /\ server \in [listed : {None}, pending : {{}}, running : {TRUE}, accepting : BOOLEAN,
                 proxyEndpoint : BOOLEAN, unreachable : {FALSE}, proxy : Proxies, limited : Limits]
  /\ server.accepting <=> Proxy = "none"
  /\ server.proxyEndpoint => Proxy # "none"

Handshakes(s) ==
  \/ HandleSimple(s) \/ HandlePhase2Received(s) \/ HandlePhase4Received(s) \/ HandlePhase3Received(s)
  \/ HandlePhase3ExtraReceived(s) \/ HandlePhase4Sent(s) \/ HandleReceived(s)
  \/ HandleConnect(s) \/ HandleProxyConnect(s) \/ HandleHttpProxy(s) \/ HandleSocks(s) \/ HandleSocksReply(s)

Terminates(s) == TerminatesListed(s) \/ TerminatesPending(s)

Next ==
  \/ Connect \/ Stop \/ (\E s \in 1..MaxSessions : HandleAccept(s))
  \/ \E s \in Sessions :
       \/ Handshakes(s) \/ PostedConnect(s) \/ ConnectTimerExpires(s) \/ HandleConnectTimer(s)
       \/ TransportsDone(s) \/ PostedTerminate(s) \/ Quiet(s) \/ Terminates(s)

\* The server's thread runs what is posted and what is due, time passes; the other router and
\* the proxy owe nothing.
Fairness ==
  \A s \in 1..MaxSessions :
    /\ WF_vars(s \in Sessions /\ PostedConnect(s)) /\ WF_vars(s \in Sessions /\ ConnectTimerExpires(s))
    /\ WF_vars(s \in Sessions /\ HandleConnectTimer(s)) /\ WF_vars(s \in Sessions /\ PostedTerminate(s))
    /\ WF_vars(s \in Sessions /\ Quiet(s)) /\ WF_vars(s \in Sessions /\ Terminates(s))

Spec == Init /\ [][Next]_vars /\ Fairness

----------------------------------------------------------------------------
(* A handshake ends, although the other router may fall silent in any phase of  *)
(* it: the session is established or terminated, unless another session that    *)
(* ends has taken its place in m_NTCPSessions away.                            *)
Ended(s) == s \in Sessions /\ (session[s].established \/ session[s].terminated)
HandshakesEnd ==
  \A s \in 1..MaxSessions : s \in Sessions ~> (Ended(s) \/ s \in orphans \/ ~server.running)

(* A session at the limit is turned away "with backoff" (NTCPSession.cpp:962): *)
(* the server goes on to accept others.                                      *)
GoesOnAccepting == server.running /\ Proxy = "none" => server.accepting
=============================================================================
