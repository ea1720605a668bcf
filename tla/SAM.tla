-------------------------------- MODULE SAM --------------------------------
(***************************************************************************)
(* The SAM bridge (libdotnet_client/SAM.cpp): clients connect sockets to it, *)
(* create sessions (local destinations), and turn other sockets of theirs    *)
(* into streams of a session, outgoing (STREAM CONNECT) or accepted.         *)
(*                                                                         *)
(* Handlers of sockets run on the thread of the bridge; what accepts streams *)
(* (AcceptOnce, HandleDOTNETAccept) runs on the thread of the session's      *)
(* destination.  Each handler is one step.                                   *)
(***************************************************************************)
EXTENDS Integers, SequencesExt

CONSTANTS
  Sockets,      \* connections of clients, numbered as they come
  Ids,          \* names of sessions
  None,         \* no stream, no session
  Orderly,      \* clients send one command per socket, and none on the socket of a session
  MaxStreams,   \* bound on the streams
  MaxSessions,  \* bound on the sessions
  MaxLeft       \* bound on the buffers (of SAM_SOCKET_BUFFER_SIZE bytes) that wait in a stream

VARIABLES
  socket,     \* the SAMSocket of every connection
  open,       \* m_OpenSockets
  session,    \* m_Sessions, with the state of their destinations
  created,    \* sessions and streams so far
  forgotten   \* history: a socket was given a stream while it had one

vars == <<socket, open, session, created, forgotten>>

\* type: m_SocketType, "absent" before the connection.  op: what the socket waits for next from
\* its client, its timer or a lookup.  stream: m_Stream, what its peer has sent that is not read
\* yet, and whether the peer has closed it.  out: what the stream's side of it waits for.
New == [type |-> "absent", id |-> None, accepting |-> FALSE, op |-> "none", stream |-> None,
        out |-> "none"]

\* acceptor: m_Acceptor of the streaming destination, the acceptor called next, then the one
\* it puts back, ...; posted: calls of AcceptOnce; pending: m_PendingIncomingStreams; stopped
\* (history): StopAcceptingStreams has been called.
NewSession == [acceptor |-> << >>, posted |-> << >>, pending |-> 0, ready |-> FALSE,
               stopped |-> FALSE]

NewStream == [left |-> 0, closed |-> FALSE]

Sessions == {i \in Ids : session[i] # None}

\* ListSockets.
SocketsOf(i) == SelectSeq(open, LAMBDA s : socket[s].id = i)

----------------------------------------------------------------------------
(* Terminate.                                                                *)

End(so) == [so EXCEPT !.type = "terminated", !.op = "none", !.out = "none", !.stream = None]

\* CloseSession: StopAcceptingStreams, then Terminate for every socket of the session, and with
\* its last reference the destination goes.
CloseSession(i) ==
  LET all == ToSet(SocketsOf(i))
  IN  /\ socket' = [s \in Sockets |-> IF s \in all THEN End(socket[s]) ELSE socket[s]]
      /\ open' = SelectSeq(open, LAMBDA s : s \notin all)
      /\ session' = [session EXCEPT ![i] = None]

CloseSocket(s) ==
  /\ socket' = [socket EXCEPT ![s] = End(@)]
  /\ open' = SelectSeq(open, LAMBDA x : x # s)

\* StopAcceptingStreams calls the acceptor without a stream and drops all of them.
StopAccepting(i) ==
  session' = [session EXCEPT ![i].acceptor = << >>, ![i].stopped = TRUE]

Terminate_Broken(s) == CloseSocket(s) /\ UNCHANGED session   \* whatever the socket is for
Terminate(s) ==
  LET so == socket[s] IN
  \/ so.type = "session" /\ so.id \in Sessions /\ CloseSession(so.id)
  \/ so.type = "acceptor" /\ so.accepting /\ so.id \in Sessions
       /\ CloseSocket(s) /\ StopAccepting(so.id)
  \/ /\ so.type = "session" => so.id \notin Sessions
     /\ so.type = "acceptor" => ~so.accepting \/ so.id \notin Sessions
     /\ CloseSocket(s) /\ UNCHANGED session

----------------------------------------------------------------------------
(* The client's side.                                                        *)

Set(s, so) == socket' = [socket EXCEPT ![s] = so]

HandleAccept(s) ==
  /\ socket[s].type = "absent" /\ \A t \in Sockets : t < s => socket[t].type # "absent"
  /\ Set(s, [New EXCEPT !.type = "unknown", !.op = "handshake"]) /\ open' = Append(open, s)
  /\ UNCHANGED <<session, created, forgotten>>

\* A version both sides know, or NOVERSION.
HandleHandshakeReceived(s) ==
  /\ socket[s].op = "handshake"
  /\ \E next \in {"handshakeReply", "replyClose"} : Set(s, [socket[s] EXCEPT !.op = next])
  /\ UNCHANGED <<open, session, created, forgotten>>

HandleHandshakeReplySent(s) ==
  /\ socket[s].op = "handshakeReply" /\ Set(s, [socket[s] EXCEPT !.op = "read"])
  /\ UNCHANGED <<open, session, created, forgotten>>

HandleMessageReplySent(s) ==
  /\ \/ socket[s].op = "reply" /\ Set(s, [socket[s] EXCEPT !.op = "read"]) /\ UNCHANGED <<open, session>>
     \/ socket[s].op = "replyClose" /\ Terminate(s)
  /\ UNCHANGED <<created, forgotten>>

\* Nothing more is read, or what is written fails: the client has closed its socket; or it sends
\* what is no message.
HandleError(s) ==
  /\ socket[s].op \in {"handshake", "handshakeReply", "reply", "replyClose", "read"}
       \/ socket[s].out = "write"
  /\ Terminate(s)
  /\ UNCHANGED <<created, forgotten>>

\* HandleMessage takes a command from a socket that is not a stream.
Command(s) ==
  /\ socket[s].op = "read" /\ socket[s].type \notin {"stream", "terminated"}
  /\ Orderly => socket[s].type = "unknown"

\* A reply is left out on a silent socket (m_IsSilent): the next command is read at once.
Reply(so) == {[so EXCEPT !.op = "reply"], [so EXCEPT !.op = "read"]}

ProcessSessionCreate(s, i) ==
  LET so == [socket[s] EXCEPT !.id = i] IN
  /\ Command(s)
  /\ \/ Set(s, [socket[s] EXCEPT !.op = "replyClose"])          \* INVALID_ID
          /\ UNCHANGED <<session, created>>
     \/ Set(s, [so EXCEPT !.op = "replyClose"])                 \* DUPLICATED_ID, INVALID_KEY
          /\ UNCHANGED <<session, created>>
     \/ /\ i \notin Sessions /\ created.sessions < MaxSessions
        /\ \E ready \in BOOLEAN :
             /\ session' = [session EXCEPT ![i] = [NewSession EXCEPT !.ready = ready]]
             /\ \E next \in IF ready THEN Reply(so) ELSE {[so EXCEPT !.op = "timer"]} :
                  Set(s, [next EXCEPT !.type = "session"])
        /\ created' = [created EXCEPT !.sessions = @ + 1]
  /\ UNCHANGED <<open, forgotten>>

\* A session that goes takes its socket, and the timer, with it.
HandleSessionReadinessCheckTimer(s) ==
  /\ socket[s].op = "timer" /\ socket[s].id \in Sessions /\ session[socket[s].id].ready
  /\ \E next \in Reply(socket[s]) : Set(s, next)
  /\ UNCHANGED <<open, session, created, forgotten>>

\* Connect.  The stream begins with what has come after the command; m_IsSilent or not, the
\* socket then reads from both sides.
Connected(so) == {[next EXCEPT !.type = "stream", !.stream = NewStream, !.out = "receive"] : next \in Reply(so)}

ProcessStreamConnect(s, i) ==
  LET so == [socket[s] EXCEPT !.id = i] IN
  /\ Command(s)
  /\ \/ Set(s, [so EXCEPT !.op = "replyClose"]) /\ UNCHANGED created   \* INVALID_ID, INVALID_KEY
     \/ i \in Sessions /\ Set(s, [so EXCEPT !.op = "lookup"]) /\ UNCHANGED created
     \/ /\ i \in Sessions /\ created.streams < MaxStreams
        /\ \E next \in Connected(so) : Set(s, next)
        /\ created' = [created EXCEPT !.streams = @ + 1]
  /\ UNCHANGED <<open, session, forgotten>>

HandleConnectLeaseSetRequestComplete(s) ==
  LET so == socket[s] IN
  /\ so.op = "lookup"
  /\ \/ Set(s, [so EXCEPT !.op = "replyClose"]) /\ UNCHANGED created   \* CANT_REACH_PEER
     \/ /\ so.id \in Sessions /\ created.streams < MaxStreams
        /\ \E next \in Connected(so) : Set(s, next)
        /\ created' = [created EXCEPT !.streams = @ + 1]
  /\ UNCHANGED <<open, session, forgotten>>

ProcessStreamAccept(s, i) ==
  LET so == [socket[s] EXCEPT !.id = i] IN
  /\ Command(s)
  /\ \/ i \notin Sessions /\ Set(s, [so EXCEPT !.op = "replyClose"]) /\ UNCHANGED session
     \/ /\ i \in Sessions
        /\ LET first == session[i].acceptor = << >> IN   \* IsAcceptingStreams
             /\ \E next \in Reply(so) :
                  Set(s, [next EXCEPT !.type = "acceptor", !.accepting = first \/ @])
             /\ session' = IF first THEN [session EXCEPT ![i].posted = Append(@, s)] ELSE session
  /\ UNCHANGED <<open, created, forgotten>>

\* NAMING LOOKUP, DEST GENERATE and DATAGRAM SEND leave the socket as it is.
HandleOtherMessage(s) ==
  /\ Command(s) /\ \E next \in Reply(socket[s]) : Set(s, next)
  /\ UNCHANGED <<open, session, created, forgotten>>

\* HandleReceived: AsyncSend, and HandleStreamSend reads on or terminates.
HandleReceived(s) ==
  /\ socket[s].op = "read" /\ socket[s].type = "stream" /\ socket[s].stream # None
  /\ Set(s, [socket[s] EXCEPT !.op = "send"])
  /\ UNCHANGED <<open, session, created, forgotten>>

HandleStreamSend(s) ==
  /\ socket[s].op = "send"
  /\ \/ Set(s, [socket[s] EXCEPT !.op = "read"]) /\ UNCHANGED <<open, session>>
     \/ Terminate(s)
  /\ UNCHANGED <<created, forgotten>>

----------------------------------------------------------------------------
(* Incoming streams, on the destination's thread.                            *)

\* The acceptors that are pending: the first of them asks for the next stream.
Pending(i, s) == SelectSeq(SocketsOf(i), LAMBDA x : x # s /\ socket[x].type = "acceptor")

\* HandleDOTNETAccept, the destination of session i being ses.  The address of the peer is
\* written first, unless the socket is silent.
AcceptedOnly(s, i, ses) ==
  /\ \E out \in {"write", "receive"} :
       socket' = [socket EXCEPT ![s].type = "stream", ![s].accepting = FALSE,
                                ![s].stream = NewStream, ![s].out = out]
  /\ session' = [session EXCEPT ![i] = ses]
  /\ forgotten' = (forgotten \/ socket[s].stream # None)
HandleDOTNETAccept_Broken(s, i, ses) == AcceptedOnly(s, i, ses)   \* nobody takes its place
HandleDOTNETAccept(s, i, ses) ==
  IF Pending(i, s) = << >> THEN AcceptedOnly(s, i, ses)
  ELSE LET x == Head(Pending(i, s))
       IN  \E out \in {"write", "receive"} :
             /\ socket' = [socket EXCEPT ![s].type = "stream", ![s].accepting = FALSE,
                                         ![s].stream = NewStream, ![s].out = out,
                                         ![x].accepting = TRUE]
             /\ session' = [session EXCEPT ![i] = [ses EXCEPT !.posted = Append(@, x)]]
             /\ forgotten' = (forgotten \/ socket[s].stream # None)

\* AcceptOnce: the oldest stream that waits, or the acceptor is put before those there are.
AcceptOnce(i) ==
  /\ i \in Sessions /\ session[i].posted # << >>
  /\ LET s == Head(session[i].posted)
         ses == [session[i] EXCEPT !.posted = Tail(@)]
     IN  \/ ses.pending > 0 /\ HandleDOTNETAccept(s, i, [ses EXCEPT !.pending = @ - 1])
         \/ /\ ses.pending = 0
            /\ session' = [session EXCEPT ![i] = [ses EXCEPT !.acceptor = <<s>> \o @]]
            /\ UNCHANGED <<socket, forgotten>>
  /\ UNCHANGED <<open, created>>

\* A stream comes in: AcceptOnceAcceptor puts the acceptor before back and calls its own, or the
\* stream waits.
HandleIncomingStream(i) ==
  /\ i \in Sessions /\ created.streams < MaxStreams
  /\ created' = [created EXCEPT !.streams = @ + 1]
  /\ LET ses == session[i] IN
     \/ ses.acceptor # << >>
          /\ HandleDOTNETAccept(Head(ses.acceptor), i, [ses EXCEPT !.acceptor = Tail(@)])
     \/ /\ ses.acceptor = << >>
        /\ session' = [session EXCEPT ![i].pending = @ + 1]
        /\ UNCHANGED <<socket, forgotten>>
  /\ UNCHANGED open

HandlePendingIncomingTimer(i) ==
  /\ i \in Sessions /\ session[i].pending > 0
  /\ session' = [session EXCEPT ![i].pending = 0]
  /\ UNCHANGED <<socket, open, created, forgotten>>

\* Its tunnels and its lease set are there.
Ready(i) ==
  /\ i \in Sessions /\ ~session[i].ready /\ session' = [session EXCEPT ![i].ready = TRUE]
  /\ UNCHANGED <<socket, open, created, forgotten>>

----------------------------------------------------------------------------
(* The stream's side.                                                        *)

PeerSends(s) ==
  /\ socket[s].stream # None /\ ~socket[s].stream.closed /\ socket[s].stream.left < MaxLeft
  /\ \E closed \in BOOLEAN :
       Set(s, [socket[s] EXCEPT !.stream.left = @ + 1, !.stream.closed = closed])
  /\ UNCHANGED <<open, session, created, forgotten>>

\* A buffer of data, or the stream has been reset or idle for too long.
HandleDOTNETReceive(s) ==
  /\ socket[s].out = "receive"
  /\ \/ socket[s].stream.left > 0
          /\ Set(s, [socket[s] EXCEPT !.stream.left = @ - 1, !.out = "write"])
          /\ UNCHANGED <<open, session>>
     \/ socket[s].stream.left = 0 /\ Terminate(s)
  /\ UNCHANGED <<created, forgotten>>

\* HandleWriteDOTNETata, and DOTNETReceive: from a stream that its peer has closed one buffer
\* is taken and written (WriteDOTNETataImmediate); when nothing is left the socket terminates.
HandleWriteDOTNETata(s) ==
  LET so == socket[s] IN
  /\ so.out = "write"
  /\ \/ so.stream # None /\ ~so.stream.closed /\ Set(s, [so EXCEPT !.out = "receive"])
          /\ UNCHANGED <<open, session>>
     \/ so.stream # None /\ so.stream.closed /\ so.stream.left > 0
          /\ Set(s, [so EXCEPT !.stream.left = @ - 1, !.out = "immediate"])
          /\ UNCHANGED <<open, session>>
     \/ so.stream # None /\ so.stream.closed /\ so.stream.left = 0 /\ Terminate(s)
  /\ UNCHANGED <<created, forgotten>>

\* It frees the buffer.
HandleWriteDOTNETataImmediate(s) ==
  /\ socket[s].out = "immediate" /\ Set(s, [socket[s] EXCEPT !.out = "none"])
  /\ UNCHANGED <<open, session, created, forgotten>>

----------------------------------------------------------------------------
Init ==
  /\ socket = [s \in Sockets |-> New]
  /\ open = << >>
  /\ session = [i \in Ids |-> None]
  /\ created = [sessions |-> 0, streams |-> 0]
  /\ forgotten = FALSE

Next ==
  \/ \E s \in Sockets :
       \/ HandleAccept(s) \/ HandleHandshakeReceived(s) \/ HandleHandshakeReplySent(s)
       \/ HandleMessageReplySent(s) \/ HandleError(s) \/ HandleOtherMessage(s)
       \/ HandleSessionReadinessCheckTimer(s) \/ HandleConnectLeaseSetRequestComplete(s)
       \/ HandleReceived(s) \/ HandleStreamSend(s)
       \/ PeerSends(s) \/ HandleDOTNETReceive(s) \/ HandleWriteDOTNETata(s)
       \/ HandleWriteDOTNETataImmediate(s)
       \/ \E i \in Ids :
            ProcessSessionCreate(s, i) \/ ProcessStreamConnect(s, i) \/ ProcessStreamAccept(s, i)
  \/ \E i \in Ids :
       AcceptOnce(i) \/ HandleIncomingStream(i) \/ HandlePendingIncomingTimer(i) \/ Ready(i)

Spec == Init /\ [][Next]_vars

\* What is read and written completes, and what was posted runs.
Fairness ==
  /\ \A s \in Sockets : WF_vars(HandleDOTNETReceive(s)) /\ WF_vars(HandleWriteDOTNETata(s))
  /\ \A s \in Sockets : WF_vars(HandleWriteDOTNETataImmediate(s))

FairSpec == Spec /\ Fairness

----------------------------------------------------------------------------
\* While a session has a socket that waits for a stream, its destination has an acceptor or is
\* about to get one, unless a socket that was accepting has ended and stopped all of them.
AcceptorsAreServed ==
  \A i \in Sessions :
    Pending(i, None) # << >> =>
      session[i].acceptor # << >> \/ session[i].posted # << >> \/ session[i].stopped

\* A session is there as long as its socket, and sockets that are streams or acceptors of a
\* session as long as it is.
SessionHasSocket ==
  /\ \A i \in Sessions : \E k \in 1 .. Len(open) : socket[open[k]].id = i /\ socket[open[k]].type = "session"
  /\ \A k \in 1 .. Len(open) :
       socket[open[k]].type \in {"session", "stream", "acceptor"} => socket[open[k]].id \in Sessions

\* A socket carries one stream.  It does not hold: of two sockets that accept at the same time
\* each is given an acceptor, and the one that takes a stream has the other ask again.
OneStreamEach == ~forgotten

\* When its peer has closed the stream the socket is terminated once all is written ("postpone
\* termination").  It does not hold: after the write nothing terminates it.
TerminationComes ==
  \A s \in Sockets :
    socket[s].out = "immediate" ~> socket[s].type = "terminated"
=============================================================================
