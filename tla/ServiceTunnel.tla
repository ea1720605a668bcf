----------------------------- MODULE ServiceTunnel -----------------------------
(***************************************************************************)
(* A tunnel of a client service (libdotnet_client/DotNetService.cpp and      *)
(* DotNetTunnel.cpp).  A connection that the acceptor takes from the local   *)
(* network asks for a stream, waiting for the destination to be ready when   *)
(* the service has a connect timeout; a stream that comes in has the server  *)
(* connected.  Then DotNetTunnelConnection relays both ways.                 *)
(*                                                                         *)
(* Everything runs on the destination's thread, except Stop.                 *)
(***************************************************************************)
EXTENDS Integers

CONSTANTS
  Connections,     \* accepted from either side
  ConnectTimeout,  \* m_ConnectTimeout is set
  TimerTriggered,  \* what m_ReadyTimerTriggered may begin with
  HeaderChunks,    \* pieces in which the peer's HTTP header comes, 0: no header
  MaxChunks,       \* bound on what the peer of a stream sends
  MayStop          \* the service may be stopped

VARIABLES
  conn,     \* the handler, and the connection that takes its place
  ready,    \* the destination is
  timer,    \* m_ReadyTimerTriggered, and whether the timer is really armed
  stopped   \* history

vars == <<conn, ready, timer, stopped>>

\* phase: "waiting" for the destination, "creating" the stream, "connecting" to the server,
\* "relaying", "destroyed" when nothing refers to it.  late: its deadline has passed.  dead:
\* m_Dead.  listed: in m_Handlers.  read: what it waits for from its socket; write: from its
\* stream.  left: what has come on the stream and is not written yet; written; closed: the
\* stream's peer has closed it.  cut (history): the socket has failed, or the service was stopped.
Absent == [phase |-> "absent", late |-> FALSE, dead |-> FALSE, listed |-> FALSE, socket |-> FALSE,
           stream |-> "none", read |-> "none", write |-> "none", left |-> 0, written |-> 0,
           closed |-> FALSE, cut |-> FALSE]

Set(c, st) == conn' = [conn EXCEPT ![c] = st]
Same == UNCHANGED <<ready, timer, stopped>>

\* Terminate of the handler or the connection: the first call only.
Terminate(st) ==
  IF st.dead THEN st
  ELSE [st EXCEPT !.dead = TRUE, !.listed = FALSE, !.socket = FALSE, !.read = "none",
                  !.write = "none", !.stream = IF @ = "open" THEN "closed" ELSE @]

Ended(st) == [Terminate(st) EXCEPT !.phase = IF @ \in {"waiting", "creating"} THEN "ended" ELSE @]

----------------------------------------------------------------------------
(* A local connection asks for a stream.                                     *)

\* TCPIPAcceptor::HandleAccept, Handle and CreateStream.  An address that is not found has the
\* socket closed at once.
HandleAccept(c) ==
  /\ conn[c].phase = "absent" /\ ~stopped
  /\ LET st == [conn[c] EXCEPT !.listed = TRUE, !.socket = TRUE] IN
     \/ Set(c, [conn[c] EXCEPT !.phase = "ended", !.dead = TRUE]) /\ UNCHANGED timer
     \/ /\ ConnectTimeout /\ ~ready                       \* AddReadyCallback
        /\ Set(c, [st EXCEPT !.phase = "waiting"])
        /\ timer' = IF timer.triggered THEN timer ELSE [triggered |-> TRUE, armed |-> TRUE]
     \/ /\ ConnectTimeout => ready
        /\ Set(c, [st EXCEPT !.phase = "creating"]) /\ UNCHANGED timer
  /\ UNCHANGED <<ready, stopped>>

Waiting == {c \in Connections : conn[c].phase = "waiting"}

\* The callbacks are told, all of them when the destination is ready, those that are late
\* otherwise.  Kept: the timer is armed for the rest of them.
Told(c) == ready \/ conn[c].late
Kept_Broken(rest) == rest = Waiting   \* as long as nobody has been told
Kept(rest) == rest # {}
HandleReadyCheckTimer ==
  LET rest == {c \in Waiting : ~Told(c)} IN
  /\ timer.armed
  /\ conn' = [c \in Connections |->
               IF c \notin Waiting \/ ~Told(c) THEN conn[c]
               ELSE IF ready THEN [conn[c] EXCEPT !.phase = "creating"]
               ELSE Ended(conn[c])]
  /\ timer' = [triggered |-> Kept(rest), armed |-> Kept(rest)]
  /\ UNCHANGED <<ready, stopped>>

Late(c) ==
  /\ conn[c].phase = "waiting" /\ ~conn[c].late /\ Set(c, [conn[c] EXCEPT !.late = TRUE])
  /\ Same

DestinationReady == ~ready /\ ready' = TRUE /\ UNCHANGED <<conn, timer, stopped>>

\* HandleStreamRequestComplete: the connection takes the place of the handler, unless that was
\* killed meanwhile.
HandleStreamRequestComplete(c) ==
  /\ conn[c].phase = "creating"
  /\ \/ /\ ~conn[c].dead
        /\ Set(c, [conn[c] EXCEPT !.phase = "relaying", !.stream = "open", !.read = "socket",
                                  !.write = "stream"])
     \/ conn[c].dead /\ Set(c, [conn[c] EXCEPT !.phase = "ended"])
     \/ Set(c, Ended(conn[c]))   \* no lease set
  /\ Same

----------------------------------------------------------------------------
(* A stream comes in (DOTNETServerTunnel).                                   *)

HandleStreamAccept(c) ==
  /\ conn[c].phase = "absent"
  /\ Set(c, [conn[c] EXCEPT !.phase = "connecting", !.listed = TRUE, !.socket = TRUE, !.stream = "open"])
  /\ Same

\* The address of the peer may be written first.
HandleConnect(c) ==
  /\ conn[c].phase = "connecting"
  /\ \/ \E write \in {"stream", "socket"} :
          Set(c, [conn[c] EXCEPT !.phase = "relaying", !.read = "socket", !.write = write])
     \/ Set(c, [Terminate(conn[c]) EXCEPT !.phase = "relaying", !.cut = TRUE])
  /\ Same

----------------------------------------------------------------------------
(* Relaying.                                                                 *)

HandleReceived(c) ==
  /\ conn[c].read = "socket"
  /\ \/ Set(c, [conn[c] EXCEPT !.read = "stream"])                   \* AsyncSend
     \/ Set(c, [Terminate([conn[c] EXCEPT !.read = "none"]) EXCEPT !.cut = TRUE])   \* the application has closed it
  /\ Same

HandleSent(c) ==
  /\ conn[c].read = "stream"
  /\ \/ Set(c, [conn[c] EXCEPT !.read = "socket"])
     \/ Set(c, [Terminate([conn[c] EXCEPT !.read = "none"]) EXCEPT !.cut = TRUE])
  /\ Same

\* Write; of an HTTP connection it keeps what it gets until the header is complete, and then
\* nothing waits for the stream any more.
Write(st) ==
  LET n == st.written + 1
  IN  [st EXCEPT !.left = @ - 1, !.written = n,
                 !.write = IF HeaderChunks > 0 /\ n < HeaderChunks THEN "none" ELSE "socket"]

StreamReceive(st) ==
  IF ~st.closed THEN [st EXCEPT !.write = "stream"]
  ELSE IF st.left > 0 THEN Write(st)
  ELSE Terminate(st)

\* Data, or the end of the stream.
HandleStreamReceive(c) ==
  LET st == [conn[c] EXCEPT !.write = "none"] IN
  /\ conn[c].write = "stream"
  /\ \/ conn[c].left > 0 /\ Set(c, Write(st))
     \/ conn[c].left = 0 /\ conn[c].closed /\ Set(c, Terminate(st))
  /\ Same

HandleWrite(c) ==
  LET st == [conn[c] EXCEPT !.write = "none"] IN
  /\ conn[c].write = "socket"
  /\ Set(c, StreamReceive(st)) \/ Set(c, [Terminate(st) EXCEPT !.cut = TRUE])
  /\ Same

PeerSends(c) ==
  /\ conn[c].stream = "open" /\ ~conn[c].closed
  /\ conn[c].left + conn[c].written < MaxChunks /\ Set(c, [conn[c] EXCEPT !.left = @ + 1])
  /\ Same

PeerCloses(c) ==
  /\ conn[c].stream = "open" /\ ~conn[c].closed /\ Set(c, [conn[c] EXCEPT !.closed = TRUE])
  /\ Same

----------------------------------------------------------------------------
\* ClearHandlers.  Terminate is not virtual in DotNetServiceHandler: it only marks them dead.
\* With a connect timeout the timer is cancelled and the callbacks are told.
Stop ==
  /\ MayStop /\ ~stopped /\ stopped' = TRUE
  /\ conn' = [c \in Connections |->
               LET st == IF conn[c].listed THEN [conn[c] EXCEPT !.dead = TRUE, !.listed = FALSE, !.cut = TRUE]
                         ELSE conn[c]
               IN  IF ConnectTimeout /\ timer.armed /\ c \in Waiting THEN Ended(st) ELSE st]
  /\ timer' = IF ConnectTimeout /\ timer.armed THEN [triggered |-> FALSE, armed |-> FALSE] ELSE timer
  /\ UNCHANGED ready

\* Nothing refers to it any more: no list, no callback, no operation under way.
Destroy(c) ==
  /\ conn[c].phase \in {"ended", "relaying"} /\ ~conn[c].listed
  /\ conn[c].read = "none" /\ conn[c].write = "none"
  /\ Set(c, [conn[c] EXCEPT !.phase = "destroyed", !.socket = FALSE])
  /\ Same

----------------------------------------------------------------------------
Init ==
  /\ conn = [c \in Connections |-> Absent]
  /\ ready \in BOOLEAN
  /\ \E triggered \in TimerTriggered : timer = [triggered |-> triggered, armed |-> FALSE]
  /\ stopped = FALSE

Next ==
  \/ \E c \in Connections :
       \/ HandleAccept(c) \/ Late(c) \/ HandleStreamRequestComplete(c)
       \/ HandleStreamAccept(c) \/ HandleConnect(c)
       \/ HandleReceived(c) \/ HandleSent(c) \/ HandleStreamReceive(c) \/ HandleWrite(c)
       \/ PeerSends(c) \/ PeerCloses(c) \/ Destroy(c)
  \/ HandleReadyCheckTimer \/ DestinationReady \/ Stop

\* Deadlines pass, timers expire, and what is read from a stream or written to a socket completes.
Fairness ==
  /\ WF_vars(HandleReadyCheckTimer)
  /\ \A c \in Connections : WF_vars(Late(c)) /\ WF_vars(HandleStreamReceive(c)) /\ WF_vars(HandleWrite(c))

Spec == Init /\ [][Next]_vars /\ Fairness

----------------------------------------------------------------------------
\* A request that waits for the destination is told: it is ready, or it is too late.
Asks(c) == conn[c].phase = "waiting"
RequestsAreTold == \A c \in Connections : Asks(c) ~> ~Asks(c)

\* What the peer has sent before it closed the stream is written to the socket, unless the
\* application has gone or the service is stopped.
Closing(c) == conn[c].phase = "relaying" /\ conn[c].closed
Written(c) == conn[c].left = 0 \/ conn[c].cut
RestIsWritten == \A c \in Connections : Closing(c) ~> Written(c)

\* A connection that is dead has closed its stream.  It does not hold: ClearHandlers kills
\* connections without closing anything, and Terminate then does nothing.
DeadIsClosed ==
  \A c \in Connections : conn[c].dead /\ conn[c].phase = "destroyed" => conn[c].stream # "open"
=============================================================================
