------------------------------- MODULE Datagram -------------------------------
(***************************************************************************)
(* Datagrams to one remote destination (libdotnet/Datagram.cpp): a session   *)
(* queues them and sends the queue every 10 ms, or when it is full, over an  *)
(* outbound tunnel to a lease of the remote's lease set.                    *)
(*                                                                         *)
(* SendDatagramTo is called on any thread (Obtain, then Post); the rest runs *)
(* on the destination's thread.                                             *)
(***************************************************************************)
EXTENDS Integers

CONSTANTS
  MaxQueue,    \* DATAGRAM_SEND_QUEUE_MAX_SIZE
  MaxSent,     \* bound on the datagrams
  MaxIdle      \* bound on the sessions that CleanUp takes away

VARIABLES
  session,    \* the DatagramSession
  callers,    \* datagrams whose caller has obtained the session, and those that are posted
  sent,       \* history: datagrams sent, dropped, and all there were
  world       \* what it depends on: tunnels, leases, lease sets

vars == <<session, callers, sent, world>>

\* routing: m_RoutingSession is set.  remote: m_RemoteLeaseSet.  tunnel, lease: m_CurrentOutboundTunnel
\* and m_CurrentRemoteLease.  path: the routing session has a shared path.  timer: "off" or "armed".
\* stopped: CleanUp has taken it out of m_Sessions.
NewSession == [queue |-> 0, routing |-> FALSE, remote |-> FALSE, requesting |-> FALSE, tunnel |-> FALSE,
               lease |-> "none", path |-> FALSE, timer |-> "armed", stopped |-> FALSE, recent |-> TRUE]

\* up: an outbound tunnel is established; known: FindLeaseSet finds a lease set; leases: it has
\* leases that have not expired.
World == [up : BOOLEAN, known : BOOLEAN, leases : BOOLEAN]

----------------------------------------------------------------------------
(* GetSharedRoutingPath: the session after it, and whether there is a path.  *)

\* Without a routing session the lease set is looked for, and requested once.
Routed(s) ==
  LET found == s.remote \/ world.known
  IN  IF s.routing THEN s
      ELSE IF found THEN [s EXCEPT !.remote = TRUE, !.routing = TRUE]
      ELSE [s EXCEPT !.requesting = TRUE]

\* A lease that is about to end is replaced, when there is another.
NextLease(s) ==
  IF s.remote /\ world.leases THEN {"good"} ELSE {s.lease}

\* A path that is still good (GarlicRoutingSession): another tunnel if ours is down, another lease
\* if ours is ending.
KeptPath(s) ==
  {[s EXCEPT !.tunnel = world.up, !.lease = l] :
     l \in IF s.lease = "ending" THEN NextLease(s) ELSE {s.lease}}

\* A new one.  It is kept when it has both a tunnel and a lease (SetSharedRoutingPath).
NewPath(s) ==
  {[s EXCEPT !.tunnel = world.up, !.lease = l, !.path = world.up /\ l # "none"] :
     l \in IF s.lease = "good" THEN {"good"} ELSE NextLease(s)}

\* Whether the path of the routing session is still good: its tunnel is up, its lease has not
\* ended, it is not used up.
Good(s) == s.path /\ s.tunnel /\ world.up /\ s.lease # "over"

SharedRoutingPath(s) ==
  LET r == Routed(s)
  IN  IF ~r.routing THEN {r}
      ELSE NewPath([r EXCEPT !.path = FALSE]) \cup (IF Good(r) THEN KeptPath(r) ELSE {})

\* FlushSendQueue: everything is sent, or dropped; and the timer is armed again.
Flush_Broken(s) ==   \* it comes back when there is a path
  IF s.routing /\ s.tunnel /\ s.lease # "none"
    THEN [s EXCEPT !.queue = 0, !.timer = "armed"] ELSE [s EXCEPT !.timer = "off"]
Flush(s) == [s EXCEPT !.queue = 0, !.timer = "armed"]

FlushSendQueue(s, more) ==
  \E r \in SharedRoutingPath(s) :
    /\ session' = Flush(r)
    /\ sent' = IF r.routing /\ r.tunnel /\ r.lease # "none"
                 THEN [sent EXCEPT !.sent = @ + s.queue] ELSE [sent EXCEPT !.dropped = @ + s.queue]
    /\ more

----------------------------------------------------------------------------
\* SendDatagramTo: ObtainSession, a new session if the last one has been cleaned up.
Obtain ==
  /\ callers.obtained = 0 /\ sent.all < MaxSent
  /\ sent' = [sent EXCEPT !.all = @ + 1]
  /\ callers' = [callers EXCEPT !.obtained = 1]
  /\ session' = IF session.stopped /\ session.queue = 0 /\ callers.posted = 0 THEN NewSession ELSE session
  /\ UNCHANGED world

\* SendMsg.
Post ==
  /\ callers.obtained = 1
  /\ callers' = [callers EXCEPT !.obtained = 0, !.posted = @ + 1]
  /\ session' = [session EXCEPT !.recent = TRUE]
  /\ UNCHANGED <<sent, world>>

\* HandleSend: the queue is sent at once when it is full.
HandleSend ==
  LET s == [session EXCEPT !.queue = @ + 1] IN
  /\ callers.posted > 0
  /\ callers' = [callers EXCEPT !.posted = @ - 1]
  /\ \/ s.queue < MaxQueue /\ session' = s /\ UNCHANGED <<sent, world>>
     \/ s.queue >= MaxQueue /\ FlushSendQueue(s, UNCHANGED world)

HandleTimer ==
  /\ session.timer = "armed"
  /\ FlushSendQueue([session EXCEPT !.timer = "off"], UNCHANGED <<callers, world>>)

\* HandleLeaseSetUpdated: found or not, it may be requested again.
HandleLeaseSetUpdated ==
  /\ session.requesting
  /\ session' = [session EXCEPT !.requesting = FALSE, !.remote = @ \/ world.known]
  /\ UNCHANGED <<callers, sent, world>>

\* Ack, for a datagram that comes from the remote.
Ack ==
  /\ ~session.recent /\ ~session.stopped
  /\ \E r \in SharedRoutingPath([session EXCEPT !.recent = TRUE]) : session' = r
  /\ UNCHANGED <<callers, sent, world>>

IdleTime ==
  /\ session.recent /\ session' = [session EXCEPT !.recent = FALSE]
  /\ UNCHANGED <<callers, sent, world>>

\* CleanUp: a session that has not been used for DATAGRAM_SESSION_MAX_IDLE.
CleanUp ==
  /\ ~session.recent /\ ~session.stopped /\ sent.idle < MaxIdle
  /\ session' = [session EXCEPT !.stopped = TRUE, !.timer = "off"]
  /\ sent' = [sent EXCEPT !.idle = @ + 1]
  /\ UNCHANGED <<callers, world>>

LeaseEnds ==
  /\ session.lease \in {"good", "ending"}
  /\ session' = [session EXCEPT !.lease = IF @ = "good" THEN "ending" ELSE "over"]
  /\ UNCHANGED <<callers, sent, world>>

WorldChanges == world' \in World /\ UNCHANGED <<session, callers, sent>>

----------------------------------------------------------------------------
Init ==
  /\ session = NewSession
  /\ callers = [obtained |-> 0, posted |-> 0]
  /\ sent = [sent |-> 0, dropped |-> 0, all |-> 0, idle |-> 0]
  /\ world \in World

Next ==
  \/ Obtain \/ Post \/ HandleSend \/ HandleTimer \/ HandleLeaseSetUpdated \/ Ack
  \/ IdleTime \/ CleanUp \/ LeaseEnds \/ WorldChanges

\* Timers expire and what is posted runs.
Fairness == WF_vars(HandleTimer) /\ WF_vars(HandleSend)

Spec == Init /\ [][Next]_vars /\ Fairness

----------------------------------------------------------------------------
\* What is queued is sent or dropped, unless the session has been cleaned up between ObtainSession
\* and SendMsg.
Waits == session.queue > 0
QueueLeaves == Waits ~> ~Waits \/ session.stopped

\* A session that has been cleaned up has nothing left to send.  It does not hold: a caller that
\* obtained it just before still queues its datagram, and no timer is armed any more.
StoppedIsEmpty == session.stopped => session.queue = 0
=============================================================================
