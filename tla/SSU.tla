---------------------------------- MODULE SSU ----------------------------------
(***************************************************************************)
(* SSU sessions of two routers with one another (libdotnet/SSUSession.cpp and *)
(* SSU.cpp): either may connect, the packets of the handshake may be lost or  *)
(* overtaken, sessions are found by the endpoint a packet comes from and are  *)
(* ended by their connect timer, by the check for idle ones, by the other    *)
(* side or by a packet that cannot be read.                                  *)
(*                                                                         *)
(* A DH key pair is a number; what two pairs agree on is the set of both. A   *)
(* packet under an intro key is read by both sides, one under a session key  *)
(* by who has that key.  Introductions and peer tests are in modules of their *)
(* own, what a session carries is in SSUData.                                *)
(***************************************************************************)
EXTENDS Integers, Sequences, FiniteSets

CONSTANTS
  MaxSessions,  \* bound: sessions of a router, ended ones included
  MaxKeys,      \* bound: DH key pairs
  MaxBatch      \* bound: packets that are received at once, 25

VARIABLES
  sessions,  \* the SSUSession objects of each router
  listed,    \* m_Sessions: the session with the other router's endpoint, or 0
  batch,     \* HandleReceivedPackets: the session at hand, 0 between batches, and the packets left
  posted,    \* sessions whose Failed() has been posted
  keys,      \* how many DH key pairs have been taken
  net        \* packets on their way, in no order; one that never comes in is lost

vars == <<sessions, listed, batch, posted, keys, net>>

Routers == {1, 2}
Other(r) == 3 - r
Intro == {}   \* the key of a packet under an intro key
None == 0

New(out) ==
  [state |-> "Unknown", out |-> out, dh |-> None, key |-> {}, signed |-> <<>>, armed |-> FALSE, fired |-> FALSE]
Packet(r, type, key, x, y) == [to |-> Other(r), type |-> type, key |-> key, x |-> x, y |-> y]

Free(r) == listed[r] = None /\ Len(sessions[r]) < MaxSessions
\* The bound on key pairs must not stop a batch that has begun: each request in it has a pair reserved.
Requests(ps) == Cardinality({p \in ps : p.type = "Request"})
Left == MaxKeys - keys - Requests(batch[1].packets) - Requests(batch[2].packets)

NoBatch == [at |-> None, packets |-> {}]
Idle(r) == batch[r] = NoBatch   \* the service's thread is at no batch of packets

----------------------------------------------------------------------------
(* What happens to one session: an operator gives the session afterwards.      *)

ConnectTimerScheduled(s) == [s EXCEPT !.armed = TRUE]
Cancelled(s) == [s EXCEPT !.armed = FALSE]

WasReset(s) ==
  [Cancelled(s) EXCEPT !.state = "Unknown", !.dh = None, !.key = {}, !.signed = <<>>]
Closed(s) == [WasReset(s) EXCEPT !.state = "Closed"]

EstablishedNow(s) == [s EXCEPT !.state = "Established", !.dh = None, !.signed = <<>>]

\* CreateAESandMacKey, and the three messages of the handshake.
SessionKey(x, y) == {x, y}
SendSessionRequest(r, x)      == Packet(r, "Request", Intro, x, None)
SendSessionCreated(r, x, y)   == Packet(r, "Created", Intro, x, y)
SendSessionConfirmed(r, x, y) == Packet(r, "Confirmed", SessionKey(x, y), x, y)

\* SendSessionDestroyed.
Farewell(r, s) == IF s.key # {} THEN {Packet(r, "Destroyed", s.key, None, None)} ELSE {}

\* Session i of router r becomes s, and the packets of sent leave.
Becomes(r, i, s, sent) ==
  /\ sessions' = [sessions EXCEPT ![r][i] = s]
  /\ net' = net \cup sent
  /\ UNCHANGED listed

\* DeleteSession, also at the end of Failed: whatever session has the endpoint is not found any
\* more.  Close leaves the state Closed, so that Failed does all this again when it is called again.
Deletes(r, i, s) ==
  /\ sessions' = [sessions EXCEPT ![r][i] = Closed(s)]
  /\ listed' = [listed EXCEPT ![r] = None]
  /\ net' = net \cup Farewell(r, s)

----------------------------------------------------------------------------
(* Sessions that are made here.                                           *)

\* CreateDirectSession and Connect.
CreateDirectSession(r) ==
  /\ Idle(r) /\ Free(r) /\ Left > 0 /\ keys' = keys + 1
  /\ sessions' = [sessions EXCEPT ![r] =
                    Append(@, [ConnectTimerScheduled(New(TRUE)) EXCEPT !.dh = keys'])]
  /\ listed' = [listed EXCEPT ![r] = Len(sessions'[r])]
  /\ net' = net \cup {SendSessionRequest(r, keys')}
  /\ UNCHANGED <<batch, posted>>

----------------------------------------------------------------------------
(* Packets.  A batch begins with the session that the endpoint has or with a   *)
(* new one, and goes on with the same one, deleted or not.                     *)

\* HandleReceivedFrom and HandleReceivedFromV6: what waits in the socket, up to a limit, together.
Batches(r) == {ps \in SUBSET {p \in net : p.to = r} : Cardinality(ps) \in 1..MaxBatch /\ Requests(ps) <= Left}

HandleReceivedPackets(r) ==
  /\ Idle(r)
  /\ \/ listed[r] # None /\ UNCHANGED <<sessions, listed>>
     \/ /\ Free(r)
        /\ sessions' = [sessions EXCEPT ![r] = Append(@, ConnectTimerScheduled(New(FALSE)))]
        /\ listed' = [listed EXCEPT ![r] = Len(sessions'[r])]
  /\ \E ps \in Batches(r) :
       /\ batch' = [batch EXCEPT ![r] = [at |-> listed'[r], packets |-> ps]]
       /\ net' = net \ ps
  /\ UNCHANGED <<posted, keys>>

At(r) == sessions[r][batch[r].at]
Takes(r, p) ==
  /\ p \in batch[r].packets /\ UNCHANGED posted
  /\ batch' = [batch EXCEPT ![r] = IF @.packets = {p} THEN NoBatch ELSE [@ EXCEPT !.packets = @ \ {p}]]

Tried(s, p) == IF s.state = "Established" /\ p.key # s.key THEN WasReset(s) ELSE s
Readable(s, p) == p.key \in {Intro, s.key}

Unreadable(r, p) ==
  /\ Takes(r, p) /\ ~Readable(At(r), p)
  /\ Deletes(r, batch[r].at, Tried(At(r), p)) /\ UNCHANGED keys

\* ProcessSessionRequest and SendSessionCreated.
ProcessSessionRequest(r, p) ==
  LET s == Tried(At(r), p)
      y == IF s.dh = None THEN keys + 1 ELSE s.dh
  IN  /\ Takes(r, p) /\ p.type = "Request"
      /\ keys' = IF s.dh = None THEN y ELSE keys
      /\ Becomes(r, batch[r].at, [s EXCEPT !.dh = y, !.key = SessionKey(p.x, y), !.signed = <<p.x, y>>],
                 {SendSessionCreated(r, p.x, y)})

\* ProcessSessionCreated: the signature is of the keys of both.
ProcessSessionCreated(r, p) ==
  LET s == Tried(At(r), p)
      t == [Cancelled(s) EXCEPT !.key = SessionKey(s.dh, p.y)]
  IN  /\ Takes(r, p) /\ p.type = "Created" /\ UNCHANGED keys
      /\ IF ~s.out \/ s.dh = None THEN Becomes(r, batch[r].at, s, {})
         ELSE IF p.x = s.dh THEN Becomes(r, batch[r].at, t, {SendSessionConfirmed(r, p.x, p.y)})
         ELSE Deletes(r, batch[r].at, t)

\* ProcessSessionConfirmed: the DeliveryStatus is what the other side is established by.
ProcessSessionConfirmed(r, p) ==
  LET s == At(r)
  IN  /\ Takes(r, p) /\ p.type = "Confirmed" /\ Readable(s, p) /\ UNCHANGED keys
      /\ IF s.signed = <<p.x, p.y>>
           THEN Becomes(r, batch[r].at, EstablishedNow(s), {Packet(r, "DeliveryStatus", s.key, None, None)})
           ELSE Deletes(r, batch[r].at, s)

\* ProcessData, for the first message that is complete.
ProcessDeliveryStatus(r, p) ==
  LET s == At(r)
  IN  /\ Takes(r, p) /\ p.type = "DeliveryStatus" /\ Readable(s, p) /\ UNCHANGED keys
      /\ Becomes(r, batch[r].at, IF s.state = "Established" THEN s ELSE EstablishedNow(s), {})

ProcessSessionDestroyed(r, p) ==
  /\ Takes(r, p) /\ p.type = "Destroyed" /\ Readable(At(r), p) /\ UNCHANGED keys
  /\ Deletes(r, batch[r].at, At(r))

ProcessNextMessage(r, p) ==
  \/ Unreadable(r, p) \/ ProcessSessionRequest(r, p) \/ ProcessSessionCreated(r, p)
  \/ ProcessSessionConfirmed(r, p) \/ ProcessDeliveryStatus(r, p) \/ ProcessSessionDestroyed(r, p)

----------------------------------------------------------------------------
(* Timers.                                                                  *)

ConnectTimerExpires(r, i) ==
  /\ sessions[r][i].armed
  /\ sessions' = [sessions EXCEPT ![r][i].armed = FALSE, ![r][i].fired = TRUE]
  /\ UNCHANGED <<listed, batch, posted, keys, net>>

HandleConnectTimer(r, i) ==
  /\ Idle(r) /\ sessions[r][i].fired
  /\ Deletes(r, i, [sessions[r][i] EXCEPT !.fired = FALSE])
  /\ UNCHANGED <<batch, posted, keys>>

\* HandleTerminationTimer posts Failed for a session without activity; while it is established
\* packets are activity, so that it may or may not be the case.
HasNoActivity_Broken(r) == sessions[r][listed[r]].state = "Established"
HasNoActivity(r) == TRUE

HandleTerminationTimer(r) ==
  /\ Idle(r) /\ listed[r] # None /\ HasNoActivity(r)
  /\ posted' = posted \cup {<<r, listed[r]>>}
  /\ UNCHANGED <<sessions, listed, batch, keys, net>>

\* What HandleTerminationTimer or Done, called by the transports, have posted.
Failed(r, i) ==
  /\ Idle(r) /\ <<r, i>> \in posted /\ posted' = posted \ {<<r, i>>}
  /\ Deletes(r, i, sessions[r][i])
  /\ UNCHANGED <<batch, keys>>

----------------------------------------------------------------------------
Init ==
  /\ sessions = [r \in Routers |-> <<>>] /\ listed = [r \in Routers |-> None]
  /\ batch = [r \in Routers |-> NoBatch] /\ posted = {} /\ keys = 0 /\ net = {}

Next ==
  \E r \in Routers :
    \/ CreateDirectSession(r) \/ HandleReceivedPackets(r) \/ HandleTerminationTimer(r)
    \/ \E p \in batch[r].packets : ProcessNextMessage(r, p)
    \/ \E i \in DOMAIN sessions[r] :
         ConnectTimerExpires(r, i) \/ HandleConnectTimer(r, i) \/ Failed(r, i)

\* The service's thread runs what is due; a session that is not established has no activity.
Fairness ==
  \A r \in Routers :
    /\ WF_vars(\E p \in batch[r].packets : ProcessNextMessage(r, p))
    /\ WF_vars(listed[r] # None /\ sessions[r][listed[r]].state # "Established" /\ HandleTerminationTimer(r))
    /\ \A i \in 1..MaxSessions :
         /\ WF_vars(i \in DOMAIN sessions[r] /\ ConnectTimerExpires(r, i))
         /\ WF_vars(i \in DOMAIN sessions[r] /\ HandleConnectTimer(r, i))
         /\ WF_vars(i \in DOMAIN sessions[r] /\ Failed(r, i))

Spec == Init /\ [][Next]_vars /\ Fairness

----------------------------------------------------------------------------

(* A session that is found by its endpoint becomes established or makes room    *)
(* for another in the end: also one that has no connect timer any more, because *)
(* it was answered or reset, although the rest of the handshake is lost.        *)
SessionsSettle ==
  \A r \in Routers, i \in 1..MaxSessions :
    listed[r] = i ~> listed[r] # i \/ sessions[r][i].state = "Established"

(* The connect timer is for sessions that are "not established after" its time  *)
(* (SSUSession.cpp:840): one that is does not end by it.                       *)
EstablishedIsKept ==
  [][\A r \in Routers : \A i \in DOMAIN sessions[r] :
       HandleConnectTimer(r, i) => sessions[r][i].state # "Established"]_vars
=============================================================================
