------------------------------- MODULE DNCP -------------------------------
(***************************************************************************)
(* A session of the client protocol (DNCP.cpp).  Its handlers run on the      *)
(* thread of DNCPServer, those of its destination on another, which Stop of    *)
(* the destination waits for.  Messages arrive at each end in order.           *)
(*                                                                         *)
(* The client answers each request for a LeaseSet, in order, unless it sends   *)
(* something else first; LeaseSets are numbered as they are asked for.  A     *)
(* message is known by its nonce; there is one status for it when it is        *)
(* accepted, if the client wants that, and one when it has been sent or not.   *)
(***************************************************************************)
EXTENDS Integers, Sequences

CONSTANTS
  Nonces,        \* of messages the client sends, without 0
  Lookups,       \* request IDs of HostLookup and DestLookup
  MaxLeaseSets,  \* bound on the LeaseSets of a session
  MaxCreates     \* bound on the sessions that are created

VARIABLES
  session,   \* m_Socket, m_Destination, m_SessionID, m_IsSendAccepted
  listed,    \* the IDs under which m_Sessions holds the session
  dest,      \* the destination: what it asked for, and its LeaseSet
  asked,     \* requests for a LeaseSet that the client has not answered
  jobs,      \* what the destination's thread, or the requests of LeaseSets, have still to do
  status,    \* nonce -> the statuses that were sent
  replies,   \* request ID -> the number of replies
  payload    \* the last data message: whether it found a socket

vars == <<session, listed, dest, asked, jobs, status, replies, payload>>

NoDest  == [running |-> FALSE, requested |-> 0, leaseSet |-> 0, expires |-> 0, path |-> FALSE]
NewDest == [NoDest EXCEPT !.running = TRUE]
NoID == 0    \* 0xFFFF

\* What became of a message.
Finals == {"GuaranteedSuccess", "GuaranteedFailure", "NoLeaseSet"}

Says(n, what) == [status EXCEPT ![n] = Append(@, what)]
Idle == session.open /\ session.started

----------------------------------------------------------------------------
(* The connection.                                                          *)

\* ReadProtocolByte.
ReadProtocolByte ==
  /\ session.open /\ ~session.started
  /\ session' = [session EXCEPT !.started = TRUE]
  /\ UNCHANGED <<listed, dest, asked, jobs, status, replies, payload>>

\* LeaseSetDestination::Stop waits for the thread: what it had to do is not done.
StopDest == dest' = [dest EXCEPT !.running = FALSE] /\ asked' = <<>>
Kept(S) == {j \in S : j.by = "shared"}

Terminate_Broken ==   \* the socket first, while the destination still runs
  /\ session.open
  /\ session' = [session EXCEPT !.open = FALSE]
  /\ listed' = listed \ {session.id}
  /\ UNCHANGED <<dest, asked, jobs, status, replies, payload>>
\* An error of the socket, another protocol byte, or DNCPServer::Stop: the destination is stopped
\* before the socket is closed.
Terminate ==
  /\ session.open
  /\ session' = [session EXCEPT !.open = FALSE, !.dest = FALSE]
  /\ StopDest /\ jobs' = Kept(jobs)
  /\ listed' = listed \ {session.id}
  /\ UNCHANGED <<status, replies, payload>>

----------------------------------------------------------------------------
(* Messages of the client.                                                   *)

\* CreateSessionMessageHandler: the session takes another ID even if it is refused.
CreateSession ==
  /\ Idle /\ session.created < MaxCreates
  /\ session' = [session EXCEPT !.created = @ + 1, !.id = session.created + 1]
  /\ listed' = listed \cup {session.created + 1}
  /\ UNCHANGED <<dest, asked, jobs, status, replies, payload>>
\* ... and is what its options say if the identity, the options and the signature are right.
CreateValidSession(sendAccepted) ==
  /\ Idle /\ session.created < MaxCreates
  /\ session' = [session EXCEPT !.created = @ + 1, !.id = session.created + 1,
                   !.dest = TRUE, !.accepts = sendAccepted /\ @]
  /\ listed' = listed \cup {session.created + 1}
  /\ dest' = IF session.dest THEN dest ELSE NewDest
  /\ UNCHANGED <<asked, jobs, status, replies, payload>>

DestroySession ==
  /\ Idle /\ session.dest
  /\ session' = [session EXCEPT !.dest = FALSE]
  /\ StopDest /\ jobs' = Kept(jobs)
  /\ UNCHANGED <<listed, status, replies, payload>>

\* CreateLeaseSetMessageHandler and CreateLeaseSet2MessageHandler: the answer to the oldest request
\* gets the expiration time of the last one.
CreateLeaseSet ==
  /\ Idle /\ session.dest /\ asked # <<>>
  /\ asked' = Tail(asked)
  /\ dest' = [dest EXCEPT !.leaseSet = Head(asked), !.expires = dest.requested]
  /\ UNCHANGED <<session, listed, jobs, status, replies, payload>>

\* SendMessageMessageHandler and SendMsgTo: the LeaseSet of the remote is known or asked for.
SendMessage(n) ==
  /\ Idle /\ session.dest /\ status[n] = <<>> /\ \A j \in jobs : j.of # n
  /\ status' = IF session.accepts THEN Says(n, "Accepted") ELSE status
  /\ \E does \in {"send", "request"} : jobs' = jobs \cup {[does |-> does, of |-> n, by |-> "own"]}
  /\ UNCHANGED <<session, listed, dest, asked, replies, payload>>

\* HostLookupMessageHandler and DestLookupMessageHandler: answered at once, or a LeaseSet is asked
\* for, by the session's destination or by the shared one.
Lookup(r) ==
  /\ Idle /\ replies[r] = 0 /\ \A j \in jobs : j.of # r
  /\ \/ replies' = [replies EXCEPT ![r] = @ + 1] /\ UNCHANGED jobs
     \/ /\ jobs' = jobs \cup {[does |-> "lookup", of |-> r, by |-> IF session.dest THEN "own" ELSE "shared"]}
        /\ UNCHANGED replies
  /\ UNCHANGED <<session, listed, dest, asked, status, payload>>

----------------------------------------------------------------------------
(* The destination.                                                         *)

NextRequest_Broken == IF asked = <<>> THEN Append(asked, dest.requested + 1) ELSE asked
\* CreateNewLeaseSet: when the tunnels of the destination change.
NextRequest == Append(asked, dest.requested + 1)
CreateNewLeaseSet ==
  /\ dest.running /\ dest.requested < MaxLeaseSets
  /\ asked' = NextRequest
  /\ dest' = [dest EXCEPT !.requested = @ + 1]
  /\ UNCHANGED <<session, listed, jobs, status, replies, payload>>

\* HandleDataMessage: SendMessagePayloadMessage takes the socket as it is.
HandleDataMessage ==
  /\ dest.running
  /\ payload' = IF session.open THEN "sent" ELSE "no socket"
  /\ UNCHANGED <<session, listed, dest, asked, jobs, status, replies>>

Tells(n, what) == status' = IF session.open THEN Says(n, what) ELSE status

Done(j) == jobs' = jobs \ {j}

\* SendMsg: over the path that the routing session has, unless tags are stuck, or over another one.
SendMsg(j) ==
  /\ j.does = "send" /\ Done(j)
  /\ \/ /\ dest.path /\ Tells(j.of, "GuaranteedSuccess") /\ UNCHANGED dest
     \/ /\ ~dest.path /\ dest' = [dest EXCEPT !.path = TRUE] /\ Tells(j.of, "GuaranteedSuccess")
     \/ \* tags are stuck, there is no tunnel, no lease, or no session
        /\ dest' = [dest EXCEPT !.path = FALSE] /\ Tells(j.of, "GuaranteedFailure")
  /\ UNCHANGED <<session, listed, asked, replies, payload>>

HandleRequestComplete_Broken(j) ==
  /\ j.does = "request"
  /\ \/ jobs' = (jobs \ {j}) \cup {[j EXCEPT !.does = "send"]} /\ UNCHANGED status
     \/ Done(j) /\ UNCHANGED status
  /\ UNCHANGED <<session, listed, dest, asked, replies, payload>>
\* The LeaseSet that was requested has come or not.
HandleRequestComplete(j) ==
  /\ j.does = "request"
  /\ \/ jobs' = (jobs \ {j}) \cup {[j EXCEPT !.does = "send"]} /\ UNCHANGED status
     \/ Done(j) /\ Tells(j.of, "NoLeaseSet")
  /\ UNCHANGED <<session, listed, dest, asked, replies, payload>>

HandleLookupComplete(j) ==
  /\ j.does = "lookup" /\ Done(j)
  /\ replies' = IF session.open THEN [replies EXCEPT ![j.of] = @ + 1] ELSE replies
  /\ UNCHANGED <<session, listed, dest, asked, status, payload>>

RunJob == \E j \in jobs : SendMsg(j) \/ HandleRequestComplete(j) \/ HandleLookupComplete(j)

----------------------------------------------------------------------------
Init ==
  /\ session = [open |-> TRUE, started |-> FALSE, created |-> 0, id |-> NoID, dest |-> FALSE, accepts |-> TRUE]
  /\ listed = {} /\ dest = NoDest /\ asked = <<>> /\ jobs = {}
  /\ status = [n \in Nonces |-> <<>>]
  /\ replies = [r \in Lookups |-> 0]
  /\ payload = "none"

Next ==
  \/ ReadProtocolByte \/ Terminate
  \/ CreateSession \/ (\E accepts \in BOOLEAN : CreateValidSession(accepts)) \/ DestroySession
  \/ CreateLeaseSet \/ CreateNewLeaseSet \/ HandleDataMessage \/ RunJob
  \/ \E n \in Nonces : SendMessage(n)
  \/ \E r \in Lookups : Lookup(r)

Fairness == WF_vars(RunJob)
Spec == Init /\ [][Next]_vars /\ Fairness

----------------------------------------------------------------------------
(* A message gets one final status at most, and behind the one that accepts   *)
(* it; a lookup is answered once.                                             *)
StatusesInOrder ==
  /\ \A n \in Nonces :
       /\ \A k \in 1 .. Len(status[n]) : status[n][k] \in Finals => k = Len(status[n])
       /\ Len(status[n]) <= 2
  /\ \A r \in Lookups : replies[r] <= 1

(* When the client has answered every request the destination has the LeaseSet *)
(* it asked for last, with the expiration time of its own leases.              *)
LeaseSetSettles ==
  session.dest /\ asked = <<>> => dest.leaseSet = dest.requested /\ dest.expires = dest.leaseSet

(* Nothing is written to a socket that has been closed and forgotten.          *)
PayloadHasSocket == payload # "no socket"

(* A message that was taken is reported on, and a lookup answered, unless the  *)
(* session or its destination is given up first.                               *)
Waits(i) == \E j \in jobs : j.of = i
Told(n) == (status[n] # <<>> /\ status[n][Len(status[n])] \in Finals) \/ ~session.dest
Found(r) == replies[r] = 1 \/ ~session.dest
EveryMessageIsTold ==
  (\A n \in Nonces : Waits(n) ~> Told(n)) /\ (\A r \in Lookups : Waits(r) ~> Found(r))

\* Of a session that has ended nothing is left in m_Sessions.
EndedIsRemoved == ~session.open => listed = {}

TypeOK ==
  /\ session.id \in 0 .. MaxCreates /\ listed \subseteq 1 .. MaxCreates
  /\ dest.leaseSet \in 0 .. MaxLeaseSets /\ Len(asked) <= MaxLeaseSets
=============================================================================
