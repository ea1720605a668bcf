----------------------------- MODULE Transports -----------------------------
(***************************************************************************)
(* The entry that Transports keeps for one peer (libdotnet/Transports.cpp): *)
(* messages wait in it while a session is being made, over one transport    *)
(* after the other, and the router looked up when it is not known.          *)
(*                                                                         *)
(* Everything is posted to the thread of m_Service and handled there in the *)
(* order of posting.  The servers of NTCP2, NTCP and SSU make and end       *)
(* sessions at any time, and the peer may connect to us.  Entries do not    *)
(* affect one another.  Time only matters to say whether an entry is older  *)
(* than SESSION_CREATION_TIMEOUT.                                           *)
(***************************************************************************)
EXTENDS Integers, Sequences, FiniteSetsExt

CONSTANTS
  MaxDelayed,    \* MAX_NUM_DELAYED_MESSAGES
  MaxBatch,      \* messages in one call of SendMessages
  MaxMessages,   \* bound on the messages that are sent
  MaxSessions    \* bound on the sessions with the peer

VARIABLES
  allowed,    \* what does not change: whether the peer is one that we may talk to, and
              \* over which transports its RouterInfo and our servers let us connect
  peer,       \* the entry in m_Peers; its sessions are a set: it does not matter which is first
  session,    \* every session with the peer, in the order of creation
  queue,      \* handlers posted to m_Service
  requested,  \* netdb looks for the peer's RouterInfo
  posted,     \* number of messages passed to SendMessages so far
  sent,       \* history: the messages handed to sessions
  orphans     \* history: the sessions of entries that a lookup in vain has dropped

vars == <<allowed, peer, session, queue, requested, posted, sent, orphans>>

Order  == <<"NTCP2", "NTCP", "SSU">>   \* in which ConnectToPeer tries them
NoPeer == [known |-> FALSE]
NewPeer(hasRouter, sessions, delayed) ==
  [ known |-> TRUE, attempts |-> 0, hasRouter |-> hasRouter, sessions |-> sessions,
    old |-> FALSE, delayed |-> delayed ]

Post(handler) == queue' = Append(queue, handler)

----------------------------------------------------------------------------
(* ConnectToPeer.                                                            *)

Left(p) == {i \in p.attempts + 1 .. Len(Order) : Order[i] \in allowed.transports}

\* A session that is forgotten is not told.
DoneAll_Broken(p) == session

\* Peer::Done tells every session to terminate.
DoneAll(p) ==
  [s \in DOMAIN session |->
     IF s \in p.sessions /\ session[s] = "open" THEN "done" ELSE session[s]]

\* The outcome for entry p: a lookup, an attempt by the next transport, or its end.
ConnectToPeer(p) ==
  IF ~p.hasRouter
    THEN peer' = p /\ requested' = TRUE /\ UNCHANGED session
  ELSE IF Left(p) # {}
    THEN /\ peer' = [p EXCEPT !.attempts = Min(Left(p))]
         /\ Len(session) < MaxSessions /\ session' = Append(session, "connecting")
         /\ UNCHANGED requested
  ELSE peer' = NoPeer /\ session' = DoneAll(p) /\ UNCHANGED requested

----------------------------------------------------------------------------
(* Handlers on the thread of m_Service.                                      *)

Takes(type) == queue # <<>> /\ Head(queue).type = type /\ queue' = Tail(queue)

\* To one of the sessions; one that is ending loses them.
PostMessages ==
  LET msgs == Head(queue).msgs
  IN  /\ Takes("messages")
      /\ UNCHANGED <<allowed, posted, orphans>>
      /\ \/ /\ ~allowed.peer
            /\ UNCHANGED <<peer, session, requested, sent>>
         \/ /\ allowed.peer /\ ~peer.known
            /\ \E found \in BOOLEAN : ConnectToPeer(NewPeer(found, {}, msgs))
            /\ UNCHANGED sent
         \/ /\ allowed.peer /\ peer.known /\ peer.sessions # {}
            /\ sent' = sent \o msgs
            /\ UNCHANGED <<peer, session, requested>>
         \/ /\ allowed.peer /\ peer.known /\ peer.sessions = {}
            /\ peer' = IF Len(peer.delayed) < MaxDelayed
                         THEN [peer EXCEPT !.delayed = @ \o msgs] ELSE NoPeer
            /\ UNCHANGED <<session, requested, sent>>

HandleRequestComplete ==
  /\ Takes("request")
  /\ UNCHANGED <<allowed, posted, sent>>
  /\ \/ ~peer.known /\ UNCHANGED <<peer, session, requested, orphans>>
     \/ /\ peer.known /\ Head(queue).found
        /\ ConnectToPeer([peer EXCEPT !.hasRouter = TRUE]) /\ UNCHANGED orphans
     \/ /\ peer.known /\ ~Head(queue).found
        /\ peer' = NoPeer /\ orphans' = orphans \cup peer.sessions
        /\ UNCHANGED <<session, requested>>

\* What is left in the entry once a session has come, with the messages it takes.
Connected(p, s) == [p EXCEPT !.sessions = @ \cup {s}, !.delayed = <<>>]

Connected_Broken(p, s) == [p EXCEPT !.sessions = @ \cup {s}]

\* Without an entry the connection is an incoming one.
PeerConnected ==
  LET s == Head(queue).session
  IN  /\ Takes("connected")
      /\ UNCHANGED <<allowed, requested, posted, orphans>>
      /\ \/ /\ peer.known
            /\ peer' = Connected(peer, s) /\ sent' = sent \o peer.delayed
            /\ UNCHANGED session
         \/ /\ ~peer.known /\ allowed.peer
            /\ peer' = NewPeer(FALSE, {s}, <<>>) /\ UNCHANGED <<session, sent>>
         \/ /\ ~peer.known /\ ~allowed.peer
            /\ session' = [session EXCEPT ![s] = IF @ = "open" THEN "done" ELSE @]
            /\ UNCHANGED <<peer, sent>>

PeerDisconnected ==
  LET rest == peer.sessions \ {Head(queue).session}
  IN  /\ Takes("disconnected")
      /\ UNCHANGED <<allowed, posted, sent, orphans>>
      /\ \/ ~peer.known /\ UNCHANGED <<peer, session, requested>>
         \/ /\ peer.known /\ rest # {}
            /\ peer' = [peer EXCEPT !.sessions = rest] /\ UNCHANGED <<session, requested>>
         \/ /\ peer.known /\ rest = {} /\ peer.delayed # <<>>
            /\ ConnectToPeer([peer EXCEPT !.sessions = rest])
         \/ /\ peer.known /\ rest = {} /\ peer.delayed = <<>>
            /\ peer' = NoPeer /\ UNCHANGED <<session, requested>>

\* At most one session of each server is found and closed.
PostCloseSession ==
  /\ Takes("close")
  /\ \E closed \in SUBSET {s \in DOMAIN session : session[s] = "open"} :
       session' = [s \in DOMAIN session |-> IF s \in closed THEN "done" ELSE session[s]]
  /\ UNCHANGED <<allowed, peer, requested, posted, sent, orphans>>

\* The timer is another handler of m_Service.
NotCreated(p) == p.known /\ p.sessions = {} /\ p.old

NotCreated_Broken(p) == p.known /\ p.sessions = {} /\ p.old /\ p.delayed = <<>>

HandlePeerCleanupTimer ==
  /\ NotCreated(peer)
  /\ peer' = NoPeer
  /\ UNCHANGED <<allowed, session, queue, requested, posted, sent, orphans>>

----------------------------------------------------------------------------
(* What happens elsewhere.                                                   *)

SendMessages ==
  /\ \E n \in 1 .. MaxBatch :
       /\ posted + n <= MaxMessages
       /\ posted' = posted + n
       /\ Post([type |-> "messages", msgs |-> [i \in 1 .. n |-> posted + i]])
  /\ UNCHANGED <<allowed, peer, session, requested, sent, orphans>>

\* Once, so that the queue stays short.
CloseSession ==
  /\ \A i \in DOMAIN queue : queue[i].type # "close"
  /\ \E s \in DOMAIN session : session[s] = "open"
  /\ Post([type |-> "close"])
  /\ UNCHANGED <<allowed, peer, session, requested, posted, sent, orphans>>

\* The callback of netdb, which forgets it.
RequestComplete ==
  /\ requested /\ requested' = FALSE
  /\ \E found \in BOOLEAN : Post([type |-> "request", found |-> found])
  /\ UNCHANGED <<allowed, peer, session, posted, sent, orphans>>

Establish(s) ==
  /\ session[s] = "connecting"
  /\ session' = [session EXCEPT ![s] = "open"]
  /\ Post([type |-> "connected", session |-> s])
  /\ UNCHANGED <<allowed, peer, requested, posted, sent, orphans>>

Accept ==
  /\ Len(session) < MaxSessions
  /\ session' = Append(session, "open")
  /\ Post([type |-> "connected", session |-> Len(session) + 1])
  /\ UNCHANGED <<allowed, peer, requested, posted, sent, orphans>>

\* Failed, timed out, closed by either side.
Terminate(s) ==
  /\ session[s] # "closed"
  /\ session' = [session EXCEPT ![s] = "closed"]
  /\ Post([type |-> "disconnected", session |-> s])
  /\ UNCHANGED <<allowed, peer, requested, posted, sent, orphans>>

GrowOld ==
  /\ peer.known /\ ~peer.old
  /\ peer' = [peer EXCEPT !.old = TRUE]
  /\ UNCHANGED <<allowed, session, queue, requested, posted, sent, orphans>>

----------------------------------------------------------------------------
Init ==
  /\ allowed \in [peer : BOOLEAN, transports : SUBSET Range(Order)]
  /\ peer = NoPeer /\ session = <<>> /\ queue = <<>>
  /\ requested = FALSE /\ posted = 0 /\ sent = <<>> /\ orphans = {}

Handle ==
  \/ PostMessages \/ HandleRequestComplete
  \/ PeerConnected \/ PeerDisconnected \/ PostCloseSession

Next ==
  \/ Handle \/ HandlePeerCleanupTimer
  \/ SendMessages \/ CloseSession \/ RequestComplete \/ Accept
  \/ \E s \in DOMAIN session : Establish(s) \/ Terminate(s)
  \/ GrowOld

\* The thread of m_Service runs what is posted and its timer, and time passes.
Fairness == WF_vars(Handle) /\ WF_vars(HandlePeerCleanupTimer) /\ WF_vars(GrowOld)

Spec == Init /\ [][Next]_vars /\ Fairness

----------------------------------------------------------------------------
(* Whatever attempts fail, overlap or come back after the entry was dropped,  *)
(* a message is handed to a session at most once, and in the order of the     *)
(* calls of SendMessages (PostMessages, PeerConnected).                       *)
SentInOrder == \A i \in 1 .. Len(sent) - 1 : sent[i] < sent[i + 1]

(* A session that is open and whose PeerConnected has run is in the entry of  *)
(* its peer: none stays open that Transports would never use or close         *)
(* (ConnectToPeer drops entries of which sessions are open).  Only a lookup    *)
(* that ends in vain after the peer has connected to us leaves one.           *)
Announced(s) ==
  \A i \in DOMAIN queue : queue[i].type \in {"connected", "disconnected"} => queue[i].session # s
OpenIsListed ==
  \A s \in DOMAIN session :
    session[s] = "open" /\ Announced(s) /\ s \notin orphans => peer.known /\ s \in peer.sessions

(* Both are what m_Peers is for.                                              *)
PeersAreServed == SentInOrder /\ OpenIsListed

(* No message waits forever: a session takes it, or the entry is dropped by   *)
(* HandlePeerCleanupTimer at the latest.                                      *)
Waits(m) == peer.known /\ m \in Range(peer.delayed)
DelayedLeaves == \A m \in 1 .. MaxMessages : Waits(m) ~> ~Waits(m)
=============================================================================
