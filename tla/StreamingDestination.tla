------------------------ MODULE StreamingDestination ------------------------
(***************************************************************************)
(* Incoming streams of a destination (StreamingDestination in               *)
(* libdotnet/Streaming.cpp): a SYN makes a stream, which goes to the        *)
(* acceptor or waits in a backlog; packets that overtake the SYN are saved. *)
(*                                                                         *)
(* HandleNextPacket and all handlers run one at a time on the destination's *)
(* io_service, `ready` is its queue; SetAcceptor, ResetAcceptor and         *)
(* AcceptOnce are called from other threads at any moment.  What a packet   *)
(* does inside its stream is module Streaming; here a stream is open or     *)
(* not, and in m_Streams or not.                                            *)
(*                                                                         *)
(* Operators whose names end in _Broken are variants with a plausible bug.  *)
(***************************************************************************)
EXTENDS Naturals, Sequences, FiniteSets

CONSTANTS
  Remotes,      \* receiveStreamIDs that peers choose
  Server,       \* the acceptor SetAcceptor installs (DOTNETServerTunnel, BOB)
  Requests,     \* calls of AcceptOnce, each with an acceptor of its own (SAM)
  MaxBacklog,   \* MAX_PENDING_INCOMING_BACKLOG
  MaxStreams,   \* bound on the streams that SYNs make
  MaxSaved,     \* bound on the packets saved for a stream
  MaxTimers,    \* bound on the timers of the packets saved for a stream
  MaxReady      \* bound on the handlers waiting when another is posted

\* Server is none of Requests, and the limits are natural numbers.

VARIABLES
  streams,      \* every incoming stream in the order of creation
  acceptor,     \* m_Acceptor: the acceptor called next, then the one it puts back, ...
  last,         \* m_LastIncomingReceiveStreamID
  pending,      \* m_PendingIncomingStreams, as positions in streams
  timer,        \* m_PendingIncomingTimer is waiting
  saved,        \* m_SavedPackets: [Remotes -> packets saved]
  savedTimers,  \* [Remotes -> timers waiting to drop them]
  ready,        \* handlers queued in the io_service
  running,      \* the destination has not been stopped
  asked,        \* history: requests made
  calls         \* history: [Requests -> times its acceptor was called]

vars == <<streams, acceptor, last, pending, timer, saved, savedTimers, ready, running,
          asked, calls>>

NoRemote == 0   \* no peer chooses it

Handlers == [run : {"SetAcceptor", "PendingTimer"}, of : {Server}]
       \cup [run : {"AcceptOnce"}, of : Requests]
       \cup [run : {"SavedTimer"}, of : Remotes]

Post(handler) == ready' = Append(ready, handler)

----------------------------------------------------------------------------
(* Acceptors.                                                                *)

\* AcceptOnceAcceptor puts the previous acceptor back before it calls its own.
Called_Broken(a) == a

Called(a) == IF Head(a) = Server THEN a ELSE Tail(a)

AfterCalls(a, n) ==
  LET after[i \in 0 .. n] == IF i = 0 THEN a ELSE Called(after[i - 1]) IN after[n]

\* As many of the streams are given to the acceptor as there are acceptors to call.
CanTake(a, n) == \A i \in 0 .. (n - 1) : AfterCalls(a, i) # << >>

\* Who is called by n calls, and how often.
CallsOf(a, n) ==
  [q \in Requests |-> calls[q] +
     Cardinality({i \in 0 .. (n - 1) : Head(AfterCalls(a, i)) = q})]

Give(n) ==
  /\ acceptor' = AfterCalls(acceptor, n)
  /\ calls' = CallsOf(acceptor, n)

Handed(waiting) ==
  [i \in 1 .. Len(streams) |->
     IF \E k \in 1 .. Len(waiting) : waiting[k] = i
       THEN [streams[i] EXCEPT !.handed = @ + 1] ELSE streams[i]]

----------------------------------------------------------------------------
(* HandleNextPacket, for packets without a sendStreamID.                     *)

\* `handed` is a history: how often an acceptor was called with the stream.
Stream(r, open, attached, handed) ==
  [remote |-> r, open |-> open, attached |-> attached, handed |-> handed]

\* A FIN among the packets ends the stream at once; one whose SYN is refused by
\* ProcessOptions is taken out of m_Streams, and SendBuffer opens it all the same.
AfterPackets == {<<TRUE, TRUE>>, <<FALSE, FALSE>>, <<TRUE, FALSE>>}

IsRepeatedSyn_Broken(r) == FALSE

IsRepeatedSyn(r) == r = last

\* The timer is cancelled and set again for every stream that comes in.
Queue_Broken(i) == pending' = Append(pending, i) /\ UNCHANGED timer

Queue(i) == pending' = Append(pending, i) /\ timer' = TRUE

TakeSaved_Broken(r) == UNCHANGED saved

TakeSaved(r) == saved' = [saved EXCEPT ![r] = 0]

HasRoom_Broken == Len(pending) <= MaxBacklog

HasRoom == Len(pending) < MaxBacklog

\* A stream that is refused is closed; it stays until its FIN is acknowledged.
Accept(i, r, open, attached) ==
  \/ /\ acceptor # << >>
     /\ Give(1)
     /\ streams' = Append(streams, Stream(r, open, attached, 1))
     /\ UNCHANGED <<pending, timer>>
  \/ /\ acceptor = << >> /\ HasRoom
     /\ Queue(i)
     /\ streams' = Append(streams, Stream(r, open, attached, 0))
     /\ UNCHANGED <<acceptor, calls>>
  \/ /\ acceptor = << >> /\ ~HasRoom
     /\ streams' = Append(streams, Stream(r, FALSE, attached, 0))
     /\ UNCHANGED <<pending, timer, acceptor, calls>>

HandleSyn(r) ==
  /\ running /\ ~IsRepeatedSyn(r) /\ Len(streams) < MaxStreams
  /\ \E after \in AfterPackets : Accept(Len(streams) + 1, r, after[1], after[2])
  /\ last' = r
  /\ TakeSaved(r)
  /\ UNCHANGED <<savedTimers, ready, running, asked>>

StreamsOf(r) == {i \in 1 .. Len(streams) : streams[i].remote = r /\ streams[i].attached}

\* A packet of a stream goes to it: HandleFollowOn is the packet that finds none.
HandleFollowOn(r) ==
  /\ running /\ StreamsOf(r) = {}
  /\ saved[r] < MaxSaved /\ savedTimers[r] < MaxTimers
  /\ saved' = [saved EXCEPT ![r] = @ + 1]
  /\ savedTimers' = IF saved[r] = 0 THEN [savedTimers EXCEPT ![r] = @ + 1] ELSE savedTimers
  /\ UNCHANGED <<streams, acceptor, last, pending, timer, ready, running, asked, calls>>

\* FIN, reset, Close by the application, the last acknowledgement: a stream is closed
\* and, at once or later, leaves m_Streams (DeleteStream).
EndStream(i) ==
  /\ running /\ (streams[i].open \/ streams[i].attached)
  /\ \E attached \in {streams[i].attached, FALSE} :
       /\ streams[i].open \/ ~attached
       /\ streams' = [streams EXCEPT ![i].open = FALSE, ![i].attached = attached]
  /\ UNCHANGED <<acceptor, last, pending, timer, saved, savedTimers, ready, running,
                 asked, calls>>

----------------------------------------------------------------------------
(* Applications.                                                             *)

CanPost == running /\ Len(ready) < MaxReady

SetAcceptor ==
  /\ CanPost
  /\ acceptor' = <<Server>>
  /\ Post([run |-> "SetAcceptor", of |-> Server])
  /\ UNCHANGED <<streams, last, pending, timer, saved, savedTimers, running, asked, calls>>

\* The acceptor is told with a null stream; one that it put back is forgotten.
ResetAcceptor ==
  /\ acceptor # << >>
  /\ calls' = CallsOf(acceptor, 1)
  /\ acceptor' = << >>
  /\ UNCHANGED <<streams, last, pending, timer, saved, savedTimers, ready, running, asked>>

AcceptOnce(q) ==
  /\ CanPost /\ q \notin asked
  /\ asked' = asked \cup {q}
  /\ Post([run |-> "AcceptOnce", of |-> q])
  /\ UNCHANGED <<streams, acceptor, last, pending, timer, saved, savedTimers, running, calls>>

\* The io_service is stopped before, so that no handler runs any more.
Stop ==
  /\ running /\ running' = FALSE
  /\ calls' = IF acceptor = << >> THEN calls ELSE CallsOf(acceptor, 1)
  /\ acceptor' = << >> /\ timer' = FALSE /\ pending' = << >>
  /\ streams' = [i \in 1 .. Len(streams) |-> [streams[i] EXCEPT !.attached = FALSE]]
  /\ UNCHANGED <<last, saved, savedTimers, ready, asked>>

----------------------------------------------------------------------------
(* Handlers.                                                                 *)

Run(handler) == running /\ ready # << >> /\ Head(ready) = handler /\ ready' = Tail(ready)

\* The posted half of SetAcceptor.  When the acceptor was reset in between, the call of
\* an empty function throws and the backlog stays as it is.
HandleSetAcceptor ==
  LET open == SelectSeq(pending, LAMBDA i : streams[i].open) IN
  /\ Run([run |-> "SetAcceptor", of |-> Server])
  /\ \/ /\ CanTake(acceptor, Len(open))
        /\ Give(Len(open)) /\ streams' = Handed(open)
        /\ pending' = << >> /\ timer' = FALSE
     \/ \E n \in 0 .. (Len(open) - 1) :
          /\ CanTake(acceptor, n) /\ ~CanTake(acceptor, n + 1)
          /\ Give(n) /\ streams' = Handed(SubSeq(open, 1, n))
          /\ UNCHANGED <<pending, timer>>
  /\ UNCHANGED <<last, saved, savedTimers, running, asked>>

SomePending_Broken == Len(pending) > 1

SomePending == pending # << >>

TakeFirst_Broken == UNCHANGED <<pending, timer>>   \* the stream stays in the backlog

TakeFirst == pending' = Tail(pending) /\ timer' = (timer /\ Len(pending) > 1)

HandleAcceptOnce(q) ==
  /\ Run([run |-> "AcceptOnce", of |-> q])
  /\ \/ /\ SomePending
        /\ calls' = [calls EXCEPT ![q] = @ + 1]
        /\ streams' = Handed(<<Head(pending)>>)
        /\ TakeFirst
        /\ UNCHANGED acceptor
     \/ /\ ~SomePending
        /\ acceptor' = <<q>> \o acceptor
        /\ UNCHANGED <<streams, pending, timer, calls>>
  /\ UNCHANGED <<last, saved, savedTimers, running, asked>>


\* Close: a stream that is closed already is terminated.
HandlePendingIncomingTimer ==
  /\ Run([run |-> "PendingTimer", of |-> Server])
  /\ streams' = [i \in 1 .. Len(streams) |->
       IF \E k \in 1 .. Len(pending) : pending[k] = i
         THEN [streams[i] EXCEPT !.open = FALSE, !.attached = @ /\ streams[i].open]
         ELSE streams[i]]
  /\ pending' = << >>
  /\ UNCHANGED <<acceptor, last, timer, saved, savedTimers, running, asked, calls>>

HandleSavedTimer_Broken(r) ==   \* the packets are deleted, the entry stays
  /\ Run([run |-> "SavedTimer", of |-> r])
  /\ UNCHANGED <<streams, acceptor, last, pending, timer, saved, savedTimers, running,
                 asked, calls>>

HandleSavedTimer(r) ==
  /\ Run([run |-> "SavedTimer", of |-> r])
  /\ saved' = [saved EXCEPT ![r] = 0]
  /\ UNCHANGED <<streams, acceptor, last, pending, timer, savedTimers, running, asked, calls>>

\* A timer that expires queues its handler, which no cancel takes back.
ExpirePending ==
  /\ running /\ timer /\ timer' = FALSE
  /\ Post([run |-> "PendingTimer", of |-> Server])
  /\ UNCHANGED <<streams, acceptor, last, pending, saved, savedTimers, running, asked, calls>>

ExpireSaved(r) ==
  /\ running /\ savedTimers[r] > 0
  /\ savedTimers' = [savedTimers EXCEPT ![r] = @ - 1]
  /\ Post([run |-> "SavedTimer", of |-> r])
  /\ UNCHANGED <<streams, acceptor, last, pending, timer, saved, running, asked, calls>>

----------------------------------------------------------------------------

Init ==
  /\ streams = << >> /\ acceptor = << >> /\ last = NoRemote
  /\ pending = << >> /\ timer = FALSE
  /\ saved = [r \in Remotes |-> 0] /\ savedTimers = [r \in Remotes |-> 0]
  /\ ready = << >> /\ running = TRUE /\ asked = {}
  /\ calls = [q \in Requests |-> 0]

RunHandler ==
  \/ HandleSetAcceptor
  \/ \E q \in Requests : HandleAcceptOnce(q)
  \/ HandlePendingIncomingTimer
  \/ \E r \in Remotes : HandleSavedTimer(r)

Next ==
  \/ \E r \in Remotes : HandleSyn(r) \/ HandleFollowOn(r) \/ ExpireSaved(r)
  \/ \E i \in 1 .. Len(streams) : EndStream(i)
  \/ SetAcceptor \/ ResetAcceptor \/ Stop
  \/ \E q \in Requests : AcceptOnce(q)
  \/ RunHandler
  \/ ExpirePending

Spec == Init /\ [][Next]_vars

\* The io_service runs what is queued, and its timers expire.
Fairness ==
  /\ WF_vars(RunHandler) /\ WF_vars(ExpirePending)
  /\ \A r \in Remotes : WF_vars(ExpireSaved(r))

----------------------------------------------------------------------------
(* Properties.                                                               *)

Acceptors == Requests \cup {Server}

TypeOK ==
  /\ streams \in Seq([remote : Remotes, open : BOOLEAN, attached : BOOLEAN, handed : Nat])
  /\ acceptor \in Seq(Acceptors)
  /\ pending \in Seq(1 .. Len(streams)) /\ Len(pending) <= MaxBacklog
  /\ saved \in [Remotes -> Nat] /\ savedTimers \in [Remotes -> Nat]
  /\ ready \in Seq(Handlers) /\ last \in Remotes \cup {NoRemote}
  /\ asked \subseteq Requests /\ calls \in [Requests -> Nat]

\* A stream is handed on once at most, and leaves the backlog when it is, however the
\* backlog, the acceptors and the timer are interleaved.
HandedOnce ==
  \A i \in 1 .. Len(streams) :
    /\ streams[i].handed <= 1
    /\ \A k \in 1 .. Len(pending) : pending[k] = i => streams[i].handed = 0

\* AcceptOnce: its acceptor is called once at most, with a stream or when it is reset.
AcceptsOnce == \A q \in Requests : calls[q] <= 1

\* Streams wait only while nobody accepts; when there is an acceptor, it is about to be
\* given them (the posted half of SetAcceptor).
WaitsForAcceptor ==
  pending # << >> =>
    acceptor = << >> \/ \E k \in 1 .. Len(ready) : ready[k].run = "SetAcceptor"

\* A waiting stream is timed, so that it cannot stay for ever.
BacklogIsTimed ==
  pending # << >> => timer \/ \E k \in 1 .. Len(ready) : ready[k].run = "PendingTimer"

\* Packets are saved only while their stream does not exist, so that none that came
\* before the SYN stays behind it.
SavedBeforeStream == \A r \in Remotes : saved[r] > 0 => StreamsOf(r) = {}

\* A repeated SYN opens a second stream only when another peer's SYN came in between.
RepeatedSynIsDropped ==
  \A i, j \in 1 .. Len(streams) :
    i < j /\ streams[i].remote = streams[j].remote =>
      \E k \in (i + 1) .. (j - 1) : streams[k].remote # streams[i].remote

\* The backlog drains and saved packets are dropped, whatever applications do.
BacklogDrains ==
  \A i \in 1 .. MaxStreams :
    (\E k \in 1 .. Len(pending) : pending[k] = i) ~> (\A k \in 1 .. Len(pending) : pending[k] # i)

SavedAreDropped == \A r \in Remotes : (saved[r] > 0) ~> (saved[r] = 0 \/ ~running)
=============================================================================
