----------------------------- MODULE Streaming -----------------------------
(***************************************************************************)
(* The two ends of one stream of libdotnet/Streaming.cpp: the "outgoing"   *)
(* end an application opened (CreateNewOutgoingStream) and the "incoming"  *)
(* end the SYN creates at the other destination (CreateNewIncomingStream). *)
(*                                                                         *)
(* Each end lives on the io_service thread of its destination.  Handlers   *)
(* that the code posts, expired timers and cancelled waits stand in line   *)
(* in `ready`, the FIFO of that io_service; one handler is one step.  The  *)
(* handlers call one another, so each member function of Stream is an      *)
(* operator from the state of a stream to its next state, and an action    *)
(* applies one of them to one end.                                         *)
(*                                                                         *)
(* Packets travel over I2P tunnels: they are lost, duplicated and          *)
(* reordered.  `wire` holds every packet an end ever gave to SendPackets;  *)
(* the peer may receive any of them at any time, again and again, or       *)
(* never.                                                                  *)
(*                                                                         *)
(* The payload of one packet is the unit of data: the n-th unit written by *)
(* the application is the number n, and 0 is an empty payload.             *)
(*                                                                         *)
(* Operators whose names end in _Broken are variants with a plausible bug, *)
(* used to see that the properties notice it.                              *)
(***************************************************************************)
EXTENDS Integers, Sequences, FiniteSets

CONSTANTS
  MaxWrites,          \* [Ends -> Nat]: bound on the units each application writes
  MinWindow,          \* MIN_WINDOW_SIZE
  WindowSize,         \* WINDOW_SIZE: slow start ends here
  MaxWindow,          \* MAX_WINDOW_SIZE
  MaxResendAttempts,  \* MAX_NUM_RESEND_ATTEMPTS
  MaxNacks,           \* NACKs a packet can count (256 in SendQuickAck)
  MaxReady,           \* bound on the handlers waiting at an end when a packet arrives
  Closers,            \* ends whose application may close the stream
  Pushers             \* ends that may have a LeaseSet to push while they wait for data

Ends == {"outgoing", "incoming"}
Peer(e) == IF e = "outgoing" THEN "incoming" ELSE "outgoing"

ASSUME WritesAssumption == MaxWrites \in [Ends -> Nat]
ASSUME WindowAssumption ==
  /\ {MinWindow, WindowSize, MaxWindow} \subseteq Nat \ {0}
  /\ MinWindow <= WindowSize /\ WindowSize <= MaxWindow
ASSUME NackAssumption == MaxNacks \in Nat /\ MaxWindow + 2 < MaxNacks
ASSUME BoundsAssumption ==
  /\ MaxResendAttempts \in Nat /\ MaxReady \in Nat
  /\ Closers \subseteq Ends /\ Pushers \subseteq Ends

VARIABLE stream   \* [Ends -> the state of that end's Stream object]

----------------------------------------------------------------------------
(* Packets.  The only options the protocol state depends on are the flags. *)

Packets == [seqn : Nat, syn : BOOLEAN, fin : BOOLEAN, noAck : BOOLEAN,
            ackThrough : Int, nacks : SUBSET Nat, data : Nat]

\* HandleNextPacket: "!receivedSeqn && !isSyn" is a plain acknowledgement.
PlainAck(p) == p.seqn = 0 /\ ~p.syn

Seqns(packets) == {p.seqn : p \in packets}

NoPacket == [seqn |-> 0, syn |-> FALSE, fin |-> FALSE, noAck |-> TRUE,
             ackThrough |-> 0, nacks |-> {}, data |-> 0]

(* Handlers that wait in the io_service; only SendPacket is bound to a packet. *)
Handlers == {"SendBuffer", "Close", "SendPacket",
             "HandleAckSendTimer", "AbortedAckSendTimer", "HandleResendTimer"}
Jobs == [run : Handlers, packet : Packets]
Job(handler) == [run |-> handler, packet |-> NoPacket]

Post(s, job) == [s EXCEPT !.ready = Append(@, job)]

----------------------------------------------------------------------------
(* The state of a Stream.  "None" is the incoming end before its SYN.      *)

Statuses == {"None", "New", "Open", "Reset", "Closing", "Closed"}

NewStream(status) ==
  [ status       |-> status,          \* m_Status
    attached     |-> status # "None", \* in m_Streams of its destination
    established  |-> FALSE,           \* m_SendStreamID is set
    seqn         |-> 0,               \* m_SequenceNumber
    lastReceived |-> -1,              \* m_LastReceivedSequenceNumber
    saved        |-> {},              \* m_SavedPackets
    sent         |-> {},              \* m_SentPackets
    written      |-> 0,               \* units ever added to m_SendBuffer
    taken        |-> 0,               \* units SendBuffer has taken out of it
    window       |-> MinWindow,       \* m_WindowSize
    attempts     |-> 0,               \* m_NumResendAttempts
    ackScheduled |-> FALSE,           \* m_IsAckSendScheduled
    ackArmed     |-> FALSE,           \* m_AckSendTimer is waiting
    resendArmed  |-> FALSE,           \* m_ResendTimer is waiting
    ready        |-> << >>,           \* handlers queued at the io_service
    closeAsked   |-> FALSE,           \* the application has called AsyncClose
    wire         |-> {},              \* history: packets handed to SendPackets
    log          |-> << >>,           \* history: payload of each packet ever numbered
    got          |-> << >> ]          \* history: payload of each packet processed

BufferIsEmpty(s) == s.taken = s.written

\* boost::asio cancels a pending wait by queueing its handler, with an error code
\* that HandleAckSendTimer never looks at.
CancelAckSendTimer(s) ==
  IF s.ackArmed THEN [s EXCEPT !.ackArmed = FALSE,
                               !.ready = Append(@, Job("AbortedAckSendTimer"))]
                ELSE s

ArmAckSendTimer(s) ==
  [CancelAckSendTimer(s) EXCEPT !.ackScheduled = TRUE, !.ackArmed = TRUE]

StopAckSend(s) == [CancelAckSendTimer(s) EXCEPT !.ackScheduled = FALSE]

\* An aborted HandleResendTimer does nothing; one that is already queued stays queued.
ScheduleResend(s) == [s EXCEPT !.resendArmed = TRUE]

Terminate(s) == [CancelAckSendTimer(s) EXCEPT !.resendArmed = FALSE, !.attached = FALSE]

SendPackets(s, packets) == [s EXCEPT !.wire = @ \cup packets]

\* SendPackets, insertion into m_SentPackets, ScheduleResend when it was empty.
SendAndTrack_Broken(s, packets) ==   \* isEmpty is read after the insertion
  [SendPackets(s, packets) EXCEPT !.sent = @ \cup packets]

SendAndTrack(s, packets) ==
  LET t == [SendPackets(s, packets) EXCEPT !.sent = @ \cup packets]
  IN  IF s.sent = {} THEN ScheduleResend(t) ELSE t

----------------------------------------------------------------------------
(* SendClose: the FIN gets its number now and is sent by a posted SendPacket. *)

\* `last` is what m_LastReceivedSequenceNumber is when the FIN is built.
FinPacket(s, last) ==
  [seqn |-> s.seqn, syn |-> FALSE, fin |-> TRUE, noAck |-> FALSE,
   ackThrough |-> IF last >= 0 THEN last ELSE 0, nacks |-> {}, data |-> 0]

SendCloseAfter(s, last) ==
  [s EXCEPT !.seqn = @ + 1, !.log = Append(@, 0),
            !.ready = Append(@, [run |-> "SendPacket", packet |-> FinPacket(s, last)])]

SendClose(s) == SendCloseAfter(s, s.lastReceived)

CloseWhenSent_Broken(s) ==   \* unacknowledged packets are forgotten
  IF BufferIsEmpty(s) THEN SendClose([s EXCEPT !.status = "Closed"]) ELSE s

CloseWhenSent(s) ==
  IF s.sent = {} /\ BufferIsEmpty(s) THEN SendClose([s EXCEPT !.status = "Closed"]) ELSE s

Close(s) ==
  CASE s.status = "Open"                -> CloseWhenSent([s EXCEPT !.status = "Closing"])
    [] s.status = "Closing"             -> CloseWhenSent(s)
    [] s.status \in {"Reset", "Closed"} -> Terminate(s)
    [] OTHER                            -> s

ResetAndClose(s) == Close([s EXCEPT !.status = "Reset"])

(* SendBuffer: the packets the loop builds.  A new stream sends its SYN whatever *)
(* the buffer holds; the rest only goes out when the stream is established.      *)

Least(m, n) == IF m <= n THEN m ELSE n

Room_Broken(s) == s.window   \* packets in flight are not counted

Room(s) == s.window - Cardinality(s.sent)

Pending(s) == s.written - s.taken

NumToSend(s) ==
  IF s.status = "New"
    THEN 1 + (IF s.established /\ Pending(s) > 0 THEN Least(Room(s), Pending(s)) - 1 ELSE 0)
    ELSE IF s.established THEN Least(Room(s), Pending(s)) ELSE 0

PayloadAt_Broken(s, i) ==   \* every packet of a batch reads from the same offset
  IF s.taken < s.written THEN s.taken + 1 ELSE 0

\* Payload of packet number i, counting on from the next number of the stream.
PayloadAt(s, i) ==
  LET n == s.taken + 1 + (i - s.seqn) IN IF n <= s.written THEN n ELSE 0

BufferPacket_Broken(s, i) ==   \* m_SequenceNumber is not advanced within a batch
  LET first == s.status = "New" /\ i = s.seqn
  IN  [seqn |-> s.seqn, syn |-> first, fin |-> FALSE,
       noAck |-> first /\ s.lastReceived < 0,
       ackThrough |-> IF s.lastReceived < 0 THEN 0 ELSE s.lastReceived,
       nacks |-> {}, data |-> PayloadAt(s, i)]

BufferPacket(s, i) ==
  LET first == s.status = "New" /\ i = s.seqn
  IN  [seqn |-> i, syn |-> first, fin |-> FALSE,
       noAck |-> first /\ s.lastReceived < 0,
       ackThrough |-> IF s.lastReceived < 0 THEN 0 ELSE s.lastReceived,
       nacks |-> {}, data |-> PayloadAt(s, i)]

BufferPackets(s) == {BufferPacket(s, i) : i \in s.seqn .. (s.seqn + NumToSend(s) - 1)}

TakeFromBuffer_Broken(s) ==   \* a packet without payload uses up a unit, too
  LET n == NumToSend(s)
  IN  [s EXCEPT !.status = IF @ = "New" THEN "Open" ELSE @,
                !.seqn = @ + n,
                !.taken = @ + n,
                !.log = [i \in 1 .. (Len(@) + n) |->
                           IF i <= Len(@) THEN @[i] ELSE PayloadAt(s, i - 1)]]

\* m_SequenceNumber++ and m_SendBuffer.Get for each packet; a new stream is open now.
TakeFromBuffer(s) ==
  LET n == NumToSend(s)
  IN  [s EXCEPT !.status = IF @ = "New" THEN "Open" ELSE @,
                !.seqn = @ + n,
                !.taken = Least(@ + n, s.written),
                !.log = [i \in 1 .. (Len(@) + n) |->
                           IF i <= Len(@) THEN @[i] ELSE PayloadAt(s, i - 1)]]

SendBuffer(s) ==
  IF Room(s) <= 0 \/ NumToSend(s) = 0
    THEN s
    ELSE LET t == IF s.saved = {} THEN StopAckSend(s) ELSE s
             u == SendAndTrack(TakeFromBuffer(t), BufferPackets(t))
         IN  IF u.status = "Closing" /\ BufferIsEmpty(u) THEN SendClose(u) ELSE u

SendPacket(s, packet) ==
  SendAndTrack(IF s.ackScheduled THEN StopAckSend(s) ELSE s, {packet})

----------------------------------------------------------------------------
(* SendQuickAck: acknowledge up to the largest saved packet, with a NACK for each *)
(* packet missing below it; when the NACKs do not fit, the acknowledgement stops  *)
(* at the packet after the last run that fits.                                    *)

Missing(s, upTo) == {i \in (s.lastReceived + 1) .. upTo : i \notin Seqns(s.saved)}

\* Saved packets whose gap no longer fits, in the order of the loop.
Overflowing(s) == {q \in Seqns(s.saved) : Cardinality(Missing(s, q)) >= MaxNacks}

LargestOf(set) == CHOOSE m \in set : \A x \in set : x <= m

QuickAck(s) ==
  LET fitting == Seqns(s.saved) \ Overflowing(s)
      covered == LargestOf(fitting \cup {s.lastReceived})
  IN  [seqn |-> 0, syn |-> FALSE, fin |-> FALSE, noAck |-> FALSE,
       ackThrough |-> IF Overflowing(s) = {} THEN covered ELSE covered + 1,
       nacks |-> Missing(s, covered), data |-> 0]

SendQuickAck(s) ==
  IF s.lastReceived < 0 /\ s.saved = {} THEN s ELSE SendPackets(s, {QuickAck(s)})

----------------------------------------------------------------------------
(* ProcessAck.  `grow` stands for "ts > m_LastWindowSizeIncreaseTime + m_RTT", *)
(* true at most once for the packets one acknowledgement removes.              *)

Acknowledged_Broken(s, p) ==   \* NACKs are not looked at
  {q \in s.sent : q.seqn <= p.ackThrough}

Acknowledged(s, p) ==
  {q \in s.sent : q.seqn <= p.ackThrough /\ q.seqn \notin p.nacks}

GrownWindow(window, n, grow) ==
  LET slow == Least(n, IF window < WindowSize THEN WindowSize - window ELSE 0)
  IN  IF grow /\ n > slow THEN Least(window + slow + 1, MaxWindow) ELSE window + slow

AfterAck_Broken(s) ==   \* a closing stream does not try again
  IF s.status = "Closed" THEN Terminate(s) ELSE s

AfterAck(s) ==
  CASE s.status = "Closed"  -> Terminate(s)
    [] s.status = "Closing" -> Close(s)
    [] OTHER                -> s

ProcessAck_Broken(s, p, grow) ==   \* the buffer is not flushed into the freed window
  LET acked == Acknowledged(s, p)
      t == [s EXCEPT !.sent = @ \ acked,
                     !.window = GrownWindow(@, Cardinality(acked), grow),
                     !.resendArmed = @ /\ s.sent # acked,
                     !.attempts = IF acked = {} THEN @ ELSE 0]
  IN  IF p.ackThrough > s.seqn THEN s ELSE AfterAck(t)

ProcessAck(s, p, grow) ==
  LET acked == Acknowledged(s, p)
      t == [s EXCEPT !.sent = @ \ acked,
                     !.window = GrownWindow(@, Cardinality(acked), grow),
                     !.resendArmed = @ /\ s.sent # acked,
                     !.attempts = IF acked = {} THEN @ ELSE 0]
  IN  IF p.ackThrough > s.seqn THEN s
      ELSE AfterAck(IF acked = {} THEN t ELSE SendBuffer(t))

----------------------------------------------------------------------------
(* ProcessPacket, for the packet that is next in sequence and then for the saved *)
(* packets that follow it without a gap.                                         *)

\* The number the receiver waits for once it has processed `run`.
NextGap(s, packets) ==
  CHOOSE g \in {q + 1 : q \in Seqns(packets)} :
    /\ g \notin Seqns(packets)
    /\ (s.lastReceived + 1) .. (g - 1) \subseteq Seqns(packets)

PacketAt(packets, i) == CHOOSE p \in packets : p.seqn = i

\* A FIN is answered by our own FIN, unless we are closed already, and ends the stream.
ProcessFins(s, fins) ==
  IF fins = {} THEN s
  ELSE LET first == CHOOSE f \in fins : \A g \in fins : f <= g
           t == IF s.status = "Closed" THEN s ELSE SendCloseAfter(s, first)
       IN  Terminate([t EXCEPT !.status = "Closed"])

ProcessPackets(s, p) ==
  LET packets == s.saved \cup {p}
      g       == NextGap(s, packets)
      t == [s EXCEPT !.lastReceived = g - 1,
                     !.saved = {q \in @ : q.seqn >= g},
                     !.got = [i \in 1 .. g |->
                                IF i <= Len(@) THEN @[i] ELSE PacketAt(packets, i - 1).data]]
  IN  ProcessFins(t, {q.seqn : q \in {r \in packets : r.fin /\ r.seqn < g}})

(* HandleNextPacket.                                                          *)

NextInSequence(s, p) ==
  LET t == ProcessPackets(s, p)
  IN  IF t.status = "Open"
        THEN IF t.ackScheduled THEN t ELSE ArmAckSendTimer(t)
        ELSE IF p.syn THEN SendBuffer(t) ELSE t

OutOfSequence(s, p) ==
  LET t == [s EXCEPT !.saved = IF p.seqn \in Seqns(@) THEN @ ELSE @ \cup {p}]
  IN  IF s.lastReceived < 0 THEN ArmAckSendTimer(t)
      ELSE SendQuickAck(IF s.ackScheduled THEN StopAckSend(t) ELSE t)

HandleNextPacket(s, p, grow) ==
  LET t == [s EXCEPT !.established = TRUE]
      u == IF p.noAck THEN t ELSE ProcessAck(t, p, grow)
  IN  IF PlainAck(p) THEN u
      ELSE CASE p.seqn = u.lastReceived + 1 -> NextInSequence(u, p)
             [] p.seqn <= u.lastReceived    -> SendQuickAck(u)
             [] OTHER                       -> OutOfSequence(u, p)

----------------------------------------------------------------------------
(* Timers.                                                                    *)

HalvedWindow_Broken(window) == window \div 2   \* no lower bound

HalvedWindow(window) == IF window \div 2 < MinWindow THEN MinWindow ELSE window \div 2

HandleResendTimer_Broken(s, due) ==   \* attempts are not counted
  ScheduleResend(SendPackets(s, due))

\* `due` are the packets whose last transmission is at least m_RTO old.
HandleResendTimer(s, due) ==
  IF s.attempts >= MaxResendAttempts THEN ResetAndClose(s)
  ELSE LET t == [s EXCEPT !.attempts = @ + 1,
                          !.window = IF s.attempts = 0 THEN HalvedWindow(@) ELSE @]
       IN  ScheduleResend(IF due = {} THEN s ELSE SendPackets(t, due))

\* The wait may have expired or have been cancelled: the handler does not ask.
HandleAckSendTimer(s) ==
  IF ~s.ackScheduled THEN s
  ELSE IF s.lastReceived < 0 THEN ResetAndClose(s)
  ELSE [(IF s.status = "Open" THEN SendQuickAck(s) ELSE s) EXCEPT !.ackScheduled = FALSE]

----------------------------------------------------------------------------
(* Actions.                                                                  *)

Init == stream = [e \in Ends |-> NewStream(IF e = "outgoing" THEN "New" ELSE "None")]

Step(e, s) == stream' = [stream EXCEPT ![e] = s]

\* AsyncSend with data; units are bounded by MaxWrites.
AsyncSend(e) ==
  /\ stream[e].status # "None" /\ ~stream[e].closeAsked
  /\ stream[e].written < MaxWrites[e]
  /\ Step(e, Post([stream[e] EXCEPT !.written = @ + 1], Job("SendBuffer")))

\* AsyncSend without data, the way a client connects before it has anything to say.
Connect(e) ==
  /\ stream[e].status = "New" /\ stream[e].ready = << >> /\ ~stream[e].closeAsked
  /\ Step(e, Post(stream[e], Job("SendBuffer")))

AsyncClose(e) ==
  /\ e \in Closers
  /\ stream[e].status # "None" /\ ~stream[e].closeAsked
  /\ Step(e, Post([stream[e] EXCEPT !.closeAsked = TRUE], Job("Close")))

\* The first SYN creates the incoming end; a repeated one is dropped because of
\* m_LastIncomingReceiveStreamID.
ReceiveSyn(e) ==
  /\ stream[e] = NewStream("None")
  /\ \E p \in stream[Peer(e)].wire :
       p.syn /\ Step(e, HandleNextPacket(NewStream("New"), p, FALSE))

\* The outgoing SYN names no stream, so it never reaches the incoming Stream object.
ReceivePacket(e) ==
  /\ stream[e].attached
  /\ Len(stream[e].ready) <= MaxReady
  /\ \E p \in stream[Peer(e)].wire, grow \in BOOLEAN :
       /\ ~(e = "incoming" /\ p.syn)
       /\ Step(e, HandleNextPacket(stream[e], p, grow))

AckSendTimerExpires(e) ==
  /\ stream[e].ackArmed
  /\ Step(e, Post([stream[e] EXCEPT !.ackArmed = FALSE], Job("HandleAckSendTimer")))

ResendTimerExpires(e) ==
  /\ stream[e].resendArmed
  /\ Step(e, Post([stream[e] EXCEPT !.resendArmed = FALSE], Job("HandleResendTimer")))

\* The io_service runs the handler at the head of its queue.
NextJobIs(e, handler) == stream[e].ready # << >> /\ Head(stream[e].ready).run = handler
Taken(e) == [stream[e] EXCEPT !.ready = Tail(@)]

RunSendBuffer(e) == NextJobIs(e, "SendBuffer") /\ Step(e, SendBuffer(Taken(e)))

RunClose(e) == NextJobIs(e, "Close") /\ Step(e, Close(Taken(e)))

RunSendPacket(e) ==
  /\ NextJobIs(e, "SendPacket")
  /\ Step(e, SendPacket(Taken(e), Head(stream[e].ready).packet))

RunAckSendTimer(e) ==
  NextJobIs(e, "HandleAckSendTimer") /\ Step(e, HandleAckSendTimer(Taken(e)))

RunAbortedAckSendTimer(e) ==
  NextJobIs(e, "AbortedAckSendTimer") /\ Step(e, HandleAckSendTimer(Taken(e)))

RunResendTimer(e, due) ==
  NextJobIs(e, "HandleResendTimer") /\ Step(e, HandleResendTimer(Taken(e), due))

\* HandleReceiveTimer ran into its timeout and SendUpdatedLeaseSet has a LeaseSet to push.
SendUpdatedLeaseSet(e) ==
  /\ e \in Pushers
  /\ stream[e].attached
  /\ Step(e, SendQuickAck(stream[e]))

Run(e) ==
  \/ RunSendBuffer(e) \/ RunClose(e) \/ RunSendPacket(e)
  \/ RunAckSendTimer(e) \/ RunAbortedAckSendTimer(e)
  \/ \E due \in SUBSET stream[e].sent : RunResendTimer(e, due)

Next ==
  \E e \in Ends :
    \/ AsyncSend(e) \/ Connect(e) \/ AsyncClose(e)
    \/ ReceiveSyn(e) \/ ReceivePacket(e)
    \/ AckSendTimerExpires(e) \/ ResendTimerExpires(e)
    \/ Run(e) \/ SendUpdatedLeaseSet(e)

Spec == Init /\ [][Next]_stream

\* The io_service keeps running its handlers and the clock keeps running, so a
\* packet that stays unacknowledged is due at some expiry of the timer.  Nothing is
\* assumed of the network or of the applications.
Fairness ==
  \A e \in Ends :
    /\ WF_stream(Run(e))
    /\ WF_stream(AckSendTimerExpires(e)) /\ WF_stream(ResendTimerExpires(e))
    /\ SF_stream(\E due \in SUBSET stream[e].sent \ {{}} : RunResendTimer(e, due))

FairSpec == Spec /\ Fairness

----------------------------------------------------------------------------
(* Properties.                                                               *)

StreamStates ==
  [ status : Statuses, attached : BOOLEAN, established : BOOLEAN,
    seqn : Nat, lastReceived : Nat \cup {-1},
    saved : SUBSET Packets, sent : SUBSET Packets,
    written : Nat, taken : Nat, window : Nat \ {0}, attempts : Nat,
    ackScheduled : BOOLEAN, ackArmed : BOOLEAN, resendArmed : BOOLEAN,
    ready : Seq(Jobs), closeAsked : BOOLEAN,
    wire : SUBSET Packets, log : Seq(Nat), got : Seq(Nat) ]

\* Every field of both streams keeps its type, and the two sequence counters count
\* the packets numbered and the packets processed.
TypeOK ==
  /\ stream \in [Ends -> StreamStates]
  /\ \A e \in Ends : /\ Len(stream[e].log) = stream[e].seqn
                     /\ Len(stream[e].got) = stream[e].lastReceived + 1

\* What an end has processed is what the other end numbered, packet by packet: no
\* loss, duplicate, reordering, retransmission or NACK changes it.
ReceivedIsPrefixOfSent ==
  \A e \in Ends :
    /\ Len(stream[e].got) <= Len(stream[Peer(e)].log)
    /\ \A i \in 1 .. Len(stream[e].got) : stream[e].got[i] = stream[Peer(e)].log[i]

\* The application reads the units its peer wrote, in the order they were written,
\* each once and none left out.
InOrderDelivery ==
  \A e \in Ends :
    LET got == stream[e].got IN
    \A i \in 1 .. Len(got) : got[i] # 0 =>
      /\ got[i] <= stream[Peer(e)].written
      /\ \A j \in 1 .. (i - 1) : got[j] # got[i]
      /\ \A n \in 1 .. (got[i] - 1) : \E j \in 1 .. (i - 1) : got[j] = n

\* The stream is the pipe that StreamService promises.
Units(s) == {s.got[i] : i \in 1 .. Len(s.got)} \ {0}

WrittenFor == [e \in Ends |-> stream[Peer(e)].written]
DeliveredTo == [e \in Ends |-> Units(stream[e])]

Service == INSTANCE StreamService
             WITH Readers <- Ends, written <- WrittenFor, delivered <- DeliveredTo

\* Each step of the two ends writes one unit, or hands a reader the units that come
\* next, or is not visible to the applications.
ImplementsService == Service!Spec

\* Numbers given to a FIN that SendPacket has not sent yet.
Posted(s) == {s.ready[i].packet.seqn : i \in {j \in 1 .. Len(s.ready) : s.ready[j].run = "SendPacket"}}

Has(s, n) == n <= s.lastReceived \/ n \in Seqns(s.saved)

\* A packet stops being retransmitted by a live stream only when the peer holds it.
\* The first packet of the incoming end is the exception, see EarlySendIsFirstPacket.
AckedWasReceived ==
  \A e \in Ends : \A n \in 0 .. (stream[e].seqn - 1) :
    \/ Has(stream[Peer(e)], n)
    \/ n \in Seqns(stream[e].sent) \/ n \in Posted(stream[e])
    \/ e = "incoming" /\ n = 0

\* When an end reaches Closed on its own account, without having processed a FIN of
\* its peer, everything its application wrote has been received.
FinProcessed(e) ==
  \E p \in stream[Peer(e)].wire : p.fin /\ p.seqn <= stream[e].lastReceived

GracefulCloseDeliversAll ==
  \A e \in Ends :
    stream[e].status = "Closed" /\ ~FinProcessed(e) =>
      \A n \in 1 .. stream[e].written :
        \E p \in stream[e].wire : p.data = n /\ Has(stream[Peer(e)], p.seqn)

\* A live stream with unacknowledged packets has its resend timer waiting or its
\* handler queued: nothing waits for an acknowledgement for ever.
UnackedIsTimed ==
  \A e \in Ends :
    stream[e].attached /\ stream[e].sent # {} =>
      \/ stream[e].resendArmed
      \/ \E i \in 1 .. Len(stream[e].ready) : stream[e].ready[i].run = "HandleResendTimer"

\* Data never lies in the buffer of a live stream that could send it, unless a
\* SendBuffer is on its way.
NoLostWakeup ==
  \A e \in Ends :
    LET s == stream[e] IN
    s.attached /\ s.established /\ ~BufferIsEmpty(s) =>
      \/ Room(s) <= 0
      \/ \E i \in 1 .. Len(s.ready) : s.ready[i].run = "SendBuffer"

NothingIsStuck == UnackedIsTimed /\ NoLostWakeup

\* The gaps a receiver reports always fit into the NACK count of one packet, so
\* that SendQuickAck never has to acknowledge a packet that is missing.
NacksFit == \A e \in Ends : Overflowing(stream[e]) = {}

\* SendBuffer calls a stream that has received nothing yet one that sends its "first
\* packet": before the peer's SYN is there, only the own SYN goes out.
EarlySendIsFirstPacket ==
  [][\A e \in Ends : stream'[e].lastReceived < 0 =>
       \A p \in stream'[e].wire \ stream[e].wire : PlainAck(p) \/ p.seqn = 0]_stream

\* A stream that waits SYN_TIMEOUT for the SYN behind a follow-on packet is reset for
\* the lack of it when that time is over, not when the wait is merely cancelled.
SynTimeoutIsWaitedFor ==
  [][\A e \in Ends : NextJobIs(e, "AbortedAckSendTimer") /\ stream[e].status # "Reset"
       => stream'[e].status # "Reset"]_stream

\* Packets a live stream has sent are acknowledged in the end, or the stream gives up.
UnackedSettles ==
  \A e \in Ends : stream[e].sent # {} ~> (stream[e].sent = {} \/ ~stream[e].attached)

\* A stream that starts to close leaves the stream table of its destination.
ClosingEnds ==
  \A e \in Ends : stream[e].status = "Closing" ~> ~stream[e].attached

=============================================================================
