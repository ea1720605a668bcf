--------------------------- MODULE StreamingProofs ---------------------------
(* Proofs about module Streaming: the types of the two streams and in-order   *)
(* delivery, for every window, every bound and every number of units.         *)
(*                                                                            *)
(* Every member function of Stream is an operator on the state of one stream. *)
(* The inductive invariant is a predicate Good of one stream and of the list  *)
(* L of payloads its peer has numbered, and each lemma below says that one    *)
(* operator keeps it.                                                         *)
EXTENDS Streaming, FiniteSetTheorems, SequenceTheorems, TLAPS

----------------------------------------------------------------------------
(* Least and greatest elements of sets of numbers, which the provers do not  *)
(* know by themselves: the strict inclusions among the sets 0..n are well     *)
(* founded, so there is a smallest one.                                       *)

\* A non-empty set of naturals has a least element.
LEMMA LeastElement ==
  ASSUME NEW S \in SUBSET Nat, S # {}
  PROVE  \E m \in S : \A x \in S : m <= x
<1> DEFINE R == StrictSubsetOrdering(Nat)
           T == {0 .. n : n \in S}
<1>1. IsWellFoundedOn(R, FiniteSubsetsOf(Nat))
  BY FS_StrictSubsetOrderingWellFounded
<1>2. T \subseteq FiniteSubsetsOf(Nat)
  <2> SUFFICES ASSUME NEW n \in S PROVE 0 .. n \in FiniteSubsetsOf(Nat)
    OBVIOUS
  <2>1. IsFiniteSet(0 .. n) BY FS_Interval
  <2>2. 0 .. n \in SUBSET Nat OBVIOUS
  <2> QED BY <2>1, <2>2 DEF FiniteSubsetsOf
<1>3. T # {}
  OBVIOUS
<1> HIDE DEF R, T
<1>4. PICK I \in T : \A J \in T : <<J, I>> \notin R
  BY <1>1, <1>2, <1>3, WFMin
<1>5. PICK m \in S : I = 0 .. m
  BY DEF T
<1>6. ASSUME NEW x \in S, x < m PROVE FALSE
  <2> DEFINE A == 0 .. x
             B == 0 .. m
  <2>1. <<A, B>> \notin R
    BY <1>4, <1>5 DEF T
  <2>2. m \in B /\ m \notin A /\ A \subseteq B
    BY <1>6
  <2>3. <<A, B>> \in (SUBSET Nat) \X (SUBSET Nat)
    OBVIOUS
  <2> HIDE DEF A, B
  <2> QED BY <2>1, <2>2, <2>3 DEF R, StrictSubsetOrdering
<1> QED BY <1>6

\* A non-empty set of integers with an upper bound has a greatest element.
LEMMA GreatestElement ==
  ASSUME NEW S \in SUBSET Int, S # {}, NEW b \in Int, \A x \in S : x <= b
  PROVE  \E m \in S : \A x \in S : x <= m
<1> DEFINE D == {b - x : x \in S}
<1>1. D \in SUBSET Nat /\ D # {}
  <2>1. \A x \in S : b - x \in Nat
    OBVIOUS
  <2>2. D # {}
    OBVIOUS
  <2> QED BY <2>1, <2>2
<1>2. PICK d \in D : \A y \in D : d <= y
  <2> HIDE DEF D
  <2> QED BY <1>1, LeastElement
<1>3. PICK m \in S : d = b - m
  OBVIOUS
<1>4. \A x \in S : b - m <= b - x
  BY <1>2, <1>3
<1> QED BY <1>4

----------------------------------------------------------------------------
(* The inductive invariant.                                                  *)

\* A numbered packet carries the payload that the log has for its number.
Fits(L, p) == PlainAck(p) \/ (p.seqn < Len(L) /\ p.data = L[p.seqn + 1])

PostedPackets(s) ==
  {s.ready[i].packet : i \in {j \in 1 .. Len(s.ready) : s.ready[j].run = "SendPacket"}}

Outgoing(s) == s.wire \cup s.sent \cup PostedPackets(s)

\* The units occur in the log in their order, each once, and none is left out.
LogInOrder(L, taken) ==
  /\ \A i \in 1 .. Len(L) :
       /\ L[i] <= taken
       /\ L[i] # 0 => /\ \A j \in 1 .. (i - 1) : L[j] < L[i]
                      /\ \A n \in 1 .. (L[i] - 1) : \E j \in 1 .. (i - 1) : L[j] = n
  /\ \A n \in 1 .. taken : \E j \in 1 .. Len(L) : L[j] = n

SenderGood(s) ==
  /\ Len(s.log) = s.seqn
  /\ s.taken <= s.written
  /\ IsFiniteSet(s.sent)
  /\ \A p \in Outgoing(s) : Fits(s.log, p)
  /\ LogInOrder(s.log, s.taken)

Prefix(g, L) == Len(g) <= Len(L) /\ \A i \in 1 .. Len(g) : g[i] = L[i]

ReceiverGood(s, L) ==
  /\ Len(s.got) = s.lastReceived + 1
  /\ Prefix(s.got, L)
  /\ \A q \in s.saved : Fits(L, q) /\ ~PlainAck(q) /\ q.seqn > s.lastReceived + 1

Good(s, L) == s \in StreamStates /\ SenderGood(s) /\ ReceiverGood(s, L)

IInv ==
  /\ stream \in [Ends -> StreamStates]
  /\ \A e \in Ends : Good(stream[e], stream[Peer(e)].log)

(* What an operator does to a stream: Sends, when it leaves the receiving side *)
(* alone; Quiet, when it numbers no packet either.                             *)

Sends(s, t, L) ==
  /\ Good(t, L)
  /\ Prefix(s.log, t.log)
  /\ t.written = s.written
  /\ t.got = s.got /\ t.lastReceived = s.lastReceived /\ t.saved = s.saved

Quiet(s, t) ==
  /\ t \in StreamStates
  /\ t.log = s.log /\ t.seqn = s.seqn /\ t.taken = s.taken
  /\ t.written = s.written /\ s.taken <= s.written
  /\ t.got = s.got /\ t.lastReceived = s.lastReceived /\ t.saved = s.saved
  /\ t.sent \subseteq s.sent
  /\ \A p \in Outgoing(t) : p \in Outgoing(s) \/ PlainAck(p)

LEMMA QuietSends ==
  ASSUME NEW s, NEW t, NEW L \in Seq(Nat), Good(s, L), Quiet(s, t)
  PROVE  Sends(s, t, L)
<1>1. IsFiniteSet(t.sent)
  BY FS_Subset DEF Good, SenderGood, Quiet
<1>2. Prefix(s.log, t.log)
  BY DEF Prefix, Quiet, StreamStates
<1>3. \A p \in Outgoing(t) : Fits(t.log, p)
  BY DEF Good, SenderGood, Quiet, Fits
<1>4. SenderGood(t)
  BY <1>1, <1>3 DEF Good, SenderGood, Quiet
<1> QED BY <1>2, <1>4 DEF Sends, Good, ReceiverGood, Quiet

LEMMA SendsTransitive ==
  ASSUME NEW s \in StreamStates, NEW t \in StreamStates, NEW u, NEW L \in Seq(Nat),
         Sends(s, t, L), Sends(t, u, L)
  PROVE  Sends(s, u, L)
<1>1. u \in StreamStates
  BY DEF Sends, Good
<1>2. s.log \in Seq(Nat) /\ t.log \in Seq(Nat) /\ u.log \in Seq(Nat)
  BY <1>1 DEF StreamStates
<1>3. Prefix(s.log, u.log)
  BY <1>2 DEF Sends, Prefix
<1> QED BY <1>3 DEF Sends

----------------------------------------------------------------------------
(* Operators that number no packet.                                          *)

LEMMA JobType == \A h \in Handlers : Job(h) \in Jobs
BY DEF Job, Jobs, NoPacket, Packets

\* Queueing a handler that carries no packet changes nothing but the queue.
LEMMA PostQuiet ==
  ASSUME NEW s \in StreamStates, NEW h \in Handlers \ {"SendPacket"}
  PROVE  /\ [s EXCEPT !.ready = Append(@, Job(h))] \in StreamStates
         /\ PostedPackets([s EXCEPT !.ready = Append(@, Job(h))]) = PostedPackets(s)
<1> DEFINE r == Append(s.ready, Job(h))
<1>1. Job(h) \in Jobs /\ Job(h).run # "SendPacket"
  BY JobType DEF Job
<1>2. s.ready \in Seq(Jobs)
  BY DEF StreamStates
<1>3. /\ r \in Seq(Jobs) /\ Len(r) = Len(s.ready) + 1
      /\ \A i \in 1 .. Len(s.ready) : r[i] = s.ready[i]
      /\ r[Len(s.ready) + 1] = Job(h)
  BY <1>1, <1>2, AppendProperties
<1>4. \A i \in 1 .. Len(r) : r[i].run = "SendPacket" =>
        i \in 1 .. Len(s.ready) /\ r[i] = s.ready[i]
  BY <1>1, <1>2, <1>3
<1>5. [s EXCEPT !.ready = r] \in StreamStates
  BY <1>3 DEF StreamStates
<1>6. [s EXCEPT !.ready = r].ready = r
  BY DEF StreamStates
<1> HIDE DEF r
<1>7. PostedPackets([s EXCEPT !.ready = r]) = PostedPackets(s)
  BY SMTT(30), <1>2, <1>3, <1>4, <1>6 DEF PostedPackets
<1> QED BY <1>5, <1>7 DEF r

LEMMA CancelQuiet ==
  ASSUME NEW s \in StreamStates, s.taken <= s.written
  PROVE  Quiet(s, CancelAckSendTimer(s))
<1> DEFINE t == [s EXCEPT !.ready = Append(@, Job("AbortedAckSendTimer"))]
<1>1. t \in StreamStates /\ PostedPackets(t) = PostedPackets(s)
  BY PostQuiet DEF Handlers
<1> DEFINE u == [s EXCEPT !.ackArmed = FALSE, !.ready = Append(@, Job("AbortedAckSendTimer"))]
<1>2. u \in StreamStates
  BY <1>1 DEF StreamStates
<1>3. PostedPackets(u) = PostedPackets(s)
  <2>1. u.ready = t.ready BY DEF StreamStates
  <2> QED BY <1>1, <2>1 DEF PostedPackets
<1>4. CASE s.ackArmed
  BY <1>2, <1>3, <1>4 DEF Quiet, CancelAckSendTimer, Outgoing, StreamStates
<1>5. CASE ~s.ackArmed
  BY <1>5 DEF Quiet, CancelAckSendTimer, Outgoing
<1> QED BY <1>4, <1>5

LEMMA QuietTransitive ==
  ASSUME NEW s \in StreamStates, NEW t, NEW u, Quiet(s, t), Quiet(t, u)
  PROVE  Quiet(s, u)
<1>1. t \in StreamStates /\ u \in StreamStates
  BY DEF Quiet
<1>2. s.taken <= u.written
  BY <1>1 DEF Quiet, StreamStates
<1> QED BY <1>1, <1>2 DEF Quiet

\* Changes to the flags, timers, window and status are quiet.
LEMMA FieldsQuiet ==
  ASSUME NEW s \in StreamStates, s.taken <= s.written, NEW t \in StreamStates,
         t.log = s.log, t.seqn = s.seqn, t.taken = s.taken, t.written = s.written,
         t.got = s.got, t.lastReceived = s.lastReceived, t.saved = s.saved,
         t.sent \subseteq s.sent, t.wire = s.wire, t.ready = s.ready
  PROVE  Quiet(s, t)
<1>1. PostedPackets(t) = PostedPackets(s)
  BY DEF PostedPackets
<1> QED BY <1>1 DEF Quiet, Outgoing

LEMMA FlagsQuiet ==
  ASSUME NEW s \in StreamStates, s.taken <= s.written
  PROVE  /\ Quiet(s, [s EXCEPT !.ackScheduled = TRUE, !.ackArmed = TRUE])
         /\ Quiet(s, [s EXCEPT !.ackScheduled = FALSE])
         /\ Quiet(s, [s EXCEPT !.resendArmed = FALSE, !.attached = FALSE])
<1> SUFFICES ASSUME NEW t,
               \/ t = [s EXCEPT !.ackScheduled = TRUE, !.ackArmed = TRUE]
               \/ t = [s EXCEPT !.ackScheduled = FALSE]
               \/ t = [s EXCEPT !.resendArmed = FALSE, !.attached = FALSE]
             PROVE  Quiet(s, t)
  OBVIOUS
<1>1. /\ t \in StreamStates
      /\ t.log = s.log /\ t.seqn = s.seqn /\ t.taken = s.taken /\ t.written = s.written
      /\ t.got = s.got /\ t.lastReceived = s.lastReceived /\ t.saved = s.saved
      /\ t.sent = s.sent /\ t.wire = s.wire /\ t.ready = s.ready
  <2>1. CASE t = [s EXCEPT !.ackScheduled = TRUE, !.ackArmed = TRUE]
    BY <2>1 DEF StreamStates
  <2>2. CASE t = [s EXCEPT !.ackScheduled = FALSE]
    BY <2>2 DEF StreamStates
  <2>3. CASE t = [s EXCEPT !.resendArmed = FALSE, !.attached = FALSE]
    BY <2>3 DEF StreamStates
  <2> QED BY <2>1, <2>2, <2>3
<1> QED BY <1>1, FieldsQuiet

LEMMA ArmQuiet ==
  ASSUME NEW s \in StreamStates, s.taken <= s.written
  PROVE  Quiet(s, ArmAckSendTimer(s))
<1> DEFINE t == CancelAckSendTimer(s)
<1>1. Quiet(s, t) BY CancelQuiet
<1>2. t \in StreamStates /\ t.taken <= t.written BY <1>1 DEF Quiet
<1> HIDE DEF t
<1> DEFINE u == [t EXCEPT !.ackScheduled = TRUE, !.ackArmed = TRUE]
<1>3. Quiet(t, u)
  BY <1>2, FlagsQuiet
<1>4. Quiet(s, u) BY <1>1, <1>3, QuietTransitive
<1> QED BY <1>4 DEF ArmAckSendTimer, t

LEMMA StopQuiet ==
  ASSUME NEW s \in StreamStates, s.taken <= s.written
  PROVE  Quiet(s, StopAckSend(s))
<1> DEFINE t == CancelAckSendTimer(s)
<1>1. Quiet(s, t) BY CancelQuiet
<1>2. t \in StreamStates /\ t.taken <= t.written BY <1>1 DEF Quiet
<1> HIDE DEF t
<1> DEFINE u == [t EXCEPT !.ackScheduled = FALSE]
<1>3. Quiet(t, u)
  BY <1>2, FlagsQuiet
<1>4. Quiet(s, u) BY <1>1, <1>3, QuietTransitive
<1> QED BY <1>4 DEF StopAckSend, t

LEMMA TerminateQuiet ==
  ASSUME NEW s \in StreamStates, s.taken <= s.written
  PROVE  Quiet(s, Terminate(s))
<1> DEFINE t == CancelAckSendTimer(s)
<1>1. Quiet(s, t) BY CancelQuiet
<1>2. t \in StreamStates /\ t.taken <= t.written BY <1>1 DEF Quiet
<1> HIDE DEF t
<1> DEFINE u == [t EXCEPT !.resendArmed = FALSE, !.attached = FALSE]
<1>3. Quiet(t, u)
  BY <1>2, FlagsQuiet
<1>4. Quiet(s, u) BY <1>1, <1>3, QuietTransitive
<1> QED BY <1>4 DEF Terminate, t

LEMMA SendPacketsQuiet ==
  ASSUME NEW s \in StreamStates, s.taken <= s.written, NEW P \in SUBSET Packets,
         \A p \in P : p \in Outgoing(s) \/ PlainAck(p)
  PROVE  Quiet(s, SendPackets(s, P))
<1> DEFINE t == SendPackets(s, P)
<1>1. t \in StreamStates
  BY DEF SendPackets, StreamStates
<1>2. t.wire = s.wire \cup P /\ t.sent = s.sent /\ t.ready = s.ready
  BY DEF SendPackets, StreamStates
<1>3. PostedPackets(t) = PostedPackets(s)
  BY <1>2 DEF PostedPackets
<1>4. \A p \in Outgoing(t) : p \in Outgoing(s) \/ PlainAck(p)
  BY <1>2, <1>3 DEF Outgoing
<1> QED BY <1>1, <1>2, <1>4 DEF Quiet, SendPackets, StreamStates

----------------------------------------------------------------------------
(* Sending numbered packets.                                                 *)

LEMMA SendAndTrackSends ==
  ASSUME NEW s, NEW L \in Seq(Nat), Good(s, L),
         NEW P \in SUBSET Packets, IsFiniteSet(P), \A p \in P : Fits(s.log, p)
  PROVE  Sends(s, SendAndTrack(s, P), L)
<1> DEFINE t == SendAndTrack(s, P)
<1>1. s \in StreamStates
  BY DEF Good
<1>2. /\ t \in StreamStates
      /\ t.wire = s.wire \cup P /\ t.sent = s.sent \cup P /\ t.ready = s.ready
      /\ t.log = s.log /\ t.seqn = s.seqn /\ t.taken = s.taken /\ t.written = s.written
      /\ t.got = s.got /\ t.lastReceived = s.lastReceived /\ t.saved = s.saved
  BY <1>1 DEF SendAndTrack, SendPackets, ScheduleResend, StreamStates
<1> HIDE DEF t
<1>3. PostedPackets(t) = PostedPackets(s)
  BY <1>2 DEF PostedPackets
<1>4. \A p \in Outgoing(t) : Fits(t.log, p)
  BY <1>2, <1>3 DEF Outgoing, Good, SenderGood
<1>5. IsFiniteSet(t.sent)
  <2>1. IsFiniteSet(s.sent) BY DEF Good, SenderGood
  <2>2. IsFiniteSet(s.sent \cup P) BY <2>1, FS_Union
  <2> QED BY <1>2, <2>2
<1>6. Prefix(s.log, t.log)
  BY <1>1, <1>2 DEF Prefix, StreamStates
<1>7. SenderGood(t)
  BY <1>2, <1>4, <1>5 DEF Good, SenderGood
<1> QED BY <1>2, <1>6, <1>7 DEF Sends, Good, ReceiverGood, t

\* A packet that fits the log fits every extension of the log.
LEMMA FitsExtension ==
  ASSUME NEW L \in Seq(Nat), NEW M \in Seq(Nat), Prefix(L, M), NEW p \in Packets, Fits(L, p)
  PROVE  Fits(M, p)
<1>1. CASE PlainAck(p)
  BY <1>1 DEF Fits
<1>2. CASE ~PlainAck(p)
  <2>1. p.seqn \in Nat /\ p.seqn < Len(L) /\ p.data = L[p.seqn + 1]
    BY <1>2 DEF Fits, Packets
  <2>2. p.seqn + 1 \in 1 .. Len(L) /\ Len(L) <= Len(M)
    BY <2>1 DEF Prefix
  <2>3. L[p.seqn + 1] = M[p.seqn + 1]
    BY <2>2 DEF Prefix
  <2> QED BY <2>1, <2>2, <2>3 DEF Fits
<1> QED BY <1>1, <1>2

LEMMA FinPacketType ==
  ASSUME NEW s \in StreamStates, NEW last \in Nat \cup {-1}
  PROVE  /\ FinPacket(s, last) \in Packets
         /\ [run |-> "SendPacket", packet |-> FinPacket(s, last)] \in Jobs
BY DEF FinPacket, Packets, Jobs, Handlers, StreamStates

LEMMA SendCloseAfterSends ==
  ASSUME NEW s, NEW L \in Seq(Nat), Good(s, L), NEW last \in Nat \cup {-1}
  PROVE  Sends(s, SendCloseAfter(s, last), L)
<1> DEFINE f == FinPacket(s, last)
           j == [run |-> "SendPacket", packet |-> f]
           t == SendCloseAfter(s, last)
<1>1. s \in StreamStates
  BY DEF Good
<1>2. f \in Packets /\ j \in Jobs
  BY <1>1, FinPacketType
<1>3. /\ s.ready \in Seq(Jobs) /\ s.log \in Seq(Nat) /\ s.seqn \in Nat
      /\ s.sent \subseteq Packets /\ s.wire \subseteq Packets
  BY <1>1 DEF StreamStates
<1>4. /\ Append(s.log, 0) \in Seq(Nat) /\ Len(Append(s.log, 0)) = Len(s.log) + 1
      /\ \A i \in 1 .. Len(s.log) : Append(s.log, 0)[i] = s.log[i]
      /\ Append(s.log, 0)[Len(s.log) + 1] = 0
  BY <1>3, AppendProperties
<1>5. f.seqn = s.seqn /\ f.data = 0
  BY DEF FinPacket
<1> HIDE DEF f
<1>6. /\ Append(s.ready, j) \in Seq(Jobs) /\ Len(Append(s.ready, j)) = Len(s.ready) + 1
      /\ \A i \in 1 .. Len(s.ready) : Append(s.ready, j)[i] = s.ready[i]
      /\ Append(s.ready, j)[Len(s.ready) + 1] = j
  BY <1>2, <1>3, AppendProperties
<1>7. /\ t \in StreamStates
      /\ t.log = Append(s.log, 0) /\ t.seqn = s.seqn + 1 /\ t.ready = Append(s.ready, j)
      /\ t.wire = s.wire /\ t.sent = s.sent /\ t.taken = s.taken /\ t.written = s.written
      /\ t.got = s.got /\ t.lastReceived = s.lastReceived /\ t.saved = s.saved
  <2>1. t = [s EXCEPT !.seqn = @ + 1, !.log = Append(@, 0), !.ready = Append(@, j)]
    BY DEF SendCloseAfter, f
  <2> HIDE DEF t, j
  <2>2. s.seqn + 1 \in Nat
    BY <1>3
  <2>3. Append(s.log, 0) \in Seq(Nat) /\ Append(s.ready, j) \in Seq(Jobs)
    BY <1>4, <1>6 DEF j
  <2> QED BY <2>1, <2>2, <2>3, <1>1 DEF StreamStates
<1> HIDE DEF t
<1>8. Prefix(s.log, t.log)
  BY <1>3, <1>4, <1>7 DEF Prefix
<1>9. Len(s.log) = s.seqn
  BY DEF Good, SenderGood
<1>10. Fits(t.log, f)
  BY <1>3, <1>4, <1>5, <1>7, <1>9 DEF Fits
<1>11. \A p \in PostedPackets(t) : p = f \/ p \in PostedPackets(s)
  <2> SUFFICES ASSUME NEW i \in 1 .. Len(t.ready), t.ready[i].run = "SendPacket"
               PROVE  t.ready[i].packet = f \/ t.ready[i].packet \in PostedPackets(s)
    BY DEF PostedPackets
  <2>1. CASE i = Len(s.ready) + 1
    BY <2>1, <1>6, <1>7
  <2>2. CASE i \in 1 .. Len(s.ready)
    <3>1. t.ready[i] = s.ready[i]
      BY <2>2, <1>6, <1>7
    <3> QED BY <2>2, <3>1 DEF PostedPackets
  <2> QED BY <2>1, <2>2, <1>3, <1>6, <1>7
<1>12. \A p \in Outgoing(t) : p = f \/ p \in Outgoing(s)
  BY <1>7, <1>11 DEF Outgoing
<1>13. \A p \in Outgoing(s) : p \in Packets
  <2>1. \A i \in 1 .. Len(s.ready) : s.ready[i].packet \in Packets
    <3>1. \A i \in 1 .. Len(s.ready) : s.ready[i] \in Jobs BY <1>3
    <3> QED BY <3>1 DEF Jobs
  <2> QED BY <2>1, <1>3 DEF Outgoing, PostedPackets
<1>14. \A p \in Outgoing(t) : Fits(t.log, p)
  BY <1>3, <1>7, <1>8, <1>10, <1>12, <1>13, FitsExtension DEF Good, SenderGood, StreamStates
<1>15. LogInOrder(t.log, t.taken)
  <2>1. LogInOrder(s.log, s.taken) /\ s.taken \in Nat
    BY <1>1 DEF Good, SenderGood, StreamStates
  <2>2. Len(t.log) = Len(s.log) + 1 /\ Len(s.log) \in Nat
    BY <1>3, <1>4, <1>7
  <2> DEFINE M == t.log
             N == s.log
             k == s.taken
  <2>3. /\ t.taken = k /\ k \in Nat /\ Len(M) = Len(N) + 1 /\ Len(N) \in Nat
        /\ \A i \in 1 .. Len(N) : M[i] = N[i]
        /\ M[Len(N) + 1] = 0
    BY <2>1, <2>2, <1>4, <1>7
  <2>4. LogInOrder(N, k)
    BY <2>1
  <2> HIDE DEF M, N, k
  <2>5. ASSUME NEW i \in 1 .. Len(M)
        PROVE  /\ M[i] <= k
               /\ M[i] # 0 => /\ \A j1 \in 1 .. (i - 1) : M[j1] < M[i]
                              /\ \A n \in 1 .. (M[i] - 1) : \E j1 \in 1 .. (i - 1) : M[j1] = n
    <3>1. CASE i = Len(N) + 1
      BY <3>1, <2>3
    <3>2. CASE i \in 1 .. Len(N)
      <4>1. M[i] = N[i] /\ \A j1 \in 1 .. (i - 1) : M[j1] = N[j1]
        BY <3>2, <2>3
      <4> QED BY <3>2, <4>1, <2>4 DEF LogInOrder
    <3> QED BY <3>1, <3>2, <2>3
  <2>6. \A n \in 1 .. k : \E i \in 1 .. Len(M) : M[i] = n
    <3> SUFFICES ASSUME NEW n \in 1 .. k PROVE \E i \in 1 .. Len(M) : M[i] = n
      OBVIOUS
    <3>1. PICK i \in 1 .. Len(N) : N[i] = n
      BY <2>4 DEF LogInOrder
    <3> QED BY <3>1, <2>3
  <2>7. LogInOrder(M, k)
    BY <2>5, <2>6 DEF LogInOrder
  <2> QED BY <2>3, <2>7 DEF M
<1>16. SenderGood(t)
  BY <1>7, <1>9, <1>4, <1>14, <1>15 DEF SenderGood, Good
<1>17. ReceiverGood(t, L)
  BY <1>7 DEF ReceiverGood, Good
<1> QED BY <1>7, <1>8, <1>16, <1>17 DEF Sends, Good, t
----------------------------------------------------------------------------
(* Close.                                                                    *)

LEMMA GoodTaken ==
  ASSUME NEW s, NEW L, Good(s, L)
  PROVE  s \in StreamStates /\ s.taken <= s.written
BY DEF Good, SenderGood

LEMMA StatusQuiet ==
  ASSUME NEW s \in StreamStates, s.taken <= s.written, NEW x \in Statuses
  PROVE  Quiet(s, [s EXCEPT !.status = x])
<1> DEFINE t == [s EXCEPT !.status = x]
<1>1. /\ t \in StreamStates
      /\ t.log = s.log /\ t.seqn = s.seqn /\ t.taken = s.taken /\ t.written = s.written
      /\ t.got = s.got /\ t.lastReceived = s.lastReceived /\ t.saved = s.saved
      /\ t.sent = s.sent /\ t.wire = s.wire /\ t.ready = s.ready
  BY DEF StreamStates
<1> HIDE DEF t
<1>3. Quiet(s, t)
  BY <1>1, FieldsQuiet
<1> QED BY <1>3 DEF t

LEMMA StatusSends ==
  ASSUME NEW s, NEW L \in Seq(Nat), Good(s, L), NEW x \in Statuses
  PROVE  Sends(s, [s EXCEPT !.status = x], L)
BY GoodTaken, StatusQuiet, QuietSends

LEMMA TerminateSends ==
  ASSUME NEW s, NEW L \in Seq(Nat), Good(s, L)
  PROVE  Sends(s, Terminate(s), L)
BY GoodTaken, TerminateQuiet, QuietSends

LEMMA SendCloseSends ==
  ASSUME NEW s, NEW L \in Seq(Nat), Good(s, L)
  PROVE  Sends(s, SendClose(s), L)
<1>1. s \in StreamStates
  BY GoodTaken
<1>2. s.lastReceived \in Nat \cup {-1}
  BY <1>1 DEF StreamStates
<1>3. Sends(s, SendCloseAfter(s, s.lastReceived), L)
  BY <1>2, SendCloseAfterSends
<1> QED BY <1>3 DEF SendClose

\* Doing nothing is a way of sending.
LEMMA SendsReflexive ==
  ASSUME NEW s, NEW L \in Seq(Nat), Good(s, L)
  PROVE  Sends(s, s, L)
BY GoodTaken DEF Sends, Prefix, StreamStates

\* Two operators in a row.
LEMMA SendsThen ==
  ASSUME NEW s, NEW t, NEW u, NEW L \in Seq(Nat), Good(s, L), Sends(s, t, L), Sends(t, u, L)
  PROVE  Sends(s, u, L)
<1>1. s \in StreamStates /\ t \in StreamStates
  BY GoodTaken DEF Sends, Good
<1> QED BY <1>1, SendsTransitive

LEMMA CloseWhenSentSends ==
  ASSUME NEW s, NEW L \in Seq(Nat), Good(s, L)
  PROVE  Sends(s, CloseWhenSent(s), L)
<1> DEFINE t == [s EXCEPT !.status = "Closed"]
<1>1. Sends(s, t, L)
  BY StatusSends DEF Statuses
<1>2. Good(t, L)
  BY <1>1 DEF Sends
<1>3. Sends(s, SendClose(t), L)
  <2> HIDE DEF t
  <2> QED BY <1>1, <1>2, SendCloseSends, SendsThen
<1> QED BY <1>3, SendsReflexive DEF CloseWhenSent

LEMMA CloseSends ==
  ASSUME NEW s, NEW L \in Seq(Nat), Good(s, L)
  PROVE  Sends(s, Close(s), L)
<1> DEFINE t == [s EXCEPT !.status = "Closing"]
<1>1. Sends(s, t, L)
  BY StatusSends DEF Statuses
<1>2. Good(t, L)
  BY <1>1 DEF Sends
<1>3. Sends(s, CloseWhenSent(t), L)
  <2> HIDE DEF t
  <2> QED BY <1>1, <1>2, CloseWhenSentSends, SendsThen
<1>4. Sends(s, CloseWhenSent(s), L) /\ Sends(s, Terminate(s), L) /\ Sends(s, s, L)
  BY CloseWhenSentSends, TerminateSends, SendsReflexive
<1> HIDE DEF t
<1>5. \/ Close(s) = CloseWhenSent(t) \/ Close(s) = CloseWhenSent(s)
      \/ Close(s) = Terminate(s) \/ Close(s) = s
  BY DEF Close, t
<1> QED BY <1>3, <1>4, <1>5

LEMMA ResetAndCloseSends ==
  ASSUME NEW s, NEW L \in Seq(Nat), Good(s, L)
  PROVE  Sends(s, ResetAndClose(s), L)
<1> DEFINE t == [s EXCEPT !.status = "Reset"]
<1>1. Sends(s, t, L)
  BY StatusSends DEF Statuses
<1>2. Good(t, L)
  BY <1>1 DEF Sends
<1>3. Sends(s, Close(t), L)
  <2> HIDE DEF t
  <2> QED BY <1>1, <1>2, CloseSends, SendsThen
<1> QED BY <1>3 DEF ResetAndClose

----------------------------------------------------------------------------
(* SendBuffer.                                                               *)

LEMMA LeastType ==
  ASSUME NEW m \in Int, NEW n \in Int
  PROVE  Least(m, n) \in {m, n} /\ Least(m, n) <= m /\ Least(m, n) <= n
BY DEF Least

LEMMA NumToSendType ==
  ASSUME NEW s, NEW L \in Seq(Nat), Good(s, L), Room(s) > 0
  PROVE  NumToSend(s) \in Nat
<1>1. s \in StreamStates /\ s.taken <= s.written
  BY GoodTaken
<1>2. Cardinality(s.sent) \in Nat
  BY FS_CardinalityType DEF Good, SenderGood
<1>3. s.window \in Nat /\ s.taken \in Nat /\ s.written \in Nat
  BY <1>1 DEF StreamStates
<1>4. Room(s) \in Int /\ Pending(s) \in Nat
  BY <1>1, <1>2, <1>3 DEF Room, Pending
<1>5. Least(Room(s), Pending(s)) \in Nat
  BY <1>4, LeastType
<1>6. Pending(s) > 0 => Least(Room(s), Pending(s)) - 1 \in Nat
  BY <1>4, LeastType
<1> QED BY <1>5, <1>6 DEF NumToSend

LEMMA PayloadType ==
  ASSUME NEW s \in StreamStates, NEW i \in Int, i >= s.seqn
  PROVE  /\ PayloadAt(s, i) \in Nat
         /\ PayloadAt(s, i) = IF s.taken + 1 + (i - s.seqn) <= s.written
                                THEN s.taken + 1 + (i - s.seqn) ELSE 0
BY DEF PayloadAt, StreamStates

\* The log a batch of n packets leaves behind still lists the units in order.
LEMMA LogExtended ==
  ASSUME NEW L \in Seq(Nat), NEW M \in Seq(Nat), NEW n \in Nat,
         NEW taken \in Nat, NEW written \in Nat, taken <= written,
         LogInOrder(L, taken), Prefix(L, M), Len(M) = Len(L) + n,
         \A i \in (Len(L) + 1) .. (Len(L) + n) :
           M[i] = IF taken + (i - Len(L)) <= written THEN taken + (i - Len(L)) ELSE 0
  PROVE  LogInOrder(M, Least(taken + n, written))
<1> DEFINE k == Least(taken + n, written)
           N == Len(L)
<1>1. /\ k \in Nat /\ taken <= k /\ k <= taken + n /\ k <= written
      /\ k = taken + n \/ k = written
  BY DEF Least
<1>2. N \in Nat /\ Len(M) = N + n /\ \A i \in 1 .. N : M[i] = L[i]
  BY DEF Prefix
<1>3. \A i \in (N + 1) .. (N + n) :
        M[i] = IF taken + (i - N) <= written THEN taken + (i - N) ELSE 0
  OBVIOUS
<1>4. M \in [1 .. (N + n) -> Nat] /\ L \in [1 .. N -> Nat]
  BY SMTT(30), <1>2
<1> HIDE DEF k, N
<1>5. \A i \in 1 .. N : /\ L[i] <= taken
                        /\ L[i] # 0 =>
                             /\ \A j \in 1 .. (i - 1) : L[j] < L[i]
                             /\ \A m \in 1 .. (L[i] - 1) : \E j \in 1 .. (i - 1) : L[j] = m
  BY DEF LogInOrder, N
<1>6. \A m \in 1 .. taken : \E j \in 1 .. N : L[j] = m
  BY DEF LogInOrder, N
<1>7. ASSUME NEW i \in 1 .. (N + n)
      PROVE  /\ M[i] <= k
             /\ M[i] # 0 => /\ \A j \in 1 .. (i - 1) : M[j] < M[i]
                            /\ \A m \in 1 .. (M[i] - 1) : \E j \in 1 .. (i - 1) : M[j] = m
  <2>1. CASE i \in 1 .. N
    <3>1. M[i] = L[i] /\ \A j \in 1 .. (i - 1) : M[j] = L[j]
      BY <2>1, <1>2
    <3>2. M[i] <= k
      <4>1. L[i] <= taken /\ L[i] \in Nat
        BY <2>1, <1>2, <1>4, <1>5
      <4> QED BY <3>1, <4>1, <1>1
    <3>3. ASSUME M[i] # 0
          PROVE  /\ \A j \in 1 .. (i - 1) : M[j] < M[i]
                 /\ \A m \in 1 .. (M[i] - 1) : \E j \in 1 .. (i - 1) : M[j] = m
      <4>1. \A j \in 1 .. (i - 1) : L[j] < L[i]
        BY <2>1, <3>1, <3>3, <1>5
      <4>2. \A m \in 1 .. (L[i] - 1) : \E j \in 1 .. (i - 1) : L[j] = m
        BY <2>1, <3>1, <3>3, <1>5
      <4>3. M[i] = L[i] BY <3>1
      <4>4. \A j \in 1 .. (i - 1) : M[j] < M[i]
        BY <4>1, <4>3, <3>1
      <4>5. \A m \in 1 .. (M[i] - 1) : \E j \in 1 .. (i - 1) : M[j] = m
        <5> SUFFICES ASSUME NEW m \in 1 .. (M[i] - 1)
                     PROVE  \E j \in 1 .. (i - 1) : M[j] = m
          OBVIOUS
        <5>1. PICK j \in 1 .. (i - 1) : L[j] = m
          BY <4>2, <4>3
        <5> QED BY <5>1, <3>1
      <4> QED BY <4>4, <4>5
    <3> QED BY <3>2, <3>3
  <2>2. CASE i \in (N + 1) .. (N + n)
    <3>1. M[i] <= k
      <4>1. i - N \in 1 .. n
        BY <2>2, <1>2
      <4>2. M[i] = 0 \/ (M[i] = taken + (i - N) /\ taken + (i - N) <= written)
        BY <2>2, <1>3
      <4> QED BY <4>1, <4>2, <1>1
    <3>2. ASSUME M[i] # 0
          PROVE  /\ \A j \in 1 .. (i - 1) : M[j] < M[i]
                 /\ \A m \in 1 .. (M[i] - 1) : \E j \in 1 .. (i - 1) : M[j] = m
      <4>1. M[i] = taken + (i - N) /\ taken + (i - N) <= written
        BY <2>2, <3>2, <1>3
      <4>2. ASSUME NEW j \in 1 .. (i - 1) PROVE M[j] < M[i]
        <5>1. CASE j \in 1 .. N
          <6>1. M[j] = L[j] /\ L[j] <= taken /\ L[j] \in Nat
            BY <5>1, <1>2, <1>4, <1>5
          <6> QED BY <6>1, <4>1, <2>2, <1>2
        <5>2. CASE j \in (N + 1) .. (N + n)
          <6>1. M[j] = taken + (j - N) \/ M[j] = 0
            BY <5>2, <1>3
          <6> QED BY <6>1, <4>1, <5>2, <2>2, <1>2
        <5> QED BY <5>1, <5>2, <2>2, <1>2
      <4>3. ASSUME NEW m \in 1 .. (M[i] - 1)
            PROVE  \E j \in 1 .. (i - 1) : M[j] = m
        <5>1. CASE m <= taken
          <6>1. PICK j \in 1 .. N : L[j] = m
            <7>1. m \in 1 .. taken
              BY <5>1, <4>1, <2>2, <1>2
            <7> QED BY <7>1, <1>6
          <6>2. j \in 1 .. (i - 1) /\ M[j] = m
            BY <6>1, <1>2, <2>2
          <6> QED BY <6>2
        <5>2. CASE m > taken
          <6> DEFINE j == N + (m - taken)
          <6>1. j \in (N + 1) .. (N + n) /\ j \in 1 .. (i - 1)
            BY <5>2, <4>1, <2>2, <1>2
          <6>2. taken + (j - N) = m /\ m <= written
            BY <4>1, <1>2, <2>2, <5>2
          <6>3. M[j] = m
            <7> HIDE DEF j
            <7> QED BY <6>1, <6>2, <1>3
          <6> QED BY <6>1, <6>3
        <5> QED BY <5>1, <5>2, <4>1, <2>2, <1>2
      <4> QED BY <4>2, <4>3
    <3> QED BY <3>1, <3>2
  <2> QED BY <2>1, <2>2, <1>2
<1>8. ASSUME NEW m \in 1 .. k
      PROVE  \E j \in 1 .. (N + n) : M[j] = m
  <2>1. CASE m <= taken
    <3>1. PICK j \in 1 .. N : L[j] = m
      <4>1. m \in 1 .. taken BY <2>1, <1>1
      <4> QED BY <4>1, <1>6
    <3> QED BY <3>1, <1>2
  <2>2. CASE m > taken
    <3> DEFINE j == N + (m - taken)
    <3>1. j \in (N + 1) .. (N + n) /\ j \in 1 .. (N + n) /\ taken + (j - N) = m /\ m <= written
      BY <2>2, <1>1, <1>2
    <3>2. M[j] = m
      <4> HIDE DEF j
      <4> QED BY <3>1, <1>3
    <3> QED BY <3>1, <3>2
  <2> QED BY <2>1, <2>2, <1>1
<1>9. LogInOrder(M, k)
  BY <1>2, <1>7, <1>8 DEF LogInOrder
<1> QED BY <1>9 DEF k

LEMMA OutgoingType ==
  ASSUME NEW s \in StreamStates
  PROVE  \A p \in Outgoing(s) : p \in Packets
<1>1. s.ready \in Seq(Jobs) /\ s.sent \subseteq Packets /\ s.wire \subseteq Packets
  BY DEF StreamStates
<1>2. \A i \in 1 .. Len(s.ready) : s.ready[i] \in Jobs
  BY <1>1
<1>3. \A i \in 1 .. Len(s.ready) : s.ready[i].packet \in Packets
  BY <1>2 DEF Jobs
<1> QED BY <1>1, <1>3 DEF Outgoing, PostedPackets

LEMMA RoomType ==
  ASSUME NEW s, NEW L, Good(s, L)
  PROVE  Room(s) \in Int
<1>1. Cardinality(s.sent) \in Nat
  BY FS_CardinalityType DEF Good, SenderGood
<1>2. s.window \in Nat
  BY GoodTaken DEF StreamStates
<1> QED BY <1>1, <1>2 DEF Room

LEMMA QuietReflexive ==
  ASSUME NEW s \in StreamStates, s.taken <= s.written
  PROVE  Quiet(s, s)
BY DEF Quiet

\* What SendBuffer looks at when it builds its packets.
SameForBuffer(s, t) ==
  /\ s.status = t.status /\ s.established = t.established /\ s.seqn = t.seqn
  /\ s.lastReceived = t.lastReceived /\ s.sent = t.sent /\ s.window = t.window
  /\ s.written = t.written /\ s.taken = t.taken

LEMMA BufferSame ==
  ASSUME NEW s, NEW t, SameForBuffer(s, t)
  PROVE  BufferPackets(s) = BufferPackets(t) /\ NumToSend(t) = NumToSend(s)
<1>1. NumToSend(t) = NumToSend(s)
  BY DEF SameForBuffer, NumToSend, Room, Pending
<1>2. \A i : BufferPacket(s, i) = BufferPacket(t, i)
  BY DEF SameForBuffer, BufferPacket, PayloadAt
<1> QED BY <1>1, <1>2 DEF SameForBuffer, BufferPackets

LEMMA StopSame ==
  ASSUME NEW s \in StreamStates
  PROVE  SameForBuffer(s, StopAckSend(s))
<1> DEFINE r == Append(s.ready, Job("AbortedAckSendTimer"))
<1>1. CASE s.ackArmed
  <2>1. StopAckSend(s) = [[s EXCEPT !.ackArmed = FALSE, !.ready = r] EXCEPT !.ackScheduled = FALSE]
    BY <1>1 DEF StopAckSend, CancelAckSendTimer
  <2> HIDE DEF r
  <2> QED BY <2>1 DEF SameForBuffer, StreamStates
<1>2. CASE ~s.ackArmed
  BY <1>2 DEF StopAckSend, CancelAckSendTimer, SameForBuffer, StreamStates
<1> QED BY <1>1, <1>2

LEMMA BufferPacketFits ==
  ASSUME NEW s \in StreamStates, NEW i \in Nat, i >= s.seqn,
         NEW M \in Seq(Nat), i < Len(M), M[i + 1] = PayloadAt(s, i)
  PROVE  BufferPacket(s, i) \in Packets /\ Fits(M, BufferPacket(s, i))
<1>1. PayloadAt(s, i) \in Nat
  BY PayloadType
<1>2. BufferPacket(s, i) \in Packets
  BY <1>1 DEF BufferPacket, Packets, StreamStates
<1>3. BufferPacket(s, i).seqn = i /\ BufferPacket(s, i).data = PayloadAt(s, i)
  BY DEF BufferPacket
<1> QED BY <1>2, <1>3 DEF Fits

LEMMA BufferPacketsFinite ==
  ASSUME NEW s \in StreamStates, NumToSend(s) \in Nat
  PROVE  IsFiniteSet(BufferPackets(s))
<1> DEFINE I == s.seqn .. (s.seqn + NumToSend(s) - 1)
<1>1. s.seqn \in Int /\ s.seqn + NumToSend(s) - 1 \in Int
  BY DEF StreamStates
<1>2. IsFiniteSet(I)
  BY <1>1, FS_Interval
<1> DEFINE f == [i \in I |-> BufferPacket(s, i)]
<1>3. f \in Surjection(I, BufferPackets(s))
  BY DEF Surjection, BufferPackets
<1> HIDE DEF I, f
<1> QED BY <1>2, <1>3, FS_Surjection

LEMMA BatchPayload ==
  ASSUME NEW s \in StreamStates, NEW i \in Int, NEW x \in Int, x = i - 1, x >= s.seqn
  PROVE  /\ PayloadAt(s, x) \in Nat
         /\ PayloadAt(s, x) = IF s.taken + (i - s.seqn) <= s.written
                                THEN s.taken + (i - s.seqn) ELSE 0
<1>1. s.seqn \in Nat /\ s.taken \in Nat /\ s.written \in Nat
  BY DEF StreamStates
<1>2. s.taken + 1 + (x - s.seqn) = s.taken + (i - s.seqn)
  BY <1>1
<1> QED BY <1>2, PayloadType

LEMMA SeqOfFunction ==
  ASSUME NEW m \in Nat, NEW f \in [1 .. m -> Nat]
  PROVE  f \in Seq(Nat) /\ Len(f) = m
OBVIOUS

LEMMA PrefixRule ==
  ASSUME NEW f \in Seq(Nat), NEW g \in Seq(Nat), Len(f) <= Len(g),
         \A i \in 1 .. Len(f) : f[i] = g[i]
  PROVE  Prefix(f, g)
BY DEF Prefix

\* Taking the batch out of the buffer: the log grows by the payloads of the batch.
LEMMA TakeFromBufferSends ==
  ASSUME NEW s, NEW L \in Seq(Nat), Good(s, L), NumToSend(s) \in Nat
  PROVE  /\ Sends(s, TakeFromBuffer(s), L)
         /\ BufferPackets(s) \subseteq Packets
         /\ \A p \in BufferPackets(s) : Fits(TakeFromBuffer(s).log, p)
<1> DEFINE n == NumToSend(s)
           N == Len(s.log)
           M == [i \in 1 .. (N + n) |-> IF i <= N THEN s.log[i] ELSE PayloadAt(s, i - 1)]
           k == Least(s.taken + n, s.written)
           t == TakeFromBuffer(s)
<1>1. s \in StreamStates /\ s.taken <= s.written
  BY GoodTaken
<1>2. /\ N = s.seqn /\ N \in Nat /\ s.log \in Seq(Nat)
      /\ s.taken \in Nat /\ s.written \in Nat
  BY <1>1 DEF Good, SenderGood, StreamStates
<1>3. n \in Nat
  OBVIOUS
<1> HIDE DEF n
<1>5. /\ M \in Seq(Nat) /\ Len(M) = N + n
      /\ Prefix(s.log, M)
      /\ \A i \in (N + 1) .. (N + n) :
           M[i] = IF s.taken + (i - N) <= s.written THEN s.taken + (i - N) ELSE 0
  <2> DEFINE D == 1 .. (N + n)
             P(i) == IF i <= N THEN s.log[i] ELSE PayloadAt(s, i - 1)
  <2>1. M = [i \in D |-> P(i)]
    OBVIOUS
  <2> HIDE DEF M
  <2>2. \A i \in (N + 1) .. (N + n) :
          /\ PayloadAt(s, i - 1) \in Nat
          /\ PayloadAt(s, i - 1) = IF s.taken + (i - N) <= s.written THEN s.taken + (i - N) ELSE 0
    BY <1>1, <1>2, <1>3, BatchPayload
  <2>3. \A i \in 1 .. N : i \in D /\ P(i) = s.log[i] /\ P(i) \in Nat
    BY <1>2, <1>3
  <2>4. \A i \in (N + 1) .. (N + n) : i \in D /\ P(i) = PayloadAt(s, i - 1) /\ P(i) \in Nat
    BY <1>2, <1>3, <2>2
  <2>5. \A i \in D : i \in 1 .. N \/ i \in (N + 1) .. (N + n)
    BY <1>2, <1>3
  <2> HIDE DEF P
  <2>6. \A i \in D : P(i) \in Nat
    BY <2>3, <2>4, <2>5
  <2> HIDE DEF D, N
  <2>7. \A i \in D : M[i] = P(i)
    BY <2>1, Zenon
  <2>8. M \in [D -> Nat]
    BY <2>1, <2>6, Zenon
  <2>9. M \in Seq(Nat) /\ Len(M) = N + n
    <3>1. N + n \in Nat
      BY <1>2, <1>3
    <3> QED BY <2>8, <3>1, SeqOfFunction DEF D
  <2>10. Prefix(s.log, M)
    <3>1. \A i \in 1 .. Len(s.log) : s.log[i] = M[i]
      BY <2>3, <2>7 DEF N
    <3>2. Len(s.log) <= Len(M)
      BY <1>2, <1>3, <2>9 DEF N
    <3> QED BY <1>2, <2>9, <3>1, <3>2, PrefixRule
  <2> QED BY <2>2, <2>4, <2>7, <2>9, <2>10
<1>6. t.log = M
  <2>1. M = [i \in 1 .. (Len(s.log) + NumToSend(s)) |->
               IF i <= Len(s.log) THEN s.log[i] ELSE PayloadAt(s, i - 1)]
    BY DEF n
  <2> HIDE DEF M
  <2> QED BY <2>1, <1>1 DEF TakeFromBuffer, StreamStates
<1> HIDE DEF M
<1>7. /\ t \in StreamStates
      /\ t.seqn = s.seqn + n /\ t.taken = k /\ k \in Nat /\ k <= s.written
      /\ t.wire = s.wire /\ t.sent = s.sent /\ t.ready = s.ready /\ t.written = s.written
      /\ t.got = s.got /\ t.lastReceived = s.lastReceived /\ t.saved = s.saved
  <2>1. k \in Nat /\ k <= s.written
    BY <1>2, <1>3 DEF Least
  <2>2. s.seqn + n \in Nat
    BY <1>2, <1>3
  <2>3. t = [s EXCEPT !.status = IF @ = "New" THEN "Open" ELSE @, !.seqn = @ + n,
                      !.taken = k, !.log = M]
    BY <1>1 DEF TakeFromBuffer, M, n, StreamStates
  <2>4. (IF s.status = "New" THEN "Open" ELSE s.status) \in Statuses
    BY <1>1 DEF Statuses, StreamStates
  <2> HIDE DEF t, k
  <2> QED BY <2>1, <2>2, <2>3, <2>4, <1>1, <1>5 DEF StreamStates
<1> HIDE DEF t
<1>8. LogInOrder(M, k)
  <2>1. LogInOrder(s.log, s.taken)
    BY DEF Good, SenderGood
  <2> QED BY <2>1, <1>1, <1>2, <1>3, <1>5, LogExtended
<1>9. PostedPackets(t) = PostedPackets(s)
  BY <1>7 DEF PostedPackets
<1>10. \A p \in Outgoing(s) : p \in Packets
  BY <1>1, OutgoingType
<1>11. \A p \in Outgoing(t) : Fits(t.log, p)
  <2>1. \A p \in Outgoing(s) : Fits(s.log, p)
    BY DEF Good, SenderGood
  <2> QED BY <2>1, <1>2, <1>5, <1>6, <1>7, <1>9, <1>10, FitsExtension DEF Outgoing
<1>12. SenderGood(t)
  <2>1. IsFiniteSet(s.sent) BY DEF Good, SenderGood
  <2> QED BY <2>1, <1>2, <1>5, <1>6, <1>7, <1>8, <1>11 DEF SenderGood
<1>13. ReceiverGood(t, L)
  BY <1>7 DEF ReceiverGood, Good
<1>14. Sends(s, t, L)
  BY <1>5, <1>6, <1>7, <1>12, <1>13 DEF Sends, Good
<1>15. \A i \in s.seqn .. (s.seqn + n - 1) :
         BufferPacket(s, i) \in Packets /\ Fits(M, BufferPacket(s, i))
  <2> SUFFICES ASSUME NEW i \in s.seqn .. (s.seqn + n - 1)
               PROVE  BufferPacket(s, i) \in Packets /\ Fits(M, BufferPacket(s, i))
    OBVIOUS
  <2>1. i \in Nat /\ i >= s.seqn /\ i < N + n /\ i + 1 \in (N + 1) .. (N + n) /\ (i + 1) - 1 = i
    BY <1>2, <1>3
  <2> DEFINE j == i + 1
  <2>2. j \in (N + 1) .. (N + n) /\ j \in Int /\ i = j - 1 /\ i \in Int
    BY <2>1, <1>2
  <2>3. M[i + 1] = PayloadAt(s, i)
    <3>1. i >= s.seqn BY <2>1
    <3> HIDE DEF j, N
    <3>2. M[j] = IF s.taken + (j - N) <= s.written THEN s.taken + (j - N) ELSE 0
      BY <2>2, <1>5
    <3>3. PayloadAt(s, i) = IF s.taken + (j - N) <= s.written THEN s.taken + (j - N) ELSE 0
      BY <2>2, <3>1, <1>1, <1>2, BatchPayload
    <3> QED BY <3>2, <3>3 DEF j
  <2> QED BY <2>1, <2>3, <1>1, <1>5, BufferPacketFits
<1>16. /\ BufferPackets(s) \subseteq Packets
       /\ \A p \in BufferPackets(s) : Fits(t.log, p)
  BY <1>6, <1>15 DEF BufferPackets, n
<1> QED BY <1>14, <1>16 DEF t

LEMMA SendBufferSends ==
  ASSUME NEW s, NEW L \in Seq(Nat), Good(s, L)
  PROVE  Sends(s, SendBuffer(s), L)
<1>1. CASE Room(s) <= 0 \/ NumToSend(s) = 0
  BY <1>1, SendsReflexive DEF SendBuffer
<1>2. CASE ~(Room(s) <= 0 \/ NumToSend(s) = 0)
  <2> DEFINE t == IF s.saved = {} THEN StopAckSend(s) ELSE s
             v == TakeFromBuffer(t)
             u == SendAndTrack(v, BufferPackets(s))
  <2>1. Sends(s, t, L) /\ Quiet(s, t)
    BY GoodTaken, StopQuiet, QuietSends, SendsReflexive, QuietReflexive
  <2>2. Good(t, L)
    BY <2>1 DEF Sends
  <2>3. SameForBuffer(s, t)
    BY GoodTaken, StopSame DEF SameForBuffer
  <2> HIDE DEF t
  <2>4. NumToSend(s) \in Nat
    <3>1. Room(s) \in Int
      BY GoodTaken, RoomType
    <3> QED BY <3>1, <1>2, NumToSendType
  <2>5. BufferPackets(s) = BufferPackets(t) /\ NumToSend(t) = NumToSend(s)
    BY <2>3, BufferSame
  <2>6. /\ Sends(t, v, L) /\ BufferPackets(s) \subseteq Packets
        /\ \A p \in BufferPackets(s) : Fits(v.log, p)
    BY <2>2, <2>4, <2>5, TakeFromBufferSends
  <2>7. IsFiniteSet(BufferPackets(s))
    BY <2>4, GoodTaken, BufferPacketsFinite
  <2>8. Good(v, L)
    BY <2>6 DEF Sends
  <2>9. Sends(s, v, L)
    <3> HIDE DEF v
    <3> QED BY <2>1, <2>6, SendsThen
  <2> HIDE DEF v
  <2>10. Sends(v, u, L)
    BY <2>6, <2>7, <2>8, SendAndTrackSends
  <2>11. Good(u, L)
    BY <2>10 DEF Sends
  <2> HIDE DEF u
  <2>12. Sends(s, u, L)
    BY <2>9, <2>10, SendsThen
  <2>13. Sends(s, SendClose(u), L)
    <3>1. Sends(u, SendClose(u), L)
      BY <2>11, SendCloseSends
    <3> QED BY <3>1, <2>12, SendsThen
  <2>14. SendBuffer(s) = u \/ SendBuffer(s) = SendClose(u)
    <3> DEFINE w == SendAndTrack(TakeFromBuffer(t), BufferPackets(t))
    <3>1. SendBuffer(s) = IF w.status = "Closing" /\ BufferIsEmpty(w) THEN SendClose(w) ELSE w
      BY <1>2 DEF SendBuffer, t
    <3>2. w = u
      BY <2>5 DEF u, v
    <3> HIDE DEF w
    <3> QED BY <3>1, <3>2
  <2> QED BY <2>12, <2>13, <2>14
<1> QED BY <1>1, <1>2

LEMMA SendPacketSends ==
  ASSUME NEW s, NEW L \in Seq(Nat), Good(s, L), NEW p \in Packets, Fits(s.log, p)
  PROVE  Sends(s, SendPacket(s, p), L)
<1> DEFINE t == IF s.ackScheduled THEN StopAckSend(s) ELSE s
           P == {p}
<1>1. Sends(s, t, L) /\ Quiet(s, t)
  BY GoodTaken, StopQuiet, QuietSends, SendsReflexive, QuietReflexive
<1>2. Good(t, L) /\ t.log = s.log
  BY <1>1 DEF Sends, Quiet
<1> HIDE DEF t
<1>3. P \in SUBSET Packets /\ IsFiniteSet(P) /\ \A q \in P : Fits(t.log, q)
  BY <1>2, FS_Singleton
<1> HIDE DEF P
<1>4. Sends(t, SendAndTrack(t, P), L)
  BY <1>2, <1>3, SendAndTrackSends
<1>5. Sends(s, SendAndTrack(t, P), L)
  BY <1>1, <1>4, SendsThen
<1> QED BY <1>5 DEF SendPacket, t, P

----------------------------------------------------------------------------
(* Acknowledgements.                                                         *)

\* The numbers an end has seen are numbers its peer has given.
LEMMA SavedBound ==
  ASSUME NEW s, NEW L \in Seq(Nat), Good(s, L)
  PROVE  /\ s.lastReceived \in Int /\ s.lastReceived + 1 \in Nat /\ s.lastReceived < Len(L)
         /\ \A q \in s.saved : q \in Packets /\ q.seqn \in Nat /\ q.seqn < Len(L)
<1>1. s \in StreamStates
  BY GoodTaken
<1>2. s.lastReceived \in Nat \cup {-1} /\ s.got \in Seq(Nat) /\ s.saved \subseteq Packets
  BY <1>1 DEF StreamStates
<1>3. Len(s.got) = s.lastReceived + 1 /\ Len(s.got) <= Len(L)
  BY DEF Good, ReceiverGood, Prefix
<1>4. \A q \in s.saved : q \in Packets /\ q.seqn \in Nat
  BY <1>2 DEF Packets
<1>5. \A q \in s.saved : q.seqn < Len(L)
  BY DEF Good, ReceiverGood, Fits
<1> QED BY <1>2, <1>3, <1>4, <1>5

LEMMA LargestType ==
  ASSUME NEW S \in SUBSET Int, S # {}, NEW b \in Int, \A x \in S : x <= b
  PROVE  LargestOf(S) \in S
<1>1. \E m \in S : \A x \in S : x <= m
  BY GreatestElement
<1> QED BY <1>1 DEF LargestOf

LEMMA QuickAckType ==
  ASSUME NEW s, NEW L \in Seq(Nat), Good(s, L)
  PROVE  QuickAck(s) \in Packets /\ PlainAck(QuickAck(s))
<1> DEFINE X == (Seqns(s.saved) \ Overflowing(s)) \cup {s.lastReceived}
           c == LargestOf(X)
<1>1. s.lastReceived \in Int /\ s.lastReceived + 1 \in Nat /\ s.lastReceived < Len(L)
  BY SavedBound
<1>2. \A q \in s.saved : q.seqn \in Nat /\ q.seqn < Len(L)
  BY SavedBound
<1>3. \A x \in X : x \in Int /\ x < Len(L)
  BY <1>1, <1>2 DEF Seqns
<1>4. c \in Int
  <2>1. X \in SUBSET Int /\ X # {} /\ Len(L) \in Int /\ \A x \in X : x <= Len(L)
    BY <1>1, <1>3
  <2> HIDE DEF X
  <2>2. c \in X
    BY <2>1, LargestType
  <2> QED BY <2>1, <2>2
<1> HIDE DEF c
<1>5. Missing(s, c) \in SUBSET Nat
  BY <1>1, <1>4 DEF Missing
<1> DEFINE a == IF Overflowing(s) = {} THEN c ELSE c + 1
<1>6. a \in Int
  BY <1>4
<1>7. QuickAck(s) = [seqn |-> 0, syn |-> FALSE, fin |-> FALSE, noAck |-> FALSE,
                     ackThrough |-> a, nacks |-> Missing(s, c), data |-> 0]
  BY DEF QuickAck, c
<1> HIDE DEF a
<1> QED BY <1>5, <1>6, <1>7 DEF Packets, PlainAck

LEMMA SendQuickAckSends ==
  ASSUME NEW s, NEW L \in Seq(Nat), Good(s, L)
  PROVE  Sends(s, SendQuickAck(s), L)
<1> DEFINE P == {QuickAck(s)}
<1>1. P \in SUBSET Packets /\ \A p \in P : PlainAck(p)
  BY QuickAckType
<1> HIDE DEF P
<1>2. Quiet(s, SendPackets(s, P))
  BY <1>1, GoodTaken, SendPacketsQuiet
<1>3. Sends(s, SendPackets(s, P), L)
  BY <1>2, QuietSends
<1> QED BY <1>3, SendsReflexive DEF SendQuickAck, P

LEMMA GrownWindowType ==
  ASSUME NEW w \in Nat \ {0}, NEW n \in Nat, NEW grow \in BOOLEAN
  PROVE  GrownWindow(w, n, grow) \in Nat \ {0}
<1> DEFINE k == Least(n, IF w < WindowSize THEN WindowSize - w ELSE 0)
<1>1. WindowSize \in Nat /\ MaxWindow \in Nat \ {0}
  BY WindowAssumption
<1>2. k \in Nat
  BY <1>1 DEF Least
<1> HIDE DEF k
<1>3. Least(w + k + 1, MaxWindow) \in Nat \ {0} /\ w + k \in Nat \ {0}
  BY <1>1, <1>2 DEF Least
<1>4. GrownWindow(w, n, grow) =
        IF grow /\ n > k THEN Least(w + k + 1, MaxWindow) ELSE w + k
  BY DEF GrownWindow, k
<1> QED BY <1>3, <1>4

LEMMA AfterAckSends ==
  ASSUME NEW s, NEW L \in Seq(Nat), Good(s, L)
  PROVE  Sends(s, AfterAck(s), L)
<1>1. AfterAck(s) = Terminate(s) \/ AfterAck(s) = Close(s) \/ AfterAck(s) = s
  BY DEF AfterAck
<1> QED BY <1>1, TerminateSends, CloseSends, SendsReflexive

LEMMA ProcessAckSends ==
  ASSUME NEW s, NEW L \in Seq(Nat), Good(s, L), NEW p \in Packets, NEW grow \in BOOLEAN
  PROVE  Sends(s, ProcessAck(s, p, grow), L)
<1> DEFINE acked == Acknowledged(s, p)
           w == GrownWindow(s.window, Cardinality(acked), grow)
           a == IF acked = {} THEN s.attempts ELSE 0
           r == s.resendArmed /\ s.sent # acked
           t == [s EXCEPT !.sent = @ \ acked, !.window = w, !.resendArmed = r, !.attempts = a]
<1>1. s \in StreamStates /\ s.taken <= s.written
  BY GoodTaken
<1>2. acked \subseteq s.sent
  BY DEF Acknowledged
<1>3. IsFiniteSet(acked)
  BY <1>2, FS_Subset DEF Good, SenderGood
<1>4. Cardinality(acked) \in Nat
  BY <1>3, FS_CardinalityType
<1>5. s.window \in Nat \ {0} /\ s.attempts \in Nat /\ s.resendArmed \in BOOLEAN
  BY <1>1 DEF StreamStates
<1> HIDE DEF acked
<1>6. w \in Nat \ {0}
  BY <1>4, <1>5, GrownWindowType
<1>7. a \in Nat
  BY <1>5
<1>8. r \in BOOLEAN
  BY <1>5
<1> HIDE DEF w, a, r
<1>9. /\ t \in StreamStates
      /\ t.log = s.log /\ t.seqn = s.seqn /\ t.taken = s.taken /\ t.written = s.written
      /\ t.got = s.got /\ t.lastReceived = s.lastReceived /\ t.saved = s.saved
      /\ t.sent \subseteq s.sent /\ t.wire = s.wire /\ t.ready = s.ready
  BY <1>1, <1>6, <1>7, <1>8 DEF StreamStates
<1>10. t = [s EXCEPT !.sent = @ \ Acknowledged(s, p),
                     !.window = GrownWindow(@, Cardinality(Acknowledged(s, p)), grow),
                     !.resendArmed = @ /\ s.sent # Acknowledged(s, p),
                     !.attempts = IF Acknowledged(s, p) = {} THEN @ ELSE 0]
  BY DEF acked, w, a, r
<1> HIDE DEF t
<1>11. Sends(s, t, L)
  <2>2. Quiet(s, t)
    BY <1>1, <1>9, FieldsQuiet
  <2> QED BY <2>2, QuietSends
<1>12. Good(t, L)
  BY <1>11 DEF Sends
<1>13. Sends(s, SendBuffer(t), L)
  <2>1. Sends(t, SendBuffer(t), L)
    BY <1>12, SendBufferSends
  <2> QED BY <2>1, <1>11, SendsThen
<1> DEFINE b == SendBuffer(t)
<1>14. Good(b, L)
  BY <1>13 DEF Sends
<1> HIDE DEF b
<1>15. Sends(s, AfterAck(t), L)
  <2>1. Sends(t, AfterAck(t), L)
    BY <1>12, AfterAckSends
  <2> QED BY <2>1, <1>11, SendsThen
<1>16. Sends(s, AfterAck(b), L)
  <2>1. Sends(b, AfterAck(b), L)
    BY <1>14, AfterAckSends
  <2>2. Sends(s, b, L)
    BY <1>13 DEF b
  <2> QED BY <2>1, <2>2, SendsThen
<1>17. \/ ProcessAck(s, p, grow) = s
       \/ ProcessAck(s, p, grow) = AfterAck(t)
       \/ ProcessAck(s, p, grow) = AfterAck(b)
  BY <1>10 DEF ProcessAck, b
<1> QED BY <1>15, <1>16, <1>17, SendsReflexive

----------------------------------------------------------------------------
(* Timers.                                                                   *)

LEMMA HalvedWindowType ==
  ASSUME NEW w \in Nat \ {0}
  PROVE  HalvedWindow(w) \in Nat \ {0}
<1>1. MinWindow \in Nat \ {0}
  BY WindowAssumption
<1>2. w \div 2 \in Nat
  OBVIOUS
<1>3. HalvedWindow(w) = MinWindow \/ (HalvedWindow(w) = w \div 2 /\ w \div 2 >= MinWindow)
  BY <1>1, <1>2 DEF HalvedWindow
<1> QED BY <1>1, <1>2, <1>3

LEMMA ScheduleResendSends ==
  ASSUME NEW s, NEW L \in Seq(Nat), Good(s, L)
  PROVE  Sends(s, ScheduleResend(s), L)
<1> DEFINE t == ScheduleResend(s)
<1>1. s \in StreamStates /\ s.taken <= s.written
  BY GoodTaken
<1>2. /\ t \in StreamStates
      /\ t.log = s.log /\ t.seqn = s.seqn /\ t.taken = s.taken /\ t.written = s.written
      /\ t.got = s.got /\ t.lastReceived = s.lastReceived /\ t.saved = s.saved
      /\ t.sent = s.sent /\ t.wire = s.wire /\ t.ready = s.ready
  BY <1>1 DEF ScheduleResend, StreamStates
<1> HIDE DEF t
<1>4. Quiet(s, t)
  BY <1>1, <1>2, FieldsQuiet
<1> QED BY <1>4, QuietSends DEF t

LEMMA HandleResendTimerSends ==
  ASSUME NEW s, NEW L \in Seq(Nat), Good(s, L), NEW due \in SUBSET s.sent
  PROVE  Sends(s, HandleResendTimer(s, due), L)
<1> DEFINE w == IF s.attempts = 0 THEN HalvedWindow(s.window) ELSE s.window
           a == s.attempts + 1
           t == [s EXCEPT !.attempts = a, !.window = w]
           u == SendPackets(t, due)
<1>1. s \in StreamStates /\ s.taken <= s.written
  BY GoodTaken
<1>2. w \in Nat \ {0} /\ a \in Nat
  BY <1>1, HalvedWindowType DEF StreamStates
<1> HIDE DEF w, a
<1>3. /\ t \in StreamStates
      /\ t.log = s.log /\ t.seqn = s.seqn /\ t.taken = s.taken /\ t.written = s.written
      /\ t.got = s.got /\ t.lastReceived = s.lastReceived /\ t.saved = s.saved
      /\ t.sent = s.sent /\ t.wire = s.wire /\ t.ready = s.ready
  BY <1>1, <1>2 DEF StreamStates
<1>4. HandleResendTimer(s, due) =
        IF s.attempts >= MaxResendAttempts THEN ResetAndClose(s)
        ELSE ScheduleResend(IF due = {} THEN s ELSE u)
  BY DEF HandleResendTimer, w, a
<1> HIDE DEF t
<1>5. Sends(s, t, L)
  <2>2. Quiet(s, t)
    BY <1>1, <1>3, FieldsQuiet
  <2> QED BY <2>2, QuietSends
<1>6. Good(t, L)
  BY <1>5 DEF Sends
<1>7. Sends(s, u, L)
  <2>1. due \in SUBSET Packets /\ \A p \in due : p \in Outgoing(t)
    BY <1>1, <1>3 DEF StreamStates, Outgoing
  <2>2. Quiet(t, u)
    BY <1>6, <2>1, GoodTaken, SendPacketsQuiet
  <2>3. Sends(t, u, L)
    BY <1>6, <2>2, QuietSends
  <2> QED BY <1>5, <2>3, SendsThen
<1>8. Good(u, L)
  BY <1>7 DEF Sends
<1> HIDE DEF u
<1>9. Sends(s, ScheduleResend(u), L)
  <2>1. Sends(u, ScheduleResend(u), L)
    BY <1>8, ScheduleResendSends
  <2> QED BY <1>7, <2>1, SendsThen
<1> QED BY <1>4, <1>9, ScheduleResendSends, ResetAndCloseSends

LEMMA HandleAckSendTimerSends ==
  ASSUME NEW s, NEW L \in Seq(Nat), Good(s, L)
  PROVE  Sends(s, HandleAckSendTimer(s), L)
<1> DEFINE t == IF s.status = "Open" THEN SendQuickAck(s) ELSE s
           u == [t EXCEPT !.ackScheduled = FALSE]
<1>1. Sends(s, t, L)
  BY SendQuickAckSends, SendsReflexive
<1>2. Good(t, L)
  BY <1>1 DEF Sends
<1>3. HandleAckSendTimer(s) = s \/ HandleAckSendTimer(s) = ResetAndClose(s)
        \/ HandleAckSendTimer(s) = u
  BY DEF HandleAckSendTimer
<1> HIDE DEF t
<1>4. Quiet(t, u)
  BY <1>2, GoodTaken, FlagsQuiet
<1>5. Sends(t, u, L)
  BY <1>2, <1>4, QuietSends
<1>6. Sends(s, u, L)
  BY <1>1, <1>5, SendsThen
<1> QED BY <1>3, <1>6, SendsReflexive, ResetAndCloseSends

----------------------------------------------------------------------------
(* Receiving.                                                                *)

\* A step that may process packets of the peer, too.
Receives(s, t, L) ==
  Good(t, L) /\ Prefix(s.log, t.log) /\ Prefix(s.got, t.got) /\ t.written = s.written

LEMMA ReceivesThenSends ==
  ASSUME NEW s, NEW t, NEW u, NEW L \in Seq(Nat), Good(s, L), Receives(s, t, L), Sends(t, u, L)
  PROVE  Receives(s, u, L)
<1>1. s \in StreamStates /\ t \in StreamStates /\ u \in StreamStates
  BY DEF Receives, Sends, Good
<1>2. /\ s.log \in Seq(Nat) /\ t.log \in Seq(Nat) /\ u.log \in Seq(Nat)
      /\ s.got \in Seq(Nat) /\ t.got \in Seq(Nat) /\ u.got \in Seq(Nat)
  BY <1>1 DEF StreamStates
<1>3. Prefix(s.log, u.log)
  BY <1>2 DEF Receives, Sends, Prefix
<1>4. Prefix(s.got, u.got) /\ u.written = s.written
  BY DEF Receives, Sends
<1> QED BY <1>3, <1>4 DEF Receives, Sends

LEMMA SendsReceives ==
  ASSUME NEW s, NEW t, NEW L, Sends(s, t, L)
  PROVE  Receives(s, t, L)
<1>1. t.got \in Seq(Nat)
  BY DEF Sends, Good, StreamStates
<1>2. Prefix(t.got, t.got)
  BY <1>1 DEF Prefix
<1> QED BY <1>2 DEF Sends, Receives

LEMMA SendsThenReceives ==
  ASSUME NEW s, NEW t, NEW u, NEW L \in Seq(Nat), Good(s, L), Sends(s, t, L), Receives(t, u, L)
  PROVE  Receives(s, u, L)
<1>1. s \in StreamStates /\ t \in StreamStates /\ u \in StreamStates
  BY DEF Receives, Sends, Good
<1>2. /\ s.log \in Seq(Nat) /\ t.log \in Seq(Nat) /\ u.log \in Seq(Nat)
      /\ s.got \in Seq(Nat) /\ t.got \in Seq(Nat) /\ u.got \in Seq(Nat)
  BY <1>1 DEF StreamStates
<1>3. Prefix(s.log, u.log)
  BY <1>2 DEF Receives, Sends, Prefix
<1>4. Prefix(s.got, u.got) /\ u.written = s.written
  BY DEF Receives, Sends
<1> QED BY <1>3, <1>4 DEF Receives, Sends

\* What HandleNextPacket is given: a packet of the peer that is not yet processed.
NextFor(s, L, p) ==
  p \in Packets /\ Fits(L, p) /\ ~PlainAck(p) /\ p.seqn = s.lastReceived + 1

LEMMA SavedAhead ==
  ASSUME NEW s, NEW L \in Seq(Nat), Good(s, L)
  PROVE  \A q \in s.saved : q.seqn > s.lastReceived + 1 /\ Fits(L, q) /\ ~PlainAck(q)
BY DEF Good, ReceiverGood

LEMMA NextGapFits ==
  ASSUME NEW s, NEW L \in Seq(Nat), Good(s, L), NEW p, NextFor(s, L, p),
         NEW packets, packets = s.saved \cup {p}
  PROVE  /\ NextGap(s, packets) \in Nat
         /\ NextGap(s, packets) > s.lastReceived + 1 /\ NextGap(s, packets) <= Len(L)
         /\ NextGap(s, packets) \notin Seqns(packets)
         /\ (s.lastReceived + 1) .. (NextGap(s, packets) - 1) \subseteq Seqns(packets)
<1> DEFINE Q == Seqns(packets)
           b == s.lastReceived + 1
           C == {m \in Nat : m >= b /\ m \notin Q}
<1>1. b \in Nat /\ b - 1 = s.lastReceived /\ Len(L) \in Nat
  BY SavedBound
<1>2. b \in Q
  BY DEF Seqns, NextFor
<1>3. \A q \in packets : q.seqn \in Nat /\ q.seqn >= b /\ q.seqn < Len(L)
  <2>1. p.seqn \in Nat /\ p.seqn < Len(L) /\ p.seqn = b
    BY DEF NextFor, Fits, Packets
  <2>2. \A q \in s.saved : q.seqn \in Nat /\ q.seqn > b /\ q.seqn < Len(L)
    BY SavedBound, SavedAhead
  <2> HIDE DEF b
  <2> QED BY <1>1, <2>1, <2>2
<1>4. \A q \in Q : q \in Nat /\ q >= b /\ q < Len(L)
  BY <1>3 DEF Seqns
<1> DEFINE Fit(x) == x \notin Q /\ b .. (x - 1) \subseteq Q
<1>5. \E x \in {q + 1 : q \in Q} : Fit(x)
  <2> HIDE DEF Q, b
  <2>1. C \in SUBSET Nat /\ C # {}
    <3>1. Len(L) \notin Q /\ Len(L) >= b
      BY <1>1, <1>2, <1>4
    <3> QED BY <1>1, <3>1
  <2>2. PICK x \in C : \A y \in C : x <= y
    <3> HIDE DEF C
    <3> QED BY <2>1, LeastElement
  <2>3. x \in Nat /\ x >= b /\ x \notin Q
    OBVIOUS
  <2>4. \A y \in b .. (x - 1) : y \in Q
    BY <1>1, <2>2, <2>3
  <2>5. x # b
    BY <1>2, <2>3
  <2>6. x - 1 \in b .. (x - 1) /\ x = (x - 1) + 1
    BY <1>1, <2>3, <2>5
  <2> QED BY <2>3, <2>4, <2>6
<1> DEFINE g == CHOOSE x \in {q + 1 : q \in Q} : Fit(x)
<1>6. g \in {q + 1 : q \in Q} /\ Fit(g)
  <2> HIDE DEF Q, b, Fit
  <2> QED BY <1>5
<1>7. NextGap(s, packets) = g
  BY DEF NextGap
<1> HIDE DEF g, b, Q
<1>8. g \in Nat /\ g > b /\ g <= Len(L)
  BY <1>1, <1>4, <1>6
<1> QED BY <1>6, <1>7, <1>8 DEF b, Q

\* Every packet of the run that ends before the gap carries what the peer numbered.
LEMMA PacketAtFits ==
  ASSUME NEW s, NEW L \in Seq(Nat), Good(s, L), NEW p, NextFor(s, L, p),
         NEW packets, packets = s.saved \cup {p}, NEW i \in Nat, i \in Seqns(packets)
  PROVE  PacketAt(packets, i).data = L[i + 1] /\ i < Len(L)
<1>1. PacketAt(packets, i) \in packets /\ PacketAt(packets, i).seqn = i
  BY DEF PacketAt, Seqns
<1>2. \A q \in packets : Fits(L, q) /\ ~PlainAck(q)
  BY SavedAhead DEF NextFor
<1> QED BY <1>1, <1>2 DEF Fits

\* What the receiver has processed once it stands before the gap g.
GotBefore(s, packets, g) ==
  [i \in 1 .. g |-> IF i <= Len(s.got) THEN s.got[i] ELSE PacketAt(packets, i - 1).data]

LEMMA GotBeforeFits ==
  ASSUME NEW s, NEW L \in Seq(Nat), Good(s, L), NEW p, NextFor(s, L, p),
         NEW packets, packets = s.saved \cup {p}, NEW g, g = NextGap(s, packets)
  PROVE  /\ GotBefore(s, packets, g) \in Seq(Nat)
         /\ Len(GotBefore(s, packets, g)) = g /\ Prefix(GotBefore(s, packets, g), L)
         /\ Prefix(s.got, GotBefore(s, packets, g))
<1>1. /\ g \in Nat /\ g > s.lastReceived + 1 /\ g <= Len(L)
      /\ (s.lastReceived + 1) .. (g - 1) \subseteq Seqns(packets)
  BY NextGapFits
<1>2. /\ s.got \in Seq(Nat) /\ s.lastReceived \in Int /\ Len(s.got) = s.lastReceived + 1
      /\ \A i \in 1 .. Len(s.got) : s.got[i] = L[i]
  BY GoodTaken DEF StreamStates, Good, ReceiverGood, Prefix
<1> DEFINE P(i) == IF i <= Len(s.got) THEN s.got[i] ELSE PacketAt(packets, i - 1).data
           D == 1 .. g
           h == GotBefore(s, packets, g)
<1>3. \A i \in D : P(i) = L[i] /\ L[i] \in Nat
  <2> SUFFICES ASSUME NEW i \in D PROVE P(i) = L[i] /\ L[i] \in Nat
    OBVIOUS
  <2>1. i \in 1 .. Len(L)
    BY <1>1
  <2>2. L[i] \in Nat
    BY <2>1
  <2>3. CASE i <= Len(s.got)
    BY <2>2, <2>3, <1>2
  <2>4. CASE ~(i <= Len(s.got))
    <3> DEFINE j == i - 1
    <3>1. j \in (s.lastReceived + 1) .. (g - 1) /\ j \in Nat /\ j + 1 = i
      BY <2>4, <1>1, <1>2
    <3> HIDE DEF j
    <3>2. j \in Nat /\ j \in Seqns(packets)
      BY <3>1, <1>1
    <3>3. PacketAt(packets, j).data = L[j + 1]
      BY <3>2, PacketAtFits
    <3> QED BY <2>2, <2>4, <3>1, <3>3 DEF j
  <2> QED BY <2>3, <2>4
<1>4. h = [i \in D |-> P(i)]
  BY DEF GotBefore
<1> HIDE DEF P, D, h
<1>5. \A i \in D : h[i] = P(i)
  BY <1>4, Zenon
<1>6. h \in [D -> Nat]
  <2>1. \A i \in D : P(i) \in Nat
    BY <1>3
  <2> QED BY <1>4, <2>1, Zenon
<1>7. h \in Seq(Nat) /\ Len(h) = g
  BY <1>1, <1>6, SeqOfFunction DEF D
<1>8. Prefix(h, L)
  <2>1. \A i \in 1 .. Len(h) : h[i] = L[i]
    BY <1>3, <1>5, <1>7 DEF D
  <2> QED BY <1>1, <1>7, <2>1, PrefixRule
<1>9. Prefix(s.got, h)
  <2>1. \A i \in 1 .. Len(s.got) : h[i] = L[i]
    <3>1. \A i \in 1 .. Len(s.got) : i \in D
      BY <1>1, <1>2 DEF D
    <3> QED BY <1>3, <1>5, <3>1, Zenon
  <2>2. Len(s.got) <= Len(h)
    BY <1>1, <1>2, <1>7
  <2>3. \A i \in 1 .. Len(s.got) : s.got[i] = h[i]
    BY <1>2, <2>1, Zenon
  <2> QED BY <1>2, <1>7, <2>2, <2>3, PrefixRule
<1> QED BY <1>7, <1>8, <1>9 DEF h

LEMMA ProcessedGood ==
  ASSUME NEW s, NEW L \in Seq(Nat), Good(s, L), NEW g \in Nat,
         NEW h \in Seq(Nat), Len(h) = g, Prefix(h, L), Prefix(s.got, h),
         NEW v \in SUBSET s.saved, \A q \in v : q.seqn > g,
         NEW t, t = [s EXCEPT !.lastReceived = g - 1, !.saved = v, !.got = h]
  PROVE  Receives(s, t, L)
<1>1. s \in StreamStates
  BY GoodTaken
<1>2. g - 1 \in Nat \cup {-1} /\ v \in SUBSET Packets
  BY SMTT(30), <1>1 DEF StreamStates
<1>3. /\ t \in StreamStates
      /\ t.got = h /\ t.lastReceived = g - 1 /\ t.saved = v
      /\ t.log = s.log /\ t.seqn = s.seqn /\ t.taken = s.taken /\ t.written = s.written
      /\ t.sent = s.sent /\ t.wire = s.wire /\ t.ready = s.ready
  BY <1>1, <1>2 DEF StreamStates
<1>4. \A q \in v : Fits(L, q) /\ ~PlainAck(q) /\ q.seqn > (g - 1) + 1
  BY SavedAhead
<1>5. ReceiverGood(t, L)
  BY <1>3, <1>4 DEF ReceiverGood
<1>6. PostedPackets(t) = PostedPackets(s)
  BY <1>3 DEF PostedPackets
<1>7. SenderGood(t)
  BY <1>3, <1>6 DEF SenderGood, Good, Outgoing
<1>8. Prefix(s.log, t.log)
  BY <1>1, <1>3 DEF Prefix, StreamStates
<1> QED BY <1>3, <1>5, <1>7, <1>8 DEF Receives, Good

LEMMA ProcessFinsSends ==
  ASSUME NEW s, NEW L \in Seq(Nat), Good(s, L), NEW fins \in SUBSET Nat
  PROVE  Sends(s, ProcessFins(s, fins), L)
<1>1. CASE fins = {}
  BY <1>1, SendsReflexive DEF ProcessFins
<1>2. CASE fins # {}
  <2> DEFINE first == CHOOSE f \in fins : \A x \in fins : f <= x
             t == IF s.status = "Closed" THEN s ELSE SendCloseAfter(s, first)
             u == [t EXCEPT !.status = "Closed"]
  <2>1. first \in Nat \cup {-1}
    <3>1. \E f \in fins : \A x \in fins : f <= x
      BY <1>2, LeastElement
    <3> QED BY <3>1
  <2>2. ProcessFins(s, fins) = Terminate(u)
    BY <1>2 DEF ProcessFins
  <2> HIDE DEF first
  <2>3. Sends(s, t, L)
    BY <2>1, SendCloseAfterSends, SendsReflexive
  <2>4. Good(t, L)
    BY <2>3 DEF Sends
  <2> HIDE DEF t
  <2>5. Sends(t, u, L)
    BY <2>4, StatusSends DEF Statuses
  <2>6. Good(u, L) /\ Sends(s, u, L)
    <3>1. Good(u, L) BY <2>5 DEF Sends
    <3> HIDE DEF u
    <3>2. Sends(s, u, L) BY <2>3, <2>5, SendsThen
    <3> QED BY <3>1, <3>2
  <2> HIDE DEF u
  <2>7. Sends(u, Terminate(u), L)
    BY <2>6, TerminateSends
  <2>8. Sends(s, Terminate(u), L)
    BY <2>6, <2>7, SendsThen
  <2> QED BY <2>2, <2>8
<1> QED BY <1>1, <1>2

LEMMA ProcessPacketsReceives ==
  ASSUME NEW s, NEW L \in Seq(Nat), Good(s, L), NEW p, NextFor(s, L, p)
  PROVE  Receives(s, ProcessPackets(s, p), L)
<1> DEFINE packets == s.saved \cup {p}
           g == NextGap(s, packets)
           h == GotBefore(s, packets, g)
           v == {q \in s.saved : q.seqn >= g}
           t == [s EXCEPT !.lastReceived = g - 1, !.saved = v, !.got = h]
           fins == {q.seqn : q \in {r \in packets : r.fin /\ r.seqn < g}}
<1>1. ProcessPackets(s, p) = ProcessFins(t, fins)
  BY DEF ProcessPackets, GotBefore
<1>2. packets = s.saved \cup {p}
  OBVIOUS
<1>3. fins \in SUBSET Nat
  <2>1. \A q \in packets : q.seqn \in Nat
    BY SavedBound DEF NextFor, Packets
  <2> HIDE DEF packets, g
  <2> QED BY <2>1
<1> HIDE DEF packets
<1>4. g \in Nat /\ g > s.lastReceived + 1 /\ g <= Len(L) /\ g \notin Seqns(packets)
  BY <1>2, NextGapFits
<1>5. h \in Seq(Nat) /\ Len(h) = g /\ Prefix(h, L) /\ Prefix(s.got, h)
  <2> DEFINE x == g
  <2>1. x = NextGap(s, packets)
    OBVIOUS
  <2> HIDE DEF x
  <2>2. /\ GotBefore(s, packets, x) \in Seq(Nat)
        /\ Len(GotBefore(s, packets, x)) = x /\ Prefix(GotBefore(s, packets, x), L)
        /\ Prefix(s.got, GotBefore(s, packets, x))
    BY <1>2, <2>1, GotBeforeFits
  <2> QED BY <2>2 DEF x
<1> HIDE DEF g
<1>6. v \in SUBSET s.saved /\ \A q \in v : q.seqn > g
  <2> SUFFICES ASSUME NEW q \in v PROVE q.seqn > g
    OBVIOUS
  <2>1. q.seqn \in Nat /\ q.seqn >= g
    BY SavedBound
  <2>2. q.seqn # g
    BY <1>2, <1>4 DEF Seqns
  <2> QED BY <2>1, <2>2, <1>4
<1> HIDE DEF h, v
<1>7. Receives(s, t, L)
  <2>1. t = [s EXCEPT !.lastReceived = g - 1, !.saved = v, !.got = h]
    OBVIOUS
  <2> HIDE DEF t
  <2> QED BY <2>1, <1>4, <1>5, <1>6, ProcessedGood
<1> HIDE DEF t, fins
<1>8. Good(t, L)
  BY <1>7 DEF Receives
<1>9. Sends(t, ProcessFins(t, fins), L)
  BY <1>3, <1>8, ProcessFinsSends
<1> QED BY <1>1, <1>7, <1>9, ReceivesThenSends

LEMMA NextInSequenceReceives ==
  ASSUME NEW s, NEW L \in Seq(Nat), Good(s, L), NEW p, NextFor(s, L, p)
  PROVE  Receives(s, NextInSequence(s, p), L)
<1> DEFINE t == ProcessPackets(s, p)
<1>1. Receives(s, t, L)
  BY ProcessPacketsReceives
<1>2. \/ NextInSequence(s, p) = t \/ NextInSequence(s, p) = ArmAckSendTimer(t)
      \/ NextInSequence(s, p) = SendBuffer(t)
  BY DEF NextInSequence
<1> HIDE DEF t
<1>3. Good(t, L)
  BY <1>1 DEF Receives
<1>4. Sends(t, ArmAckSendTimer(t), L)
  <2>1. Quiet(t, ArmAckSendTimer(t))
    BY <1>3, GoodTaken, ArmQuiet
  <2> QED BY <1>3, <2>1, QuietSends
<1>5. Sends(t, SendBuffer(t), L)
  BY <1>3, SendBufferSends
<1>6. Receives(s, ArmAckSendTimer(t), L)
  BY <1>1, <1>4, ReceivesThenSends
<1>7. Receives(s, SendBuffer(t), L)
  BY <1>1, <1>5, ReceivesThenSends
<1> QED BY <1>1, <1>2, <1>6, <1>7

LEMMA OutOfSequenceReceives ==
  ASSUME NEW s, NEW L \in Seq(Nat), Good(s, L), NEW p \in Packets, Fits(L, p), ~PlainAck(p),
         p.seqn > s.lastReceived + 1
  PROVE  Receives(s, OutOfSequence(s, p), L)
<1> DEFINE v == IF p.seqn \in Seqns(s.saved) THEN s.saved ELSE s.saved \cup {p}
           t == [s EXCEPT !.saved = v]
           u == IF s.ackScheduled THEN StopAckSend(t) ELSE t
<1>1. s \in StreamStates
  BY GoodTaken
<1>2. v \in SUBSET Packets
  BY <1>1 DEF StreamStates
<1>3. \A q \in v : Fits(L, q) /\ ~PlainAck(q) /\ q.seqn > s.lastReceived + 1
  BY SavedAhead
<1>4. OutOfSequence(s, p) = ArmAckSendTimer(t) \/ OutOfSequence(s, p) = SendQuickAck(u)
  BY DEF OutOfSequence
<1> HIDE DEF v
<1>5. /\ t \in StreamStates /\ t.saved = v
      /\ t.got = s.got /\ t.lastReceived = s.lastReceived
      /\ t.log = s.log /\ t.seqn = s.seqn /\ t.taken = s.taken /\ t.written = s.written
      /\ t.sent = s.sent /\ t.wire = s.wire /\ t.ready = s.ready
  BY <1>1, <1>2 DEF StreamStates
<1> HIDE DEF t
<1>6. Receives(s, t, L)
  <2>1. PostedPackets(t) = PostedPackets(s)
    BY <1>5 DEF PostedPackets
  <2>2. SenderGood(t)
    BY <1>5, <2>1 DEF SenderGood, Good, Outgoing
  <2>3. ReceiverGood(t, L)
    BY <1>3, <1>5 DEF ReceiverGood, Good
  <2>4. Prefix(s.log, t.log) /\ Prefix(s.got, t.got)
    BY <1>1, <1>5 DEF Prefix, StreamStates
  <2> QED BY <1>5, <2>2, <2>3, <2>4 DEF Receives, Good
<1>7. Good(t, L)
  BY <1>6 DEF Receives
<1>8. Sends(t, ArmAckSendTimer(t), L)
  <2>1. Quiet(t, ArmAckSendTimer(t))
    BY <1>7, GoodTaken, ArmQuiet
  <2> QED BY <1>7, <2>1, QuietSends
<1>9. Sends(t, u, L)
  <2>1. Quiet(t, StopAckSend(t))
    BY <1>7, GoodTaken, StopQuiet
  <2>2. Sends(t, StopAckSend(t), L)
    BY <1>7, <2>1, QuietSends
  <2> QED BY <1>7, <2>2, SendsReflexive
<1>10. Good(u, L)
  BY <1>9 DEF Sends
<1> HIDE DEF u
<1>11. Sends(u, SendQuickAck(u), L)
  BY <1>10, SendQuickAckSends
<1>12. Sends(t, SendQuickAck(u), L)
  BY <1>7, <1>9, <1>11, SendsThen
<1>13. Receives(s, ArmAckSendTimer(t), L)
  BY <1>6, <1>8, ReceivesThenSends
<1>14. Receives(s, SendQuickAck(u), L)
  BY <1>6, <1>12, ReceivesThenSends
<1> QED BY <1>4, <1>13, <1>14

\* A packet of the peer, whatever it acknowledges and whenever it comes, is received well.
LEMMA HandleNextPacketReceives ==
  ASSUME NEW s, NEW L \in Seq(Nat), Good(s, L), NEW p \in Packets, Fits(L, p),
         NEW grow \in BOOLEAN
  PROVE  Receives(s, HandleNextPacket(s, p, grow), L)
<1> DEFINE t == [s EXCEPT !.established = TRUE]
           u == IF p.noAck THEN t ELSE ProcessAck(t, p, grow)
           n == CASE p.seqn = u.lastReceived + 1 -> NextInSequence(u, p)
                  [] p.seqn <= u.lastReceived    -> SendQuickAck(u)
                  [] OTHER                       -> OutOfSequence(u, p)
<1>1. HandleNextPacket(s, p, grow) = IF PlainAck(p) THEN u ELSE n
  BY DEF HandleNextPacket
<1>2. Sends(s, t, L)
  <2>1. s \in StreamStates /\ s.taken <= s.written
    BY GoodTaken
  <2>2. /\ t \in StreamStates
        /\ t.log = s.log /\ t.seqn = s.seqn /\ t.taken = s.taken /\ t.written = s.written
        /\ t.got = s.got /\ t.lastReceived = s.lastReceived /\ t.saved = s.saved
        /\ t.sent = s.sent /\ t.wire = s.wire /\ t.ready = s.ready
    BY <2>1 DEF StreamStates
  <2> HIDE DEF t
  <2>4. Quiet(s, t)
    BY <2>1, <2>2, FieldsQuiet
  <2> QED BY <2>4, QuietSends
<1>3. Good(t, L)
  BY <1>2 DEF Sends
<1> HIDE DEF t
<1>4. Sends(s, u, L)
  <2>1. Sends(t, ProcessAck(t, p, grow), L)
    BY <1>3, ProcessAckSends
  <2>2. Sends(s, ProcessAck(t, p, grow), L)
    BY <1>2, <2>1, SendsThen
  <2> QED BY <1>2, <2>2
<1>5. Good(u, L)
  BY <1>4 DEF Sends
<1> HIDE DEF u
<1>6. CASE PlainAck(p)
  BY <1>1, <1>4, <1>6, SendsReceives
<1>7. CASE ~PlainAck(p)
  <2>1. p.seqn \in Nat /\ u.lastReceived \in Int
    BY <1>5, SavedBound DEF Packets
  <2>2. CASE p.seqn = u.lastReceived + 1
    <3>1. NextFor(u, L, p)
      BY <1>7, <2>2 DEF NextFor
    <3>2. Receives(u, NextInSequence(u, p), L)
      BY <1>5, <3>1, NextInSequenceReceives
    <3>3. n = NextInSequence(u, p)
      BY <2>1, <2>2
    <3> QED BY <1>1, <1>4, <1>7, <3>2, <3>3, SendsThenReceives
  <2>3. CASE p.seqn # u.lastReceived + 1 /\ p.seqn <= u.lastReceived
    <3>1. Sends(u, SendQuickAck(u), L)
      BY <1>5, SendQuickAckSends
    <3>2. Receives(u, SendQuickAck(u), L)
      BY <3>1, SendsReceives
    <3>3. n = SendQuickAck(u)
      BY <2>1, <2>3
    <3> QED BY <1>1, <1>4, <1>7, <3>2, <3>3, SendsThenReceives
  <2>4. CASE p.seqn > u.lastReceived + 1
    <3>1. Receives(u, OutOfSequence(u, p), L)
      BY <1>5, <1>7, <2>4, OutOfSequenceReceives
    <3>2. n = OutOfSequence(u, p)
      BY <2>1, <2>4
    <3> QED BY <1>1, <1>4, <1>7, <3>1, <3>2, SendsThenReceives
  <2> QED BY <2>1, <2>2, <2>3, <2>4
<1> QED BY <1>6, <1>7

----------------------------------------------------------------------------
(* Handlers, and the step from one stream to both.                           *)

LEMMA PostSends ==
  ASSUME NEW s, NEW L \in Seq(Nat), Good(s, L), NEW h \in Handlers \ {"SendPacket"}
  PROVE  Sends(s, Post(s, Job(h)), L)
<1> DEFINE t == [s EXCEPT !.ready = Append(@, Job(h))]
<1>1. s \in StreamStates /\ s.taken <= s.written
  BY GoodTaken
<1>2. t \in StreamStates /\ PostedPackets(t) = PostedPackets(s)
  BY <1>1, PostQuiet
<1>3. /\ t.log = s.log /\ t.seqn = s.seqn /\ t.taken = s.taken /\ t.written = s.written
      /\ t.got = s.got /\ t.lastReceived = s.lastReceived /\ t.saved = s.saved
      /\ t.sent = s.sent /\ t.wire = s.wire
  <2> DEFINE r == Append(s.ready, Job(h))
  <2> HIDE DEF r
  <2>1. t = [s EXCEPT !.ready = r]
    BY DEF r
  <2> HIDE DEF t
  <2> QED BY <1>1, <2>1 DEF StreamStates
<1>4. t = Post(s, Job(h))
  BY DEF Post
<1> HIDE DEF t
<1>5. Quiet(s, t)
  BY <1>1, <1>2, <1>3 DEF Quiet, Outgoing
<1> QED BY <1>4, <1>5, QuietSends

\* A change of flags, and the post of a handler.
LEMMA PostAfterReceives ==
  ASSUME NEW s, NEW L \in Seq(Nat), Good(s, L), NEW h \in Handlers \ {"SendPacket"},
         NEW x, \/ x = [s EXCEPT !.closeAsked = TRUE]
                \/ x = [s EXCEPT !.ackArmed = FALSE]
                \/ x = [s EXCEPT !.resendArmed = FALSE]
  PROVE  Receives(s, Post(x, Job(h)), L)
<1>1. s \in StreamStates /\ s.taken <= s.written
  BY GoodTaken
<1>2. /\ x \in StreamStates /\ x.written = s.written
      /\ x.log = s.log /\ x.seqn = s.seqn /\ x.taken = s.taken
      /\ x.got = s.got /\ x.lastReceived = s.lastReceived /\ x.saved = s.saved
      /\ x.sent = s.sent /\ x.wire = s.wire /\ x.ready = s.ready
  <2>1. CASE x = [s EXCEPT !.closeAsked = TRUE]
    BY <2>1, <1>1 DEF StreamStates
  <2>2. CASE x = [s EXCEPT !.ackArmed = FALSE]
    BY <2>2, <1>1 DEF StreamStates
  <2>3. CASE x = [s EXCEPT !.resendArmed = FALSE]
    BY <2>3, <1>1 DEF StreamStates
  <2> QED BY <2>1, <2>2, <2>3
<1>3. Sends(s, x, L)
  BY <1>1, <1>2, FieldsQuiet, QuietSends
<1>4. Good(x, L)
  BY <1>3 DEF Sends
<1>5. Sends(x, Post(x, Job(h)), L)
  BY <1>4, PostSends
<1> QED BY <1>3, <1>5, SendsThen, SendsReceives

\* AsyncSend: one more unit to send.
Writes(s, t, L) ==
  Good(t, L) /\ Prefix(s.log, t.log) /\ t.got = s.got /\ t.written = s.written + 1

LEMMA AsyncSendWrites ==
  ASSUME NEW s, NEW L \in Seq(Nat), Good(s, L), NEW h \in Handlers \ {"SendPacket"}
  PROVE  Writes(s, Post([s EXCEPT !.written = @ + 1], Job(h)), L)
<1> DEFINE w == s.written + 1
           x == [s EXCEPT !.written = w]
<1>1. s \in StreamStates /\ s.taken <= s.written
  BY GoodTaken
<1>2. w \in Nat /\ s.taken <= w
  BY <1>1 DEF StreamStates
<1> HIDE DEF w
<1>3. /\ x \in StreamStates /\ x.written = w
      /\ x.log = s.log /\ x.seqn = s.seqn /\ x.taken = s.taken
      /\ x.got = s.got /\ x.lastReceived = s.lastReceived /\ x.saved = s.saved
      /\ x.sent = s.sent /\ x.wire = s.wire /\ x.ready = s.ready
  BY <1>1, <1>2 DEF StreamStates
<1> HIDE DEF x
<1>4. PostedPackets(x) = PostedPackets(s)
  BY <1>3 DEF PostedPackets
<1>5. SenderGood(x)
  BY <1>2, <1>3, <1>4 DEF SenderGood, Good, Outgoing
<1>6. Good(x, L)
  BY <1>3, <1>5 DEF ReceiverGood, Good
<1>7. Sends(x, Post(x, Job(h)), L)
  BY <1>6, PostSends
<1>8. Writes(s, Post(x, Job(h)), L)
  BY <1>3, <1>7 DEF Writes, Sends, w
<1> QED BY <1>8 DEF x, w

\* Taking the handler at the head of the queue.
LEMMA TakenSends ==
  ASSUME NEW s, NEW L \in Seq(Nat), Good(s, L), s.ready # << >>
  PROVE  /\ Sends(s, [s EXCEPT !.ready = Tail(@)], L)
         /\ Head(s.ready).run = "SendPacket" =>
              Head(s.ready).packet \in Packets /\ Fits(s.log, Head(s.ready).packet)
<1> DEFINE r == Tail(s.ready)
           t == [s EXCEPT !.ready = r]
<1>1. s \in StreamStates /\ s.taken <= s.written
  BY GoodTaken
<1>2. s.ready \in Seq(Jobs)
  BY <1>1 DEF StreamStates
<1>3. /\ r \in Seq(Jobs) /\ Len(r) = Len(s.ready) - 1 /\ Len(s.ready) \in Nat
      /\ \A i \in 1 .. Len(r) : r[i] = s.ready[i + 1]
  BY <1>2, HeadTailProperties
<1>4. Head(s.ready) = s.ready[1] /\ 1 \in 1 .. Len(s.ready)
  BY <1>2
<1> HIDE DEF r
<1>5. /\ t \in StreamStates /\ t.ready = r
      /\ t.log = s.log /\ t.seqn = s.seqn /\ t.taken = s.taken /\ t.written = s.written
      /\ t.got = s.got /\ t.lastReceived = s.lastReceived /\ t.saved = s.saved
      /\ t.sent = s.sent /\ t.wire = s.wire
  BY <1>1, <1>3 DEF StreamStates
<1> HIDE DEF t
<1>6. PostedPackets(t) \subseteq PostedPackets(s)
  <2>1. \A i \in 1 .. Len(r) : i + 1 \in 1 .. Len(s.ready) /\ r[i] = s.ready[i + 1]
    BY <1>3
  <2> QED BY <2>1, <1>5 DEF PostedPackets
<1>7. Quiet(s, t)
  BY <1>1, <1>5, <1>6 DEF Quiet, Outgoing
<1>8. Sends(s, t, L)
  BY <1>7, QuietSends
<1>9. ASSUME Head(s.ready).run = "SendPacket"
      PROVE  Head(s.ready).packet \in Packets /\ Fits(s.log, Head(s.ready).packet)
  <2>1. Head(s.ready).packet \in Outgoing(s)
    BY <1>4, <1>9 DEF PostedPackets, Outgoing
  <2> QED BY <2>1, <1>1, OutgoingType DEF Good, SenderGood
<1> QED BY <1>8, <1>9 DEF t, r

\* The peer numbers more packets: what an end has received stays right.
LEMMA GoodExtension ==
  ASSUME NEW s, NEW L \in Seq(Nat), NEW M \in Seq(Nat), Good(s, L), Prefix(L, M)
  PROVE  Good(s, M)
<1>1. s.got \in Seq(Nat)
  BY GoodTaken DEF StreamStates
<1>2. Prefix(s.got, M)
  BY <1>1 DEF Good, ReceiverGood, Prefix
<1>3. \A q \in s.saved : Fits(M, q)
  BY SavedBound, SavedAhead, FitsExtension
<1> QED BY <1>2, <1>3, SavedAhead DEF Good, ReceiverGood

LEMMA NewStreamGood ==
  ASSUME NEW L \in Seq(Nat), NEW x \in Statuses
  PROVE  Good(NewStream(x), L) /\ NewStream(x).log = << >>
<1> DEFINE s == NewStream(x)
<1>1. MinWindow \in Nat \ {0}
  BY WindowAssumption
<1>2. /\ s \in StreamStates
      /\ s.log = << >> /\ s.got = << >> /\ s.ready = << >> /\ s.seqn = 0 /\ s.lastReceived = -1
      /\ s.taken = 0 /\ s.written = 0 /\ s.sent = {} /\ s.saved = {} /\ s.wire = {}
  BY <1>1 DEF NewStream, StreamStates
<1> HIDE DEF s
<1>3. Outgoing(s) = {}
  BY <1>2 DEF Outgoing, PostedPackets
<1>4. LogInOrder(s.log, s.taken)
  BY <1>2 DEF LogInOrder
<1>5. IsFiniteSet(s.sent)
  BY <1>2, FS_EmptySet
<1>6. SenderGood(s)
  BY <1>2, <1>3, <1>4, <1>5 DEF SenderGood
<1>7. ReceiverGood(s, L)
  BY <1>2 DEF ReceiverGood, Prefix
<1> QED BY <1>2, <1>6, <1>7 DEF Good, s

LEMMA EndsFacts ==
  /\ \A e \in Ends : Peer(e) \in Ends /\ Peer(e) # e /\ Peer(Peer(e)) = e
  /\ \A e, f \in Ends : f # e => f = Peer(e)
BY DEF Ends, Peer

\* One end takes a step that receives or sends well: both ends stay good.
LEMMA StepGood ==
  ASSUME IInv, NEW e \in Ends, NEW t, Step(e, t),
         \/ Receives(stream[e], t, stream[Peer(e)].log)
         \/ Writes(stream[e], t, stream[Peer(e)].log)
  PROVE  IInv'
<1> DEFINE f == Peer(e)
<1>1. f \in Ends /\ f # e /\ Peer(f) = e
  BY EndsFacts
<1>2. /\ stream \in [Ends -> StreamStates]
      /\ Good(stream[f], stream[e].log)
  BY <1>1 DEF IInv
<1>3. t \in StreamStates /\ Good(t, stream[f].log) /\ Prefix(stream[e].log, t.log)
  BY DEF Receives, Writes, Good
<1>4. stream[e].log \in Seq(Nat) /\ t.log \in Seq(Nat)
  BY <1>2, <1>3 DEF StreamStates
<1>5. Good(stream[f], t.log)
  BY <1>2, <1>3, <1>4, GoodExtension
<1>6. stream' = [stream EXCEPT ![e] = t]
  BY DEF Step
<1> HIDE DEF f
<1>7. stream' \in [Ends -> StreamStates] /\ stream'[e] = t /\ stream'[f] = stream[f]
  BY <1>1, <1>2, <1>3, <1>6
<1>8. \A x \in Ends : x = e \/ x = f
  BY EndsFacts DEF f
<1>9. \A x \in Ends : Good(stream'[x], stream'[Peer(x)].log)
  <2>1. Peer(e) = f BY DEF f
  <2> QED BY <2>1, <1>1, <1>3, <1>5, <1>7, <1>8
<1> QED BY <1>7, <1>9 DEF IInv

\* An end that first takes the handler at the head of its queue.
LEMMA RunReceives ==
  ASSUME IInv, NEW e \in Ends, NEW t, stream[e].ready # << >>,
         Sends(Taken(e), t, stream[Peer(e)].log)
  PROVE  Receives(stream[e], t, stream[Peer(e)].log)
<1> DEFINE L == stream[Peer(e)].log
<1>1. Good(stream[e], L) /\ L \in Seq(Nat)
  BY EndsFacts DEF IInv, StreamStates
<1> HIDE DEF L
<1>2. Sends(stream[e], Taken(e), L)
  BY <1>1, TakenSends DEF Taken
<1>3. Sends(stream[e], t, L)
  <2>1. Sends(Taken(e), t, L)
    BY DEF L
  <2> QED BY <1>1, <1>2, <2>1, SendsThen
<1> QED BY <1>3, SendsReceives DEF L

\* Every action writes a unit or receives well.
LEMMA NextReceives ==
  ASSUME IInv, NEW e \in Ends,
         \/ AsyncSend(e) \/ Connect(e) \/ AsyncClose(e)
         \/ ReceiveSyn(e) \/ ReceivePacket(e)
         \/ AckSendTimerExpires(e) \/ ResendTimerExpires(e)
         \/ Run(e) \/ SendUpdatedLeaseSet(e)
  PROVE  \E t : /\ Step(e, t)
                /\ \/ Receives(stream[e], t, stream[Peer(e)].log)
                   \/ Writes(stream[e], t, stream[Peer(e)].log)
<1> DEFINE s == stream[e]
           L == stream[Peer(e)].log
           u == Taken(e)
<1>1. Good(s, L) /\ L \in Seq(Nat) /\ s \in StreamStates /\ s.taken <= s.written
  BY EndsFacts, GoodTaken DEF IInv, StreamStates
<1>2. s.ready # << >> => Good(u, L) /\ u.sent = s.sent /\ u.log = s.log
  <2> HIDE DEF L
  <2>1. s.ready # << >> => Sends(s, [s EXCEPT !.ready = Tail(@)], L)
    BY <1>1, TakenSends
  <2> QED BY <2>1, <1>1 DEF Taken, Sends, StreamStates
<1>3. ASSUME NEW p \in stream[Peer(e)].wire PROVE p \in Packets /\ Fits(L, p)
  <2>1. Good(stream[Peer(e)], stream[e].log) /\ stream[Peer(e)] \in StreamStates
    BY EndsFacts DEF IInv
  <2> QED BY <2>1, OutgoingType DEF Good, SenderGood, Outgoing
<1>4. CASE AsyncSend(e)
  <2> DEFINE t == Post([s EXCEPT !.written = @ + 1], Job("SendBuffer"))
  <2>1. Step(e, t)
    BY <1>4 DEF AsyncSend
  <2>2. Writes(s, t, L)
    <3> HIDE DEF s, L
    <3> QED BY <1>1, AsyncSendWrites DEF Handlers
  <2> HIDE DEF t
  <2> QED BY <2>1, <2>2
<1>5. CASE Connect(e)
  <2>1. Step(e, Post(s, Job("SendBuffer")))
    BY <1>5 DEF Connect
  <2>2. Receives(s, Post(s, Job("SendBuffer")), L)
    <3> HIDE DEF s, L
    <3> QED BY <1>1, PostSends, SendsReceives DEF Handlers
  <2> QED BY <2>1, <2>2
<1>6. CASE AsyncClose(e)
  <2> DEFINE x == [s EXCEPT !.closeAsked = TRUE]
  <2>1. Step(e, Post(x, Job("Close")))
    BY <1>6 DEF AsyncClose
  <2>2. Receives(s, Post(x, Job("Close")), L)
    <3> HIDE DEF s, L
    <3> QED BY <1>1, PostAfterReceives DEF Handlers
  <2> QED BY <2>1, <2>2
<1>7. CASE ReceiveSyn(e)
  <2> DEFINE x == NewStream("New")
  <2>1. PICK p \in stream[Peer(e)].wire : Step(e, HandleNextPacket(x, p, FALSE))
    BY <1>7 DEF ReceiveSyn
  <2>2. s = NewStream("None") /\ Good(x, L)
    BY <1>1, <1>7, NewStreamGood DEF ReceiveSyn, Statuses
  <2> HIDE DEF x
  <2>3. Receives(x, HandleNextPacket(x, p, FALSE), L)
    BY <1>1, <1>3, <2>2, HandleNextPacketReceives
  <2>4. Receives(s, HandleNextPacket(x, p, FALSE), L)
    <3>1. s.log = x.log /\ s.got = x.got /\ s.written = x.written
      BY <2>2 DEF NewStream, x
    <3> QED BY <2>3, <3>1 DEF Receives
  <2> QED BY <2>1, <2>4
<1>8. CASE ReceivePacket(e)
  <2>1. PICK p \in stream[Peer(e)].wire, grow \in BOOLEAN :
          Step(e, HandleNextPacket(s, p, grow))
    BY <1>8 DEF ReceivePacket
  <2>2. Receives(s, HandleNextPacket(s, p, grow), L)
    BY <1>1, <1>3, HandleNextPacketReceives
  <2> QED BY <2>1, <2>2
<1>9. CASE AckSendTimerExpires(e)
  <2> DEFINE x == [s EXCEPT !.ackArmed = FALSE]
  <2>1. Step(e, Post(x, Job("HandleAckSendTimer")))
    BY <1>9 DEF AckSendTimerExpires
  <2>2. Receives(s, Post(x, Job("HandleAckSendTimer")), L)
    <3> HIDE DEF s, L
    <3> QED BY <1>1, PostAfterReceives DEF Handlers
  <2> QED BY <2>1, <2>2
<1>10. CASE ResendTimerExpires(e)
  <2> DEFINE x == [s EXCEPT !.resendArmed = FALSE]
  <2>1. Step(e, Post(x, Job("HandleResendTimer")))
    BY <1>10 DEF ResendTimerExpires
  <2>2. Receives(s, Post(x, Job("HandleResendTimer")), L)
    <3> HIDE DEF s, L
    <3> QED BY <1>1, PostAfterReceives DEF Handlers
  <2> QED BY <2>1, <2>2
<1>11. CASE Run(e)
  <2>1. s.ready # << >>
    BY <1>11 DEF Run, RunSendBuffer, RunClose, RunSendPacket, RunAckSendTimer,
                RunAbortedAckSendTimer, RunResendTimer, NextJobIs
  <2>2. Good(u, L)
    BY <1>2, <2>1
  <2>3. CASE RunSendBuffer(e)
    <3>1. Step(e, SendBuffer(u))
      BY <2>3 DEF RunSendBuffer
    <3>2. Sends(u, SendBuffer(u), L)
      BY <1>1, <2>2, SendBufferSends
    <3> QED BY <2>1, <3>1, <3>2, RunReceives
  <2>4. CASE RunClose(e)
    <3>1. Step(e, Close(u))
      BY <2>4 DEF RunClose
    <3>2. Sends(u, Close(u), L)
      BY <1>1, <2>2, CloseSends
    <3> QED BY <2>1, <3>1, <3>2, RunReceives
  <2>5. CASE RunSendPacket(e)
    <3> DEFINE p == Head(s.ready).packet
    <3>1. Step(e, SendPacket(u, p)) /\ Head(s.ready).run = "SendPacket"
      BY <2>5 DEF RunSendPacket, NextJobIs
    <3>2. p \in Packets /\ Fits(u.log, p)
      BY <1>1, <1>2, <2>1, <3>1, TakenSends
    <3> HIDE DEF p
    <3>3. Sends(u, SendPacket(u, p), L)
      BY <1>1, <2>2, <3>2, SendPacketSends
    <3> QED BY <2>1, <3>1, <3>3, RunReceives
  <2>6. CASE RunAckSendTimer(e) \/ RunAbortedAckSendTimer(e)
    <3>1. Step(e, HandleAckSendTimer(u))
      BY <2>6 DEF RunAckSendTimer, RunAbortedAckSendTimer
    <3>2. Sends(u, HandleAckSendTimer(u), L)
      BY <1>1, <2>2, HandleAckSendTimerSends
    <3> QED BY <2>1, <3>1, <3>2, RunReceives
  <2>7. CASE \E due \in SUBSET stream[e].sent : RunResendTimer(e, due)
    <3>1. PICK due \in SUBSET u.sent : Step(e, HandleResendTimer(u, due))
      BY <2>7, <1>2, <2>1 DEF RunResendTimer
    <3>2. Sends(u, HandleResendTimer(u, due), L)
      BY <1>1, <2>2, HandleResendTimerSends
    <3> QED BY <2>1, <3>1, <3>2, RunReceives
  <2> QED BY <1>11, <2>3, <2>4, <2>5, <2>6, <2>7 DEF Run
<1>12. CASE SendUpdatedLeaseSet(e)
  <2>1. Step(e, SendQuickAck(s))
    BY <1>12 DEF SendUpdatedLeaseSet
  <2>2. Receives(s, SendQuickAck(s), L)
    BY <1>1, SendQuickAckSends, SendsReceives
  <2> QED BY <2>1, <2>2
<1> QED BY <1>4, <1>5, <1>6, <1>7, <1>8, <1>9, <1>10, <1>11, <1>12

----------------------------------------------------------------------------
(* The theorems.                                                             *)

LEMMA NextKeepsIInv ==
  ASSUME IInv, Next
  PROVE  IInv'
<1>1. PICK e \in Ends :
        \/ AsyncSend(e) \/ Connect(e) \/ AsyncClose(e)
        \/ ReceiveSyn(e) \/ ReceivePacket(e)
        \/ AckSendTimerExpires(e) \/ ResendTimerExpires(e)
        \/ Run(e) \/ SendUpdatedLeaseSet(e)
  BY DEF Next
<1>2. PICK t : /\ Step(e, t)
               /\ \/ Receives(stream[e], t, stream[Peer(e)].log)
                  \/ Writes(stream[e], t, stream[Peer(e)].log)
  BY <1>1, NextReceives
<1> QED BY <1>2, StepGood

LEMMA InitIInv == Init => IInv
<1> SUFFICES ASSUME Init PROVE IInv
  OBVIOUS
<1>1. \A e \in Ends : \E x \in Statuses : stream[e] = NewStream(x)
  BY DEF Init, Statuses
<1>2. << >> \in Seq(Nat)
  OBVIOUS
<1>3. \A e \in Ends : stream[e].log = << >> /\ stream[e] \in StreamStates
  BY <1>1, <1>2, NewStreamGood DEF Good
<1>4. \A e \in Ends : Good(stream[e], stream[Peer(e)].log)
  BY <1>1, <1>2, <1>3, NewStreamGood, EndsFacts
<1>5. stream \in [Ends -> StreamStates]
  BY <1>3 DEF Init
<1> QED BY <1>4, <1>5 DEF IInv

LEMMA IInvHolds == Spec => []IInv
<1>1. IInv /\ [Next]_stream => IInv'
  <2>1. CASE Next
    BY <2>1, NextKeepsIInv
  <2>2. CASE UNCHANGED stream
    BY <2>2 DEF IInv
  <2> QED BY <2>1, <2>2
<1> QED BY <1>1, InitIInv, PTL DEF Spec

\* The streams keep their types, and their counters the length of what they count.
THEOREM TypeCorrect == Spec => []TypeOK
<1>1. IInv => TypeOK
  BY DEF IInv, TypeOK, Good, SenderGood, ReceiverGood
<1> QED BY <1>1, IInvHolds, PTL

\* What an end has processed is a prefix of what its peer has numbered, whatever the
\* network loses, repeats or reorders.
THEOREM PrefixReceived == Spec => []ReceivedIsPrefixOfSent
<1>1. IInv => ReceivedIsPrefixOfSent
  BY DEF IInv, ReceivedIsPrefixOfSent, Good, ReceiverGood, Prefix
<1> QED BY <1>1, IInvHolds, PTL

\* An application reads the units its peer wrote in their order, each once, none left out.
THEOREM DeliveredInOrder == Spec => []InOrderDelivery
<1>1. ASSUME IInv, NEW e \in Ends,
             NEW i \in 1 .. Len(stream[e].got), stream[e].got[i] # 0
      PROVE  /\ stream[e].got[i] <= stream[Peer(e)].written
             /\ \A j \in 1 .. (i - 1) : stream[e].got[j] # stream[e].got[i]
             /\ \A n \in 1 .. (stream[e].got[i] - 1) :
                  \E j \in 1 .. (i - 1) : stream[e].got[j] = n
  <2> DEFINE G == stream[e].got
             L == stream[Peer(e)].log
             k == stream[Peer(e)].taken
             w == stream[Peer(e)].written
  <2>1. /\ Good(stream[e], L) /\ Good(stream[Peer(e)], stream[e].log)
        /\ stream[e] \in StreamStates /\ stream[Peer(e)] \in StreamStates
    BY <1>1, EndsFacts DEF IInv
  <2>2. G \in Seq(Nat) /\ L \in Seq(Nat) /\ k \in Nat /\ w \in Nat /\ k <= w
    BY <2>1, GoodTaken DEF StreamStates
  <2>3. LogInOrder(L, k)
    BY <2>1 DEF Good, SenderGood
  <2>4. Len(G) <= Len(L) /\ \A j \in 1 .. Len(G) : G[j] = L[j]
    BY <2>1 DEF Good, ReceiverGood, Prefix
  <2>5. i \in 1 .. Len(G) /\ G[i] # 0
    BY <1>1
  <2> HIDE DEF G, L, k, w
  <2>6. i \in 1 .. Len(L) /\ G[i] = L[i] /\ \A j \in 1 .. (i - 1) : G[j] = L[j] /\ G[j] \in Nat
    BY <2>2, <2>4, <2>5
  <2>7. /\ L[i] <= k /\ \A j \in 1 .. (i - 1) : L[j] < L[i]
        /\ \A n \in 1 .. (L[i] - 1) : \E j \in 1 .. (i - 1) : L[j] = n
    BY <2>3, <2>5, <2>6 DEF LogInOrder
  <2>8. L[i] \in Nat
    BY <2>2, <2>6
  <2>9. G[i] <= w
    BY <2>2, <2>6, <2>7, <2>8
  <2>10. \A j \in 1 .. (i - 1) : G[j] # G[i]
    BY <2>6, <2>7, <2>8
  <2>11. \A n \in 1 .. (G[i] - 1) : \E j \in 1 .. (i - 1) : G[j] = n
    <3> SUFFICES ASSUME NEW n \in 1 .. (G[i] - 1) PROVE \E j \in 1 .. (i - 1) : G[j] = n
      OBVIOUS
    <3>1. PICK j \in 1 .. (i - 1) : L[j] = n
      BY <2>6, <2>7
    <3> QED BY <3>1, <2>6
  <2> QED BY <2>9, <2>10, <2>11 DEF G, w
<1>2. IInv => InOrderDelivery
  BY <1>1 DEF InOrderDelivery
<1> QED BY <1>2, IInvHolds, PTL

----------------------------------------------------------------------------
(* The stream implements the pipe of StreamService.                          *)

\* The units processed are the first m units written.
LEMMA UnitsAreFirst ==
  ASSUME NEW s, s.got \in Seq(Nat), NEW L \in Seq(Nat), Prefix(s.got, L),
         NEW k \in Nat, NEW w \in Nat, k <= w, LogInOrder(L, k)
  PROVE  \E m \in 0 .. w : Units(s) = 1 .. m
<1> DEFINE U == Units(s)
           g == s.got
<1>1. g \in Seq(Nat) /\ Len(g) <= Len(L) /\ \A i \in 1 .. Len(g) : g[i] = L[i]
  BY DEF Prefix
<1>2. U = {g[i] : i \in 1 .. Len(g)} \ {0}
  BY DEF Units
<1> HIDE DEF U, g
<1>3. \A x \in U : x \in Nat \ {0} /\ x <= w
  <2> SUFFICES ASSUME NEW i \in 1 .. Len(g), g[i] # 0
               PROVE  g[i] \in Nat \ {0} /\ g[i] <= w
    BY <1>2
  <2>1. i \in 1 .. Len(L) /\ g[i] = L[i] /\ L[i] \in Nat
    BY <1>1
  <2>2. L[i] <= k
    BY <2>1 DEF LogInOrder
  <2> QED BY <2>1, <2>2
<1>4. CASE U = {}
  <2>1. U = 1 .. 0 /\ 0 \in 0 .. w
    BY <1>4
  <2> QED BY <2>1 DEF U
<1>5. CASE U # {}
  <2>1. PICK m \in U : \A x \in U : x <= m
    <3>1. U \in SUBSET Int /\ w \in Int
      BY <1>3
    <3> QED BY <1>3, <1>5, <3>1, GreatestElement
  <2>2. m \in Nat \ {0} /\ m <= w
    BY <1>3, <2>1
  <2>3. PICK i \in 1 .. Len(g) : m = g[i]
    BY <1>2, <2>1
  <2>4. i \in 1 .. Len(L) /\ L[i] = m
    BY <1>1, <2>3
  <2>5. \A n \in 1 .. (m - 1) : \E j \in 1 .. (i - 1) : L[j] = n
    BY <2>2, <2>4 DEF LogInOrder
  <2>6. \A n \in 1 .. m : n \in U
    <3> SUFFICES ASSUME NEW n \in 1 .. m PROVE n \in U
      OBVIOUS
    <3>1. CASE n = m
      BY <2>1, <3>1
    <3>2. CASE n # m
      <4>1. n \in 1 .. (m - 1) /\ n # 0
        BY <2>2, <3>2
      <4>2. PICK j \in 1 .. (i - 1) : L[j] = n
        BY <2>5, <4>1
      <4>3. j \in 1 .. Len(g) /\ g[j] = n
        BY SMTT(30), <1>1, <2>3, <4>2
      <4> QED BY <1>2, <4>1, <4>3
    <3> QED BY <3>1, <3>2
  <2>7. U = 1 .. m
    <3>1. \A x \in U : x \in 1 .. m
      BY <1>3, <2>1, <2>2
    <3> QED BY <2>6, <3>1, Zenon
  <2> QED BY <2>2, <2>7 DEF U
<1> QED BY <1>4, <1>5

\* Processing more packets only adds units.
LEMMA UnitsGrow ==
  ASSUME NEW s, NEW t, s.got \in Seq(Nat), t.got \in Seq(Nat), Prefix(s.got, t.got)
  PROVE  Units(s) \subseteq Units(t)
<1> DEFINE g == s.got
           h == t.got
<1>1. \A i \in 1 .. Len(g) : i \in 1 .. Len(h) /\ g[i] = h[i]
  BY DEF Prefix
<1>2. Units(s) = {g[i] : i \in 1 .. Len(g)} \ {0} /\ Units(t) = {h[i] : i \in 1 .. Len(h)} \ {0}
  BY DEF Units
<1> HIDE DEF g, h
<1> QED BY <1>1, <1>2

\* What a reader got is within what was written for it.
LEMMA UnitsWritten ==
  ASSUME NEW s, NEW o, Good(s, o.log), SenderGood(o), o \in StreamStates
  PROVE  \E m \in 0 .. o.written : Units(s) = 1 .. m
<1>1. /\ s.got \in Seq(Nat) /\ o.log \in Seq(Nat) /\ Prefix(s.got, o.log)
      /\ o.taken \in Nat /\ o.written \in Nat /\ o.taken <= o.written
      /\ LogInOrder(o.log, o.taken)
  BY DEF Good, ReceiverGood, SenderGood, StreamStates
<1> QED BY <1>1, UnitsAreFirst

\* Every step of the two ends is one of the pipe.
LEMMA StepServed ==
  ASSUME IInv, NEW e \in Ends, NEW t, Step(e, t),
         \/ Receives(stream[e], t, stream[Peer(e)].log)
         \/ Writes(stream[e], t, stream[Peer(e)].log)
  PROVE  Service!Write(Peer(e)) \/ Service!Deliver(e)
<1> DEFINE f == Peer(e)
           W == WrittenFor
           D == DeliveredTo
<1>1. /\ f \in Ends /\ f # e /\ Peer(f) = e
      /\ \A x \in Ends : x = e \/ x = f
  BY EndsFacts
<1>2. /\ stream \in [Ends -> StreamStates]
      /\ stream' = [stream EXCEPT ![e] = t]
  BY DEF IInv, Step
<1>3. stream'[e] = t /\ stream'[f] = stream[f] /\ Peer(e) = f
  BY <1>1, <1>2
<1>4. Good(stream[f], stream[e].log) /\ stream[f] \in StreamStates
  BY <1>1, <1>2 DEF IInv
<1>5. stream[e] \in StreamStates
  BY <1>2
<1>6. /\ W  = [x \in Ends |-> stream[Peer(x)].written]
      /\ W' = [x \in Ends |-> stream'[Peer(x)].written]
      /\ D  = [x \in Ends |-> Units(stream[x])]
      /\ D' = [x \in Ends |-> Units(stream'[x])]
  BY DEF WrittenFor, DeliveredTo, Units
<1>7. CASE Receives(stream[e], t, stream[f].log)
  <2>1. Good(t, stream[f].log) /\ Prefix(stream[e].got, t.got) /\ t.written = stream[e].written
    BY <1>7 DEF Receives
  <2>2. PICK m \in 0 .. stream[f].written : Units(t) = 1 .. m
    BY <1>4, <2>1, UnitsWritten DEF Good
  <2>3. Units(stream[e]) \subseteq Units(t)
    BY <1>5, <2>1, UnitsGrow DEF Good, StreamStates
  <2> HIDE DEF f
  <2>4. \A x \in Ends : stream'[Peer(x)].written = stream[Peer(x)].written
    BY <1>1, <1>3, <2>1
  <2>5. W' = W
    BY <1>6, <2>4
  <2>6. D' = [D EXCEPT ![e] = 1 .. m]
    BY <1>1, <1>3, <1>6, <2>2
  <2>7. m \in 0 .. W[e] /\ D[e] \subseteq 1 .. m
    BY <1>1, <1>3, <1>6, <2>2, <2>3
  <2> HIDE DEF W, D
  <2>8. /\ \E n \in 0 .. W[e] : D[e] \subseteq 1 .. n /\ D' = [D EXCEPT ![e] = 1 .. n]
        /\ W' = W
    BY <2>5, <2>6, <2>7
  <2> QED BY <2>8, <1>1 DEF Service!Deliver, W, D
<1>8. CASE Writes(stream[e], t, stream[f].log)
  <2>1. t.got = stream[e].got /\ t.written = stream[e].written + 1
    BY <1>8 DEF Writes
  <2>2. Units(t) = Units(stream[e])
    BY <2>1 DEF Units
  <2> HIDE DEF f
  <2>3. \A x \in Ends : Units(stream'[x]) = Units(stream[x])
    BY <1>1, <1>3, <2>2
  <2>4. D' = D
    BY <1>6, <2>3
  <2>5. W' = [W EXCEPT ![f] = @ + 1]
    BY <1>1, <1>3, <1>6, <2>1
  <2> QED BY <2>4, <2>5 DEF Service!Write, W, D, f
<1> QED BY <1>7, <1>8

LEMMA InitServed == Init => Service!Init
<1> SUFFICES ASSUME Init PROVE Service!Init
  OBVIOUS
<1>1. \A e \in Ends : stream[e].written = 0 /\ stream[e].got = << >>
  BY DEF Init, NewStream
<1>2. \A e \in Ends : Units(stream[e]) = {}
  BY <1>1 DEF Units
<1>3. \A e \in Ends : stream[Peer(e)].written = 0
  BY <1>1, EndsFacts
<1> QED BY <1>2, <1>3 DEF Service!Init, WrittenFor, DeliveredTo

\* Two ends that lose, repeat and reorder packets and that give up, reset and close as
\* they may are, to the applications, the pipe of StreamService.
THEOREM StreamIsPipe == Spec => ImplementsService
<1>1. IInv /\ [Next]_stream => [Service!Next]_<<WrittenFor, DeliveredTo>>
  <2> SUFFICES ASSUME IInv, [Next]_stream
               PROVE  Service!Next \/ UNCHANGED <<WrittenFor, DeliveredTo>>
    OBVIOUS
  <2>1. CASE Next
    <3>1. PICK e \in Ends :
            \/ AsyncSend(e) \/ Connect(e) \/ AsyncClose(e)
            \/ ReceiveSyn(e) \/ ReceivePacket(e)
            \/ AckSendTimerExpires(e) \/ ResendTimerExpires(e)
            \/ Run(e) \/ SendUpdatedLeaseSet(e)
      BY <2>1 DEF Next
    <3>2. PICK t : /\ Step(e, t)
                   /\ \/ Receives(stream[e], t, stream[Peer(e)].log)
                      \/ Writes(stream[e], t, stream[Peer(e)].log)
      BY <3>1, NextReceives
    <3>3. Service!Write(Peer(e)) \/ Service!Deliver(e)
      BY <3>2, StepServed
    <3>4. Peer(e) \in Ends
      BY EndsFacts
    <3> QED BY <3>3, <3>4 DEF Service!Next
  <2>2. CASE UNCHANGED stream
    BY <2>2 DEF WrittenFor, DeliveredTo, Units
  <2> QED BY <2>1, <2>2
<1> QED BY <1>1, InitServed, IInvHolds, PTL DEF Spec, ImplementsService, Service!Spec

=============================================================================
