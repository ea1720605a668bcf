------------------------- MODULE StreamingAckProofs -------------------------
(* Proofs about the acknowledgements of module Streaming and what they set in *)
(* motion, for every window and every bound: a packet that is no longer       *)
(* retransmitted has been received, and the gaps that a receiver reports fit  *)
(* into one packet; so no stream is stuck, and one that closes has delivered. *)
(*                                                                            *)
(* The first two go together.  What an end acknowledges it holds, because its *)
(* NACKs name every packet that is missing; they do because they fit; they    *)
(* fit because only a window of packets and one FIN can be missing; and only  *)
(* these can be missing because a packet leaves the window when the peer      *)
(* holds it.                                                                  *)
EXTENDS StreamingProofs

----------------------------------------------------------------------------
(* The inductive invariant.  The predicates are about one stream s, its peer  *)
(* o, and the numbers X that s may acknowledge without holding them.          *)

\* The packets that p acknowledges are ones that s holds.
Heard(p, s, X) ==
  \A n \in 0 .. p.ackThrough : n \in p.nacks \/ Has(s, n) \/ n \in X

Honest(s, X) == \A p \in Outgoing(s) : p.noAck \/ Heard(p, s, X)

\* A number that s has given is held by o, or its packet is still tracked.
Kept(s, o, Y) ==
  \A n \in 0 .. (s.seqn - 1) :
    n \in Seqns(s.sent) \/ n \in Seqns(PostedPackets(s)) \/ Has(o, n) \/ n \in Y

InFlight(s) == {p \in s.sent : ~p.fin}
Fins(s) == Seqns({p \in Outgoing(s) : p.fin})

\* A second FIN is the last packet of all: there is nothing left to send behind it.
Finished(s) ==
  s.status \in {"Closed", "Reset"} /\ s.closeAsked /\ BufferIsEmpty(s)

FinsGood(s) ==
  /\ s.status \in {"None", "New", "Open"} => Fins(s) = {}
  /\ s.status = "Closing" => s.closeAsked /\ (Fins(s) = {} \/ BufferIsEmpty(s))
  /\ \E f \in Nat : \/ Fins(s) \subseteq {f}
                    \/ Finished(s) /\ Fins(s) \subseteq {f, s.seqn - 1}

Asked(s) == {i \in 1 .. Len(s.ready) : s.ready[i].run = "Close"}

Tracks(s, o, X, Y) ==
  /\ Honest(s, X)
  /\ Kept(s, o, Y)
  /\ s.window <= MaxWindow /\ Cardinality(InFlight(s)) <= MaxWindow
  /\ FinsGood(s)
  /\ \A p \in PostedPackets(s) : p.fin
  /\ \A p \in Outgoing(s) : p.syn => p.seqn = 0
  /\ s.status = "New" => s.seqn = 0
  /\ s.status = "Reset" => ~s.attached
  /\ Asked(s) # {} => s.closeAsked
  /\ s.lastReceived < 0 => 0 \in X

\* The outgoing end says that it has packet 0 as long as it has received nothing.
Excused(e) == IF e = "outgoing" THEN {0} ELSE {}

AckInv ==
  /\ IInv
  /\ \A e \in Ends : \/ Tracks(stream[e], stream[Peer(e)], Excused(e), Excused(Peer(e)))
                     \/ e = "incoming" /\ stream[e] = NewStream("None")

----------------------------------------------------------------------------
(* Operators that number no packet and send none.                            *)

SamePackets(s, t) ==
  /\ t.seqn = s.seqn /\ t.sent = s.sent /\ t.wire = s.wire
  /\ t.lastReceived = s.lastReceived /\ t.saved = s.saved
  /\ PostedPackets(t) = PostedPackets(s)

LEMMA SamePacketsKeep ==
  ASSUME NEW s, NEW t, NEW o, NEW X, NEW Y, SamePackets(s, t)
  PROVE  /\ Outgoing(t) = Outgoing(s) /\ Fins(t) = Fins(s) /\ InFlight(t) = InFlight(s)
         /\ Honest(s, X) => Honest(t, X)
         /\ Kept(s, o, Y) => Kept(t, o, Y)
<1>1. Outgoing(t) = Outgoing(s) /\ InFlight(t) = InFlight(s)
  BY DEF SamePackets, Outgoing, InFlight
<1>2. Fins(t) = Fins(s)
  BY <1>1 DEF Fins
<1>3. Honest(s, X) => Honest(t, X)
  BY <1>1 DEF Honest, Heard, Has, SamePackets
<1>4. Kept(s, o, Y) => Kept(t, o, Y)
  BY DEF Kept, SamePackets
<1> QED BY <1>1, <1>2, <1>3, <1>4

\* Nothing but timers, and handlers that carry no packet and do not close the stream.
Same(s, t) ==
  /\ SamePackets(s, t)
  /\ t.window = s.window /\ t.status = s.status
  /\ t.closeAsked = s.closeAsked /\ t.written = s.written /\ t.taken = s.taken
  /\ Asked(t) # {} => Asked(s) # {}
  /\ t.attached => s.attached

LEMMA SameTracks ==
  ASSUME NEW s, NEW t, NEW o, NEW X, NEW Y, Tracks(s, o, X, Y), Same(s, t)
  PROVE  Tracks(t, o, X, Y)
<1>1. /\ Outgoing(t) = Outgoing(s) /\ Fins(t) = Fins(s) /\ InFlight(t) = InFlight(s)
      /\ Honest(t, X) /\ Kept(t, o, Y)
  BY SamePacketsKeep DEF Same, Tracks
<1>2. FinsGood(t)
  BY <1>1 DEF Tracks, FinsGood, Finished, BufferIsEmpty, Same, SamePackets
<1> QED BY <1>1, <1>2 DEF Tracks, Same, SamePackets

LEMMA SameTransitive ==
  ASSUME NEW s, NEW t, NEW u, Same(s, t), Same(t, u)
  PROVE  Same(s, u)
BY DEF Same, SamePackets

\* Only the timers and the lists of handlers differ.
LEMMA TimersSame ==
  ASSUME NEW s \in StreamStates, NEW a \in BOOLEAN, NEW b \in BOOLEAN, NEW c \in BOOLEAN
  PROVE  Same(s, [s EXCEPT !.ackScheduled = a, !.ackArmed = b, !.resendArmed = c])
<1> DEFINE t == [s EXCEPT !.ackScheduled = a, !.ackArmed = b, !.resendArmed = c]
<1>1. /\ t.seqn = s.seqn /\ t.sent = s.sent /\ t.wire = s.wire
      /\ t.lastReceived = s.lastReceived /\ t.saved = s.saved /\ t.ready = s.ready
      /\ t.window = s.window /\ t.status = s.status /\ t.attached = s.attached
      /\ t.closeAsked = s.closeAsked /\ t.written = s.written /\ t.taken = s.taken
  BY DEF StreamStates
<1> HIDE DEF t
<1>2. PostedPackets(t) = PostedPackets(s) /\ Asked(t) = Asked(s)
  BY <1>1 DEF PostedPackets, Asked
<1> QED BY <1>1, <1>2 DEF Same, SamePackets, t

LEMMA AppendAsked ==
  ASSUME NEW s \in StreamStates, NEW j \in Jobs, NEW t, t.ready = Append(s.ready, j),
         j.run # "Close"
  PROVE  Asked(t) # {} => Asked(s) # {}
<1>1. s.ready \in Seq(Jobs)
  BY DEF StreamStates
<1>2. /\ Len(t.ready) = Len(s.ready) + 1 /\ Len(s.ready) \in Nat
      /\ \A i \in 1 .. Len(s.ready) : t.ready[i] = s.ready[i]
      /\ t.ready[Len(s.ready) + 1] = j
  BY <1>1, AppendProperties
<1>3. ASSUME NEW i \in Asked(t) PROVE i \in Asked(s)
  <2>1. i \in 1 .. Len(t.ready) /\ t.ready[i].run = "Close"
    BY DEF Asked
  <2>2. i # Len(s.ready) + 1
    BY <1>2, <2>1
  <2>3. i \in 1 .. Len(s.ready)
    BY <1>2, <2>1, <2>2
  <2> QED BY <1>2, <2>1, <2>3 DEF Asked
<1> QED BY <1>3

LEMMA CancelSame ==
  ASSUME NEW s \in StreamStates
  PROVE  Same(s, CancelAckSendTimer(s)) /\ CancelAckSendTimer(s) \in StreamStates
<1> DEFINE j == Job("AbortedAckSendTimer")
           r == Append(s.ready, j)
           t == [s EXCEPT !.ackArmed = FALSE, !.ready = r]
<1>1. j \in Jobs /\ j.run = "AbortedAckSendTimer"
  BY JobType DEF Job, Handlers
<1>2. /\ [s EXCEPT !.ready = r] \in StreamStates
      /\ PostedPackets([s EXCEPT !.ready = r]) = PostedPackets(s)
  BY PostQuiet DEF Handlers
<1> HIDE DEF j
<1>3. r = [s EXCEPT !.ready = r].ready
  BY DEF StreamStates
<1>4. PostedPackets([s EXCEPT !.ready = r]) =
        {r[i].packet : i \in {k \in 1 .. Len(r) : r[k].run = "SendPacket"}}
  BY <1>3 DEF PostedPackets
<1>5. r \in Seq(Jobs)
  BY <1>1 DEF StreamStates
<1>6. CancelAckSendTimer(s) = IF s.ackArmed THEN t ELSE s
  BY DEF CancelAckSendTimer, j
<1>7. t.ready = Append(s.ready, j)
  BY DEF StreamStates
<1>8. Asked(t) # {} => Asked(s) # {}
  <2> HIDE DEF t
  <2> QED BY <1>1, <1>7, AppendAsked
<1> HIDE DEF r
<1>9. /\ t \in StreamStates
      /\ t.seqn = s.seqn /\ t.sent = s.sent /\ t.wire = s.wire
      /\ t.lastReceived = s.lastReceived /\ t.saved = s.saved /\ t.ready = r
      /\ t.window = s.window /\ t.status = s.status /\ t.attached = s.attached
      /\ t.closeAsked = s.closeAsked /\ t.written = s.written /\ t.taken = s.taken
  BY <1>5 DEF StreamStates
<1> HIDE DEF t
<1>10. PostedPackets(t) = PostedPackets(s)
  BY <1>2, <1>4, <1>9 DEF PostedPackets
<1>11. Same(s, t) /\ Same(s, s)
  BY <1>8, <1>9, <1>10 DEF Same, SamePackets
<1> QED BY <1>6, <1>9, <1>11

LEMMA TimerOperatorsSame ==
  ASSUME NEW s \in StreamStates
  PROVE  /\ Same(s, ArmAckSendTimer(s)) /\ Same(s, StopAckSend(s)) /\ Same(s, ScheduleResend(s))
         /\ Same(s, [s EXCEPT !.ackScheduled = FALSE])
<1> DEFINE t == CancelAckSendTimer(s)
<1>1. Same(s, t) /\ t \in StreamStates
  BY CancelSame
<1> HIDE DEF t
<1>2. /\ t.ackScheduled \in BOOLEAN /\ t.ackArmed \in BOOLEAN /\ t.resendArmed \in BOOLEAN
      /\ s.ackScheduled \in BOOLEAN /\ s.ackArmed \in BOOLEAN /\ s.resendArmed \in BOOLEAN
  BY <1>1 DEF StreamStates
<1>3. /\ Same(t, [t EXCEPT !.ackScheduled = TRUE, !.ackArmed = TRUE, !.resendArmed = t.resendArmed])
      /\ Same(t, [t EXCEPT !.ackScheduled = FALSE, !.ackArmed = t.ackArmed, !.resendArmed = t.resendArmed])
      /\ Same(s, [s EXCEPT !.ackScheduled = s.ackScheduled, !.ackArmed = s.ackArmed, !.resendArmed = TRUE])
      /\ Same(s, [s EXCEPT !.ackScheduled = FALSE, !.ackArmed = s.ackArmed, !.resendArmed = s.resendArmed])
  BY <1>1, <1>2, TimersSame
<1>4. /\ [t EXCEPT !.ackScheduled = TRUE, !.ackArmed = TRUE, !.resendArmed = t.resendArmed]
           = [t EXCEPT !.ackScheduled = TRUE, !.ackArmed = TRUE]
      /\ [t EXCEPT !.ackScheduled = FALSE, !.ackArmed = t.ackArmed, !.resendArmed = t.resendArmed]
           = [t EXCEPT !.ackScheduled = FALSE]
      /\ [s EXCEPT !.ackScheduled = s.ackScheduled, !.ackArmed = s.ackArmed, !.resendArmed = TRUE]
           = [s EXCEPT !.resendArmed = TRUE]
      /\ [s EXCEPT !.ackScheduled = FALSE, !.ackArmed = s.ackArmed, !.resendArmed = s.resendArmed]
           = [s EXCEPT !.ackScheduled = FALSE]
  BY <1>1 DEF StreamStates
<1>5. /\ ArmAckSendTimer(s) = [t EXCEPT !.ackScheduled = TRUE, !.ackArmed = TRUE]
      /\ StopAckSend(s) = [t EXCEPT !.ackScheduled = FALSE]
      /\ ScheduleResend(s) = [s EXCEPT !.resendArmed = TRUE]
  BY DEF ArmAckSendTimer, StopAckSend, ScheduleResend, t
<1>6. Same(t, ArmAckSendTimer(s)) /\ Same(t, StopAckSend(s))
  BY <1>3, <1>4, <1>5
<1> QED BY <1>1, <1>3, <1>4, <1>5, <1>6, SameTransitive

----------------------------------------------------------------------------
(* Closing and the FIN.                                                      *)

\* Operators that change the status, the window or what was written.
LEMMA FieldsTrack ==
  ASSUME NEW s, NEW t, NEW o, NEW X, NEW Y, Tracks(s, o, X, Y), SamePackets(s, t),
         t.window <= MaxWindow, FinsGood(t),
         t.status = "New" => t.seqn = 0, t.status = "Reset" => ~t.attached,
         Asked(t) # {} => t.closeAsked
  PROVE  Tracks(t, o, X, Y)
<1>1. /\ Outgoing(t) = Outgoing(s) /\ InFlight(t) = InFlight(s)
      /\ Honest(t, X) /\ Kept(t, o, Y)
  BY SamePacketsKeep DEF Tracks
<1> QED BY <1>1 DEF Tracks, SamePackets

LEMMA TerminateTracks ==
  ASSUME NEW s \in StreamStates, NEW o, NEW X, NEW Y, Tracks(s, o, X, Y),
         NEW x, x = s.status \/ x \in {"Closed", "Reset"}
  PROVE  Tracks(Terminate([s EXCEPT !.status = x]), o, X, Y)
<1> DEFINE t == [s EXCEPT !.status = x]
           u == CancelAckSendTimer(t)
           v == [u EXCEPT !.resendArmed = FALSE, !.attached = FALSE]
<1>1. x \in Statuses
  BY DEF StreamStates, Statuses
<1>2. /\ t \in StreamStates /\ t.status = x
      /\ t.seqn = s.seqn /\ t.sent = s.sent /\ t.wire = s.wire
      /\ t.lastReceived = s.lastReceived /\ t.saved = s.saved /\ t.ready = s.ready
      /\ t.window = s.window /\ t.closeAsked = s.closeAsked
      /\ t.written = s.written /\ t.taken = s.taken
  BY <1>1 DEF StreamStates
<1> HIDE DEF t
<1>3. SamePackets(s, t) /\ Asked(t) = Asked(s)
  BY <1>2 DEF SamePackets, PostedPackets, Asked
<1>4. Same(t, u) /\ u \in StreamStates
  BY <1>2, CancelSame
<1> HIDE DEF u
<1>5. /\ v.seqn = u.seqn /\ v.sent = u.sent /\ v.wire = u.wire
      /\ v.lastReceived = u.lastReceived /\ v.saved = u.saved /\ v.ready = u.ready
      /\ v.window = u.window /\ v.status = u.status /\ ~v.attached
      /\ v.closeAsked = u.closeAsked /\ v.written = u.written /\ v.taken = u.taken
  BY <1>4 DEF StreamStates
<1> HIDE DEF v
<1>6. SamePackets(u, v) /\ Asked(v) = Asked(u)
  BY <1>5 DEF SamePackets, PostedPackets, Asked
<1>7. SamePackets(s, v)
  BY <1>3, <1>4, <1>6 DEF SamePackets, Same
<1>8. /\ v.status = x /\ v.window = s.window /\ v.closeAsked = s.closeAsked
      /\ v.written = s.written /\ v.taken = s.taken
      /\ Asked(v) # {} => Asked(s) # {}
  BY <1>2, <1>3, <1>4, <1>5, <1>6 DEF Same
<1>9. Fins(v) = Fins(s)
  BY <1>7, SamePacketsKeep
<1>10. FinsGood(v)
  BY <1>7, <1>8, <1>9 DEF Tracks, FinsGood, Finished, BufferIsEmpty, SamePackets
<1>11. Tracks(v, o, X, Y)
  BY <1>5, <1>7, <1>8, <1>10, FieldsTrack DEF Tracks, SamePackets
<1> QED BY <1>11 DEF Terminate, t, u, v

LEMMA ResetAndCloseTracks ==
  ASSUME NEW s \in StreamStates, NEW o, NEW X, NEW Y, Tracks(s, o, X, Y)
  PROVE  Tracks(ResetAndClose(s), o, X, Y)
<1>1. [s EXCEPT !.status = "Reset"].status = "Reset"
  BY DEF StreamStates
<1>2. ResetAndClose(s) = Terminate([s EXCEPT !.status = "Reset"])
  BY <1>1 DEF ResetAndClose, Close
<1> QED BY <1>2, TerminateTracks

\* The queue behind a handler that is posted.
LEMMA PostedAppend ==
  ASSUME NEW s \in StreamStates, NEW j \in Jobs, NEW t, t.ready = Append(s.ready, j)
  PROVE  PostedPackets(t) =
           PostedPackets(s) \cup (IF j.run = "SendPacket" THEN {j.packet} ELSE {})
<1> DEFINE r == s.ready
           R == t.ready
<1>1. r \in Seq(Jobs)
  BY DEF StreamStates
<1>2. /\ Len(R) = Len(r) + 1 /\ Len(r) \in Nat
      /\ \A i \in 1 .. Len(r) : R[i] = r[i]
      /\ R[Len(r) + 1] = j
  BY <1>1, AppendProperties
<1>3. /\ PostedPackets(t) = {R[i].packet : i \in {k \in 1 .. Len(R) : R[k].run = "SendPacket"}}
      /\ PostedPackets(s) = {r[i].packet : i \in {k \in 1 .. Len(r) : r[k].run = "SendPacket"}}
  BY DEF PostedPackets
<1> HIDE DEF r, R
<1>4. \A i \in 1 .. Len(R) : i = Len(r) + 1 \/ i \in 1 .. Len(r)
  BY <1>2
<1>5. Len(r) + 1 \in 1 .. Len(R) /\ \A i \in 1 .. Len(r) : i \in 1 .. Len(R)
  BY <1>2
<1> QED BY <1>2, <1>3, <1>4, <1>5

\* Numbers on which a FIN may claim to have received.
Claims(s, last) == last = s.lastReceived \/ (last \in Nat /\ last <= s.lastReceived)

\* SendClose, and the status that its caller leaves behind.
LEMMA FinTracks ==
  ASSUME NEW s, NEW L \in Seq(Nat), Good(s, L), NEW o, NEW X, NEW Y, Tracks(s, o, X, Y),
         NEW last \in Nat \cup {-1}, Claims(s, last), s.status \notin {"Closed", "Reset"},
         NEW x, \/ x = "Closed"
                \/ x = "Closing" /\ Fins(s) = {} /\ s.closeAsked /\ BufferIsEmpty(s)
  PROVE  Tracks([SendCloseAfter(s, last) EXCEPT !.status = x], o, X, Y)
<1> DEFINE f == FinPacket(s, last)
           j == [run |-> "SendPacket", packet |-> f]
           u == SendCloseAfter(s, last)
           t == [u EXCEPT !.status = x]
<1>1. s \in StreamStates /\ u \in StreamStates
  BY SendCloseAfterSends DEF Good, Sends
<1>2. f \in Packets /\ j \in Jobs
  BY <1>1, FinPacketType
<1>3. /\ f.seqn = s.seqn /\ f.fin /\ ~f.syn
      /\ f.ackThrough = IF last >= 0 THEN last ELSE 0
  BY DEF FinPacket
<1>4. j.run = "SendPacket" /\ j.packet = f
  OBVIOUS
<1>5. /\ u.ready = Append(s.ready, j) /\ u.seqn = s.seqn + 1
      /\ u.sent = s.sent /\ u.wire = s.wire /\ u.window = s.window
      /\ u.lastReceived = s.lastReceived /\ u.saved = s.saved /\ u.attached = s.attached
      /\ u.closeAsked = s.closeAsked /\ u.written = s.written /\ u.taken = s.taken
  BY <1>1 DEF SendCloseAfter, StreamStates
<1> HIDE DEF u
<1>6. /\ t.ready = Append(s.ready, j) /\ t.seqn = s.seqn + 1 /\ t.status = x
      /\ t.sent = s.sent /\ t.wire = s.wire /\ t.window = s.window
      /\ t.lastReceived = s.lastReceived /\ t.saved = s.saved
      /\ t.closeAsked = s.closeAsked /\ t.written = s.written /\ t.taken = s.taken
  BY <1>1, <1>5 DEF StreamStates
<1> HIDE DEF f, j, t
<1>7. PostedPackets(t) = PostedPackets(s) \cup {f}
  BY <1>1, <1>2, <1>4, <1>6, PostedAppend
<1>8. Asked(t) # {} => t.closeAsked
  BY <1>1, <1>2, <1>4, <1>6, AppendAsked DEF Tracks
<1>9. Outgoing(t) = Outgoing(s) \cup {f}
  BY <1>6, <1>7 DEF Outgoing
<1>10. Fins(t) = Fins(s) \cup {s.seqn}
  BY <1>3, <1>9 DEF Fins, Seqns
<1>11. InFlight(t) = InFlight(s)
  BY <1>6 DEF InFlight
<1>12. s.seqn \in Nat /\ s.lastReceived \in Nat \cup {-1}
  BY <1>1 DEF StreamStates
<1>13. Honest(t, X)
  <2>1. Heard(f, t, X)
    BY <1>3, <1>6, <1>12 DEF Heard, Has, Claims, Tracks
  <2> QED BY <2>1, <1>6, <1>9 DEF Tracks, Honest, Heard, Has
<1>14. Kept(t, o, Y)
  <2>1. Seqns(PostedPackets(t)) = Seqns(PostedPackets(s)) \cup {s.seqn}
    BY <1>3, <1>7 DEF Seqns
  <2>2. \A n \in 0 .. (t.seqn - 1) : n \in 0 .. (s.seqn - 1) \/ n = s.seqn
    BY <1>6, <1>12
  <2> QED BY <1>6, <2>1, <2>2 DEF Kept, Tracks
<1>15. FinsGood(t)
  <2>1. BufferIsEmpty(t) = BufferIsEmpty(s)
    BY <1>6 DEF BufferIsEmpty
  <2>2. s.status \in Statuses
    BY <1>1 DEF StreamStates
  <2>3. x = "Closed" \/ x = "Closing"
    OBVIOUS
  <2>4. CASE Fins(s) = {}
    <3>1. Fins(t) \subseteq {s.seqn}
      BY <1>10, <2>4
    <3> QED BY <1>6, <1>12, <2>1, <2>3, <3>1 DEF FinsGood
  <2>5. CASE Fins(s) # {}
    <3>1. s.closeAsked /\ BufferIsEmpty(s) /\ x = "Closed" /\ s.status = "Closing"
      BY <2>2, <2>5 DEF Tracks, FinsGood, Statuses
    <3>2. PICK n \in Nat : Fins(s) \subseteq {n}
      BY <3>1 DEF Tracks, FinsGood, Finished
    <3>3. Fins(t) \subseteq {n, t.seqn - 1}
      BY <1>6, <1>10, <1>12, <3>2
    <3>4. Finished(t)
      BY <1>6, <2>1, <3>1 DEF Finished
    <3> QED BY <1>6, <3>1, <3>3, <3>4 DEF FinsGood
  <2> QED BY <2>4, <2>5
<1> QED BY <1>3, <1>6, <1>7, <1>8, <1>9, <1>11, <1>13, <1>14, <1>15 DEF Tracks, t, u

LEMMA CloseWhenSentTracks ==
  ASSUME NEW s, NEW L \in Seq(Nat), Good(s, L), NEW o, NEW X, NEW Y, Tracks(s, o, X, Y),
         s.status = "Closing"
  PROVE  Tracks(CloseWhenSent(s), o, X, Y)
<1> DEFINE t == [s EXCEPT !.status = "Closed"]
           u == SendCloseAfter(s, s.lastReceived)
<1>1. s \in StreamStates /\ s.lastReceived \in Nat \cup {-1}
  BY DEF Good, StreamStates
<1>2. SendClose(t) = [u EXCEPT !.status = "Closed"]
  BY <1>1 DEF SendClose, SendCloseAfter, FinPacket, StreamStates
<1>3. Tracks([u EXCEPT !.status = "Closed"], o, X, Y)
  BY <1>1, FinTracks DEF Claims
<1> QED BY <1>2, <1>3 DEF CloseWhenSent

LEMMA CloseTracks ==
  ASSUME NEW s, NEW L \in Seq(Nat), Good(s, L), NEW o, NEW X, NEW Y, Tracks(s, o, X, Y),
         s.status = "Open" => s.closeAsked
  PROVE  Tracks(Close(s), o, X, Y)
<1>1. s \in StreamStates
  BY DEF Good
<1>2. CASE s.status = "Open"
  <2> DEFINE t == [s EXCEPT !.status = "Closing"]
  <2>1. Sends(s, t, L)
    BY StatusSends DEF Statuses
  <2>2. /\ t.status = "Closing" /\ t.window = s.window /\ t.closeAsked = s.closeAsked
        /\ t.ready = s.ready /\ t.attached = s.attached
        /\ t.seqn = s.seqn /\ t.sent = s.sent /\ t.wire = s.wire
        /\ t.lastReceived = s.lastReceived /\ t.saved = s.saved
    BY <1>1 DEF StreamStates
  <2>3. Close(s) = CloseWhenSent(t)
    BY <1>2 DEF Close
  <2> HIDE DEF t
  <2>4. SamePackets(s, t) /\ Asked(t) = Asked(s)
    BY <2>2 DEF SamePackets, PostedPackets, Asked
  <2>5. Fins(t) = Fins(s)
    BY <2>4, SamePacketsKeep
  <2>6. Fins(s) = {}
    BY <1>2 DEF Tracks, FinsGood
  <2>7. FinsGood(t)
    <3>1. Fins(t) \subseteq {0}
      BY <2>5, <2>6
    <3> QED BY <1>2, <2>2, <2>5, <2>6, <3>1 DEF FinsGood
  <2>8. Tracks(t, o, X, Y)
    BY <2>2, <2>4, <2>7, FieldsTrack DEF Tracks
  <2> QED BY <2>1, <2>2, <2>3, <2>8, CloseWhenSentTracks DEF Sends
<1>3. CASE s.status = "Closing"
  BY <1>3, CloseWhenSentTracks DEF Close
<1>4. CASE s.status \in {"Reset", "Closed"}
  <2>1. [s EXCEPT !.status = s.status] = s
    BY <1>1 DEF StreamStates
  <2>2. Tracks(Terminate(s), o, X, Y)
    BY <1>1, <2>1, TerminateTracks
  <2> QED BY <1>4, <2>2 DEF Close
<1>5. CASE s.status \notin {"Open", "Closing", "Reset", "Closed"}
  BY <1>5 DEF Close
<1> QED BY <1>2, <1>3, <1>4, <1>5

LEMMA AfterAckTracks ==
  ASSUME NEW s, NEW L \in Seq(Nat), Good(s, L), NEW o, NEW X, NEW Y, Tracks(s, o, X, Y)
  PROVE  Tracks(AfterAck(s), o, X, Y)
<1>1. s \in StreamStates
  BY DEF Good
<1>2. [s EXCEPT !.status = s.status] = s
  BY <1>1 DEF StreamStates
<1>3. Tracks(Terminate(s), o, X, Y)
  BY <1>1, <1>2, TerminateTracks
<1>4. s.status = "Closing" => Tracks(Close(s), o, X, Y)
  BY CloseTracks
<1> QED BY <1>3, <1>4 DEF AfterAck

----------------------------------------------------------------------------
(* Sending from the buffer.                                                  *)

\* A batch fits into the window, and only a new stream sends one with nothing to say.
LEMMA NumToSendBound ==
  ASSUME NEW s, NEW L \in Seq(Nat), Good(s, L), Room(s) > 0, NumToSend(s) # 0
  PROVE  /\ NumToSend(s) \in Nat \ {0} /\ NumToSend(s) <= Room(s)
         /\ s.status = "New" \/ ~BufferIsEmpty(s)
<1>1. Room(s) \in Int
  BY GoodTaken, RoomType
<1>2. s.taken \in Nat /\ s.written \in Nat /\ s.taken <= s.written
  BY DEF Good, SenderGood, StreamStates
<1>3. NumToSend(s) \in Nat
  BY <1>1, NumToSendType
<1> DEFINE m == Least(Room(s), Pending(s))
<1>4. Pending(s) \in Int
  BY <1>2 DEF Pending
<1>5. m \in Int /\ m <= Room(s) /\ m <= Pending(s)
  BY <1>1, <1>4, LeastType
<1>6. \/ s.status = "New" /\ (NumToSend(s) = 1 + (m - 1) \/ NumToSend(s) = 1 + 0)
      \/ s.status # "New" /\ (NumToSend(s) = m \/ NumToSend(s) = 0)
  BY DEF NumToSend, m
<1> HIDE DEF m
<1>7. NumToSend(s) <= Room(s)
  BY <1>1, <1>5, <1>6
<1>8. s.status = "New" \/ ~BufferIsEmpty(s)
  BY <1>2, <1>3, <1>4, <1>5, <1>6 DEF BufferIsEmpty, Pending
<1> QED BY <1>3, <1>7, <1>8

LEMMA BatchCount ==
  ASSUME NEW s \in StreamStates, NumToSend(s) \in Nat
  PROVE  IsFiniteSet(BufferPackets(s)) /\ Cardinality(BufferPackets(s)) <= NumToSend(s)
<1> DEFINE I == s.seqn .. (s.seqn + NumToSend(s) - 1)
           f == [i \in I |-> BufferPacket(s, i)]
<1>1. s.seqn \in Nat /\ s.seqn + NumToSend(s) - 1 \in Int
  BY DEF StreamStates
<1>2. IsFiniteSet(I) /\ Cardinality(I) = NumToSend(s)
  <2> SUFFICES ASSUME NEW a \in Nat, NEW n \in Nat
               PROVE  IsFiniteSet(a .. (a + n - 1)) /\ Cardinality(a .. (a + n - 1)) = n
    BY <1>1
  <2>1. a \in Int /\ a + n - 1 \in Int
    OBVIOUS
  <2>2. /\ IsFiniteSet(a .. (a + n - 1))
        /\ Cardinality(a .. (a + n - 1)) =
             IF a > a + n - 1 THEN 0 ELSE (a + n - 1) - a + 1
    BY <2>1, FS_Interval
  <2> QED BY <2>2
<1>3. f \in Surjection(I, BufferPackets(s))
  BY DEF Surjection, BufferPackets
<1> HIDE DEF I, f
<1> QED BY <1>2, <1>3, FS_Surjection

\* What the packets of a batch say.
LEMMA BatchPackets ==
  ASSUME NEW s, NEW L \in Seq(Nat), Good(s, L), NEW o, NEW X, NEW Y, Tracks(s, o, X, Y),
         NumToSend(s) \in Nat
  PROVE  /\ \A p \in BufferPackets(s) :
              ~p.fin /\ (p.syn => p.seqn = 0) /\ (p.noAck \/ Heard(p, s, X))
         /\ \A n \in s.seqn .. (s.seqn + NumToSend(s) - 1) : n \in Seqns(BufferPackets(s))
<1>1. s.seqn \in Nat /\ s.lastReceived \in Nat \cup {-1}
  BY DEF Good, StreamStates
<1>2. ASSUME NEW i \in s.seqn .. (s.seqn + NumToSend(s) - 1)
      PROVE  /\ ~BufferPacket(s, i).fin /\ BufferPacket(s, i).seqn = i
             /\ BufferPacket(s, i).syn => i = s.seqn /\ s.status = "New"
             /\ BufferPacket(s, i).ackThrough = IF s.lastReceived < 0 THEN 0 ELSE s.lastReceived
  BY DEF BufferPacket
<1>3. ASSUME NEW p \in BufferPackets(s)
      PROVE  ~p.fin /\ (p.syn => p.seqn = 0) /\ (p.noAck \/ Heard(p, s, X))
  <2>1. PICK i \in s.seqn .. (s.seqn + NumToSend(s) - 1) : p = BufferPacket(s, i)
    BY <1>3 DEF BufferPackets
  <2>2. Heard(p, s, X)
    BY <1>1, <1>2, <2>1 DEF Heard, Has, Tracks
  <2> QED BY <1>2, <2>1, <2>2 DEF Tracks
<1>4. ASSUME NEW n \in s.seqn .. (s.seqn + NumToSend(s) - 1)
      PROVE  n \in Seqns(BufferPackets(s))
  <2>1. BufferPacket(s, n) \in BufferPackets(s)
    BY DEF BufferPackets
  <2> QED BY <1>2, <2>1 DEF Seqns
<1> QED BY <1>3, <1>4

LEMMA BatchTracks ==
  ASSUME NEW s, NEW L \in Seq(Nat), Good(s, L), NEW o, NEW X, NEW Y, Tracks(s, o, X, Y),
         Room(s) > 0, NumToSend(s) # 0,
         NEW t, t = SendAndTrack(TakeFromBuffer(s), BufferPackets(s))
  PROVE  /\ Tracks(t, o, X, Y)
         /\ t.status = IF s.status = "New" THEN "Open" ELSE s.status
         /\ t.status = "Closing" => Fins(t) = {}
<1> DEFINE B == BufferPackets(s)
           n == NumToSend(s)
<1>1. s \in StreamStates
  BY DEF Good
<1>2. n \in Nat \ {0} /\ n <= Room(s) /\ (s.status = "New" \/ ~BufferIsEmpty(s))
  BY NumToSendBound
<1>3. /\ \A p \in B : ~p.fin /\ (p.syn => p.seqn = 0) /\ (p.noAck \/ Heard(p, s, X))
      /\ \A i \in s.seqn .. (s.seqn + n - 1) : i \in Seqns(B)
  BY <1>2, BatchPackets
<1>4. IsFiniteSet(B) /\ Cardinality(B) <= n
  BY <1>1, <1>2, BatchCount
<1>5. /\ t.seqn = s.seqn + n /\ t.sent = s.sent \cup B /\ t.wire = s.wire \cup B
      /\ t.status = IF s.status = "New" THEN "Open" ELSE s.status
      /\ t.window = s.window /\ t.ready = s.ready /\ t.closeAsked = s.closeAsked
      /\ t.lastReceived = s.lastReceived /\ t.saved = s.saved /\ t.attached = s.attached
  <2> HIDE DEF B, n
  <2> DEFINE u == TakeFromBuffer(s)
             w == [SendPackets(u, B) EXCEPT !.sent = @ \cup B]
  <2>1. t = w \/ t = [w EXCEPT !.resendArmed = TRUE]
    BY DEF B, SendAndTrack, ScheduleResend
  <2> DEFINE Fields == {"seqn", "sent", "wire", "status", "window", "ready", "closeAsked",
                         "lastReceived", "saved", "attached", "resendArmed"}
             Unchanged(x, y) ==
               /\ x.window = y.window /\ x.ready = y.ready /\ x.closeAsked = y.closeAsked
               /\ x.lastReceived = y.lastReceived /\ x.saved = y.saved
               /\ x.attached = y.attached
  <2>2. Fields \subseteq DOMAIN s
    BY <1>1 DEF StreamStates
  <2>3. /\ DOMAIN u = DOMAIN s /\ Unchanged(u, s)
        /\ u.seqn = s.seqn + n /\ u.sent = s.sent /\ u.wire = s.wire
        /\ u.status = IF s.status = "New" THEN "Open" ELSE s.status
    BY <2>2 DEF TakeFromBuffer, n
  <2> HIDE DEF u
  <2>4. /\ DOMAIN w = DOMAIN s /\ Unchanged(w, u) /\ w.seqn = u.seqn /\ w.status = u.status
        /\ w.sent = u.sent \cup B /\ w.wire = u.wire \cup B
    BY <2>2, <2>3 DEF SendPackets
  <2> HIDE DEF w
  <2>5. /\ Unchanged(t, w) /\ t.seqn = w.seqn /\ t.status = w.status
        /\ t.sent = w.sent /\ t.wire = w.wire
    BY <2>1, <2>2, <2>4
  <2> QED BY <2>3, <2>4, <2>5
<1>6. PostedPackets(t) = PostedPackets(s) /\ Asked(t) = Asked(s)
  BY <1>5 DEF PostedPackets, Asked
<1>7. Room(s) = s.window - Cardinality(s.sent) /\ s.window \in Nat
  BY <1>1 DEF Room, StreamStates
<1> HIDE DEF B, n
<1>8. Cardinality(InFlight(t)) <= MaxWindow
  <2>1. IsFiniteSet(s.sent)
    BY DEF Good, SenderGood
  <2>2. IsFiniteSet(t.sent) /\ Cardinality(t.sent) <= Cardinality(s.sent) + Cardinality(B)
    <3>1. /\ IsFiniteSet(s.sent \cup B)
          /\ Cardinality(s.sent \cup B) =
               Cardinality(s.sent) + Cardinality(B) - Cardinality(s.sent \cap B)
      BY <1>4, <2>1, FS_Union
    <3>2. IsFiniteSet(s.sent \cap B)
      BY <2>1, FS_Intersection
    <3>3. /\ Cardinality(s.sent \cap B) \in Nat /\ Cardinality(s.sent) \in Nat
          /\ Cardinality(B) \in Nat
      BY <1>4, <2>1, <3>2, FS_CardinalityType
    <3> QED BY <1>5, <3>1, <3>3
  <2>3. InFlight(t) \in SUBSET t.sent
    BY DEF InFlight
  <2>4. Cardinality(InFlight(t)) <= Cardinality(t.sent) /\ IsFiniteSet(InFlight(t))
    BY <2>2, <2>3, FS_Subset
  <2>5. /\ Cardinality(InFlight(t)) \in Nat /\ Cardinality(t.sent) \in Nat
        /\ Cardinality(s.sent) \in Nat /\ Cardinality(B) \in Nat
    BY <1>4, <2>1, <2>2, <2>4, FS_CardinalityType
  <2>6. s.window <= MaxWindow /\ MaxWindow \in Nat
    BY WindowAssumption DEF Tracks
  <2> QED BY <1>2, <1>4, <1>7, <2>2, <2>4, <2>5, <2>6
<1>9. Outgoing(t) = Outgoing(s) \cup B
  BY <1>5, <1>6 DEF Outgoing
<1>10. Fins(t) = Fins(s)
  BY <1>3, <1>9 DEF Fins, Seqns
<1>11. Honest(t, X)
  BY <1>3, <1>5, <1>9 DEF Tracks, Honest, Heard, Has
<1>12. Kept(t, o, Y)
  <2>1. s.seqn \in Nat
    BY <1>1 DEF StreamStates
  <2>2. \A i \in 0 .. (t.seqn - 1) : i \in 0 .. (s.seqn - 1) \/ i \in s.seqn .. (s.seqn + n - 1)
    BY <1>2, <1>5, <2>1
  <2>3. Seqns(s.sent) \subseteq Seqns(t.sent) /\ Seqns(B) \subseteq Seqns(t.sent)
    BY <1>5 DEF Seqns
  <2> QED BY <1>3, <1>6, <2>2, <2>3 DEF Tracks, Kept
<1>13. FinsGood(t) /\ (t.status = "Closing" => Fins(t) = {})
  <2>1. CASE s.status = "New"
    <3>1. Fins(t) = {}
      BY <1>10, <2>1 DEF Tracks, FinsGood
    <3>2. Fins(t) \subseteq {0}
      BY <3>1
    <3> QED BY <1>5, <2>1, <3>1, <3>2 DEF FinsGood
  <2>2. CASE s.status # "New"
    BY <1>2, <1>5, <1>10, <2>2 DEF Tracks, FinsGood, Finished
  <2> QED BY <2>1, <2>2
<1>14. \A p \in Outgoing(t) : p.syn => p.seqn = 0
  BY <1>3, <1>9 DEF Tracks
<1> QED BY <1>5, <1>6, <1>8, <1>11, <1>12, <1>13, <1>14 DEF Tracks

LEMMA SendBufferTracks ==
  ASSUME NEW s, NEW L \in Seq(Nat), Good(s, L), NEW o, NEW X, NEW Y, Tracks(s, o, X, Y)
  PROVE  /\ Tracks(SendBuffer(s), o, X, Y)
         /\ SendBuffer(s).status = "Reset" => s.status = "Reset"
<1>1. CASE Room(s) <= 0 \/ NumToSend(s) = 0
  BY <1>1 DEF SendBuffer
<1>2. CASE ~(Room(s) <= 0 \/ NumToSend(s) = 0)
  <2> DEFINE t == IF s.saved = {} THEN StopAckSend(s) ELSE s
             v == TakeFromBuffer(t)
             u == SendAndTrack(v, BufferPackets(t))
  <2>1. s \in StreamStates /\ s.taken <= s.written
    BY GoodTaken
  <2>2. Sends(s, t, L) /\ SameForBuffer(s, t)
    BY <2>1, StopQuiet, QuietSends, SendsReflexive, StopSame DEF SameForBuffer
  <2>3. Tracks(t, o, X, Y) /\ t.status = s.status
    BY <2>1, <2>2, TimerOperatorsSame, SameTracks DEF SameForBuffer
  <2>4. SendBuffer(s) = IF u.status = "Closing" /\ BufferIsEmpty(u) THEN SendClose(u) ELSE u
    BY <1>2 DEF SendBuffer
  <2> HIDE DEF t
  <2>5. Good(t, L) /\ NumToSend(t) = NumToSend(s) /\ Room(t) = Room(s)
    BY <2>2, BufferSame DEF Sends, SameForBuffer, Room
  <2>6. NumToSend(t) \in Nat /\ Room(t) \in Int /\ Room(t) > 0 /\ NumToSend(t) # 0
    <3>1. Room(t) \in Int
      BY <2>5, GoodTaken, RoomType
    <3> QED BY <1>2, <2>5, <3>1, NumToSendBound
  <2>7. /\ Sends(t, v, L) /\ BufferPackets(t) \subseteq Packets
        /\ \A p \in BufferPackets(t) : Fits(v.log, p)
    BY <2>5, <2>6, TakeFromBufferSends
  <2>8. IsFiniteSet(BufferPackets(t))
    BY <2>5, <2>6, GoodTaken, BufferPacketsFinite
  <2>9. Good(u, L)
    <3> HIDE DEF v
    <3>1. Sends(v, u, L)
      BY <2>7, <2>8, SendAndTrackSends DEF Sends
    <3> QED BY <3>1 DEF Sends
  <2>10. /\ Tracks(u, o, X, Y)
         /\ u.status = IF t.status = "New" THEN "Open" ELSE t.status
         /\ u.status = "Closing" => Fins(u) = {}
    BY <2>3, <2>5, <2>6, BatchTracks
  <2> HIDE DEF u, v
  <2>11. u.status = "Reset" => s.status = "Reset"
    BY <2>3, <2>10
  <2>12. ASSUME u.status = "Closing", BufferIsEmpty(u)
         PROVE  Tracks(SendClose(u), o, X, Y) /\ SendClose(u).status = "Closing"
    <3> DEFINE w == SendCloseAfter(u, u.lastReceived)
    <3>1. u \in StreamStates /\ u.lastReceived \in Nat \cup {-1}
      BY <2>9 DEF Good, StreamStates
    <3>2. w.status = u.status /\ [w EXCEPT !.status = "Closing"] = w /\ SendClose(u) = w
      BY <2>12, <3>1 DEF SendClose, SendCloseAfter, StreamStates
    <3> HIDE DEF w
    <3>3. Fins(u) = {} /\ u.closeAsked
      BY <2>10, <2>12 DEF Tracks, FinsGood
    <3>4. Tracks([w EXCEPT !.status = "Closing"], o, X, Y)
      BY <2>9, <2>10, <2>12, <3>1, <3>3, FinTracks DEF Claims, w
    <3> QED BY <2>12, <3>2, <3>4
  <2> QED BY <2>4, <2>10, <2>11, <2>12
<1> QED BY <1>1, <1>2

----------------------------------------------------------------------------
(* Handlers that the io_service runs, and retransmission.                    *)

\* What running the handler at the head of the queue takes out of it.
LEMMA TakenQueue ==
  ASSUME NEW s \in StreamStates, s.ready # << >>,
         NEW t, t = [s EXCEPT !.ready = Tail(@)]
  PROVE  /\ PostedPackets(s) = PostedPackets(t) \cup
              (IF Head(s.ready).run = "SendPacket" THEN {Head(s.ready).packet} ELSE {})
         /\ Asked(t) # {} => Asked(s) # {}
         /\ Head(s.ready).run = "Close" => Asked(s) # {}
         /\ t \in StreamStates
<1> DEFINE r == s.ready
           R == Tail(s.ready)
<1>1. r \in Seq(Jobs) /\ r # << >>
  BY DEF StreamStates
<1>2. /\ R \in Seq(Jobs) /\ Len(R) = Len(r) - 1 /\ Len(r) \in Nat \ {0}
      /\ \A i \in 1 .. Len(R) : R[i] = r[i + 1]
      /\ Head(r) = r[1]
  BY <1>1, HeadTailProperties
<1>3. t \in StreamStates /\ t.ready = R
  BY <1>2 DEF StreamStates
<1>4. /\ PostedPackets(t) = {R[i].packet : i \in {k \in 1 .. Len(R) : R[k].run = "SendPacket"}}
      /\ PostedPackets(s) = {r[i].packet : i \in {k \in 1 .. Len(r) : r[k].run = "SendPacket"}}
      /\ Asked(t) = {i \in 1 .. Len(R) : R[i].run = "Close"}
      /\ Asked(s) = {i \in 1 .. Len(r) : r[i].run = "Close"}
  BY <1>3 DEF PostedPackets, Asked
<1> HIDE DEF r, R
<1>5. /\ 1 \in 1 .. Len(r)
      /\ \A i \in 1 .. Len(R) : i + 1 \in 1 .. Len(r)
      /\ \A i \in 1 .. Len(r) : i = 1 \/ (i - 1 \in 1 .. Len(R) /\ R[i - 1] = r[i])
  BY <1>2
<1>6. PostedPackets(s) = PostedPackets(t) \cup
        (IF Head(r).run = "SendPacket" THEN {Head(r).packet} ELSE {})
  <2>1. ASSUME NEW p \in PostedPackets(s)
        PROVE  p \in PostedPackets(t) \/ (Head(r).run = "SendPacket" /\ p = Head(r).packet)
    <3>1. PICK i \in 1 .. Len(r) : r[i].run = "SendPacket" /\ p = r[i].packet
      BY <1>4, <2>1
    <3>2. i = 1 \/ \E k \in 1 .. Len(R) : R[k] = r[i]
      BY <1>5
    <3> QED BY ZenonT(40), <1>2, <1>4, <3>1, <3>2
  <2>2. ASSUME NEW p \in PostedPackets(t) PROVE p \in PostedPackets(s)
    <3>1. PICK i \in 1 .. Len(R) : R[i].run = "SendPacket" /\ p = R[i].packet
      BY <1>4, <2>2
    <3> QED BY <1>2, <1>4, <1>5, <3>1
  <2>3. Head(r).run = "SendPacket" => Head(r).packet \in PostedPackets(s)
    BY <1>2, <1>4, <1>5
  <2> QED BY <2>1, <2>2, <2>3
<1>7. Asked(t) # {} => Asked(s) # {}
  <2>1. ASSUME NEW i \in Asked(t) PROVE i + 1 \in Asked(s)
    <3>1. i \in 1 .. Len(R) /\ R[i].run = "Close"
      BY <1>4
    <3>2. i + 1 \in 1 .. Len(r) /\ r[i + 1].run = "Close"
      BY <1>2, <1>5, <3>1
    <3> QED BY <1>4, <3>2
  <2> QED BY <2>1
<1>8. Head(r).run = "Close" => Asked(s) # {}
  BY <1>2, <1>4, <1>5
<1> QED BY <1>3, <1>6, <1>7, <1>8 DEF r

LEMMA TakenTracks ==
  ASSUME NEW s \in StreamStates, NEW o, NEW X, NEW Y, Tracks(s, o, X, Y),
         s.ready # << >>, Head(s.ready).run # "SendPacket",
         NEW t, t = [s EXCEPT !.ready = Tail(@)]
  PROVE  Tracks(t, o, X, Y)
<1>1. PostedPackets(s) = PostedPackets(t) \cup {} /\ (Asked(t) # {} => Asked(s) # {})
  BY TakenQueue
<1>2. Same(s, t)
  BY <1>1 DEF Same, SamePackets, StreamStates
<1> QED BY <1>2, SameTracks

\* The posted FIN is transmitted and tracked from now on.
LEMMA SendPacketTracks ==
  ASSUME NEW s \in StreamStates, NEW o, NEW X, NEW Y, Tracks(s, o, X, Y),
         s.ready # << >>, Head(s.ready).run = "SendPacket",
         NEW u, u = [s EXCEPT !.ready = Tail(@)]
  PROVE  Tracks(SendPacket(u, Head(s.ready).packet), o, X, Y)
<1> DEFINE p == Head(s.ready).packet
           v == IF u.ackScheduled THEN StopAckSend(u) ELSE u
           P == {p}
           t == SendAndTrack(v, P)
<1>1. /\ PostedPackets(s) = PostedPackets(u) \cup {p}
      /\ Asked(u) # {} => Asked(s) # {}
      /\ u \in StreamStates
  BY TakenQueue
<1>2. Same(u, v)
  BY <1>1, TimerOperatorsSame DEF Same, SamePackets
<1>3. v \in StreamStates
  <2>1. u.ackScheduled \in BOOLEAN /\ CancelAckSendTimer(u) \in StreamStates
    BY <1>1, CancelSame DEF StreamStates
  <2> DEFINE c == CancelAckSendTimer(u)
  <2> HIDE DEF c
  <2>2. [c EXCEPT !.ackScheduled = FALSE] \in StreamStates
    BY <2>1 DEF c, StreamStates
  <2> QED BY <1>1, <2>2 DEF StopAckSend, c
<1>4. p \in Packets /\ p.fin
  BY <1>1, OutgoingType DEF Tracks, Outgoing
<1>5. /\ u.seqn = s.seqn /\ u.sent = s.sent /\ u.wire = s.wire
      /\ u.lastReceived = s.lastReceived /\ u.saved = s.saved /\ u.attached = s.attached
      /\ u.window = s.window /\ u.status = s.status
      /\ u.closeAsked = s.closeAsked /\ u.written = s.written /\ u.taken = s.taken
  BY DEF StreamStates
<1>6. SendPacket(u, p) = t
  BY DEF SendPacket
<1> HIDE DEF p, v
<1>7. P \in SUBSET Packets
  BY <1>4
<1>8. /\ t.seqn = v.seqn /\ t.sent = v.sent \cup P /\ t.wire = v.wire \cup P
      /\ t.lastReceived = v.lastReceived /\ t.saved = v.saved /\ t.attached = v.attached
      /\ t.window = v.window /\ t.status = v.status /\ t.ready = v.ready
      /\ t.closeAsked = v.closeAsked /\ t.written = v.written /\ t.taken = v.taken
  <2> HIDE DEF P
  <2> QED BY <1>3, <1>7 DEF SendAndTrack, SendPackets, ScheduleResend, StreamStates
<1> HIDE DEF t
<1>9. /\ t.seqn = s.seqn /\ t.sent = s.sent \cup P /\ t.wire = s.wire \cup P
      /\ t.lastReceived = s.lastReceived /\ t.saved = s.saved
      /\ t.window = s.window /\ t.status = s.status
      /\ t.closeAsked = s.closeAsked /\ t.written = s.written /\ t.taken = s.taken
      /\ t.attached => s.attached
  BY <1>2, <1>5, <1>8 DEF Same, SamePackets
<1>10. PostedPackets(t) = PostedPackets(u) /\ (Asked(t) # {} => Asked(s) # {})
  <2>1. PostedPackets(t) = PostedPackets(v) /\ Asked(t) = Asked(v)
    BY <1>8 DEF PostedPackets, Asked
  <2> QED BY <1>1, <1>2, <2>1 DEF Same, SamePackets
<1>11. PostedPackets(s) = PostedPackets(t) \cup {p}
  BY <1>1, <1>10
<1>12. Outgoing(t) = Outgoing(s)
  BY <1>9, <1>11 DEF Outgoing
<1>13. Fins(t) = Fins(s)
  BY <1>12 DEF Fins
<1>14. InFlight(t) = InFlight(s)
  BY <1>4, <1>9 DEF InFlight
<1>15. Honest(t, X)
  BY <1>9, <1>12 DEF Tracks, Honest, Heard, Has
<1>16. Kept(t, o, Y)
  BY <1>9, <1>11 DEF Tracks, Kept, Seqns
<1>17. FinsGood(t)
  BY <1>9, <1>13 DEF Tracks, FinsGood, Finished, BufferIsEmpty
<1>18. \A q \in PostedPackets(t) : q.fin
  BY <1>11 DEF Tracks
<1> QED BY <1>6, <1>9, <1>10, <1>12, <1>14, <1>15, <1>16, <1>17, <1>18 DEF Tracks, p

\* Packets that were sent before, or that acknowledge without being numbered.
LEMMA SendPacketsTracks ==
  ASSUME NEW s \in StreamStates, NEW o, NEW X, NEW Y, Tracks(s, o, X, Y),
         NEW P \in SUBSET Packets,
         \A p \in P : p \in Outgoing(s) \/ (~p.fin /\ ~p.syn /\ Heard(p, s, X))
  PROVE  Tracks(SendPackets(s, P), o, X, Y)
<1> DEFINE t == SendPackets(s, P)
<1>1. /\ t.seqn = s.seqn /\ t.sent = s.sent /\ t.wire = s.wire \cup P
      /\ t.lastReceived = s.lastReceived /\ t.saved = s.saved /\ t.attached = s.attached
      /\ t.window = s.window /\ t.status = s.status /\ t.ready = s.ready
      /\ t.closeAsked = s.closeAsked /\ t.written = s.written /\ t.taken = s.taken
  BY DEF SendPackets, StreamStates
<1> HIDE DEF t
<1>2. PostedPackets(t) = PostedPackets(s) /\ Asked(t) = Asked(s) /\ InFlight(t) = InFlight(s)
  BY <1>1 DEF PostedPackets, Asked, InFlight
<1>3. Outgoing(t) = Outgoing(s) \cup P
  BY <1>1, <1>2 DEF Outgoing
<1>4. Fins(t) = Fins(s)
  BY <1>3 DEF Fins, Seqns
<1>5. Honest(t, X)
  BY <1>1, <1>3 DEF Tracks, Honest, Heard, Has
<1>6. Kept(t, o, Y)
  BY <1>1, <1>2 DEF Tracks, Kept
<1>7. FinsGood(t)
  BY <1>1, <1>4 DEF Tracks, FinsGood, Finished, BufferIsEmpty
<1> QED BY <1>1, <1>2, <1>3, <1>5, <1>6, <1>7 DEF Tracks, t

LEMMA HandleResendTimerTracks ==
  ASSUME NEW s, NEW L \in Seq(Nat), Good(s, L), NEW o, NEW X, NEW Y, Tracks(s, o, X, Y),
         NEW due \in SUBSET s.sent
  PROVE  Tracks(HandleResendTimer(s, due), o, X, Y)
<1> DEFINE w == IF s.attempts = 0 THEN HalvedWindow(s.window) ELSE s.window
           a == s.attempts + 1
           t == [s EXCEPT !.attempts = a, !.window = w]
           u == SendPackets(t, due)
<1>1. s \in StreamStates
  BY DEF Good
<1>2. w \in Nat \ {0} /\ w <= MaxWindow /\ a \in Nat
  <2>1. s.window \in Nat \ {0} /\ s.window <= MaxWindow /\ s.attempts \in Nat
    BY <1>1 DEF Tracks, StreamStates
  <2>2. HalvedWindow(s.window) \in Nat \ {0}
    BY <2>1, HalvedWindowType
  <2>3. HalvedWindow(s.window) <= MaxWindow
    <3>1. /\ MinWindow \in Nat /\ WindowSize \in Nat /\ MaxWindow \in Nat
          /\ MinWindow <= WindowSize /\ WindowSize <= MaxWindow
      BY WindowAssumption
    <3>2. s.window \div 2 <= s.window /\ s.window \div 2 \in Nat
      BY <2>1
    <3> QED BY <2>1, <3>1, <3>2 DEF HalvedWindow
  <2> QED BY <2>1, <2>2, <2>3
<1>3. HandleResendTimer(s, due) =
        IF s.attempts >= MaxResendAttempts THEN ResetAndClose(s)
        ELSE ScheduleResend(IF due = {} THEN s ELSE u)
  BY DEF HandleResendTimer
<1> HIDE DEF w, a
<1>4. /\ t \in StreamStates
      /\ t.seqn = s.seqn /\ t.sent = s.sent /\ t.wire = s.wire /\ t.ready = s.ready
      /\ t.lastReceived = s.lastReceived /\ t.saved = s.saved /\ t.attached = s.attached
      /\ t.window = w /\ t.status = s.status
      /\ t.closeAsked = s.closeAsked /\ t.written = s.written /\ t.taken = s.taken
  BY <1>1, <1>2 DEF StreamStates
<1> HIDE DEF t
<1>5. SamePackets(s, t) /\ Asked(t) = Asked(s)
  BY <1>4 DEF SamePackets, PostedPackets, Asked
<1>6. Fins(t) = Fins(s)
  BY <1>5, SamePacketsKeep
<1>7. FinsGood(t)
  BY <1>4, <1>6 DEF Tracks, FinsGood, Finished, BufferIsEmpty
<1>8. Tracks(t, o, X, Y)
  BY <1>2, <1>4, <1>5, <1>7, FieldsTrack DEF Tracks
<1>9. due \in SUBSET Packets /\ \A p \in due : p \in Outgoing(t)
  BY <1>1, <1>4 DEF StreamStates, Outgoing
<1>10. Tracks(u, o, X, Y)
  BY <1>4, <1>8, <1>9, SendPacketsTracks
<1>11. u \in StreamStates
  BY <1>4, <1>9 DEF SendPackets, StreamStates
<1> HIDE DEF u
<1>12. Tracks(ScheduleResend(u), o, X, Y) /\ Tracks(ScheduleResend(s), o, X, Y)
  BY <1>1, <1>10, <1>11, TimerOperatorsSame, SameTracks
<1> QED BY <1>1, <1>3, <1>12, ResetAndCloseTracks

----------------------------------------------------------------------------
(* What can be missing at an end: the packets in flight, one FIN, and packet 0 *)
(* while the SYN that answers it is on its way.                              *)

\* The packets before b - 1 that s misses are fewer than the NACKs of a packet.
FewMissing(s, b) ==
  \E M : /\ IsFiniteSet(M) /\ Cardinality(M) < MaxNacks
         /\ \A n \in 0 .. (b - 2) : n \in M \/ Has(s, n)

LEMMA TrackedAreFew ==
  ASSUME NEW o \in StreamStates, IsFiniteSet(o.sent), NEW s, NEW X, NEW Y,
         Y \subseteq {0}, Tracks(o, s, X, Y)
  PROVE  FewMissing(s, o.seqn)
<1>1. PICK f \in Nat : \/ Fins(o) \subseteq {f}
                       \/ Finished(o) /\ Fins(o) \subseteq {f, o.seqn - 1}
  BY DEF Tracks, FinsGood
<1> DEFINE I == InFlight(o)
           T == Seqns(I)
           M == (T \cup {f}) \cup {0}
           h == [p \in I |-> p.seqn]
<1>2. IsFiniteSet(I) /\ Cardinality(I) <= MaxWindow
  <2>1. I \in SUBSET o.sent
    BY DEF InFlight
  <2> QED BY <2>1, FS_Subset DEF Tracks
<1>3. h \in Surjection(I, T)
  BY DEF Surjection, Seqns
<1> HIDE DEF h
<1>4. IsFiniteSet(T) /\ Cardinality(T) <= Cardinality(I)
  BY <1>2, <1>3, FS_Surjection
<1>5. ASSUME NEW n \in 0 .. (o.seqn - 2), ~Has(s, n)
      PROVE  n \in T \/ n = f \/ n = 0
  <2>1. o.seqn \in Nat
    BY DEF StreamStates
  <2>2. n \in 0 .. (o.seqn - 1) /\ n # o.seqn - 1
    BY <2>1
  <2>3. n \in Seqns(o.sent) \/ n \in Seqns(PostedPackets(o)) \/ n = 0
    BY <1>5, <2>2 DEF Tracks, Kept
  <2>4. n \in Fins(o) => n = f
    BY <1>1, <2>2
  <2>5. ASSUME n \in Seqns(o.sent) PROVE n \in T \/ n \in Fins(o)
    BY <2>5 DEF Seqns, InFlight, Fins, Outgoing
  <2>6. ASSUME n \in Seqns(PostedPackets(o)) PROVE n \in Fins(o)
    BY <2>6 DEF Seqns, Fins, Outgoing, Tracks
  <2> QED BY <2>3, <2>4, <2>5, <2>6
<1> HIDE DEF I, T
<1>6. IsFiniteSet(M) /\ Cardinality(M) <= Cardinality(T) + 2
  <2>1. /\ IsFiniteSet(T \cup {f})
        /\ Cardinality(T \cup {f}) = IF f \in T THEN Cardinality(T) ELSE Cardinality(T) + 1
    BY <1>4, FS_AddElement
  <2> DEFINE U == T \cup {f}
  <2> HIDE DEF U
  <2>2. /\ IsFiniteSet(U \cup {0})
        /\ Cardinality(U \cup {0}) = IF 0 \in U THEN Cardinality(U) ELSE Cardinality(U) + 1
    BY <2>1, FS_AddElement DEF U
  <2>3. Cardinality(T) \in Nat
    BY <1>4, FS_CardinalityType
  <2> QED BY <2>1, <2>2, <2>3 DEF U
<1>7. Cardinality(M) < MaxNacks
  <2>1. /\ Cardinality(M) \in Nat /\ Cardinality(T) \in Nat /\ Cardinality(I) \in Nat
        /\ MaxWindow \in Nat /\ MaxNacks \in Nat /\ MaxWindow + 2 < MaxNacks
    BY <1>2, <1>4, <1>6, FS_CardinalityType, NackAssumption, WindowAssumption
  <2> HIDE DEF M
  <2> QED BY <1>2, <1>4, <1>6, <2>1
<1>8. \A n \in 0 .. (o.seqn - 2) : n \in M \/ Has(s, n)
  BY <1>5
<1> HIDE DEF M
<1> QED BY <1>6, <1>7, <1>8 DEF FewMissing

LEMMA NoOverflow ==
  ASSUME NEW s, NEW L \in Seq(Nat), Good(s, L), FewMissing(s, Len(L))
  PROVE  Overflowing(s) = {}
<1>1. PICK M : /\ IsFiniteSet(M) /\ Cardinality(M) < MaxNacks
               /\ \A n \in 0 .. (Len(L) - 2) : n \in M \/ Has(s, n)
  BY DEF FewMissing
<1>2. /\ s.lastReceived \in Int /\ s.lastReceived + 1 \in Nat
      /\ \A q \in s.saved : q.seqn \in Nat /\ q.seqn < Len(L)
  BY SavedBound
<1>3. ASSUME NEW q \in Seqns(s.saved) PROVE Cardinality(Missing(s, q)) < MaxNacks
  <2>1. q \in Nat /\ q < Len(L) /\ Len(L) \in Nat
    BY <1>2 DEF Seqns
  <2>2. Missing(s, q) \in SUBSET M
    <3> SUFFICES ASSUME NEW n \in Missing(s, q) PROVE n \in M
      OBVIOUS
    <3>1. n \in (s.lastReceived + 1) .. q /\ n \notin Seqns(s.saved)
      BY DEF Missing
    <3>2. n # q
      BY <3>1
    <3>3. n \in 0 .. (Len(L) - 2) /\ ~(n <= s.lastReceived)
      BY <1>2, <2>1, <3>1, <3>2
    <3> QED BY <1>1, <3>1, <3>3 DEF Has
  <2>3. IsFiniteSet(Missing(s, q)) /\ Cardinality(Missing(s, q)) <= Cardinality(M)
    BY <1>1, <2>2, FS_Subset
  <2>4. Cardinality(Missing(s, q)) \in Nat /\ Cardinality(M) \in Nat /\ MaxNacks \in Nat
    BY <1>1, <2>3, FS_CardinalityType, NackAssumption
  <2> QED BY <1>1, <2>3, <2>4
<1>4. \A q \in Seqns(s.saved) : Cardinality(Missing(s, q)) \in Nat /\ MaxNacks \in Nat
  <2> SUFFICES ASSUME NEW q \in Seqns(s.saved) PROVE Cardinality(Missing(s, q)) \in Nat
    BY NackAssumption
  <2>1. s.lastReceived + 1 \in Int /\ q \in Int
    BY <1>2 DEF Seqns
  <2>2. IsFiniteSet((s.lastReceived + 1) .. q)
    BY <2>1, FS_Interval
  <2>3. Missing(s, q) \in SUBSET ((s.lastReceived + 1) .. q)
    BY DEF Missing
  <2> QED BY <2>2, <2>3, FS_Subset, FS_CardinalityType
<1> QED BY <1>3, <1>4 DEF Overflowing

\* A quick acknowledgement names every packet that is missing.
LEMMA QuickAckHeard ==
  ASSUME NEW s, NEW L \in Seq(Nat), Good(s, L), Overflowing(s) = {}, NEW X
  PROVE  Heard(QuickAck(s), s, X) /\ ~QuickAck(s).fin /\ ~QuickAck(s).syn
<1> DEFINE S == (Seqns(s.saved) \ Overflowing(s)) \cup {s.lastReceived}
           c == LargestOf(S)
<1>1. s.lastReceived \in Int /\ s.lastReceived + 1 \in Nat
  BY SavedBound
<1>2. /\ QuickAck(s).ackThrough = c /\ QuickAck(s).nacks = Missing(s, c)
      /\ ~QuickAck(s).fin /\ ~QuickAck(s).syn
  BY DEF QuickAck
<1> HIDE DEF c
<1>3. ASSUME NEW n \in 0 .. c PROVE n \in Missing(s, c) \/ Has(s, n)
  BY <1>1 DEF Missing, Has
<1> QED BY <1>2, <1>3 DEF Heard

LEMMA SendQuickAckTracks ==
  ASSUME NEW s, NEW L \in Seq(Nat), Good(s, L), NEW o, NEW X, NEW Y, Tracks(s, o, X, Y),
         FewMissing(s, Len(L))
  PROVE  Tracks(SendQuickAck(s), o, X, Y)
<1> DEFINE P == {QuickAck(s)}
<1>1. P \in SUBSET Packets
  BY QuickAckType
<1>2. \A p \in P : ~p.fin /\ ~p.syn /\ Heard(p, s, X)
  BY NoOverflow, QuickAckHeard
<1> HIDE DEF P
<1>3. Tracks(SendPackets(s, P), o, X, Y)
  BY <1>1, <1>2, SendPacketsTracks DEF Good
<1> QED BY <1>3 DEF SendQuickAck, P

LEMMA HandleAckSendTimerTracks ==
  ASSUME NEW s, NEW L \in Seq(Nat), Good(s, L), NEW o, NEW X, NEW Y, Tracks(s, o, X, Y),
         FewMissing(s, Len(L))
  PROVE  Tracks(HandleAckSendTimer(s), o, X, Y)
<1> DEFINE t == IF s.status = "Open" THEN SendQuickAck(s) ELSE s
           u == [t EXCEPT !.ackScheduled = FALSE]
<1>1. Good(t, L) /\ Tracks(t, o, X, Y)
  BY SendQuickAckSends, SendQuickAckTracks DEF Sends
<1>2. HandleAckSendTimer(s) = s \/ HandleAckSendTimer(s) = ResetAndClose(s)
        \/ HandleAckSendTimer(s) = u
  BY DEF HandleAckSendTimer
<1> HIDE DEF t
<1>3. Tracks(u, o, X, Y)
  BY <1>1, TimerOperatorsSame, SameTracks DEF Good
<1> QED BY <1>2, <1>3, ResetAndCloseTracks DEF Good

----------------------------------------------------------------------------
(* Receiving.                                                                *)

LEMMA GrownWindowBound ==
  ASSUME NEW w \in Nat \ {0}, w <= MaxWindow, NEW n \in Nat, NEW grow \in BOOLEAN
  PROVE  GrownWindow(w, n, grow) <= MaxWindow
<1> DEFINE d == IF w < WindowSize THEN WindowSize - w ELSE 0
           k == Least(n, d)
<1>1. /\ WindowSize \in Nat /\ MaxWindow \in Nat /\ WindowSize <= MaxWindow
  BY WindowAssumption
<1>2. d \in Nat /\ w + d <= MaxWindow
  BY <1>1
<1>3. k \in Nat /\ k <= d
  BY <1>2, LeastType
<1>4. GrownWindow(w, n, grow) =
        IF grow /\ n > k THEN Least(w + k + 1, MaxWindow) ELSE w + k
  BY DEF GrownWindow
<1> HIDE DEF d, k
<1>5. Least(w + k + 1, MaxWindow) <= MaxWindow /\ w + k <= MaxWindow
  BY <1>1, <1>2, <1>3, LeastType
<1> QED BY <1>4, <1>5

\* No acknowledgement resets a stream.
LEMMA AfterAckStatus ==
  ASSUME NEW s \in StreamStates
  PROVE  AfterAck(s).status = "Reset" => s.status = "Reset"
<1>1. Terminate(s).status = s.status
  <2> DEFINE t == CancelAckSendTimer(s)
  <2>1. t \in StreamStates /\ t.status = s.status
    BY CancelSame DEF Same
  <2> HIDE DEF t
  <2>2. [t EXCEPT !.resendArmed = FALSE, !.attached = FALSE].status = t.status
    BY <2>1 DEF StreamStates
  <2> QED BY <2>1, <2>2 DEF Terminate, t
<1>2. s.status = "Closing" => Close(s).status # "Reset"
  BY DEF Close, CloseWhenSent, SendClose, SendCloseAfter, StreamStates
<1> QED BY <1>1, <1>2 DEF AfterAck

\* The stream when the packets that p acknowledges are no longer retransmitted.
Removed(s, p, grow) ==
  [s EXCEPT !.sent = @ \ Acknowledged(s, p),
            !.window = GrownWindow(@, Cardinality(Acknowledged(s, p)), grow),
            !.resendArmed = @ /\ s.sent # Acknowledged(s, p),
            !.attempts = IF Acknowledged(s, p) = {} THEN @ ELSE 0]

\* The packets that an acknowledgement removes are held by the peer that sent it.
LEMMA ProcessAckTracks ==
  ASSUME NEW s, NEW L \in Seq(Nat), Good(s, L), NEW o, NEW X, NEW Y, Tracks(s, o, X, Y),
         NEW p \in Packets, Heard(p, o, Y), NEW grow \in BOOLEAN
  PROVE  /\ Good(Removed(s, p, grow), L) /\ Tracks(Removed(s, p, grow), o, X, Y)
         /\ Tracks(ProcessAck(s, p, grow), o, X, Y)
         /\ ProcessAck(s, p, grow).status = "Reset" => s.status = "Reset"
<1> DEFINE acked == Acknowledged(s, p)
           w == GrownWindow(s.window, Cardinality(acked), grow)
           a == IF acked = {} THEN s.attempts ELSE 0
           r == s.resendArmed /\ s.sent # acked
           t == [s EXCEPT !.sent = @ \ acked, !.window = w, !.resendArmed = r, !.attempts = a]
<1>1. s \in StreamStates /\ s.taken <= s.written
  BY GoodTaken
<1>2. /\ acked \subseteq s.sent
      /\ \A q \in acked : q.seqn <= p.ackThrough /\ q.seqn \notin p.nacks
  BY DEF Acknowledged
<1>3. IsFiniteSet(acked) /\ IsFiniteSet(s.sent)
  BY <1>2, FS_Subset DEF Good, SenderGood
<1>4. Cardinality(acked) \in Nat
  BY <1>3, FS_CardinalityType
<1>5. /\ s.window \in Nat \ {0} /\ s.attempts \in Nat /\ s.resendArmed \in BOOLEAN
      /\ s.window <= MaxWindow
  BY <1>1 DEF StreamStates, Tracks
<1>6. t = Removed(s, p, grow)
  BY DEF Removed
<1>7. \/ ProcessAck(s, p, grow) = s
      \/ ProcessAck(s, p, grow) = AfterAck(t)
      \/ ProcessAck(s, p, grow) = AfterAck(SendBuffer(t))
  BY <1>6 DEF ProcessAck, Removed
<1> HIDE DEF acked
<1>8. w \in Nat \ {0} /\ w <= MaxWindow
  BY <1>4, <1>5, GrownWindowType, GrownWindowBound
<1>9. a \in Nat /\ r \in BOOLEAN
  BY <1>5
<1> HIDE DEF w, a, r
<1>10. /\ t \in StreamStates
       /\ t.log = s.log /\ t.seqn = s.seqn /\ t.taken = s.taken /\ t.written = s.written
       /\ t.got = s.got /\ t.lastReceived = s.lastReceived /\ t.saved = s.saved
       /\ t.sent = s.sent \ acked /\ t.wire = s.wire /\ t.ready = s.ready
       /\ t.window = w /\ t.status = s.status /\ t.attached = s.attached
       /\ t.closeAsked = s.closeAsked
  BY <1>1, <1>8, <1>9 DEF StreamStates
<1> HIDE DEF t
<1>11. Good(t, L)
  <2>1. t.sent \subseteq s.sent
    BY <1>10
  <2>2. Quiet(s, t)
    BY <1>1, <1>10, <2>1, FieldsQuiet
  <2> QED BY <2>2, QuietSends DEF Sends
<1>12. PostedPackets(t) = PostedPackets(s) /\ Asked(t) = Asked(s)
  BY <1>10 DEF PostedPackets, Asked
<1>13. Outgoing(t) \subseteq Outgoing(s)
  BY <1>10, <1>12 DEF Outgoing
<1>14. Honest(t, X)
  BY <1>10, <1>13 DEF Tracks, Honest, Heard, Has
<1>15. Kept(t, o, Y)
  <2> SUFFICES ASSUME NEW n \in 0 .. (s.seqn - 1), n \in Seqns(s.sent), n \notin Seqns(t.sent)
               PROVE  Has(o, n) \/ n \in Y
    BY <1>10, <1>12 DEF Tracks, Kept
  <2>1. PICK q \in s.sent : q.seqn = n
    BY DEF Seqns
  <2>2. q \in acked
    BY <1>10, <2>1 DEF Seqns
  <2>3. n <= p.ackThrough /\ n \notin p.nacks /\ p.ackThrough \in Int /\ n \in Nat
    BY <1>2, <2>1, <2>2 DEF Packets
  <2> QED BY <2>3 DEF Heard
<1>16. Cardinality(InFlight(t)) <= MaxWindow
  <2>1. InFlight(s) \in SUBSET s.sent /\ InFlight(t) \in SUBSET InFlight(s)
    BY <1>10 DEF InFlight
  <2>2. IsFiniteSet(InFlight(s))
    BY <1>3, <2>1, FS_Subset
  <2>3. IsFiniteSet(InFlight(t)) /\ Cardinality(InFlight(t)) <= Cardinality(InFlight(s))
    BY <2>1, <2>2, FS_Subset
  <2>4. Cardinality(InFlight(s)) \in Nat /\ Cardinality(InFlight(t)) \in Nat /\ MaxWindow \in Nat
    BY <2>2, <2>3, FS_CardinalityType, WindowAssumption
  <2> QED BY <2>3, <2>4 DEF Tracks
<1>17. FinsGood(t)
  <2>1. Fins(t) \subseteq Fins(s)
    BY <1>13 DEF Fins, Seqns
  <2>2. BufferIsEmpty(t) = BufferIsEmpty(s) /\ Finished(t) = Finished(s)
    BY <1>10 DEF BufferIsEmpty, Finished
  <2> QED BY <1>10, <2>1, <2>2 DEF Tracks, FinsGood
<1>18. Tracks(t, o, X, Y)
  BY <1>8, <1>10, <1>12, <1>13, <1>14, <1>15, <1>16, <1>17 DEF Tracks
<1> DEFINE b == SendBuffer(t)
<1>19. Good(b, L) /\ Tracks(b, o, X, Y) /\ (b.status = "Reset" => t.status = "Reset")
  BY <1>11, <1>18, SendBufferSends, SendBufferTracks DEF Sends
<1> HIDE DEF b
<1>20. /\ Tracks(AfterAck(t), o, X, Y) /\ Tracks(AfterAck(b), o, X, Y)
       /\ AfterAck(t).status = "Reset" => s.status = "Reset"
       /\ AfterAck(b).status = "Reset" => s.status = "Reset"
  BY <1>10, <1>11, <1>18, <1>19, AfterAckTracks, AfterAckStatus DEF Good
<1> QED BY <1>6, <1>7, <1>11, <1>18, <1>20 DEF b

\* The packet of the peer's FIN that was reached is answered by one of our own.
LEMMA ProcessFinsTracks ==
  ASSUME NEW s, NEW L \in Seq(Nat), Good(s, L), NEW o, NEW X, NEW Y, Tracks(s, o, X, Y),
         s.status # "Reset", NEW fins \in SUBSET Nat, \A f \in fins : f <= s.lastReceived
  PROVE  Tracks(ProcessFins(s, fins), o, X, Y)
<1>1. CASE fins = {}
  BY <1>1 DEF ProcessFins
<1>2. CASE fins # {}
  <2> DEFINE first == CHOOSE f \in fins : \A x \in fins : f <= x
             t == IF s.status = "Closed" THEN s ELSE SendCloseAfter(s, first)
             u == [t EXCEPT !.status = "Closed"]
  <2>1. first \in fins
    <3>1. \E f \in fins : \A x \in fins : f <= x
      BY <1>2, LeastElement
    <3> QED BY <3>1
  <2>2. ProcessFins(s, fins) = Terminate(u)
    BY <1>2 DEF ProcessFins
  <2> HIDE DEF first
  <2>3. first \in Nat \cup {-1} /\ Claims(s, first)
    BY <2>1 DEF Claims
  <2>4. Good(t, L)
    BY <2>3, SendCloseAfterSends DEF Sends
  <2>5. Tracks(u, o, X, Y)
    <3>1. CASE s.status = "Closed"
      <4>1. u = s
        BY <3>1 DEF Good, StreamStates
      <4> QED BY <4>1
    <3>2. CASE s.status # "Closed"
      <4>1. u = [SendCloseAfter(s, first) EXCEPT !.status = "Closed"]
        BY <3>2
      <4>2. s.status \notin {"Closed", "Reset"}
        BY <3>2
      <4> QED BY <2>3, <4>1, <4>2, FinTracks
    <3> QED BY <3>1, <3>2
  <2>6. u \in StreamStates /\ [u EXCEPT !.status = u.status] = u
    <3>1. t \in StreamStates
      BY <2>4 DEF Good
    <3> HIDE DEF t
    <3> QED BY <3>1 DEF StreamStates, Statuses
  <2> HIDE DEF u
  <2>7. Tracks(Terminate(u), o, X, Y)
    BY <2>5, <2>6, TerminateTracks
  <2> QED BY <2>2, <2>7
<1> QED BY <1>1, <1>2

\* An end holds at least what it held before.
Grows(s, t) == \A n \in Int : Has(s, n) => Has(t, n)

LEMMA SendsGrows ==
  ASSUME NEW s, NEW t, NEW L, Sends(s, t, L)
  PROVE  Grows(s, t) /\ t.lastReceived = s.lastReceived
BY DEF Sends, Grows, Has

\* Only what a stream has received changes, and it grows.
LEMMA GrownTracks ==
  ASSUME NEW s, NEW t, NEW o, NEW X, NEW Y, Tracks(s, o, X, Y), Grows(s, t),
         t.seqn = s.seqn, t.sent = s.sent, t.wire = s.wire, t.ready = s.ready,
         t.window = s.window, t.status = s.status, t.attached = s.attached,
         t.closeAsked = s.closeAsked, t.written = s.written, t.taken = s.taken,
         t.lastReceived < 0 => s.lastReceived < 0
  PROVE  Tracks(t, o, X, Y)
<1>1. PostedPackets(t) = PostedPackets(s) /\ Asked(t) = Asked(s) /\ InFlight(t) = InFlight(s)
  BY DEF PostedPackets, Asked, InFlight
<1>2. Outgoing(t) = Outgoing(s)
  BY <1>1 DEF Outgoing
<1>3. Fins(t) = Fins(s)
  BY <1>2 DEF Fins
<1>4. Honest(t, X)
  BY <1>2 DEF Tracks, Honest, Heard, Grows
<1>5. Kept(t, o, Y)
  BY <1>1 DEF Tracks, Kept
<1>6. FinsGood(t)
  BY <1>3 DEF Tracks, FinsGood, Finished, BufferIsEmpty
<1> QED BY <1>1, <1>2, <1>4, <1>5, <1>6 DEF Tracks

LEMMA ProcessPacketsTracks ==
  ASSUME NEW s, NEW L \in Seq(Nat), Good(s, L), NEW o, NEW X, NEW Y, Tracks(s, o, X, Y),
         s.status # "Reset", NEW p, NextFor(s, L, p)
  PROVE  /\ Tracks(ProcessPackets(s, p), o, X, Y)
         /\ Grows(s, ProcessPackets(s, p)) /\ ProcessPackets(s, p).lastReceived >= 0
<1> DEFINE packets == s.saved \cup {p}
           g == NextGap(s, packets)
           h == GotBefore(s, packets, g)
           v == {q \in s.saved : q.seqn >= g}
           t == [s EXCEPT !.lastReceived = g - 1, !.saved = v, !.got = h]
           fins == {q.seqn : q \in {r \in packets : r.fin /\ r.seqn < g}}
<1>1. ProcessPackets(s, p) = ProcessFins(t, fins)
  BY DEF ProcessPackets, GotBefore
<1>2. packets = s.saved \cup {p}
  OBVIOUS
<1>3. s \in StreamStates /\ s.lastReceived + 1 \in Nat /\ s.lastReceived \in Int
  BY SavedBound DEF Good
<1>4. \A q \in packets : q.seqn \in Nat
  BY SavedBound DEF NextFor, Packets
<1> HIDE DEF packets
<1>5. g \in Nat /\ g > s.lastReceived + 1 /\ g <= Len(L) /\ g \notin Seqns(packets)
  BY <1>2, NextGapFits
<1>6. h \in Seq(Nat) /\ Len(h) = g /\ Prefix(h, L) /\ Prefix(s.got, h)
  <2> DEFINE x == g
  <2>1. x = NextGap(s, packets)
    OBVIOUS
  <2> HIDE DEF x
  <2>2. /\ GotBefore(s, packets, x) \in Seq(Nat)
        /\ Len(GotBefore(s, packets, x)) = x /\ Prefix(GotBefore(s, packets, x), L)
        /\ Prefix(s.got, GotBefore(s, packets, x))
    BY <1>2, <2>1, GotBeforeFits
  <2> QED BY <2>2 DEF x
<1> HIDE DEF g
<1>7. fins \in SUBSET Nat /\ \A f \in fins : f <= g - 1
  BY <1>4, <1>5
<1>8. v \in SUBSET s.saved /\ \A q \in v : q.seqn > g
  <2> SUFFICES ASSUME NEW q \in v PROVE q.seqn > g
    OBVIOUS
  <2>1. q.seqn \in Nat /\ q.seqn >= g
    BY SavedBound
  <2>2. q.seqn # g
    BY <1>2, <1>5 DEF Seqns
  <2> QED BY <2>1, <2>2, <1>5
<1>9. \A q \in s.saved : q.seqn \in Nat /\ (q \in v \/ q.seqn <= g - 1)
  BY <1>5, SavedBound
<1> HIDE DEF h, v
<1>10. Receives(s, t, L)
  <2>1. t = [s EXCEPT !.lastReceived = g - 1, !.saved = v, !.got = h]
    OBVIOUS
  <2> HIDE DEF t
  <2> QED BY <2>1, <1>5, <1>6, <1>8, ProcessedGood
<1>11. /\ t.lastReceived = g - 1 /\ t.saved = v
       /\ t.seqn = s.seqn /\ t.sent = s.sent /\ t.wire = s.wire /\ t.ready = s.ready
       /\ t.window = s.window /\ t.status = s.status /\ t.attached = s.attached
       /\ t.closeAsked = s.closeAsked /\ t.written = s.written /\ t.taken = s.taken
  BY <1>3 DEF StreamStates
<1> HIDE DEF t, fins
<1>12. Good(t, L) /\ t.lastReceived >= 0
  BY <1>3, <1>5, <1>10, <1>11 DEF Receives
<1>13. Grows(s, t)
  <2> SUFFICES ASSUME NEW n \in Int, Has(s, n) PROVE Has(t, n)
    BY DEF Grows
  <2>1. CASE n <= s.lastReceived
    BY <1>3, <1>5, <1>11, <2>1 DEF Has
  <2>2. CASE n \in Seqns(s.saved)
    <3>1. PICK q \in s.saved : q.seqn = n
      BY <2>2 DEF Seqns
    <3> QED BY <1>9, <1>11, <3>1 DEF Has, Seqns
  <2> QED BY <2>1, <2>2 DEF Has
<1>14. Tracks(t, o, X, Y)
  <2>1. t.lastReceived < 0 => s.lastReceived < 0
    BY <1>3, <1>5, <1>11
  <2> QED BY <1>11, <1>13, <2>1, GrownTracks
<1>15. Tracks(ProcessFins(t, fins), o, X, Y)
  BY <1>7, <1>11, <1>12, <1>14, ProcessFinsTracks
<1>16. Sends(t, ProcessFins(t, fins), L)
  BY <1>7, <1>12, ProcessFinsSends
<1>17. Grows(t, ProcessFins(t, fins)) /\ ProcessFins(t, fins).lastReceived = t.lastReceived
  BY <1>16, SendsGrows
<1> QED BY <1>1, <1>12, <1>13, <1>15, <1>17 DEF Grows

LEMMA NextInSequenceTracks ==
  ASSUME NEW s, NEW L \in Seq(Nat), Good(s, L), NEW o, NEW X, NEW Y, Tracks(s, o, X, Y),
         s.status # "Reset", NEW p, NextFor(s, L, p)
  PROVE  /\ Tracks(NextInSequence(s, p), o, X, Y)
         /\ Grows(s, NextInSequence(s, p)) /\ NextInSequence(s, p).lastReceived >= 0
<1> DEFINE t == ProcessPackets(s, p)
<1>1. Receives(s, t, L) /\ Tracks(t, o, X, Y) /\ Grows(s, t) /\ t.lastReceived >= 0
  BY ProcessPacketsReceives, ProcessPacketsTracks
<1>2. \/ NextInSequence(s, p) = t \/ NextInSequence(s, p) = ArmAckSendTimer(t)
      \/ NextInSequence(s, p) = SendBuffer(t)
  BY DEF NextInSequence
<1> HIDE DEF t
<1>3. Good(t, L) /\ t \in StreamStates /\ t.taken <= t.written
  BY <1>1, GoodTaken DEF Receives
<1>4. Sends(t, ArmAckSendTimer(t), L) /\ Sends(t, SendBuffer(t), L)
  BY <1>3, ArmQuiet, QuietSends, SendBufferSends
<1>5. Tracks(ArmAckSendTimer(t), o, X, Y) /\ Tracks(SendBuffer(t), o, X, Y)
  BY <1>1, <1>3, TimerOperatorsSame, SameTracks, SendBufferTracks
<1>6. /\ Grows(t, ArmAckSendTimer(t)) /\ ArmAckSendTimer(t).lastReceived = t.lastReceived
      /\ Grows(t, SendBuffer(t)) /\ SendBuffer(t).lastReceived = t.lastReceived
  BY <1>4, SendsGrows
<1> QED BY <1>1, <1>2, <1>5, <1>6 DEF Grows

LEMMA OutOfSequenceTracks ==
  ASSUME NEW s, NEW L \in Seq(Nat), Good(s, L), NEW o, NEW X, NEW Y, Tracks(s, o, X, Y),
         NEW p \in Packets, Fits(L, p), ~PlainAck(p), p.seqn > s.lastReceived + 1,
         FewMissing(s, Len(L))
  PROVE  Tracks(OutOfSequence(s, p), o, X, Y) /\ Grows(s, OutOfSequence(s, p))
<1> DEFINE v == IF p.seqn \in Seqns(s.saved) THEN s.saved ELSE s.saved \cup {p}
           t == [s EXCEPT !.saved = v]
           u == IF s.ackScheduled THEN StopAckSend(t) ELSE t
<1>1. s \in StreamStates /\ v \in SUBSET Packets /\ s.saved \subseteq v
  BY DEF Good, StreamStates
<1>2. \A q \in v : Fits(L, q) /\ ~PlainAck(q) /\ q.seqn > s.lastReceived + 1
  BY SavedAhead
<1>3. OutOfSequence(s, p) = ArmAckSendTimer(t) \/ OutOfSequence(s, p) = SendQuickAck(u)
  BY DEF OutOfSequence
<1> HIDE DEF v
<1>4. /\ t \in StreamStates /\ t.saved = v
      /\ t.got = s.got /\ t.lastReceived = s.lastReceived
      /\ t.log = s.log /\ t.seqn = s.seqn /\ t.taken = s.taken /\ t.written = s.written
      /\ t.sent = s.sent /\ t.wire = s.wire /\ t.ready = s.ready
      /\ t.window = s.window /\ t.status = s.status /\ t.attached = s.attached
      /\ t.closeAsked = s.closeAsked
  BY <1>1 DEF StreamStates
<1> HIDE DEF t
<1>5. Good(t, L)
  <2>1. PostedPackets(t) = PostedPackets(s)
    BY <1>4 DEF PostedPackets
  <2>2. SenderGood(t)
    BY <1>4, <2>1 DEF SenderGood, Good, Outgoing
  <2>3. ReceiverGood(t, L)
    BY <1>2, <1>4 DEF ReceiverGood, Good
  <2> QED BY <1>4, <2>2, <2>3 DEF Good
<1>6. Grows(s, t)
  BY <1>1, <1>4 DEF Grows, Has, Seqns
<1>7. Tracks(t, o, X, Y) /\ t.taken <= t.written
  BY <1>4, <1>5, <1>6, GrownTracks, GoodTaken
<1>8. Sends(t, ArmAckSendTimer(t), L) /\ Sends(t, u, L)
  BY <1>4, <1>5, <1>7, ArmQuiet, StopQuiet, QuietSends, SendsReflexive
<1>9. Tracks(ArmAckSendTimer(t), o, X, Y) /\ Tracks(u, o, X, Y)
  BY <1>4, <1>7, TimerOperatorsSame, SameTracks
<1>10. Good(u, L) /\ Grows(t, u) /\ Grows(t, ArmAckSendTimer(t))
  BY <1>8, SendsGrows DEF Sends
<1> HIDE DEF u
<1>11. Grows(s, u)
  BY <1>6, <1>10 DEF Grows
<1>12. FewMissing(u, Len(L))
  <2>1. PICK M : /\ IsFiniteSet(M) /\ Cardinality(M) < MaxNacks
                 /\ \A n \in 0 .. (Len(L) - 2) : n \in M \/ Has(s, n)
    BY DEF FewMissing
  <2>2. \A n \in 0 .. (Len(L) - 2) : n \in M \/ Has(u, n)
    BY <1>11, <2>1 DEF Grows
  <2> QED BY <2>1, <2>2 DEF FewMissing
<1>13. Tracks(SendQuickAck(u), o, X, Y) /\ Grows(u, SendQuickAck(u))
  BY <1>9, <1>10, <1>12, SendQuickAckTracks, SendQuickAckSends, SendsGrows
<1> QED BY <1>3, <1>6, <1>9, <1>10, <1>11, <1>13 DEF Grows

\* A packet of the peer keeps the acknowledgements sound, whatever it acknowledges and
\* whenever it comes.
LEMMA HandleNextPacketTracks ==
  ASSUME NEW s, NEW L \in Seq(Nat), Good(s, L), NEW o, NEW X, NEW Y, Tracks(s, o, X, Y),
         s.status # "Reset", FewMissing(s, Len(L)),
         NEW p \in Packets, Fits(L, p), p.noAck \/ Heard(p, o, Y), NEW grow \in BOOLEAN
  PROVE  /\ Tracks(HandleNextPacket(s, p, grow), o, X, Y)
         /\ Grows(s, HandleNextPacket(s, p, grow))
         /\ ~PlainAck(p) /\ p.seqn = s.lastReceived + 1
              => HandleNextPacket(s, p, grow).lastReceived >= 0
<1> DEFINE t == [s EXCEPT !.established = TRUE]
           u == IF p.noAck THEN t ELSE ProcessAck(t, p, grow)
           n == CASE p.seqn = u.lastReceived + 1 -> NextInSequence(u, p)
                  [] p.seqn <= u.lastReceived    -> SendQuickAck(u)
                  [] OTHER                       -> OutOfSequence(u, p)
           H == HandleNextPacket(s, p, grow)
<1>1. H = IF PlainAck(p) THEN u ELSE n
  BY DEF HandleNextPacket
<1>2. s \in StreamStates /\ s.taken <= s.written
  BY GoodTaken
<1>3. /\ t \in StreamStates
      /\ t.log = s.log /\ t.seqn = s.seqn /\ t.taken = s.taken /\ t.written = s.written
      /\ t.got = s.got /\ t.lastReceived = s.lastReceived /\ t.saved = s.saved
      /\ t.sent = s.sent /\ t.wire = s.wire /\ t.ready = s.ready
      /\ t.window = s.window /\ t.status = s.status /\ t.attached = s.attached
      /\ t.closeAsked = s.closeAsked
  BY <1>2 DEF StreamStates
<1> HIDE DEF t, H
<1>4. Sends(s, t, L)
  BY <1>2, <1>3, FieldsQuiet, QuietSends
<1>5. Good(t, L) /\ Grows(s, t)
  BY <1>4, SendsGrows DEF Sends
<1>6. Tracks(t, o, X, Y)
  BY <1>3, <1>5, GrownTracks
<1>7. Sends(t, u, L)
  BY <1>5, ProcessAckSends, SendsReflexive
<1>8. Tracks(u, o, X, Y) /\ u.status # "Reset"
  BY <1>3, <1>5, <1>6, ProcessAckTracks
<1>9. Good(u, L) /\ Grows(t, u) /\ u.lastReceived = s.lastReceived
  BY <1>3, <1>7, SendsGrows DEF Sends
<1> HIDE DEF u
<1>10. Grows(s, u)
  BY <1>5, <1>9 DEF Grows
<1>11. FewMissing(u, Len(L))
  <2>1. PICK M : /\ IsFiniteSet(M) /\ Cardinality(M) < MaxNacks
                 /\ \A i \in 0 .. (Len(L) - 2) : i \in M \/ Has(s, i)
    BY DEF FewMissing
  <2>2. \A i \in 0 .. (Len(L) - 2) : i \in M \/ Has(u, i)
    BY <1>10, <2>1 DEF Grows
  <2> QED BY <2>1, <2>2 DEF FewMissing
<1>12. CASE PlainAck(p)
  BY <1>1, <1>8, <1>10, <1>12 DEF H
<1>13. CASE ~PlainAck(p)
  <2>1. p.seqn \in Nat /\ u.lastReceived \in Int
    BY <1>9, SavedBound DEF Packets
  <2>2. CASE p.seqn = u.lastReceived + 1
    <3>1. NextFor(u, L, p)
      BY <1>13, <2>2 DEF NextFor
    <3>2. H = NextInSequence(u, p)
      BY <1>1, <1>13, <2>1, <2>2
    <3>3. Tracks(H, o, X, Y) /\ Grows(u, H) /\ H.lastReceived >= 0
      BY <1>8, <1>9, <3>1, <3>2, NextInSequenceTracks
    <3> QED BY <1>10, <3>3 DEF Grows, H
  <2>3. CASE p.seqn # u.lastReceived + 1 /\ p.seqn <= u.lastReceived
    <3>1. H = SendQuickAck(u)
      BY <1>1, <1>13, <2>1, <2>3
    <3>2. Tracks(H, o, X, Y) /\ Grows(u, H)
      BY <1>8, <1>9, <1>11, <3>1, SendQuickAckTracks, SendQuickAckSends, SendsGrows
    <3> QED BY <1>9, <1>10, <2>3, <3>2 DEF Grows, H
  <2>4. CASE p.seqn > u.lastReceived + 1
    <3>1. H = OutOfSequence(u, p)
      BY <1>1, <1>13, <2>1, <2>4
    <3>2. Tracks(H, o, X, Y) /\ Grows(u, H)
      BY <1>8, <1>9, <1>11, <1>13, <2>4, <3>1, OutOfSequenceTracks
    <3>3. p.seqn # s.lastReceived + 1
      BY <1>9, <2>1, <2>4
    <3> QED BY <1>10, <3>2, <3>3 DEF Grows, H
  <2> QED BY <2>1, <2>2, <2>3, <2>4
<1> QED BY <1>12, <1>13

----------------------------------------------------------------------------
(* Actions, and the step from one stream to both.                            *)

\* A handler is queued, perhaps with a unit written or with the wish to close.
LEMMA PostTracks ==
  ASSUME NEW s \in StreamStates, NEW o, NEW X, NEW Y, Tracks(s, o, X, Y),
         NEW h \in Handlers \ {"SendPacket"}, NEW t, t.ready = Append(s.ready, Job(h)),
         t.seqn = s.seqn, t.sent = s.sent, t.wire = s.wire,
         t.lastReceived = s.lastReceived, t.saved = s.saved,
         t.window = s.window, t.status = s.status, t.attached = s.attached,
         t.taken = s.taken, s.closeAsked => t.closeAsked /\ t.written = s.written,
         h = "Close" => t.closeAsked
  PROVE  Tracks(t, o, X, Y) /\ Grows(s, t)
<1> DEFINE j == Job(h)
<1>1. j \in Jobs /\ j.run = h
  BY JobType DEF Job
<1> HIDE DEF j
<1>2. t.ready = Append(s.ready, j)
  BY DEF j
<1>3. PostedPackets(t) = PostedPackets(s) \cup {}
  BY <1>1, <1>2, PostedAppend
<1>4. SamePackets(s, t)
  BY <1>3 DEF SamePackets
<1>5. Asked(t) # {} => t.closeAsked
  BY <1>1, <1>2, AppendAsked DEF Tracks
<1>6. Fins(t) = Fins(s)
  BY <1>4, SamePacketsKeep
<1>7. FinsGood(t)
  BY <1>6 DEF Tracks, FinsGood, Finished, BufferIsEmpty
<1>8. Tracks(t, o, X, Y)
  BY <1>4, <1>5, <1>7, FieldsTrack DEF Tracks
<1> QED BY <1>8 DEF Grows, Has

\* A stream that has processed packet 0 does not merely excuse it.
LEMMA ExcuseDropped ==
  ASSUME NEW s \in StreamStates, NEW o, NEW Y, Tracks(s, o, {0}, Y), s.lastReceived >= 0
  PROVE  Tracks(s, o, {}, Y)
<1>1. Honest(s, {})
  <2> SUFFICES ASSUME NEW p \in Outgoing(s), ~p.noAck, NEW n \in 0 .. p.ackThrough
               PROVE  n \in p.nacks \/ Has(s, n)
    BY DEF Honest, Heard
  <2>1. n \in p.nacks \/ Has(s, n) \/ n = 0
    BY DEF Tracks, Honest, Heard
  <2>2. Has(s, 0)
    BY DEF Has
  <2> QED BY <2>1, <2>2
<1>2. ~(s.lastReceived < 0)
  BY DEF StreamStates
<1> QED BY <1>1, <1>2 DEF Tracks

LEMMA NewTracks ==
  ASSUME NEW o, NEW Y
  PROVE  Tracks(NewStream("New"), o, {0}, Y)
<1> DEFINE s == NewStream("New")
<1>1. /\ s.status = "New" /\ s.attached /\ s.seqn = 0 /\ s.lastReceived = -1
      /\ s.sent = {} /\ s.wire = {} /\ s.window = MinWindow /\ s.ready = << >>
  BY DEF NewStream
<1> HIDE DEF s
<1>2. PostedPackets(s) = {} /\ Asked(s) = {}
  BY <1>1 DEF PostedPackets, Asked
<1>3. Outgoing(s) = {} /\ InFlight(s) = {}
  BY <1>1, <1>2 DEF Outgoing, InFlight
<1>4. Fins(s) = {}
  BY <1>3 DEF Fins, Seqns
<1>5. FinsGood(s)
  <2>1. Fins(s) \subseteq {0}
    BY <1>4
  <2> QED BY <1>1, <1>4, <2>1 DEF FinsGood
<1>6. MinWindow <= MaxWindow /\ Cardinality({}) = 0 /\ MaxWindow \in Nat
  BY WindowAssumption, FS_EmptySet
<1>7. Honest(s, {0}) /\ Kept(s, o, Y)
  BY <1>1, <1>3 DEF Honest, Kept
<1>8. s.status # "Reset" /\ 0 \in {0} /\ Cardinality(InFlight(s)) <= MaxWindow
  BY <1>1, <1>3, <1>6
<1>9. Tracks(s, o, {0}, Y)
  BY <1>1, <1>2, <1>3, <1>5, <1>6, <1>7, <1>8 DEF Tracks
<1> QED BY <1>9 DEF s

\* What the invariant says of one end, seen by what it does next.
LEMMA EndFacts ==
  ASSUME AckInv, NEW e \in Ends
  PROVE  LET s == stream[e]
             o == stream[Peer(e)]
         IN  /\ Good(s, o.log) /\ o.log \in Seq(Nat) /\ s \in StreamStates
             /\ Tracks(s, o, Excused(e), Excused(Peer(e))) \/ s = NewStream("None")
             /\ FewMissing(s, Len(o.log))
             /\ \A p \in o.wire : /\ p \in Packets /\ Fits(o.log, p)
                                  /\ p.noAck \/ Heard(p, o, Excused(Peer(e)))
                                  /\ p.syn => p.seqn = 0
<1> DEFINE s == stream[e]
           f == Peer(e)
           o == stream[f]
<1>1. f \in Ends /\ Peer(f) = e
  BY EndsFacts
<1>2. /\ Good(s, o.log) /\ Good(o, s.log) /\ s \in StreamStates /\ o \in StreamStates
      /\ o.log \in Seq(Nat)
  BY <1>1 DEF AckInv, IInv, StreamStates
<1>3. /\ Tracks(s, o, Excused(e), Excused(f)) \/ s = NewStream("None")
      /\ Tracks(o, s, Excused(f), Excused(e)) \/ o = NewStream("None")
  BY <1>1 DEF AckInv
<1> HIDE DEF s, o, f
<1>4. IsFiniteSet(o.sent) /\ Len(o.log) = o.seqn
  BY <1>2 DEF Good, SenderGood
<1>5. CASE o = NewStream("None")
  <2>1. o.wire = {} /\ o.seqn = 0
    BY <1>5 DEF NewStream
  <2>2. FewMissing(s, Len(o.log))
    <3>1. IsFiniteSet({}) /\ Cardinality({}) = 0 /\ 0 < MaxNacks
      BY FS_EmptySet, NackAssumption, WindowAssumption
    <3>2. \A n \in 0 .. (Len(o.log) - 2) : n \in {} \/ Has(s, n)
      BY <1>4, <2>1
    <3> QED BY <3>1, <3>2 DEF FewMissing
  <2> QED BY <1>2, <1>3, <2>1, <2>2 DEF s, o, f
<1>6. CASE Tracks(o, s, Excused(f), Excused(e))
  <2>1. Excused(e) \subseteq {0}
    BY DEF Excused
  <2>2. FewMissing(s, Len(o.log))
    BY <1>2, <1>4, <1>6, <2>1, TrackedAreFew
  <2>3. \A p \in o.wire : /\ p \in Packets /\ Fits(o.log, p)
                          /\ p.noAck \/ Heard(p, o, Excused(f))
                          /\ p.syn => p.seqn = 0
    BY <1>2, <1>6, OutgoingType DEF Good, SenderGood, Outgoing, Tracks, Honest
  <2> QED BY <1>2, <1>3, <2>2, <2>3 DEF s, o, f
<1> QED BY <1>3, <1>5, <1>6

\* What a step does to the stream of the end that takes it.
Acts(e, t) ==
  /\ Step(e, t) /\ t \in StreamStates /\ Grows(stream[e], t)
  /\ Tracks(t, stream[Peer(e)], Excused(e), Excused(Peer(e)))

LEMMA SendsActs ==
  ASSUME NEW e \in Ends, NEW L, NEW u, NEW t, Sends(u, t, L), Step(e, t),
         Tracks(t, stream[Peer(e)], Excused(e), Excused(Peer(e))), Grows(stream[e], u)
  PROVE  Acts(e, t)
<1>1. Grows(u, t)
  BY SendsGrows
<1> QED BY <1>1 DEF Acts, Sends, Good, Grows

\* The streams that a posted handler can leave behind.
LEMMA PostType ==
  ASSUME NEW s \in StreamStates, NEW h \in Handlers, NEW x \in StreamStates, x.ready = s.ready
  PROVE  LET t == Post(x, Job(h)) IN
         /\ t \in StreamStates /\ t.ready = Append(s.ready, Job(h))
         /\ t.seqn = x.seqn /\ t.sent = x.sent /\ t.wire = x.wire
         /\ t.lastReceived = x.lastReceived /\ t.saved = x.saved
         /\ t.window = x.window /\ t.status = x.status /\ t.attached = x.attached
         /\ t.taken = x.taken /\ t.written = x.written /\ t.closeAsked = x.closeAsked
<1> DEFINE j == Job(h)
           r == Append(s.ready, j)
<1>1. j \in Jobs
  BY JobType
<1> HIDE DEF j
<1>2. r \in Seq(Jobs)
  BY <1>1, AppendProperties DEF StreamStates
<1>3. Post(x, Job(h)) = [x EXCEPT !.ready = r]
  BY DEF Post, j
<1> HIDE DEF r
<1> QED BY <1>2, <1>3 DEF StreamStates, r, j

\* Every action but the first SYN works on a stream that exists, and keeps it sound.
LEMMA StartedActs ==
  ASSUME AckInv, NEW e \in Ends,
         \/ AsyncSend(e) \/ Connect(e) \/ AsyncClose(e) \/ ReceivePacket(e)
         \/ AckSendTimerExpires(e) \/ ResendTimerExpires(e)
         \/ Run(e) \/ SendUpdatedLeaseSet(e)
  PROVE  \E t : Acts(e, t)
<1> DEFINE s == stream[e]
           o == stream[Peer(e)]
           L == o.log
           X == Excused(e)
           Y == Excused(Peer(e))
           u == Taken(e)
<1>1. /\ Good(s, L) /\ L \in Seq(Nat) /\ s \in StreamStates
      /\ Tracks(s, o, X, Y) \/ s = NewStream("None")
      /\ FewMissing(s, Len(L))
      /\ \A p \in o.wire : p \in Packets /\ Fits(L, p) /\ (p.noAck \/ Heard(p, o, Y))
  BY EndFacts
<1>2. s # NewStream("None")
  <2> SUFFICES ASSUME s = NewStream("None") PROVE FALSE
    OBVIOUS
  <2> DEFINE n == NewStream("None")
  <2>1. /\ n.status = "None" /\ ~n.attached /\ n.ready = << >>
        /\ ~n.ackArmed /\ ~n.resendArmed
    BY DEF NewStream
  <2>2. s = n
    OBVIOUS
  <2> HIDE DEF s, n
  <2>3. /\ s.status = "None" /\ ~s.attached /\ s.ready = << >>
        /\ ~s.ackArmed /\ ~s.resendArmed
    BY <2>1, <2>2
  <2> QED BY <2>3
        DEF AsyncSend, Connect, AsyncClose, ReceivePacket, AckSendTimerExpires,
            ResendTimerExpires, Run, RunSendBuffer, RunClose, RunSendPacket, RunAckSendTimer,
            RunAbortedAckSendTimer, RunResendTimer, NextJobIs, SendUpdatedLeaseSet, s
<1>3. Tracks(s, o, X, Y) /\ Grows(s, s)
  BY <1>1, <1>2 DEF Grows
<1>4. ASSUME NEW h \in Handlers \ {"SendPacket"}, NEW x \in StreamStates,
             Step(e, Post(x, Job(h))), x.ready = s.ready,
             x.seqn = s.seqn, x.sent = s.sent, x.wire = s.wire,
             x.lastReceived = s.lastReceived, x.saved = s.saved,
             x.window = s.window, x.status = s.status, x.attached = s.attached,
             x.taken = s.taken, s.closeAsked => x.closeAsked /\ x.written = s.written,
             h = "Close" => x.closeAsked
      PROVE  Acts(e, Post(x, Job(h)))
  <2> DEFINE t == Post(x, Job(h))
  <2> HIDE DEF s, o, X, Y
  <2>1. /\ t \in StreamStates /\ t.ready = Append(s.ready, Job(h))
        /\ t.seqn = x.seqn /\ t.sent = x.sent /\ t.wire = x.wire
        /\ t.lastReceived = x.lastReceived /\ t.saved = x.saved
        /\ t.window = x.window /\ t.status = x.status /\ t.attached = x.attached
        /\ t.taken = x.taken /\ t.written = x.written /\ t.closeAsked = x.closeAsked
    BY <1>1, <1>4, PostType
  <2>2. Step(e, t)
    BY <1>4
  <2> HIDE DEF t
  <2>3. /\ t.seqn = s.seqn /\ t.sent = s.sent /\ t.wire = s.wire
        /\ t.lastReceived = s.lastReceived /\ t.saved = s.saved
        /\ t.window = s.window /\ t.status = s.status /\ t.attached = s.attached
        /\ t.taken = s.taken /\ (s.closeAsked => t.closeAsked /\ t.written = s.written)
        /\ h = "Close" => t.closeAsked
    BY <1>4, <2>1
  <2>4. Tracks(t, o, X, Y) /\ Grows(s, t)
    BY <1>1, <1>3, <2>1, <2>3, PostTracks
  <2>5. Acts(e, t)
    BY <2>1, <2>2, <2>4 DEF Acts, s, o, X, Y
  <2> QED BY <2>5 DEF t
<1>5. CASE AsyncSend(e)
  <2> DEFINE x == [s EXCEPT !.written = @ + 1]
  <2>1. Step(e, Post(x, Job("SendBuffer"))) /\ ~s.closeAsked
    BY <1>5 DEF AsyncSend
  <2>2. "SendBuffer" \in Handlers \ {"SendPacket"}
    BY DEF Handlers
  <2>3. /\ x \in StreamStates /\ x.ready = s.ready
        /\ x.seqn = s.seqn /\ x.sent = s.sent /\ x.wire = s.wire
        /\ x.lastReceived = s.lastReceived /\ x.saved = s.saved
        /\ x.window = s.window /\ x.status = s.status /\ x.attached = s.attached
        /\ x.taken = s.taken
    <3> HIDE DEF s
    <3>1. s.written + 1 \in Nat
      BY <1>1 DEF StreamStates
    <3> QED BY <1>1, <3>1 DEF StreamStates
  <2> HIDE DEF x, s
  <2>4. Acts(e, Post(x, Job("SendBuffer")))
    BY <1>4, <2>1, <2>2, <2>3
  <2> QED BY <2>4
<1>6. CASE Connect(e)
  <2> DEFINE x == s
  <2>1. Step(e, Post(x, Job("SendBuffer"))) /\ ~s.closeAsked
    BY <1>6 DEF Connect
  <2>2. "SendBuffer" \in Handlers \ {"SendPacket"}
    BY DEF Handlers
  <2>3. /\ x \in StreamStates /\ x.ready = s.ready
        /\ x.seqn = s.seqn /\ x.sent = s.sent /\ x.wire = s.wire
        /\ x.lastReceived = s.lastReceived /\ x.saved = s.saved
        /\ x.window = s.window /\ x.status = s.status /\ x.attached = s.attached
        /\ x.taken = s.taken /\ (s.closeAsked => x.closeAsked /\ x.written = s.written)
        /\ "SendBuffer" = "Close" => x.closeAsked
    <3> HIDE DEF s
    <3> QED BY <1>1, <2>1 DEF StreamStates
  <2> HIDE DEF x, s
  <2>4. Acts(e, Post(x, Job("SendBuffer")))
    BY <1>4, <2>1, <2>2, <2>3
  <2> QED BY <2>4
<1>7. CASE AsyncClose(e)
  <2> DEFINE x == [s EXCEPT !.closeAsked = TRUE]
  <2>1. Step(e, Post(x, Job("Close"))) /\ ~s.closeAsked
    BY <1>7 DEF AsyncClose
  <2>2. "Close" \in Handlers \ {"SendPacket"}
    BY DEF Handlers
  <2>3. /\ x \in StreamStates /\ x.ready = s.ready
        /\ x.seqn = s.seqn /\ x.sent = s.sent /\ x.wire = s.wire
        /\ x.lastReceived = s.lastReceived /\ x.saved = s.saved
        /\ x.window = s.window /\ x.status = s.status /\ x.attached = s.attached
        /\ x.taken = s.taken /\ (s.closeAsked => x.closeAsked /\ x.written = s.written)
        /\ "Close" = "Close" => x.closeAsked
    <3> HIDE DEF s
    <3> QED BY <1>1, <2>1 DEF StreamStates
  <2> HIDE DEF x, s
  <2>4. Acts(e, Post(x, Job("Close")))
    BY <1>4, <2>1, <2>2, <2>3
  <2> QED BY <2>4
<1>8. CASE ReceivePacket(e)
  <2>1. PICK p \in o.wire, grow \in BOOLEAN : Step(e, HandleNextPacket(s, p, grow))
    BY <1>8 DEF ReceivePacket
  <2>2. s.status # "Reset"
    BY <1>3, <1>8 DEF ReceivePacket, Tracks
  <2> DEFINE t == HandleNextPacket(s, p, grow)
  <2> HIDE DEF s, o, L, X, Y
  <2>3. Tracks(t, o, X, Y) /\ Grows(s, t)
    BY <1>1, <1>3, <2>1, <2>2, HandleNextPacketTracks
  <2>4. t \in StreamStates
    BY <1>1, <2>1, HandleNextPacketReceives DEF Receives, Good
  <2> HIDE DEF t
  <2>5. Step(e, t)
    BY <2>1 DEF t
  <2> QED BY <2>3, <2>4, <2>5 DEF Acts, s, o, X, Y
<1>9. CASE AckSendTimerExpires(e)
  <2> DEFINE x == [s EXCEPT !.ackArmed = FALSE]
  <2>1. Step(e, Post(x, Job("HandleAckSendTimer")))
    BY <1>9 DEF AckSendTimerExpires
  <2>2. "HandleAckSendTimer" \in Handlers \ {"SendPacket"}
    BY DEF Handlers
  <2>3. /\ x \in StreamStates /\ x.ready = s.ready
        /\ x.seqn = s.seqn /\ x.sent = s.sent /\ x.wire = s.wire
        /\ x.lastReceived = s.lastReceived /\ x.saved = s.saved
        /\ x.window = s.window /\ x.status = s.status /\ x.attached = s.attached
        /\ x.taken = s.taken /\ (s.closeAsked => x.closeAsked /\ x.written = s.written)
        /\ "HandleAckSendTimer" = "Close" => x.closeAsked
    <3> HIDE DEF s
    <3> QED BY <1>1, <2>1 DEF StreamStates
  <2> HIDE DEF x, s
  <2>4. Acts(e, Post(x, Job("HandleAckSendTimer")))
    BY <1>4, <2>1, <2>2, <2>3
  <2> QED BY <2>4
<1>10. CASE ResendTimerExpires(e)
  <2> DEFINE x == [s EXCEPT !.resendArmed = FALSE]
  <2>1. Step(e, Post(x, Job("HandleResendTimer")))
    BY <1>10 DEF ResendTimerExpires
  <2>2. "HandleResendTimer" \in Handlers \ {"SendPacket"}
    BY DEF Handlers
  <2>3. /\ x \in StreamStates /\ x.ready = s.ready
        /\ x.seqn = s.seqn /\ x.sent = s.sent /\ x.wire = s.wire
        /\ x.lastReceived = s.lastReceived /\ x.saved = s.saved
        /\ x.window = s.window /\ x.status = s.status /\ x.attached = s.attached
        /\ x.taken = s.taken /\ (s.closeAsked => x.closeAsked /\ x.written = s.written)
        /\ "HandleResendTimer" = "Close" => x.closeAsked
    <3> HIDE DEF s
    <3> QED BY <1>1, <2>1 DEF StreamStates
  <2> HIDE DEF x, s
  <2>4. Acts(e, Post(x, Job("HandleResendTimer")))
    BY <1>4, <2>1, <2>2, <2>3
  <2> QED BY <2>4
<1>11. CASE Run(e)
  <2>1. s.ready # << >>
    BY <1>11 DEF Run, RunSendBuffer, RunClose, RunSendPacket, RunAckSendTimer,
                RunAbortedAckSendTimer, RunResendTimer, NextJobIs
  <2>2. u = [s EXCEPT !.ready = Tail(@)]
    BY DEF Taken
  <2>3. CASE RunSendPacket(e)
    <3> DEFINE t == SendPacket(u, Head(s.ready).packet)
    <3>1. Step(e, t) /\ Head(s.ready).run = "SendPacket"
      BY <2>3 DEF RunSendPacket, NextJobIs
    <3> HIDE DEF s, o, L, X, Y, u
    <3>2. Tracks(t, o, X, Y)
      BY <1>1, <1>3, <2>1, <2>2, <3>1, SendPacketTracks
    <3>3. /\ Good(u, L) /\ Sends(s, u, L) /\ Head(s.ready).packet \in Packets
          /\ Fits(u.log, Head(s.ready).packet)
      <4>1. /\ Sends(s, [s EXCEPT !.ready = Tail(@)], L)
            /\ Head(s.ready).packet \in Packets /\ Fits(s.log, Head(s.ready).packet)
        BY <1>1, <2>1, <3>1, TakenSends
      <4>2. u.log = s.log
        BY <1>1, <2>2 DEF StreamStates
      <4> QED BY <2>2, <4>1, <4>2 DEF Sends
    <3>4. Sends(u, t, L) /\ Grows(s, u)
      BY <1>1, <3>3, SendPacketSends, SendsGrows
    <3> HIDE DEF t
    <3> QED BY <3>1, <3>2, <3>4, SendsActs DEF s, o, X, Y, t
  <2>4. CASE ~RunSendPacket(e)
    <3>1. Head(s.ready).run # "SendPacket"
      BY <1>11, <2>4 DEF Run, RunSendBuffer, RunClose, RunSendPacket, RunAckSendTimer,
                RunAbortedAckSendTimer, RunResendTimer, NextJobIs
    <3>2. \/ Step(e, SendBuffer(u)) \/ Step(e, HandleAckSendTimer(u))
          \/ Step(e, Close(u)) /\ Head(s.ready).run = "Close"
          \/ \E due \in SUBSET s.sent : Step(e, HandleResendTimer(u, due))
      BY <1>11, <2>4 DEF Run, RunSendBuffer, RunClose, RunAckSendTimer,
                RunAbortedAckSendTimer, RunResendTimer, NextJobIs
    <3> HIDE DEF s, o, L, X, Y, u
    <3>3. Tracks(u, o, X, Y)
      BY <1>1, <1>3, <2>1, <2>2, <3>1, TakenTracks
    <3>4. Sends(s, u, L) /\ Good(u, L) /\ Grows(s, u)
      BY <1>1, <2>1, <2>2, TakenSends, SendsGrows DEF Sends
    <3>5. /\ u.sent = s.sent /\ u.saved = s.saved /\ u.lastReceived = s.lastReceived
          /\ u.closeAsked = s.closeAsked
      BY <1>1, <2>2 DEF StreamStates
    <3>6. FewMissing(u, Len(L))
      BY <1>1, <3>5 DEF FewMissing, Has
    <3>7. Head(s.ready).run = "Close" => u.closeAsked
      BY <1>1, <1>3, <2>1, <2>2, <3>5, TakenQueue DEF Tracks
    <3>8. CASE Step(e, SendBuffer(u))
      <4>1. Sends(u, SendBuffer(u), L) /\ Tracks(SendBuffer(u), o, X, Y)
        BY <1>1, <3>3, <3>4, SendBufferSends, SendBufferTracks
      <4> QED BY <3>4, <3>8, <4>1, SendsActs DEF s, o, X, Y
    <3>9. CASE Step(e, HandleAckSendTimer(u))
      <4>1. Sends(u, HandleAckSendTimer(u), L) /\ Tracks(HandleAckSendTimer(u), o, X, Y)
        BY <1>1, <3>3, <3>4, <3>6, HandleAckSendTimerSends, HandleAckSendTimerTracks
      <4> QED BY <3>4, <3>9, <4>1, SendsActs DEF s, o, X, Y
    <3>10. CASE Step(e, Close(u)) /\ Head(s.ready).run = "Close"
      <4>1. Sends(u, Close(u), L) /\ Tracks(Close(u), o, X, Y)
        BY <1>1, <3>3, <3>4, <3>7, <3>10, CloseSends, CloseTracks
      <4> QED BY <3>4, <3>10, <4>1, SendsActs DEF s, o, X, Y
    <3>11. CASE \E due \in SUBSET s.sent : Step(e, HandleResendTimer(u, due))
      <4>1. PICK due \in SUBSET u.sent : Step(e, HandleResendTimer(u, due))
        BY <3>5, <3>11
      <4>2. /\ Sends(u, HandleResendTimer(u, due), L)
            /\ Tracks(HandleResendTimer(u, due), o, X, Y)
        BY <1>1, <3>3, <3>4, HandleResendTimerSends, HandleResendTimerTracks
      <4> QED BY <3>4, <4>1, <4>2, SendsActs DEF s, o, X, Y
    <3> QED BY <3>2, <3>8, <3>9, <3>10, <3>11
  <2> QED BY <2>3, <2>4
<1>12. CASE SendUpdatedLeaseSet(e)
  <2>1. Step(e, SendQuickAck(s))
    BY <1>12 DEF SendUpdatedLeaseSet
  <2> HIDE DEF s, o, L, X, Y
  <2>2. Sends(s, SendQuickAck(s), L) /\ Tracks(SendQuickAck(s), o, X, Y)
    BY <1>1, <1>3, SendQuickAckSends, SendQuickAckTracks
  <2> QED BY <1>3, <2>1, <2>2, SendsActs DEF s, o, X, Y
<1> QED BY <1>5, <1>6, <1>7, <1>8, <1>9, <1>10, <1>11, <1>12

\* The SYN that makes the incoming end is its peer's packet 0.
LEMMA ReceiveSynActs ==
  ASSUME AckInv, NEW e \in Ends, ReceiveSyn(e)
  PROVE  \E t : Acts(e, t)
<1> DEFINE s == stream[e]
           n == NewStream("New")
           o == stream[Peer(e)]
           L == o.log
           Y == Excused(Peer(e))
<1>1. /\ L \in Seq(Nat) /\ FewMissing(s, Len(L))
      /\ \A p \in o.wire : /\ p \in Packets /\ Fits(L, p)
                           /\ p.noAck \/ Heard(p, o, Y)
                           /\ p.syn => p.seqn = 0
  BY EndFacts
<1>2. PICK p \in o.wire : p.syn /\ Step(e, HandleNextPacket(n, p, FALSE))
  BY DEF ReceiveSyn
<1> DEFINE t == HandleNextPacket(n, p, FALSE)
<1>3. s = NewStream("None")
  BY DEF ReceiveSyn
<1>4. /\ s.lastReceived = n.lastReceived /\ s.saved = n.saved
      /\ n.status = "New" /\ n.lastReceived = -1
  BY <1>3 DEF NewStream
<1>5. Good(n, L) /\ Tracks(n, o, {0}, Y)
  BY <1>1, NewStreamGood, NewTracks DEF Statuses
<1> HIDE DEF s, n, o, L, Y
<1>6. Grows(s, n) /\ FewMissing(n, Len(L))
  BY <1>1, <1>4 DEF Grows, FewMissing, Has
<1>7. Tracks(t, o, {0}, Y) /\ Grows(n, t) /\ t.lastReceived >= 0 /\ t \in StreamStates
  <2>1. ~PlainAck(p) /\ p.seqn = n.lastReceived + 1
    BY <1>1, <1>2, <1>4 DEF PlainAck
  <2>2. n.status # "Reset"
    BY <1>4
  <2> HIDE DEF t
  <2>3. /\ Tracks(t, o, {0}, Y) /\ Grows(n, t)
        /\ ~PlainAck(p) /\ p.seqn = n.lastReceived + 1 => t.lastReceived >= 0
    BY <1>1, <1>5, <1>6, <2>2, HandleNextPacketTracks DEF t
  <2>4. t \in StreamStates
    BY <1>1, <1>5, HandleNextPacketReceives DEF Receives, Good, t
  <2> QED BY <2>1, <2>3, <2>4
<1>8. Step(e, t)
  BY <1>2
<1> HIDE DEF t
<1>9. Tracks(t, o, {}, Y)
  BY <1>7, ExcuseDropped
<1>10. Tracks(t, o, Excused(e), Y)
  BY <1>7, <1>9 DEF Excused
<1>11. Grows(s, t)
  BY <1>6, <1>7 DEF Grows
<1> QED BY <1>7, <1>8, <1>10, <1>11 DEF Acts, s, o, Y

\* The peer of the end that steps loses nothing: more of its packets are held.
LEMMA PeerTracks ==
  ASSUME NEW s, NEW t, NEW o, NEW X, NEW Y, Tracks(o, s, X, Y), Grows(s, t)
  PROVE  Tracks(o, t, X, Y)
<1>1. Kept(o, t, Y)
  BY DEF Tracks, Kept, Grows
<1> QED BY <1>1 DEF Tracks

LEMMA NextKeepsAckInv ==
  ASSUME AckInv, Next
  PROVE  AckInv'
<1>1. IInv'
  BY NextKeepsIInv DEF AckInv
<1>2. PICK e \in Ends :
        \/ AsyncSend(e) \/ Connect(e) \/ AsyncClose(e)
        \/ ReceiveSyn(e) \/ ReceivePacket(e)
        \/ AckSendTimerExpires(e) \/ ResendTimerExpires(e)
        \/ Run(e) \/ SendUpdatedLeaseSet(e)
  BY DEF Next
<1>3. PICK t : Acts(e, t)
  BY <1>2, StartedActs, ReceiveSynActs
<1> DEFINE f == Peer(e)
<1>4. f \in Ends /\ f # e /\ Peer(f) = e /\ \A x \in Ends : x = e \/ x = f
  BY EndsFacts
<1>5. stream' = [stream EXCEPT ![e] = t] /\ stream \in [Ends -> StreamStates]
  BY <1>3 DEF Acts, Step, AckInv, IInv
<1>6. stream'[e] = t /\ stream'[f] = stream[f]
  BY <1>4, <1>5
<1>7. /\ Tracks(t, stream[f], Excused(e), Excused(f)) /\ Grows(stream[e], t)
      /\ \/ Tracks(stream[f], stream[e], Excused(f), Excused(e))
         \/ f = "incoming" /\ stream[f] = NewStream("None")
  <2>1. Tracks(t, stream[f], Excused(e), Excused(f)) /\ Grows(stream[e], t)
    BY <1>3 DEF Acts
  <2> HIDE DEF f
  <2>2. \/ Tracks(stream[f], stream[e], Excused(f), Excused(e))
        \/ f = "incoming" /\ stream[f] = NewStream("None")
    BY <1>4 DEF AckInv
  <2> QED BY <2>1, <2>2
<1>8. \/ Tracks(stream[f], t, Excused(f), Excused(e))
      \/ f = "incoming" /\ stream[f] = NewStream("None")
  <2> HIDE DEF f
  <2>1. CASE Tracks(stream[f], stream[e], Excused(f), Excused(e))
    <3>1. Grows(stream[e], t)
      BY <1>7
    <3>2. Tracks(stream[f], t, Excused(f), Excused(e))
      BY <2>1, <3>1, PeerTracks
    <3> QED BY <3>2
  <2> QED BY <1>7, <2>1
<1> HIDE DEF f
<1>9. ASSUME NEW x \in Ends
      PROVE  \/ Tracks(stream'[x], stream'[Peer(x)], Excused(x), Excused(Peer(x)))
             \/ x = "incoming" /\ stream'[x] = NewStream("None")
  <2>1. Peer(e) = f
    BY DEF f
  <2>2. CASE x = e
    BY <1>6, <1>7, <2>1, <2>2
  <2>3. CASE x = f
    BY <1>4, <1>6, <1>8, <2>3
  <2> QED BY <1>4, <2>2, <2>3
<1> QED BY <1>1, <1>9 DEF AckInv

LEMMA InitAckInv == Init => AckInv
<1> SUFFICES ASSUME Init PROVE AckInv
  OBVIOUS
<1>1. IInv
  BY InitIInv
<1>2. /\ stream["outgoing"] = NewStream("New") /\ stream["incoming"] = NewStream("None")
  BY DEF Init, Ends
<1>3. Excused("outgoing") = {0}
  BY DEF Excused
<1>4. Tracks(stream["outgoing"], stream[Peer("outgoing")], Excused("outgoing"),
             Excused(Peer("outgoing")))
  BY <1>2, <1>3, NewTracks
<1>5. \A e \in Ends : e = "outgoing" \/ e = "incoming"
  BY DEF Ends
<1> QED BY <1>1, <1>2, <1>4, <1>5 DEF AckInv

LEMMA AckInvHolds == Spec => []AckInv
<1>1. AckInv /\ [Next]_stream => AckInv'
  <2>1. CASE Next
    BY <2>1, NextKeepsAckInv
  <2>2. CASE UNCHANGED stream
    BY <2>2 DEF AckInv, IInv
  <2> QED BY <2>1, <2>2
<1> QED BY <1>1, InitAckInv, PTL DEF Spec

----------------------------------------------------------------------------
(* The theorems.                                                             *)

\* A packet leaves the list of those to be retransmitted only when the peer holds it,
\* whatever the peer's acknowledgements left out and in whatever order they came.
THEOREM SentUntilReceived == Spec => []AckedWasReceived
<1>1. ASSUME AckInv, NEW e \in Ends, NEW n \in 0 .. (stream[e].seqn - 1)
      PROVE  \/ Has(stream[Peer(e)], n)
             \/ n \in Seqns(stream[e].sent) \/ n \in Posted(stream[e])
             \/ e = "incoming" /\ n = 0
  <2>1. CASE stream[e] = NewStream("None")
    <3>1. stream[e].seqn = 0
      BY <2>1 DEF NewStream
    <3> QED BY <3>1
  <2>2. CASE Tracks(stream[e], stream[Peer(e)], Excused(e), Excused(Peer(e)))
    <3>1. Posted(stream[e]) = Seqns(PostedPackets(stream[e]))
      BY DEF Posted, Seqns, PostedPackets
    <3>2. n \in Excused(Peer(e)) => e = "incoming" /\ n = 0
      BY DEF Excused, Peer, Ends
    <3> QED BY <2>2, <3>1, <3>2 DEF Tracks, Kept
  <2> QED BY <1>1, <2>1, <2>2 DEF AckInv
<1>2. AckInv => AckedWasReceived
  BY <1>1 DEF AckedWasReceived
<1> QED BY <1>2, AckInvHolds, PTL

\* The gaps of a receiver always fit into the NACKs of one packet, so that SendQuickAck
\* never has to acknowledge a packet that is missing.
THEOREM GapsFit == Spec => []NacksFit
<1>1. ASSUME AckInv, NEW e \in Ends
      PROVE  Overflowing(stream[e]) = {}
  <2>1. /\ Good(stream[e], stream[Peer(e)].log) /\ stream[Peer(e)].log \in Seq(Nat)
        /\ FewMissing(stream[e], Len(stream[Peer(e)].log))
    BY <1>1, EndFacts
  <2> QED BY <2>1, NoOverflow
<1>2. AckInv => NacksFit
  BY <1>1 DEF NacksFit
<1> QED BY <1>2, AckInvHolds, PTL

----------------------------------------------------------------------------
(* That nothing is stuck, and that a stream which closes has delivered.  The *)
(* first fails only if packets could be in the buffer of an end when it gets *)
(* established; they cannot, because the packet that establishes it          *)
(* acknowledges the SYN, and an acknowledgement that removes a packet sends  *)
(* from the buffer.  The second rests on Kept: a stream closes when it has   *)
(* nothing unacknowledged, and the one number that an end may take for       *)
(* acknowledged although its peer lacks it has an empty payload.             *)

Queued(s, h) == \E i \in 1 .. Len(s.ready) : s.ready[i].run = h

\* NothingIsStuck, for one end.
Timed(s) == s.attached /\ s.sent # {} => s.resendArmed \/ Queued(s, "HandleResendTimer")

Flushed(s) ==
  s.attached /\ s.established /\ ~BufferIsEmpty(s) => Room(s) <= 0 \/ Queued(s, "SendBuffer")

\* An end reads only what was on the wire of its peer.
Reads(s, W) ==
  /\ s.saved \subseteq W
  /\ \A n \in 0 .. s.lastReceived : \E p \in W : p.seqn = n /\ ~PlainAck(p)

FinSeen(s, W) == \E p \in W : p.fin /\ p.seqn <= s.lastReceived

\* A FIN has no payload, nor has the packet that the peer may acknowledge unseen.
EmptyOnes(s, Y) ==
  /\ \A p \in s.sent \cup PostedPackets(s) : p.seqn < s.seqn
  /\ \A p \in PostedPackets(s) : s.log[p.seqn + 1] = 0
  /\ Y # {} => s.seqn >= 1 /\ s.log[1] = 0

Delivered(s, o) ==
  /\ s.closeAsked /\ BufferIsEmpty(s)
  /\ \A n \in 0 .. (s.seqn - 1) : s.log[n + 1] # 0 => Has(o, n)

Ended(s, o) == s.status = "Closed" => FinSeen(s, o.wire) \/ Delivered(s, o)

\* The outgoing end: packet 0 is its SYN and stays in the window until the peer answers.
Calls(s) ==
  /\ s.attached /\ ~s.established => s.status = "New" \/ 0 \in Seqns(s.sent)
  /\ s.status = "New" => s.lastReceived < 0
  /\ \A p \in Outgoing(s) : p.syn => p.noAck /\ ~p.fin

\* The incoming end: it holds packet 0, and every packet it sends says so.
Answers(p, n) == ~p.noAck /\ p.ackThrough \in 0 .. n /\ 0 \notin p.nacks

Replies(s, o) ==
  /\ s.established /\ s.lastReceived >= 0 /\ s.status # "New"
  /\ o.status # "New"
  /\ \A p \in Outgoing(s) : Answers(p, o.seqn)

\* What packet p must be for its sender, of which the peer may take the numbers Y for
\* received.
Sendable(p, o, Y) == IF Y = {} THEN p.syn => p.noAck /\ ~p.fin ELSE Answers(p, o.seqn)

Settled(s, o, Y) ==
  /\ s.window >= MinWindow
  /\ Reads(s, o.wire) /\ EmptyOnes(s, Y) /\ Ended(s, o)
  /\ IF Y = {} THEN Calls(s) ELSE Replies(s, o)

Alive(s, o, Y) == Settled(s, o, Y) /\ Timed(s) /\ Flushed(s)

AliveInv ==
  /\ AckInv
  /\ \A e \in Ends : \/ Alive(stream[e], stream[Peer(e)], Excused(Peer(e)))
                     \/ e = "incoming" /\ stream[e] = NewStream("None")

----------------------------------------------------------------------------
(* Operators that number no packet and send none.                            *)

Calm(s, t) ==
  /\ SamePackets(s, t)
  /\ t.log = s.log /\ t.window = s.window /\ t.established = s.established
  /\ t.closeAsked = s.closeAsked /\ t.written = s.written /\ t.taken = s.taken
  /\ t.attached => s.attached
  /\ t.attached /\ s.resendArmed => t.resendArmed
  /\ \/ t.status = s.status
     \/ t.status = "Reset" /\ ~t.attached
     \/ t.status = "Closing" /\ s.status = "Open"
  /\ Queued(s, "SendBuffer") => Queued(t, "SendBuffer")
  /\ Queued(s, "HandleResendTimer") => Queued(t, "HandleResendTimer")

LEMMA CalmSettled ==
  ASSUME NEW s, NEW t, NEW o, NEW Y, Settled(s, o, Y), Calm(s, t)
  PROVE  Settled(t, o, Y)
<1>1. Outgoing(t) = Outgoing(s)
  BY DEF Calm, SamePackets, Outgoing
<1>2. Reads(t, o.wire) /\ EmptyOnes(t, Y)
  BY DEF Settled, Reads, EmptyOnes, Calm, SamePackets
<1>3. Ended(t, o)
  BY DEF Settled, Ended, FinSeen, Delivered, BufferIsEmpty, Calm, SamePackets
<1>4. Calls(s) => Calls(t)
  BY <1>1 DEF Calls, Calm, SamePackets
<1>5. Replies(s, o) => Replies(t, o)
  BY <1>1 DEF Replies, Calm, SamePackets
<1> QED BY <1>2, <1>3, <1>4, <1>5 DEF Settled, Calm

LEMMA CalmAlive ==
  ASSUME NEW s, NEW t, NEW o, NEW Y, Calm(s, t)
  PROVE  /\ Timed(s) => Timed(t)
         /\ Flushed(s) => Flushed(t)
         /\ Alive(s, o, Y) => Alive(t, o, Y)
<1>1. Timed(s) => Timed(t)
  BY DEF Timed, Calm, SamePackets
<1>2. Flushed(s) => Flushed(t)
  BY DEF Flushed, Calm, SamePackets, BufferIsEmpty, Room
<1> QED BY <1>1, <1>2, CalmSettled DEF Alive

LEMMA CalmTransitive ==
  ASSUME NEW s, NEW t, NEW u, Calm(s, t), Calm(t, u), t.status = s.status \/ u.status = t.status
  PROVE  Calm(s, u)
BY DEF Calm, SamePackets

\* A handler behind the others leaves them queued.
LEMMA AppendQueued ==
  ASSUME NEW s \in StreamStates, NEW j \in Jobs, NEW t, t.ready = Append(s.ready, j)
  PROVE  /\ \A h : Queued(s, h) => Queued(t, h)
         /\ Queued(t, j.run)
<1>1. s.ready \in Seq(Jobs)
  BY DEF StreamStates
<1>2. /\ Len(t.ready) = Len(s.ready) + 1 /\ Len(s.ready) \in Nat
      /\ \A i \in 1 .. Len(s.ready) : t.ready[i] = s.ready[i]
      /\ t.ready[Len(s.ready) + 1] = j
  BY <1>1, AppendProperties
<1>3. \A i \in 1 .. Len(s.ready) : i \in 1 .. Len(t.ready)
  BY <1>2
<1>4. Len(s.ready) + 1 \in 1 .. Len(t.ready)
  BY <1>2
<1> QED BY <1>2, <1>3, <1>4 DEF Queued

\* Timers, the table of the destination and the status.
SameFields(s, t) ==
  /\ t.seqn = s.seqn /\ t.sent = s.sent /\ t.wire = s.wire /\ t.log = s.log
  /\ t.lastReceived = s.lastReceived /\ t.saved = s.saved /\ t.ready = s.ready
  /\ t.window = s.window /\ t.closeAsked = s.closeAsked
  /\ t.written = s.written /\ t.taken = s.taken /\ t.established = s.established

LEMMA FieldsCalm ==
  ASSUME NEW s, NEW t, SameFields(s, t),
         t.attached => s.attached, t.attached /\ s.resendArmed => t.resendArmed,
         \/ t.status = s.status
         \/ t.status = "Reset" /\ ~t.attached
         \/ t.status = "Closing" /\ s.status = "Open"
  PROVE  Calm(s, t)
<1>1. PostedPackets(t) = PostedPackets(s) /\ \A h : Queued(t, h) <=> Queued(s, h)
  BY DEF PostedPackets, Queued, SameFields
<1> QED BY <1>1 DEF Calm, SamePackets, SameFields

LEMMA CancelCalm ==
  ASSUME NEW s \in StreamStates
  PROVE  /\ Calm(s, CancelAckSendTimer(s)) /\ CancelAckSendTimer(s) \in StreamStates
         /\ CancelAckSendTimer(s).status = s.status
<1> DEFINE j == Job("AbortedAckSendTimer")
           r == Append(s.ready, j)
           t == [s EXCEPT !.ackArmed = FALSE, !.ready = r]
           c == CancelAckSendTimer(s)
<1>1. j \in Jobs
  BY JobType DEF Handlers
<1>2. c = IF s.ackArmed THEN t ELSE s
  BY DEF CancelAckSendTimer
<1>3. SamePackets(s, c) /\ c \in StreamStates
  BY CancelSame DEF Same
<1> HIDE DEF j
<1>4. /\ t.log = s.log /\ t.ready = r
      /\ t.window = s.window /\ t.closeAsked = s.closeAsked
      /\ t.written = s.written /\ t.taken = s.taken /\ t.established = s.established
      /\ t.status = s.status /\ t.attached = s.attached /\ t.resendArmed = s.resendArmed
  BY DEF StreamStates
<1> HIDE DEF t, c
<1>5. \A h : Queued(s, h) => Queued(t, h)
  BY <1>1, <1>4, AppendQueued
<1>6. Calm(s, c) /\ c.status = s.status
  BY <1>2, <1>3, <1>4, <1>5 DEF Calm
<1> QED BY <1>3, <1>6 DEF c

LEMMA TimersCalm ==
  ASSUME NEW s \in StreamStates
  PROVE  /\ Calm(s, ArmAckSendTimer(s)) /\ ArmAckSendTimer(s) \in StreamStates
         /\ Calm(s, StopAckSend(s)) /\ StopAckSend(s) \in StreamStates
         /\ Calm(s, Terminate(s)) /\ Terminate(s) \in StreamStates
         /\ Calm(s, [s EXCEPT !.ackScheduled = FALSE])
         /\ ArmAckSendTimer(s).status = s.status /\ StopAckSend(s).status = s.status
         /\ Terminate(s).status = s.status /\ ~Terminate(s).attached
<1> DEFINE t == CancelAckSendTimer(s)
           A == ArmAckSendTimer(s)
           S == StopAckSend(s)
           T == Terminate(s)
           F == [s EXCEPT !.ackScheduled = FALSE]
<1>1. Calm(s, t) /\ t \in StreamStates /\ t.status = s.status
  BY CancelCalm
<1> HIDE DEF t
<1>2. /\ A = [t EXCEPT !.ackScheduled = TRUE, !.ackArmed = TRUE]
      /\ S = [t EXCEPT !.ackScheduled = FALSE]
      /\ T = [t EXCEPT !.resendArmed = FALSE, !.attached = FALSE]
  BY DEF ArmAckSendTimer, StopAckSend, Terminate, t
<1> HIDE DEF A, S, T
<1>3. A \in StreamStates /\ S \in StreamStates /\ T \in StreamStates
  BY <1>1, <1>2 DEF StreamStates
<1>4. /\ SameFields(t, A) /\ A.status = t.status /\ A.attached = t.attached
      /\ A.resendArmed = t.resendArmed
  BY <1>1, <1>2 DEF StreamStates, SameFields
<1>5. /\ SameFields(t, S) /\ S.status = t.status /\ S.attached = t.attached
      /\ S.resendArmed = t.resendArmed
  BY <1>1, <1>2 DEF StreamStates, SameFields
<1>6. SameFields(t, T) /\ T.status = t.status /\ ~T.attached
  BY <1>1, <1>2 DEF StreamStates, SameFields
<1>7. /\ SameFields(s, F) /\ F.status = s.status /\ F.attached = s.attached
      /\ F.resendArmed = s.resendArmed
  BY DEF StreamStates, SameFields
<1> HIDE DEF F
<1>8. Calm(t, A) /\ Calm(t, S) /\ Calm(t, T) /\ Calm(s, F)
  BY <1>4, <1>5, <1>6, <1>7, FieldsCalm
<1>9. Calm(s, A) /\ Calm(s, S) /\ Calm(s, T)
  BY <1>1, <1>4, <1>5, <1>6, <1>8, CalmTransitive
<1> QED BY <1>1, <1>3, <1>4, <1>5, <1>6, <1>8, <1>9 DEF A, S, T, F

LEMMA ResetAndCloseCalm ==
  ASSUME NEW s \in StreamStates
  PROVE  Calm(s, ResetAndClose(s))
<1> DEFINE x == [s EXCEPT !.status = "Reset"]
           y == CancelAckSendTimer(s)
           t == CancelAckSendTimer(x)
           u == [t EXCEPT !.resendArmed = FALSE, !.attached = FALSE]
<1>1. x.status = "Reset"
  BY DEF StreamStates
<1>2. ResetAndClose(s) = u
  BY <1>1 DEF ResetAndClose, Close, Terminate
<1>3. Calm(s, y) /\ y \in StreamStates /\ y.status = s.status
  BY CancelCalm
<1>4. t = [y EXCEPT !.status = "Reset"]
  BY DEF CancelAckSendTimer, StreamStates, Job
<1> HIDE DEF t, y
<1>5. SameFields(y, u) /\ u.status = "Reset" /\ ~u.attached
  BY <1>3, <1>4 DEF StreamStates, SameFields
<1> HIDE DEF u
<1>6. Calm(y, u)
  BY <1>5, FieldsCalm
<1> QED BY <1>2, <1>3, <1>6, CalmTransitive

\* Packets on the wire again or acknowledgements: nothing that is tracked changes.
LEMMA WireAlive ==
  ASSUME NEW s \in StreamStates, NEW o, NEW Y, Settled(s, o, Y), NEW P,
         \A p \in P : p \in Outgoing(s) \/ Sendable(p, o, Y)
  PROVE  /\ Settled(SendPackets(s, P), o, Y)
         /\ Timed(s) => Timed(SendPackets(s, P))
         /\ Flushed(s) => Flushed(SendPackets(s, P))
<1> DEFINE t == SendPackets(s, P)
<1>1. /\ t.seqn = s.seqn /\ t.sent = s.sent /\ t.wire = s.wire \cup P /\ t.log = s.log
      /\ t.lastReceived = s.lastReceived /\ t.saved = s.saved /\ t.ready = s.ready
      /\ t.window = s.window /\ t.closeAsked = s.closeAsked
      /\ t.written = s.written /\ t.taken = s.taken /\ t.established = s.established
      /\ t.status = s.status /\ t.attached = s.attached /\ t.resendArmed = s.resendArmed
  BY DEF StreamStates, SendPackets
<1> HIDE DEF t
<1>2. PostedPackets(t) = PostedPackets(s) /\ \A h : Queued(t, h) <=> Queued(s, h)
  BY <1>1 DEF PostedPackets, Queued
<1>3. Outgoing(t) = Outgoing(s) \cup P
  BY <1>1, <1>2 DEF Outgoing
<1>4. Reads(t, o.wire) /\ EmptyOnes(t, Y)
  BY <1>1, <1>2 DEF Settled, Reads, EmptyOnes
<1>5. Ended(t, o)
  BY <1>1 DEF Settled, Ended, FinSeen, Delivered, BufferIsEmpty
<1>6. Y = {} => Settled(t, o, Y)
  BY <1>1, <1>3, <1>4, <1>5 DEF Settled, Calls, Sendable
<1>7. Y # {} => Settled(t, o, Y)
  BY <1>1, <1>3, <1>4, <1>5 DEF Settled, Replies, Sendable
<1>8. (Timed(s) => Timed(t)) /\ (Flushed(s) => Flushed(t))
  BY <1>1, <1>2 DEF Timed, Flushed, BufferIsEmpty, Room
<1> QED BY <1>6, <1>7, <1>8 DEF t

----------------------------------------------------------------------------
(* Closing and the FIN.                                                      *)

FinSent(s, last, x) == [SendCloseAfter(s, last) EXCEPT !.status = x]

\* A stream gives its FIN a number: it closes because of the peer's, or has delivered.
LEMMA FinAlive ==
  ASSUME NEW s, NEW L \in Seq(Nat), Good(s, L), NEW o, NEW Y, Settled(s, o, Y), Len(L) = o.seqn,
         NEW last \in Nat \cup {-1}, Claims(s, last), s.status # "New",
         NEW x, \/ x = "Closed" /\ (FinSeen(s, o.wire) \/ Delivered(s, o))
                \/ x = "Closing"
  PROVE  /\ Settled(FinSent(s, last, x), o, Y)
         /\ FinSent(s, last, x) \in StreamStates /\ FinSent(s, last, x).status = x
         /\ Timed(s) => Timed(FinSent(s, last, x))
         /\ Flushed(s) => Flushed(FinSent(s, last, x))
<1> DEFINE f == FinPacket(s, last)
           j == [run |-> "SendPacket", packet |-> f]
           u == SendCloseAfter(s, last)
           t == FinSent(s, last, x)
<1>1. s \in StreamStates /\ u \in StreamStates
  BY SendCloseAfterSends DEF Good, Sends
<1>2. f \in Packets /\ j \in Jobs
  BY <1>1, FinPacketType
<1>3. /\ f.seqn = s.seqn /\ ~f.syn /\ ~f.noAck /\ f.nacks = {}
      /\ f.ackThrough = IF last >= 0 THEN last ELSE 0
  BY DEF FinPacket
<1>4. j.run = "SendPacket" /\ j.packet = f
  OBVIOUS
<1>5. /\ u.ready = Append(s.ready, j) /\ u.seqn = s.seqn + 1 /\ u.log = Append(s.log, 0)
      /\ u.sent = s.sent /\ u.wire = s.wire /\ u.window = s.window
      /\ u.lastReceived = s.lastReceived /\ u.saved = s.saved /\ u.attached = s.attached
      /\ u.closeAsked = s.closeAsked /\ u.written = s.written /\ u.taken = s.taken
      /\ u.established = s.established /\ u.resendArmed = s.resendArmed
  BY <1>1 DEF SendCloseAfter, StreamStates
<1> HIDE DEF u
<1>6. /\ t.ready = Append(s.ready, j) /\ t.seqn = s.seqn + 1 /\ t.log = Append(s.log, 0)
      /\ t.sent = s.sent /\ t.wire = s.wire /\ t.window = s.window
      /\ t.lastReceived = s.lastReceived /\ t.saved = s.saved /\ t.attached = s.attached
      /\ t.closeAsked = s.closeAsked /\ t.written = s.written /\ t.taken = s.taken
      /\ t.established = s.established /\ t.resendArmed = s.resendArmed
      /\ t.status = x /\ t \in StreamStates
  BY <1>1, <1>5 DEF StreamStates, Statuses, FinSent, u
<1> HIDE DEF f, j, t
<1>7. PostedPackets(t) = PostedPackets(s) \cup {f}
  <2>1. t.ready = Append(s.ready, j)
    BY <1>6
  <2>2. PostedPackets(t) =
          PostedPackets(s) \cup (IF j.run = "SendPacket" THEN {j.packet} ELSE {})
    BY <1>1, <1>2, <2>1, PostedAppend
  <2> QED BY <1>4, <2>2
<1>8. \A h : Queued(s, h) => Queued(t, h)
  BY <1>1, <1>2, <1>6, AppendQueued
<1>9. Outgoing(t) = Outgoing(s) \cup {f}
  BY <1>6, <1>7 DEF Outgoing
<1>10. /\ s.seqn \in Nat /\ s.lastReceived \in Nat \cup {-1} /\ s.log \in Seq(Nat)
       /\ Len(s.log) = s.seqn /\ s.lastReceived + 1 <= Len(L)
  BY <1>1 DEF StreamStates, Good, SenderGood, ReceiverGood, Prefix
<1>11. /\ \A n \in 1 .. s.seqn : t.log[n] = s.log[n]
       /\ t.log[s.seqn + 1] = 0
  BY <1>6, <1>10, AppendProperties
<1>12. Reads(t, o.wire)
  BY <1>6 DEF Settled, Reads
<1>13. EmptyOnes(t, Y)
  <2>1. \A p \in t.sent \cup PostedPackets(t) : p.seqn < t.seqn
    <3>1. ASSUME NEW p \in s.sent \cup PostedPackets(s) PROVE p.seqn < t.seqn
      <4>1. p.seqn \in Nat
        BY <1>1, OutgoingType DEF Outgoing, Packets
      <4> QED BY <1>6, <1>10, <4>1 DEF Settled, EmptyOnes
    <3> QED BY <1>3, <1>6, <1>7, <1>10, <3>1
  <2>2. ASSUME NEW p \in PostedPackets(t) PROVE t.log[p.seqn + 1] = 0
    <3>1. CASE p \in PostedPackets(s)
      <4>1. p.seqn \in Nat /\ p.seqn < s.seqn
        BY <1>1, <3>1, OutgoingType DEF Outgoing, Packets, Settled, EmptyOnes
      <4>2. p.seqn + 1 \in 1 .. s.seqn
        BY <1>10, <4>1
      <4> QED BY <1>11, <3>1, <4>2 DEF Settled, EmptyOnes
    <3>2. CASE p = f
      BY <1>3, <1>11, <3>2
    <3> QED BY <1>7, <3>1, <3>2
  <2>3. Y # {} => t.seqn >= 1 /\ t.log[1] = 0
    BY <1>6, <1>10, <1>11 DEF Settled, EmptyOnes
  <2> QED BY <2>1, <2>2, <2>3 DEF EmptyOnes
<1>14. Ended(t, o)
  <2>1. FinSeen(s, o.wire) => FinSeen(t, o.wire)
    BY <1>6 DEF FinSeen
  <2>2. ASSUME Delivered(s, o) PROVE Delivered(t, o)
    <3>1. ASSUME NEW n \in 0 .. (t.seqn - 1), t.log[n + 1] # 0 PROVE Has(o, n)
      <4>1. n \in 0 .. (s.seqn - 1)
        BY <1>6, <1>10, <1>11, <3>1
      <4>2. n + 1 \in 1 .. s.seqn
        BY <1>10, <4>1
      <4>3. s.log[n + 1] # 0
        BY <1>11, <3>1, <4>2
      <4> QED BY <2>2, <4>1, <4>3 DEF Delivered
    <3> QED BY <1>6, <2>2, <3>1 DEF Delivered, BufferIsEmpty
  <2> QED BY <1>6, <2>1, <2>2 DEF Ended
<1>15. Y = {} => Calls(t)
  BY <1>3, <1>6, <1>9 DEF Settled, Calls
<1>16. Y # {} => Replies(t, o)
  <2> SUFFICES ASSUME Y # {} PROVE Replies(t, o)
    OBVIOUS
  <2>1. Answers(f, o.seqn)
    <3>1. f.ackThrough \in 0 .. o.seqn
      BY <1>3, <1>10 DEF Claims, Settled, Replies
    <3> QED BY <1>3, <3>1 DEF Answers
  <2>2. \A p \in Outgoing(t) : Answers(p, o.seqn)
    BY <1>9, <2>1 DEF Settled, Replies
  <2> QED BY <1>6, <2>2 DEF Settled, Replies
<1>17. Settled(t, o, Y)
  BY <1>6, <1>12, <1>13, <1>14, <1>15, <1>16 DEF Settled
<1>18. (Timed(s) => Timed(t)) /\ (Flushed(s) => Flushed(t))
  BY <1>6, <1>8 DEF Timed, Flushed, BufferIsEmpty, Room
<1> QED BY <1>6, <1>17, <1>18 DEF t

\* t is as well off as s.
Keeps(s, t, o, Y) ==
  /\ Settled(t, o, Y)
  /\ Timed(s) => Timed(t)
  /\ Flushed(s) => Flushed(t)
  /\ t.status = "New" => s.status = "New"

LEMMA KeepsTransitive ==
  ASSUME NEW s, NEW t, NEW u, NEW o, NEW Y, Keeps(s, t, o, Y), Keeps(t, u, o, Y)
  PROVE  Keeps(s, u, o, Y)
BY DEF Keeps

LEMMA CalmKeeps ==
  ASSUME NEW s, NEW t, NEW o, NEW Y, Settled(s, o, Y), Calm(s, t)
  PROVE  Keeps(s, t, o, Y)
BY CalmSettled, CalmAlive DEF Keeps, Calm

LEMMA KeepsAlive ==
  ASSUME NEW s, NEW t, NEW o, NEW Y, Alive(s, o, Y), Keeps(s, t, o, Y)
  PROVE  Alive(t, o, Y)
BY DEF Alive, Keeps

\* With nothing left to be acknowledged and nothing to send, everything is delivered.
LEMMA CloseWhenSentAlive ==
  ASSUME NEW s, NEW L \in Seq(Nat), Good(s, L), NEW o, NEW Y \in SUBSET {0},
         Settled(s, o, Y), Len(L) = o.seqn, Kept(s, o, Y), s.closeAsked, s.status = "Closing"
  PROVE  Keeps(s, CloseWhenSent(s), o, Y)
<1>1. CASE s.sent = {} /\ BufferIsEmpty(s)
  <2>1. s \in StreamStates /\ s.lastReceived \in Nat \cup {-1}
    BY DEF Good, StreamStates
  <2>2. CloseWhenSent(s) = FinSent(s, s.lastReceived, "Closed")
    BY <1>1, <2>1 DEF CloseWhenSent, SendClose, SendCloseAfter, FinPacket, FinSent, StreamStates
  <2>3. Delivered(s, o)
    <3>1. ASSUME NEW n \in 0 .. (s.seqn - 1), s.log[n + 1] # 0 PROVE Has(o, n)
      <4>1. n \notin Seqns(s.sent)
        BY <1>1 DEF Seqns
      <4>2. n \notin Seqns(PostedPackets(s))
        BY <3>1 DEF Seqns, Settled, EmptyOnes
      <4>3. n \notin Y
        BY <3>1 DEF Settled, EmptyOnes
      <4> QED BY <4>1, <4>2, <4>3 DEF Kept
    <3> QED BY <1>1, <3>1 DEF Delivered
  <2> DEFINE t == FinSent(s, s.lastReceived, "Closed")
  <2>4. /\ Settled(t, o, Y) /\ t.status = "Closed"
        /\ Timed(s) => Timed(t)
        /\ Flushed(s) => Flushed(t)
    BY <2>1, <2>3, FinAlive DEF Claims
  <2> QED BY <2>2, <2>4 DEF Keeps
<1>2. CASE ~(s.sent = {} /\ BufferIsEmpty(s))
  BY <1>2 DEF CloseWhenSent, Keeps
<1> QED BY <1>1, <1>2

LEMMA CloseAlive ==
  ASSUME NEW s, NEW L \in Seq(Nat), Good(s, L), NEW o, NEW X, NEW Y \in SUBSET {0},
         Tracks(s, o, X, Y), Settled(s, o, Y), Len(L) = o.seqn,
         s.status = "Open" => s.closeAsked
  PROVE  Keeps(s, Close(s), o, Y)
<1>1. s \in StreamStates
  BY DEF Good
<1>2. CASE s.status = "Open"
  <2> DEFINE t == [s EXCEPT !.status = "Closing"]
  <2>1. Sends(s, t, L)
    BY StatusSends DEF Statuses
  <2>2. Close(s) = CloseWhenSent(t)
    BY <1>2 DEF Close
  <2>3. /\ SameFields(s, t) /\ t.status = "Closing" /\ t.attached = s.attached
        /\ t.resendArmed = s.resendArmed
    BY <1>1 DEF StreamStates, SameFields
  <2> HIDE DEF t
  <2>4. Calm(s, t)
    BY <1>2, <2>3, FieldsCalm
  <2>5. Kept(t, o, Y) /\ t.closeAsked
    BY <1>2, <2>3, <2>4, SamePacketsKeep DEF Tracks, Calm, SameFields
  <2>6. Settled(t, o, Y) /\ Keeps(s, t, o, Y)
    BY <2>4, CalmSettled, CalmKeeps
  <2>7. Keeps(t, CloseWhenSent(t), o, Y)
    BY <2>1, <2>3, <2>5, <2>6, CloseWhenSentAlive DEF Sends
  <2> QED BY <2>2, <2>6, <2>7, KeepsTransitive
<1>3. CASE s.status = "Closing"
  <2>1. Kept(s, o, Y) /\ s.closeAsked
    BY <1>3 DEF Tracks, FinsGood
  <2> QED BY <1>3, <2>1, CloseWhenSentAlive DEF Close
<1>4. CASE s.status \in {"Reset", "Closed"}
  <2>1. Calm(s, Terminate(s))
    BY <1>1, TimersCalm
  <2>2. Close(s) = Terminate(s)
    BY <1>4 DEF Close
  <2> QED BY <2>1, <2>2, CalmKeeps
<1>5. CASE s.status \notin {"Open", "Closing", "Reset", "Closed"}
  BY <1>5 DEF Close, Keeps
<1> QED BY <1>2, <1>3, <1>4, <1>5

LEMMA AfterAckAlive ==
  ASSUME NEW s, NEW L \in Seq(Nat), Good(s, L), NEW o, NEW X, NEW Y \in SUBSET {0},
         Tracks(s, o, X, Y), Settled(s, o, Y), Len(L) = o.seqn
  PROVE  Keeps(s, AfterAck(s), o, Y)
<1>1. Calm(s, Terminate(s))
  BY TimersCalm DEF Good
<1>2. Keeps(s, Terminate(s), o, Y) /\ Keeps(s, s, o, Y)
  BY <1>1, CalmKeeps DEF Keeps
<1>3. s.status = "Closing" => Keeps(s, Close(s), o, Y)
  BY CloseAlive
<1> QED BY <1>2, <1>3 DEF AfterAck

----------------------------------------------------------------------------
(* Sending from the buffer.                                                  *)

\* The packets of a batch are as many as their numbers, and none was sent before.
LEMMA BatchIsNew ==
  ASSUME NEW s \in StreamStates, NumToSend(s) \in Nat, IsFiniteSet(s.sent),
         \A p \in s.sent : p.seqn < s.seqn
  PROVE  Cardinality(s.sent \cup BufferPackets(s)) = Cardinality(s.sent) + NumToSend(s)
<1> DEFINE B == BufferPackets(s)
           n == NumToSend(s)
           I == s.seqn .. (s.seqn + n - 1)
           f == [p \in B |-> p.seqn]
<1>1. s.seqn \in Nat /\ s.seqn + n - 1 \in Int
  BY DEF StreamStates
<1>2. IsFiniteSet(B) /\ Cardinality(B) <= n
  BY BatchCount
<1>3. \A i \in I : BufferPacket(s, i).seqn = i
  BY DEF BufferPacket
<1>4. Cardinality(I) = n
  <2> SUFFICES ASSUME NEW a \in Nat, NEW m \in Nat
               PROVE  Cardinality(a .. (a + m - 1)) = m
    BY <1>1
  <2>1. a \in Int /\ a + m - 1 \in Int
    OBVIOUS
  <2>2. Cardinality(a .. (a + m - 1)) = IF a > a + m - 1 THEN 0 ELSE (a + m - 1) - a + 1
    BY <2>1, FS_Interval
  <2> QED BY <2>2
<1>5. f \in Surjection(B, I)
  <2>1. \A p \in B : p.seqn \in I
    BY <1>3 DEF BufferPackets
  <2>2. \A i \in I : \E p \in B : p.seqn = i
    BY <1>3 DEF BufferPackets
  <2> HIDE DEF B, I
  <2> QED BY <2>1, <2>2 DEF Surjection
<1>6. \A p \in B : p.seqn >= s.seqn
  BY <1>1, <1>3 DEF BufferPackets
<1>7. s.sent \cap B = {}
  <2> SUFFICES ASSUME NEW p \in s.sent, p \in B PROVE FALSE
    OBVIOUS
  <2>1. p.seqn \in Nat /\ p.seqn < s.seqn /\ p.seqn >= s.seqn
    BY <1>6 DEF StreamStates, Packets
  <2> QED BY <1>1, <2>1
<1> HIDE DEF B, I, f
<1>8. Cardinality(I) <= Cardinality(B)
  BY <1>2, <1>5, FS_Surjection
<1>9. Cardinality(s.sent \cup B) = Cardinality(s.sent) + Cardinality(B) - Cardinality(s.sent \cap B)
  BY <1>2, FS_Union
<1>10. Cardinality(s.sent \cap B) = 0
  BY <1>7, FS_EmptySet
<1>11. Cardinality(B) \in Nat /\ Cardinality(s.sent) \in Nat
  BY <1>2, FS_CardinalityType
<1> QED BY <1>2, <1>4, <1>8, <1>9, <1>10, <1>11 DEF B

\* A batch fills the window or empties the buffer.
LEMMA BatchFills ==
  ASSUME NEW s, NEW L \in Seq(Nat), Good(s, L), s.established,
         Room(s) > 0, NumToSend(s) # 0,
         \A p \in s.sent : p.seqn < s.seqn
  PROVE  \/ Room(s) - NumToSend(s) <= 0
         \/ Least(s.taken + NumToSend(s), s.written) = s.written
<1>1. Room(s) \in Int
  BY GoodTaken, RoomType
<1>2. s.taken \in Nat /\ s.written \in Nat /\ s.taken <= s.written
  BY DEF Good, SenderGood, StreamStates
<1>3. NumToSend(s) \in Nat \ {0}
  BY NumToSendBound
<1>4. Pending(s) = s.written - s.taken /\ Pending(s) \in Nat
  BY <1>2 DEF Pending
<1>5. Least(Room(s), Pending(s)) = Room(s) \/ Least(Room(s), Pending(s)) = Pending(s)
  BY DEF Least
<1>6. \/ NumToSend(s) = Room(s) \/ NumToSend(s) = Pending(s)
      \/ Pending(s) = 0
  BY <1>1, <1>4, <1>5 DEF NumToSend
<1>7. Pending(s) <= NumToSend(s) => Least(s.taken + NumToSend(s), s.written) = s.written
  BY <1>2, <1>3, <1>4 DEF Least
<1> QED BY <1>1, <1>3, <1>4, <1>6, <1>7

LEMMA BatchAlive ==
  ASSUME NEW s, NEW L \in Seq(Nat), Good(s, L), NEW o, NEW X, NEW Y, Tracks(s, o, X, Y),
         Settled(s, o, Y), Timed(s), Len(L) = o.seqn,
         Room(s) > 0, NumToSend(s) # 0,
         NEW t, t = SendAndTrack(TakeFromBuffer(s), BufferPackets(s)), Sends(s, t, L)
  PROVE  /\ Settled(t, o, Y) /\ Timed(t) /\ Flushed(t)
         /\ t.status = IF s.status = "New" THEN "Open" ELSE s.status
<1> DEFINE B == BufferPackets(s)
           n == NumToSend(s)
<1>1. s \in StreamStates
  BY DEF Good
<1>2. n \in Nat \ {0} /\ n <= Room(s) /\ (s.status = "New" \/ ~BufferIsEmpty(s))
  BY NumToSendBound
<1>3. /\ \A p \in B : ~p.fin
      /\ \A i \in s.seqn .. (s.seqn + n - 1) : i \in Seqns(B)
  BY <1>2, BatchPackets
<1>4. ASSUME NEW p \in B
      PROVE  /\ p.seqn \in s.seqn .. (s.seqn + n - 1) /\ p.nacks = {}
             /\ p.syn => s.status = "New"
             /\ p.noAck => s.lastReceived < 0
             /\ p.syn /\ s.lastReceived < 0 => p.noAck
             /\ p.ackThrough = IF s.lastReceived < 0 THEN 0 ELSE s.lastReceived
  <2>1. PICK i \in s.seqn .. (s.seqn + n - 1) : p = BufferPacket(s, i)
    BY <1>4 DEF BufferPackets
  <2>2. /\ p.seqn = i /\ p.nacks = {}
        /\ p.syn = (s.status = "New" /\ i = s.seqn)
        /\ p.noAck = ((s.status = "New" /\ i = s.seqn) /\ s.lastReceived < 0)
        /\ p.ackThrough = IF s.lastReceived < 0 THEN 0 ELSE s.lastReceived
    BY <2>1 DEF BufferPacket
  <2> HIDE DEF n
  <2> QED BY <2>2
<1>5. /\ t.seqn = s.seqn + n /\ t.sent = s.sent \cup B /\ t.wire = s.wire \cup B
      /\ t.status = IF s.status = "New" THEN "Open" ELSE s.status
      /\ t.window = s.window /\ t.ready = s.ready /\ t.closeAsked = s.closeAsked
      /\ t.lastReceived = s.lastReceived /\ t.saved = s.saved /\ t.attached = s.attached
      /\ t.established = s.established /\ t.written = s.written
      /\ t.taken = Least(s.taken + n, s.written)
      /\ t.resendArmed = IF s.sent = {} THEN TRUE ELSE s.resendArmed
  <2> HIDE DEF B, n
  <2> DEFINE u == TakeFromBuffer(s)
             w == [SendPackets(u, B) EXCEPT !.sent = @ \cup B]
             Fields == {"seqn", "sent", "wire", "status", "window", "ready", "closeAsked",
                         "lastReceived", "saved", "attached", "resendArmed", "established",
                         "written", "taken"}
             Unchanged(x, y) ==
               /\ x.window = y.window /\ x.ready = y.ready /\ x.closeAsked = y.closeAsked
               /\ x.lastReceived = y.lastReceived /\ x.saved = y.saved
               /\ x.attached = y.attached /\ x.established = y.established
               /\ x.written = y.written
  <2>1. t = IF u.sent = {} THEN [w EXCEPT !.resendArmed = TRUE] ELSE w
    BY DEF B, SendAndTrack, ScheduleResend
  <2>2. Fields \subseteq DOMAIN s
    BY <1>1 DEF StreamStates
  <2>3. /\ DOMAIN u = DOMAIN s /\ Unchanged(u, s)
        /\ u.seqn = s.seqn + n /\ u.sent = s.sent /\ u.wire = s.wire
        /\ u.status = IF s.status = "New" THEN "Open" ELSE s.status
        /\ u.taken = Least(s.taken + n, s.written) /\ u.resendArmed = s.resendArmed
    BY <2>2 DEF TakeFromBuffer, n
  <2> HIDE DEF u
  <2>4. /\ DOMAIN w = DOMAIN s /\ Unchanged(w, u) /\ w.seqn = u.seqn /\ w.status = u.status
        /\ w.sent = u.sent \cup B /\ w.wire = u.wire \cup B
        /\ w.taken = u.taken /\ w.resendArmed = u.resendArmed
    BY <2>2, <2>3 DEF SendPackets
  <2> HIDE DEF w
  <2>5. /\ Unchanged(t, w) /\ t.seqn = w.seqn /\ t.status = w.status
        /\ t.sent = w.sent /\ t.wire = w.wire /\ t.taken = w.taken
        /\ t.resendArmed = IF u.sent = {} THEN TRUE ELSE w.resendArmed
    BY <2>1, <2>2, <2>4
  <2> QED BY <2>3, <2>4, <2>5
<1>6. PostedPackets(t) = PostedPackets(s) /\ \A h : Queued(t, h) <=> Queued(s, h)
  BY <1>5 DEF PostedPackets, Queued
<1>7. /\ s.seqn \in Nat /\ s.lastReceived \in Nat \cup {-1} /\ s.log \in Seq(Nat)
      /\ t.log \in Seq(Nat) /\ Len(s.log) = s.seqn /\ s.lastReceived + 1 <= Len(L)
      /\ IsFiniteSet(s.sent) /\ s.window \in Nat
      /\ \A i \in 1 .. s.seqn : t.log[i] = s.log[i]
  BY <1>1 DEF StreamStates, Good, SenderGood, ReceiverGood, Sends, Prefix
<1> HIDE DEF B, n
<1>8. Outgoing(t) = Outgoing(s) \cup B
  BY <1>5, <1>6 DEF Outgoing
<1>9. Timed(t)
  BY <1>5, <1>6 DEF Timed
<1>10. Flushed(t)
  <2> SUFFICES ASSUME s.established, t.taken # t.written PROVE Room(t) <= 0
    BY <1>5 DEF Flushed, BufferIsEmpty
  <2>1. \A p \in s.sent : p.seqn < s.seqn
    BY DEF Settled, EmptyOnes
  <2>2. Cardinality(t.sent) = Cardinality(s.sent) + n
    BY <1>1, <1>2, <1>5, <1>7, <2>1, BatchIsNew DEF B, n
  <2>3. Room(s) - n <= 0 \/ Least(s.taken + n, s.written) = s.written
    BY <2>1, BatchFills DEF n
  <2>4. Cardinality(s.sent) \in Nat
    BY <1>7, FS_CardinalityType
  <2> QED BY <1>2, <1>5, <1>7, <2>2, <2>3, <2>4 DEF Room
<1>11. Reads(t, o.wire)
  BY <1>5 DEF Settled, Reads
<1>12. EmptyOnes(t, Y)
  <2>1. ASSUME NEW p \in s.sent \cup PostedPackets(s)
        PROVE  p.seqn \in Nat /\ p.seqn < s.seqn
    BY <1>1, OutgoingType DEF Outgoing, Packets, Settled, EmptyOnes
  <2>2. \A p \in t.sent \cup PostedPackets(t) : p.seqn < t.seqn
    BY <1>2, <1>4, <1>5, <1>6, <1>7, <2>1
  <2>3. ASSUME NEW p \in PostedPackets(t) PROVE t.log[p.seqn + 1] = 0
    <3>1. p.seqn + 1 \in 1 .. s.seqn
      BY <1>6, <1>7, <2>1
    <3> QED BY <1>6, <1>7, <3>1 DEF Settled, EmptyOnes
  <2>4. Y # {} => t.seqn >= 1 /\ t.log[1] = 0
    <3> SUFFICES ASSUME Y # {} PROVE t.seqn >= 1 /\ t.log[1] = 0
      OBVIOUS
    <3>1. s.seqn >= 1 /\ s.log[1] = 0
      BY DEF Settled, EmptyOnes
    <3>2. 1 \in 1 .. s.seqn
      BY <1>7, <3>1
    <3> QED BY <1>2, <1>5, <1>7, <3>1, <3>2
  <2> QED BY <2>2, <2>3, <2>4 DEF EmptyOnes
<1>13. Ended(t, o)
  <2>1. ASSUME t.status = "Closed" PROVE FinSeen(t, o.wire)
    <3>1. s.status = "Closed" /\ ~BufferIsEmpty(s)
      BY <1>2, <1>5, <2>1
    <3> QED BY <1>5, <3>1 DEF Settled, Ended, Delivered, FinSeen
  <2> QED BY <2>1 DEF Ended
<1>14. Y = {} => Calls(t)
  <2> SUFFICES ASSUME Calls(s) PROVE Calls(t)
    BY DEF Settled
  <2>1. s.status = "New" => 0 \in Seqns(B)
    BY <1>2, <1>3, <1>7 DEF Tracks
  <2>2. Seqns(s.sent) \subseteq Seqns(t.sent) /\ Seqns(B) \subseteq Seqns(t.sent)
    BY <1>5 DEF Seqns
  <2>3. \A p \in B : p.syn => p.noAck /\ ~p.fin
    BY <1>3, <1>4 DEF Calls
  <2> QED BY <1>5, <1>8, <2>1, <2>2, <2>3 DEF Calls
<1>15. Y # {} => Replies(t, o)
  <2> SUFFICES ASSUME Replies(s, o) PROVE Replies(t, o)
    BY DEF Settled
  <2>1. \A p \in B : Answers(p, o.seqn)
    BY <1>4, <1>7 DEF Answers, Replies
  <2> QED BY <1>5, <1>8, <2>1 DEF Replies
<1>16. Settled(t, o, Y)
  BY <1>5, <1>11, <1>12, <1>13, <1>14, <1>15 DEF Settled
<1> QED BY <1>5, <1>9, <1>10, <1>16

LEMMA SendBufferAlive ==
  ASSUME NEW s, NEW L \in Seq(Nat), Good(s, L), NEW o, NEW X, NEW Y, Tracks(s, o, X, Y),
         Settled(s, o, Y), Timed(s), Len(L) = o.seqn
  PROVE  /\ Settled(SendBuffer(s), o, Y) /\ Timed(SendBuffer(s)) /\ Flushed(SendBuffer(s))
         /\ SendBuffer(s).status = "New" => s.status = "New"
<1>1. CASE Room(s) <= 0 \/ NumToSend(s) = 0
  <2>1. Flushed(s)
    <3> SUFFICES ASSUME s.established, ~BufferIsEmpty(s), ~(Room(s) <= 0) PROVE FALSE
      BY DEF Flushed
    <3>1. Room(s) \in Int
      BY GoodTaken, RoomType
    <3>2. s.taken \in Nat /\ s.written \in Nat /\ s.taken <= s.written
      BY DEF Good, SenderGood, StreamStates
    <3>3. Pending(s) \in Nat /\ Pending(s) > 0
      BY <3>2 DEF Pending, BufferIsEmpty
    <3>4. Least(Room(s), Pending(s)) \in Int /\ Least(Room(s), Pending(s)) > 0
      BY <3>1, <3>3 DEF Least
    <3> QED BY <1>1, <3>3, <3>4 DEF NumToSend
  <2>2. SendBuffer(s) = s
    BY <1>1 DEF SendBuffer
  <2> QED BY <2>1, <2>2
<1>2. CASE ~(Room(s) <= 0 \/ NumToSend(s) = 0)
  <2> DEFINE t == IF s.saved = {} THEN StopAckSend(s) ELSE s
             v == TakeFromBuffer(t)
             u == SendAndTrack(v, BufferPackets(t))
  <2>1. s \in StreamStates /\ s.taken <= s.written
    BY GoodTaken
  <2>2. Sends(s, t, L) /\ SameForBuffer(s, t)
    BY <2>1, StopQuiet, QuietSends, SendsReflexive, StopSame DEF SameForBuffer
  <2>3. Tracks(t, o, X, Y) /\ t.status = s.status
    BY <2>1, <2>2, TimerOperatorsSame, SameTracks DEF SameForBuffer
  <2>4. Settled(t, o, Y) /\ Timed(t)
    BY <2>1, TimersCalm, CalmSettled, CalmAlive
  <2>5. SendBuffer(s) = IF u.status = "Closing" /\ BufferIsEmpty(u) THEN SendClose(u) ELSE u
    BY <1>2 DEF SendBuffer
  <2> HIDE DEF t
  <2>6. Good(t, L) /\ NumToSend(t) = NumToSend(s) /\ Room(t) = Room(s)
    BY <2>2, BufferSame DEF Sends, SameForBuffer, Room
  <2>7. NumToSend(t) \in Nat /\ Room(t) \in Int /\ Room(t) > 0 /\ NumToSend(t) # 0
    <3>1. Room(t) \in Int
      BY <2>6, GoodTaken, RoomType
    <3> QED BY <1>2, <2>6, <3>1, NumToSendBound
  <2>8. /\ Sends(t, v, L) /\ BufferPackets(t) \subseteq Packets
        /\ \A p \in BufferPackets(t) : Fits(v.log, p)
    BY <2>6, <2>7, TakeFromBufferSends
  <2>9. IsFiniteSet(BufferPackets(t))
    BY <2>6, <2>7, GoodTaken, BufferPacketsFinite
  <2>10. Sends(t, u, L)
    <3> HIDE DEF v
    <3>1. Sends(v, u, L) /\ t \in StreamStates /\ v \in StreamStates
      BY <2>6, <2>8, <2>9, SendAndTrackSends DEF Sends, Good
    <3> QED BY <2>8, <3>1, SendsTransitive
  <2>11. /\ Settled(u, o, Y) /\ Timed(u) /\ Flushed(u)
         /\ u.status = IF t.status = "New" THEN "Open" ELSE t.status
    BY <2>3, <2>4, <2>6, <2>7, <2>10, BatchAlive
  <2> HIDE DEF u, v
  <2>12. ASSUME u.status = "Closing"
         PROVE  /\ Settled(SendClose(u), o, Y) /\ Timed(SendClose(u)) /\ Flushed(SendClose(u))
                /\ SendClose(u).status = "Closing"
    <3> DEFINE w == FinSent(u, u.lastReceived, "Closing")
    <3>1. Good(u, L) /\ u \in StreamStates /\ u.lastReceived \in Nat \cup {-1}
      BY <2>10 DEF Sends, Good, StreamStates
    <3>2. SendClose(u) = w
      BY <2>12, <3>1 DEF SendClose, SendCloseAfter, FinSent, StreamStates
    <3>3. /\ Settled(w, o, Y) /\ w.status = "Closing"
          /\ Timed(u) => Timed(w)
          /\ Flushed(u) => Flushed(w)
      BY <2>11, <2>12, <3>1, FinAlive DEF Claims
    <3> QED BY <2>11, <3>2, <3>3
  <2> QED BY <2>5, <2>11, <2>12
<1> QED BY <1>1, <1>2

----------------------------------------------------------------------------
(* Receiving.                                                                *)

\* An acknowledgement that removes packets sends from the buffer; one that removes none
\* finds it as it was.
LEMMA ProcessAckAlive ==
  ASSUME NEW s, NEW L \in Seq(Nat), Good(s, L), NEW o, NEW X, NEW Y \in SUBSET {0},
         Tracks(s, o, X, Y), Settled(s, o, Y), Timed(s), Len(L) = o.seqn, s.established,
         NEW p \in Packets, Heard(p, o, Y), NEW grow \in BOOLEAN,
         Flushed(s) \/ (0 \in Seqns(s.sent) /\ Answers(p, s.seqn))
  PROVE  LET t == ProcessAck(s, p, grow) IN
         /\ Settled(t, o, Y) /\ Timed(t) /\ Flushed(t)
         /\ t.status = "New" => s.status = "New"
<1> DEFINE acked == Acknowledged(s, p)
           w == GrownWindow(s.window, Cardinality(acked), grow)
           a == IF acked = {} THEN s.attempts ELSE 0
           r == s.resendArmed /\ s.sent # acked
           t == [s EXCEPT !.sent = @ \ acked, !.window = w, !.resendArmed = r, !.attempts = a]
<1>1. s \in StreamStates /\ s.taken <= s.written
  BY GoodTaken
<1>2. /\ acked \subseteq s.sent
      /\ \A q \in s.sent : q \in acked <=> q.seqn <= p.ackThrough /\ q.seqn \notin p.nacks
  BY DEF Acknowledged
<1>3. IsFiniteSet(acked) /\ IsFiniteSet(s.sent)
  BY <1>2, FS_Subset DEF Good, SenderGood
<1>4. Cardinality(acked) \in Nat
  BY <1>3, FS_CardinalityType
<1>5. /\ s.window \in Nat \ {0} /\ s.attempts \in Nat /\ s.resendArmed \in BOOLEAN
      /\ s.window <= MaxWindow
  BY <1>1 DEF StreamStates, Tracks
<1>6. t = Removed(s, p, grow)
  BY DEF Removed
<1>7. ProcessAck(s, p, grow) =
        IF p.ackThrough > s.seqn THEN s
        ELSE AfterAck(IF acked = {} THEN t ELSE SendBuffer(t))
  BY <1>6 DEF ProcessAck, Removed
<1> HIDE DEF acked
<1>8. w \in Nat \ {0} /\ w <= MaxWindow /\ w >= s.window /\ (acked = {} => w = s.window)
  <2> DEFINE d == IF s.window < WindowSize THEN WindowSize - s.window ELSE 0
             k == Least(Cardinality(acked), d)
  <2>1. w \in Nat \ {0} /\ w <= MaxWindow
    BY <1>4, <1>5, GrownWindowType, GrownWindowBound
  <2>2. WindowSize \in Nat /\ MaxWindow \in Nat
    BY WindowAssumption
  <2>3. d \in Nat
    BY <1>5, <2>2
  <2>4. w = IF grow /\ Cardinality(acked) > k THEN Least(s.window + k + 1, MaxWindow)
            ELSE s.window + k
    BY DEF GrownWindow
  <2> HIDE DEF d, w
  <2>5. k \in Nat /\ k <= Cardinality(acked)
    BY <1>4, <2>3 DEF Least
  <2> HIDE DEF k
  <2>6. w >= s.window
    BY <1>5, <2>2, <2>4, <2>5 DEF Least
  <2>7. acked = {} => w = s.window
    <3>1. Cardinality({}) = 0
      BY FS_EmptySet
    <3> QED BY <1>4, <1>5, <2>4, <2>5, <3>1
  <2> QED BY <2>1, <2>6, <2>7 DEF w
<1>9. a \in Nat /\ r \in BOOLEAN /\ r = (s.resendArmed /\ s.sent # acked)
  BY <1>5
<1> HIDE DEF w, a, r
<1>10. /\ t \in StreamStates
       /\ t.log = s.log /\ t.seqn = s.seqn /\ t.taken = s.taken /\ t.written = s.written
       /\ t.got = s.got /\ t.lastReceived = s.lastReceived /\ t.saved = s.saved
       /\ t.sent = s.sent \ acked /\ t.wire = s.wire /\ t.ready = s.ready
       /\ t.window = w /\ t.status = s.status /\ t.attached = s.attached
       /\ t.closeAsked = s.closeAsked /\ t.established = s.established /\ t.resendArmed = r
  BY <1>1, <1>8, <1>9 DEF StreamStates
<1> HIDE DEF t
<1>11. Good(t, L) /\ Tracks(t, o, X, Y)
  BY <1>6, ProcessAckTracks
<1>12. PostedPackets(t) = PostedPackets(s) /\ \A h : Queued(t, h) <=> Queued(s, h)
  BY <1>10 DEF PostedPackets, Queued
<1>13. Outgoing(t) \subseteq Outgoing(s)
  BY <1>10, <1>12 DEF Outgoing
<1>14. Settled(t, o, Y)
  <2>1. Reads(t, o.wire) /\ EmptyOnes(t, Y)
    BY <1>10, <1>12 DEF Settled, Reads, EmptyOnes
  <2>2. Ended(t, o)
    BY <1>10 DEF Settled, Ended, FinSeen, Delivered, BufferIsEmpty
  <2>3. Y = {} => Calls(t)
    BY <1>10, <1>13 DEF Settled, Calls
  <2>4. Y # {} => Replies(t, o)
    BY <1>10, <1>13 DEF Settled, Replies
  <2>5. t.window >= MinWindow
    BY <1>5, <1>8, <1>10, WindowAssumption DEF Settled
  <2> QED BY <2>1, <2>2, <2>3, <2>4, <2>5 DEF Settled
<1>15. Timed(t)
  BY <1>2, <1>9, <1>10, <1>12 DEF Timed
<1>16. acked = {} /\ Flushed(s) => Flushed(t)
  <2> SUFFICES ASSUME acked = {}, Flushed(s) PROVE Flushed(t)
    OBVIOUS
  <2>1. t.sent = s.sent /\ t.window = s.window
    BY <1>8, <1>10
  <2> QED BY <1>10, <1>12, <2>1 DEF Flushed, BufferIsEmpty, Room
<1>17. acked = {} /\ p.ackThrough <= s.seqn => Flushed(s)
  <2> SUFFICES ASSUME acked = {}, 0 \in Seqns(s.sent), Answers(p, s.seqn) PROVE FALSE
    OBVIOUS
  <2>1. PICK q \in s.sent : q.seqn = 0
    BY DEF Seqns
  <2> QED BY <1>2, <2>1 DEF Answers
<1>18. p.ackThrough > s.seqn => Flushed(s)
  BY <1>1 DEF Answers, StreamStates
<1> DEFINE b == SendBuffer(t)
<1>19. /\ Good(b, L) /\ Tracks(b, o, X, Y)
       /\ Settled(b, o, Y) /\ Timed(b) /\ Flushed(b)
       /\ b.status = "New" => t.status = "New"
  BY <1>10, <1>11, <1>14, <1>15, SendBufferSends, SendBufferTracks, SendBufferAlive DEF Sends
<1> HIDE DEF b
<1>20. Keeps(t, AfterAck(t), o, Y) /\ Keeps(b, AfterAck(b), o, Y)
  BY <1>11, <1>14, <1>19, AfterAckAlive
<1>21. CASE p.ackThrough > s.seqn
  BY <1>7, <1>18, <1>21
<1>22. CASE ~(p.ackThrough > s.seqn) /\ acked = {}
  <2>1. Flushed(t)
    <3>1. p.ackThrough \in Int /\ s.seqn \in Int
      BY <1>1 DEF StreamStates, Packets
    <3> QED BY <1>16, <1>17, <1>22, <3>1
  <2>2. ProcessAck(s, p, grow) = AfterAck(t)
    BY <1>7, <1>22
  <2> QED BY <1>10, <1>15, <1>20, <2>1, <2>2 DEF Keeps
<1>23. CASE ~(p.ackThrough > s.seqn) /\ acked # {}
  <2>1. ProcessAck(s, p, grow) = AfterAck(b)
    BY <1>7, <1>23 DEF b
  <2> QED BY <1>10, <1>19, <1>20, <2>1 DEF Keeps
<1> QED BY <1>21, <1>22, <1>23

----------------------------------------------------------------------------
(* Acknowledgements and timers.                                              *)

LEMMA WireKeeps ==
  ASSUME NEW s \in StreamStates, NEW o, NEW Y, Settled(s, o, Y), NEW P,
         \A p \in P : p \in Outgoing(s) \/ Sendable(p, o, Y)
  PROVE  Keeps(s, SendPackets(s, P), o, Y)
<1>1. SendPackets(s, P).status = s.status
  BY DEF SendPackets, StreamStates
<1> QED BY <1>1, WireAlive DEF Keeps

LEMMA QuickAckSendable ==
  ASSUME NEW s, NEW L \in Seq(Nat), Good(s, L), NEW o, NEW Y, Settled(s, o, Y),
         Len(L) = o.seqn, Overflowing(s) = {}
  PROVE  Sendable(QuickAck(s), o, Y)
<1> DEFINE F == Seqns(s.saved) \cup {s.lastReceived}
           c == LargestOf(F)
           q == QuickAck(s)
<1>1. /\ s.lastReceived \in Int /\ s.lastReceived + 1 \in Nat /\ s.lastReceived < Len(L)
      /\ \A x \in s.saved : x.seqn \in Nat /\ x.seqn < Len(L)
  BY SavedBound
<1>2. q.ackThrough = c /\ q.nacks = Missing(s, c) /\ ~q.syn /\ ~q.noAck
  <2>1. (Seqns(s.saved) \ Overflowing(s)) \cup {s.lastReceived} = F
    OBVIOUS
  <2> HIDE DEF F
  <2> QED BY <2>1 DEF QuickAck
<1> HIDE DEF q
<1>3. CASE Y = {}
  BY <1>2, <1>3 DEF Sendable, q
<1>4. CASE Y # {}
  <2>1. s.lastReceived >= 0
    BY <1>4 DEF Settled, Replies
  <2>2. Len(L) \in Int
    OBVIOUS
  <2>3. F \in SUBSET Int /\ F # {} /\ \A x \in F : x >= 0 /\ x <= Len(L)
    BY <1>1, <2>1, <2>2 DEF Seqns
  <2> HIDE DEF F
  <2>4. c \in F
    BY ZenonT(30), <2>2, <2>3, LargestType
  <2> HIDE DEF c
  <2>5. c \in 0 .. Len(L)
    BY <2>2, <2>3, <2>4
  <2>6. 0 \notin Missing(s, c)
    BY <1>1, <2>1 DEF Missing
  <2>7. Answers(q, o.seqn)
    BY <1>2, <2>5, <2>6 DEF Answers
  <2> QED BY <1>4, <2>7 DEF Sendable, q
<1> QED BY <1>3, <1>4

LEMMA SendQuickAckAlive ==
  ASSUME NEW s, NEW L \in Seq(Nat), Good(s, L), NEW o, NEW Y, Settled(s, o, Y),
         Len(L) = o.seqn, FewMissing(s, Len(L))
  PROVE  Keeps(s, SendQuickAck(s), o, Y)
<1> DEFINE P == {QuickAck(s)}
<1>1. \A p \in P : Sendable(p, o, Y)
  BY NoOverflow, QuickAckSendable
<1>2. SendQuickAck(s) = s \/ SendQuickAck(s) = SendPackets(s, P)
  BY DEF SendQuickAck
<1> HIDE DEF P
<1>3. Keeps(s, SendPackets(s, P), o, Y)
  BY <1>1, WireKeeps DEF Good
<1> QED BY <1>2, <1>3 DEF Keeps

LEMMA HandleAckSendTimerAlive ==
  ASSUME NEW s, NEW L \in Seq(Nat), Good(s, L), NEW o, NEW Y, Settled(s, o, Y),
         Len(L) = o.seqn, FewMissing(s, Len(L))
  PROVE  Keeps(s, HandleAckSendTimer(s), o, Y)
<1> DEFINE t == IF s.status = "Open" THEN SendQuickAck(s) ELSE s
           u == [t EXCEPT !.ackScheduled = FALSE]
<1>1. Good(t, L) /\ t \in StreamStates
  BY SendQuickAckSends DEF Sends, Good
<1>2. Keeps(s, t, o, Y)
  BY SendQuickAckAlive DEF Keeps
<1>3. \/ HandleAckSendTimer(s) = s \/ HandleAckSendTimer(s) = ResetAndClose(s)
      \/ HandleAckSendTimer(s) = u
  BY DEF HandleAckSendTimer
<1> HIDE DEF t
<1>4. Calm(t, u)
  BY <1>1, TimersCalm
<1>5. Keeps(t, u, o, Y)
  BY <1>2, <1>4, CalmKeeps DEF Keeps
<1>6. Keeps(s, u, o, Y)
  BY <1>2, <1>5, KeepsTransitive
<1>7. Calm(s, ResetAndClose(s))
  BY ResetAndCloseCalm DEF Good
<1>8. Keeps(s, ResetAndClose(s), o, Y) /\ Keeps(s, s, o, Y)
  BY <1>7, CalmKeeps DEF Keeps
<1> QED BY <1>3, <1>6, <1>8

\* The timer that has expired is set again, or the stream gives up; the window that is
\* halved leaves less room, never none.
LEMMA HandleResendTimerAlive ==
  ASSUME NEW s, NEW L \in Seq(Nat), Good(s, L), NEW o, NEW Y, Settled(s, o, Y), Flushed(s),
         NEW due \in SUBSET s.sent
  PROVE  LET t == HandleResendTimer(s, due) IN
         /\ Settled(t, o, Y) /\ Timed(t) /\ Flushed(t)
         /\ t.status = "New" => s.status = "New"
<1> DEFINE w == IF s.attempts = 0 THEN HalvedWindow(s.window) ELSE s.window
           k == s.attempts + 1
           t == [s EXCEPT !.attempts = k, !.window = w]
           u == SendPackets(t, due)
           a == ScheduleResend(s)
           b == ScheduleResend(u)
           r == ResetAndClose(s)
<1>1. s \in StreamStates /\ IsFiniteSet(s.sent)
  BY DEF Good, SenderGood
<1>2. w \in Nat \ {0} /\ w <= s.window /\ w >= MinWindow /\ k \in Nat /\ s.window \in Nat
  <2>1. s.window \in Nat \ {0} /\ s.window >= MinWindow /\ s.attempts \in Nat
    BY <1>1 DEF Settled, StreamStates
  <2>2. HalvedWindow(s.window) \in Nat \ {0}
    BY <2>1, HalvedWindowType
  <2>3. s.window \div 2 <= s.window /\ s.window \div 2 \in Nat /\ MinWindow \in Nat
    BY <2>1, WindowAssumption
  <2>4. HalvedWindow(s.window) <= s.window /\ HalvedWindow(s.window) >= MinWindow
    BY <2>1, <2>3 DEF HalvedWindow
  <2> QED BY <2>1, <2>2, <2>4
<1>3. HandleResendTimer(s, due) \in {r, a, b}
  BY DEF HandleResendTimer
<1> HIDE DEF w, k
<1>4. /\ t \in StreamStates
      /\ t.seqn = s.seqn /\ t.sent = s.sent /\ t.wire = s.wire /\ t.ready = s.ready
      /\ t.lastReceived = s.lastReceived /\ t.saved = s.saved /\ t.attached = s.attached
      /\ t.window = w /\ t.status = s.status /\ t.log = s.log
      /\ t.established = s.established
      /\ t.closeAsked = s.closeAsked /\ t.written = s.written /\ t.taken = s.taken
  BY <1>1, <1>2 DEF StreamStates
<1> HIDE DEF t
<1>5. PostedPackets(t) = PostedPackets(s) /\ \A h : Queued(t, h) <=> Queued(s, h)
  BY <1>4 DEF PostedPackets, Queued
<1>6. Outgoing(t) = Outgoing(s)
  BY <1>4, <1>5 DEF Outgoing
<1>7. Settled(t, o, Y)
  <2>1. Reads(t, o.wire) /\ EmptyOnes(t, Y)
    BY <1>4, <1>5 DEF Settled, Reads, EmptyOnes
  <2>2. Ended(t, o)
    BY <1>4 DEF Settled, Ended, FinSeen, Delivered, BufferIsEmpty
  <2>3. (Y = {} => Calls(t)) /\ (Y # {} => Replies(t, o))
    BY <1>4, <1>6 DEF Settled, Calls, Replies
  <2> QED BY <1>2, <1>4, <2>1, <2>2, <2>3 DEF Settled
<1>8. Flushed(t)
  <2>1. Cardinality(s.sent) \in Nat
    BY <1>1, FS_CardinalityType
  <2>2. Room(s) <= 0 => Room(t) <= 0
    BY <1>2, <1>4, <2>1 DEF Room
  <2> QED BY <1>4, <1>5, <2>2 DEF Flushed, BufferIsEmpty
<1>9. Settled(u, o, Y) /\ Flushed(u) /\ u.status = s.status /\ u \in StreamStates
  <2>1. \A p \in due : p \in Outgoing(t)
    BY <1>4 DEF Outgoing
  <2>2. Settled(u, o, Y) /\ Flushed(u)
    BY <1>4, <1>7, <1>8, <2>1, WireAlive
  <2>3. due \in SUBSET Packets
    BY <1>1 DEF StreamStates
  <2>4. u.status = t.status /\ u \in StreamStates
    BY <1>4, <2>3 DEF SendPackets, StreamStates
  <2> QED BY <1>4, <2>2, <2>4
<1> HIDE DEF u
<1>10. ASSUME NEW x \in StreamStates, Settled(x, o, Y), Flushed(x)
       PROVE  /\ Settled(ScheduleResend(x), o, Y) /\ Timed(ScheduleResend(x))
              /\ Flushed(ScheduleResend(x)) /\ ScheduleResend(x).status = x.status
  <2> DEFINE y == ScheduleResend(x)
  <2>1. /\ SameFields(x, y) /\ y.status = x.status /\ y.attached = x.attached
        /\ y.resendArmed
    BY DEF ScheduleResend, StreamStates, SameFields
  <2> HIDE DEF y
  <2>2. Calm(x, y)
    BY <2>1, FieldsCalm
  <2>3. Settled(y, o, Y) /\ Flushed(y)
    BY <1>10, <2>2, CalmSettled, CalmAlive
  <2>4. Timed(y)
    BY <2>1 DEF Timed
  <2> QED BY <2>1, <2>3, <2>4 DEF y
<1>11. /\ Settled(a, o, Y) /\ Timed(a) /\ Flushed(a) /\ a.status = s.status
       /\ Settled(b, o, Y) /\ Timed(b) /\ Flushed(b) /\ b.status = s.status
  BY <1>1, <1>9, <1>10
<1> HIDE DEF a, b
<1>12. Calm(s, r) /\ ~r.attached
  <2>1. Calm(s, r)
    BY <1>1, ResetAndCloseCalm
  <2> DEFINE x == [s EXCEPT !.status = "Reset"]
  <2>2. x \in StreamStates /\ x.status = "Reset"
    BY <1>1 DEF StreamStates, Statuses
  <2>3. r = Terminate(x)
    BY <2>2 DEF ResetAndClose, Close
  <2> HIDE DEF x, r
  <2> QED BY <2>1, <2>2, <2>3, TimersCalm
<1>13. /\ Settled(r, o, Y) /\ Timed(r) /\ Flushed(r)
       /\ r.status = "New" => s.status = "New"
  BY <1>12, CalmSettled, CalmAlive DEF Timed, Flushed, Calm
<1> QED BY <1>3, <1>11, <1>13

\* Without the handler at its head, the queue still settles all but what that handler was
\* queued for.
LEMMA TakenAlive ==
  ASSUME NEW s \in StreamStates, NEW o, NEW Y, Alive(s, o, Y), s.ready # << >>,
         NEW t, t = [s EXCEPT !.ready = Tail(@)]
  PROVE  /\ Settled(t, o, Y) /\ t.status = s.status
         /\ Head(s.ready).run # "HandleResendTimer" => Timed(t)
         /\ Head(s.ready).run # "SendBuffer" => Flushed(t)
<1> DEFINE r == s.ready
           R == Tail(s.ready)
<1>1. r \in Seq(Jobs) /\ r # << >>
  BY DEF StreamStates
<1>2. /\ R \in Seq(Jobs) /\ Len(R) = Len(r) - 1 /\ Len(r) \in Nat \ {0}
      /\ \A i \in 1 .. Len(R) : R[i] = r[i + 1]
      /\ Head(r) = r[1]
  BY <1>1, HeadTailProperties
<1>3. PostedPackets(t) \subseteq PostedPackets(s)
  BY TakenQueue
<1>4. /\ t.ready = R /\ t.log = s.log
      /\ t.seqn = s.seqn /\ t.sent = s.sent /\ t.wire = s.wire
      /\ t.lastReceived = s.lastReceived /\ t.saved = s.saved /\ t.attached = s.attached
      /\ t.window = s.window /\ t.status = s.status
      /\ t.established = s.established /\ t.resendArmed = s.resendArmed
      /\ t.closeAsked = s.closeAsked /\ t.written = s.written /\ t.taken = s.taken
  BY DEF StreamStates
<1> HIDE DEF r, R
<1>5. ASSUME NEW h, Queued(s, h), Head(r).run # h PROVE Queued(t, h)
  <2>1. PICK i \in 1 .. Len(r) : r[i].run = h
    BY <1>5 DEF Queued, r
  <2>2. i # 1
    BY <1>2, <1>5, <2>1
  <2>3. i - 1 \in 1 .. Len(R) /\ (i - 1) + 1 = i
    BY <1>2, <2>1, <2>2
  <2>4. R[i - 1] = r[i]
    BY <1>2, <2>3
  <2> QED BY <1>4, <2>1, <2>3, <2>4 DEF Queued
<1>6. Outgoing(t) \subseteq Outgoing(s)
  BY <1>3, <1>4 DEF Outgoing
<1>7. Settled(t, o, Y)
  <2>1. Reads(t, o.wire)
    BY <1>4 DEF Alive, Settled, Reads
  <2>2. EmptyOnes(t, Y)
    BY <1>3, <1>4 DEF Alive, Settled, EmptyOnes
  <2>3. Ended(t, o)
    BY <1>4 DEF Alive, Settled, Ended, FinSeen, Delivered, BufferIsEmpty
  <2>4. (Y = {} => Calls(t)) /\ (Y # {} => Replies(t, o))
    BY <1>4, <1>6 DEF Alive, Settled, Calls, Replies
  <2> QED BY <1>4, <2>1, <2>2, <2>3, <2>4 DEF Alive, Settled
<1>8. Head(r).run # "HandleResendTimer" => Timed(t)
  BY <1>4, <1>5 DEF Alive, Timed
<1>9. Head(r).run # "SendBuffer" => Flushed(t)
  BY <1>4, <1>5 DEF Alive, Flushed, BufferIsEmpty, Room
<1> QED BY <1>4, <1>7, <1>8, <1>9 DEF r

\* One more packet is tracked.
LEMMA TrackAlive ==
  ASSUME NEW s \in StreamStates, IsFiniteSet(s.sent), NEW o, NEW Y, Alive(s, o, Y),
         NEW p \in Packets, p.seqn < s.seqn, Sendable(p, o, Y)
  PROVE  Alive(SendAndTrack(s, {p}), o, Y)
<1> DEFINE P == {p}
           t == SendAndTrack(s, P)
<1>1. \A q \in P : q = p
  OBVIOUS
<1>2. IsFiniteSet(P)
  BY FS_Singleton
<1> HIDE DEF P
<1>3. /\ t.ready = s.ready /\ t.log = s.log
      /\ t.seqn = s.seqn /\ t.sent = s.sent \cup P /\ t.wire = s.wire \cup P
      /\ t.lastReceived = s.lastReceived /\ t.saved = s.saved /\ t.attached = s.attached
      /\ t.window = s.window /\ t.status = s.status
      /\ t.established = s.established
      /\ t.closeAsked = s.closeAsked /\ t.written = s.written /\ t.taken = s.taken
      /\ t.resendArmed = IF s.sent = {} THEN TRUE ELSE s.resendArmed
  BY SMTT(30) DEF SendAndTrack, SendPackets, ScheduleResend, StreamStates
<1> HIDE DEF t
<1>4. PostedPackets(t) = PostedPackets(s) /\ \A h : Queued(t, h) <=> Queued(s, h)
  BY <1>3 DEF PostedPackets, Queued
<1>5. Outgoing(t) = Outgoing(s) \cup P
  BY <1>3, <1>4 DEF Outgoing
<1>6. Settled(t, o, Y)
  <2>1. Reads(t, o.wire)
    BY <1>3 DEF Alive, Settled, Reads
  <2>2. EmptyOnes(t, Y)
    BY <1>1, <1>3, <1>4 DEF Alive, Settled, EmptyOnes
  <2>3. Ended(t, o)
    BY <1>3 DEF Alive, Settled, Ended, FinSeen, Delivered, BufferIsEmpty
  <2>4. Y = {} => Calls(t)
    <3> SUFFICES ASSUME Y = {} PROVE Calls(t)
      OBVIOUS
    <3>1. Calls(s) /\ \A q \in P : q.syn => q.noAck /\ ~q.fin
      BY <1>1 DEF Alive, Settled, Sendable
    <3>2. Seqns(s.sent) \subseteq Seqns(t.sent)
      BY <1>3 DEF Seqns
    <3> QED BY <1>3, <1>5, <3>1, <3>2 DEF Calls
  <2>5. Y # {} => Replies(t, o)
    <3> SUFFICES ASSUME Y # {} PROVE Replies(t, o)
      OBVIOUS
    <3>1. Replies(s, o) /\ \A q \in P : Answers(q, o.seqn)
      BY <1>1 DEF Alive, Settled, Sendable
    <3> QED BY <1>3, <1>5, <3>1 DEF Replies
  <2> QED BY <1>3, <2>1, <2>2, <2>3, <2>4, <2>5 DEF Alive, Settled
<1>7. Timed(t)
  BY <1>3, <1>4 DEF Alive, Timed
<1>8. Flushed(t)
  <2>1. Cardinality(s.sent) <= Cardinality(t.sent)
    <3>1. IsFiniteSet(s.sent \cup P)
      BY <1>2, FS_Union
    <3>2. s.sent \in SUBSET (s.sent \cup P)
      OBVIOUS
    <3> QED BY <1>3, <3>1, <3>2, FS_Subset
  <2>2. Cardinality(s.sent) \in Nat /\ Cardinality(t.sent) \in Nat
    <3>1. IsFiniteSet(s.sent \cup P)
      BY <1>2, FS_Union
    <3> QED BY <1>3, <3>1, FS_CardinalityType
  <2>3. s.window \in Nat
    BY DEF StreamStates
  <2>4. Room(s) <= 0 => Room(t) <= 0
    BY <1>3, <2>1, <2>2, <2>3 DEF Room
  <2> QED BY <1>3, <1>4, <2>4 DEF Alive, Flushed, BufferIsEmpty
<1> QED BY <1>6, <1>7, <1>8 DEF Alive, t, P

\* The posted FIN.
LEMMA SendPacketAlive ==
  ASSUME NEW s \in StreamStates, IsFiniteSet(s.sent), NEW o, NEW Y, Alive(s, o, Y),
         s.ready # << >>, Head(s.ready).run = "SendPacket",
         NEW u, u = [s EXCEPT !.ready = Tail(@)]
  PROVE  /\ Alive(SendPacket(u, Head(s.ready).packet), o, Y)
         /\ SendPacket(u, Head(s.ready).packet).status = s.status
<1> DEFINE p == Head(s.ready).packet
           c == StopAckSend(u)
           v == IF u.ackScheduled THEN c ELSE u
           t == SendAndTrack(v, {p})
<1>1. /\ PostedPackets(s) = PostedPackets(u) \cup {p} /\ u \in StreamStates
  BY TakenQueue
<1>2. Settled(u, o, Y) /\ Timed(u) /\ Flushed(u) /\ u.status = s.status
  BY TakenAlive
<1>3. p \in Packets /\ p.seqn < s.seqn /\ Sendable(p, o, Y)
  <2>1. p \in PostedPackets(s) /\ p \in Outgoing(s)
    BY <1>1 DEF Outgoing
  <2> HIDE DEF p
  <2>2. p \in Packets /\ p.seqn < s.seqn
    BY <2>1, OutgoingType DEF Alive, Settled, EmptyOnes
  <2>3. Sendable(p, o, Y)
    BY <2>1 DEF Alive, Settled, Calls, Replies, Sendable
  <2> QED BY <2>2, <2>3
<1>4. SendPacket(u, p) = t
  BY DEF SendPacket
<1>5. u.seqn = s.seqn /\ u.sent = s.sent
  BY DEF StreamStates
<1> HIDE DEF p
<1>6. Calm(u, c) /\ c \in StreamStates /\ c.status = u.status
  BY <1>1, TimersCalm
<1> HIDE DEF c
<1>7. Alive(u, o, Y) /\ Alive(c, o, Y)
  BY <1>2, <1>6, CalmAlive DEF Alive
<1>8. c.seqn = s.seqn /\ c.sent = s.sent
  BY <1>5, <1>6 DEF Calm, SamePackets
<1>9. /\ v \in StreamStates /\ v.seqn = s.seqn /\ v.sent = s.sent /\ Alive(v, o, Y)
      /\ v.status = s.status
  BY <1>1, <1>2, <1>5, <1>6, <1>7, <1>8
<1> HIDE DEF v
<1>10. Alive(t, o, Y)
  BY <1>3, <1>9, TrackAlive
<1>11. t.status = v.status
  BY <1>9 DEF SendAndTrack, SendPackets, ScheduleResend, StreamStates
<1> QED BY <1>4, <1>9, <1>10, <1>11 DEF p

----------------------------------------------------------------------------
(* What the peer sent.                                                       *)

\* Only what a stream has received changes, and it grows.
LEMMA ReadAlive ==
  ASSUME NEW s \in StreamStates, NEW t \in StreamStates, NEW o, NEW Y, Settled(s, o, Y),
         Reads(t, o.wire), s.status # "New", o.wire \subseteq Packets,
         s.lastReceived <= t.lastReceived,
         t.seqn = s.seqn, t.sent = s.sent, t.wire = s.wire, t.ready = s.ready,
         t.log = s.log, t.window = s.window, t.status = s.status, t.attached = s.attached,
         t.established = s.established, t.resendArmed = s.resendArmed,
         t.closeAsked = s.closeAsked, t.written = s.written, t.taken = s.taken
  PROVE  Keeps(s, t, o, Y)
<1>1. PostedPackets(t) = PostedPackets(s) /\ \A h : Queued(t, h) <=> Queued(s, h)
  BY DEF PostedPackets, Queued
<1>2. Outgoing(t) = Outgoing(s)
  BY <1>1 DEF Outgoing
<1>3. s.lastReceived \in Int /\ t.lastReceived \in Int /\ \A p \in o.wire : p.seqn \in Nat
  BY DEF StreamStates, Packets
<1>4. FinSeen(s, o.wire) => FinSeen(t, o.wire)
  BY <1>3 DEF FinSeen
<1>5. Ended(t, o)
  BY <1>4 DEF Settled, Ended, Delivered, BufferIsEmpty
<1>6. EmptyOnes(t, Y)
  BY <1>1 DEF Settled, EmptyOnes
<1>7. Y = {} => Calls(t)
  BY <1>2 DEF Settled, Calls
<1>8. Y # {} => Replies(t, o)
  BY <1>2, <1>3 DEF Settled, Replies
<1>9. Settled(t, o, Y)
  BY <1>5, <1>6, <1>7, <1>8 DEF Settled
<1>10. (Timed(s) => Timed(t)) /\ (Flushed(s) => Flushed(t))
  BY <1>1 DEF Timed, Flushed, BufferIsEmpty, Room
<1> QED BY <1>9, <1>10 DEF Keeps

\* A stream that closes for a FIN has seen it.
LEMMA ProcessFinsAlive ==
  ASSUME NEW s, NEW L \in Seq(Nat), Good(s, L), NEW o, NEW Y, Settled(s, o, Y),
         Len(L) = o.seqn, s.status # "New",
         NEW fins \in SUBSET Nat, \A f \in fins : f <= s.lastReceived,
         fins # {} => FinSeen(s, o.wire)
  PROVE  Keeps(s, ProcessFins(s, fins), o, Y)
<1>1. CASE fins = {}
  BY <1>1 DEF ProcessFins, Keeps
<1>2. CASE fins # {}
  <2> DEFINE first == CHOOSE f \in fins : \A x \in fins : f <= x
             t == IF s.status = "Closed" THEN s ELSE SendCloseAfter(s, first)
             u == [t EXCEPT !.status = "Closed"]
  <2>1. first \in fins
    <3>1. \E f \in fins : \A x \in fins : f <= x
      BY <1>2, LeastElement
    <3> QED BY <3>1
  <2>2. ProcessFins(s, fins) = Terminate(u)
    BY <1>2 DEF ProcessFins
  <2> HIDE DEF first
  <2>3. first \in Nat \cup {-1} /\ Claims(s, first)
    BY <2>1 DEF Claims
  <2>4. Keeps(s, u, o, Y) /\ u \in StreamStates
    <3>1. CASE s.status = "Closed"
      <4>1. u = s
        BY <3>1 DEF Good, StreamStates
      <4> QED BY <4>1 DEF Keeps, Good
    <3>2. CASE s.status # "Closed"
      <4> DEFINE w == FinSent(s, first, "Closed")
      <4>1. u = w
        BY <3>2 DEF FinSent
      <4>2. /\ Settled(w, o, Y) /\ w \in StreamStates /\ w.status = "Closed"
            /\ Timed(s) => Timed(w)
            /\ Flushed(s) => Flushed(w)
        BY <1>2, <2>3, FinAlive
      <4> HIDE DEF u, w
      <4> QED BY <4>1, <4>2 DEF Keeps
    <3> QED BY <3>1, <3>2
  <2> HIDE DEF u
  <2>5. Calm(u, Terminate(u))
    BY <2>4, TimersCalm
  <2>6. Keeps(u, Terminate(u), o, Y)
    BY <2>4, <2>5, CalmKeeps DEF Keeps
  <2> QED BY <2>2, <2>4, <2>6, KeepsTransitive
<1> QED BY <1>1, <1>2

LEMMA ProcessPacketsAlive ==
  ASSUME NEW s, NEW L \in Seq(Nat), Good(s, L), NEW o, NEW Y, Settled(s, o, Y),
         Len(L) = o.seqn, s.status # "New", o.wire \subseteq Packets,
         NEW p, p \in o.wire, NextFor(s, L, p)
  PROVE  Keeps(s, ProcessPackets(s, p), o, Y)
<1> DEFINE packets == s.saved \cup {p}
           g == NextGap(s, packets)
           h == GotBefore(s, packets, g)
           v == {q \in s.saved : q.seqn >= g}
           t == [s EXCEPT !.lastReceived = g - 1, !.saved = v, !.got = h]
           fins == {q.seqn : q \in {r \in packets : r.fin /\ r.seqn < g}}
<1>1. ProcessPackets(s, p) = ProcessFins(t, fins)
  BY DEF ProcessPackets, GotBefore
<1>2. packets = s.saved \cup {p}
  OBVIOUS
<1>3. s \in StreamStates /\ s.lastReceived + 1 \in Nat /\ s.lastReceived \in Int
  BY SavedBound DEF Good
<1>4. \A q \in packets : q.seqn \in Nat /\ ~PlainAck(q) /\ q \in o.wire
  BY SavedBound, SavedAhead DEF NextFor, Packets, Settled, Reads
<1> HIDE DEF packets
<1>5. /\ g \in Nat /\ g > s.lastReceived + 1 /\ g <= Len(L) /\ g \notin Seqns(packets)
      /\ (s.lastReceived + 1) .. (g - 1) \subseteq Seqns(packets)
  BY <1>2, NextGapFits
<1>6. h \in Seq(Nat) /\ Len(h) = g /\ Prefix(h, L) /\ Prefix(s.got, h)
  <2> DEFINE x == g
  <2>1. x = NextGap(s, packets)
    OBVIOUS
  <2> HIDE DEF x
  <2>2. /\ GotBefore(s, packets, x) \in Seq(Nat)
        /\ Len(GotBefore(s, packets, x)) = x /\ Prefix(GotBefore(s, packets, x), L)
        /\ Prefix(s.got, GotBefore(s, packets, x))
    BY <1>2, <2>1, GotBeforeFits
  <2> QED BY <2>2 DEF x
<1> HIDE DEF g
<1>7. fins \in SUBSET Nat /\ \A f \in fins : f <= g - 1
  BY <1>4, <1>5
<1>8. v \in SUBSET s.saved /\ \A q \in v : q.seqn > g
  <2> SUFFICES ASSUME NEW q \in v PROVE q.seqn > g
    OBVIOUS
  <2>1. q.seqn \in Nat /\ q.seqn >= g
    BY SavedBound
  <2>2. q.seqn # g
    BY <1>2, <1>5 DEF Seqns
  <2> QED BY <2>1, <2>2, <1>5
<1> HIDE DEF h, v
<1>9. Receives(s, t, L)
  <2>1. t = [s EXCEPT !.lastReceived = g - 1, !.saved = v, !.got = h]
    OBVIOUS
  <2> HIDE DEF t
  <2> QED BY <2>1, <1>5, <1>6, <1>8, ProcessedGood
<1>10. /\ t.lastReceived = g - 1 /\ t.saved = v
       /\ t.seqn = s.seqn /\ t.sent = s.sent /\ t.wire = s.wire /\ t.ready = s.ready
       /\ t.log = s.log /\ t.window = s.window /\ t.status = s.status
       /\ t.attached = s.attached /\ t.established = s.established
       /\ t.resendArmed = s.resendArmed
       /\ t.closeAsked = s.closeAsked /\ t.written = s.written /\ t.taken = s.taken
  BY <1>3 DEF StreamStates
<1> HIDE DEF t
<1>11. Good(t, L) /\ t \in StreamStates
  BY <1>9 DEF Receives, Good
<1>12. Reads(t, o.wire)
  <2>1. ASSUME NEW n \in 0 .. (g - 1) PROVE \E q \in o.wire : q.seqn = n /\ ~PlainAck(q)
    <3>1. CASE n <= s.lastReceived
      <4>1. n \in 0 .. s.lastReceived
        BY <1>3, <3>1
      <4> QED BY <4>1 DEF Settled, Reads
    <3>2. CASE ~(n <= s.lastReceived)
      <4>1. n \in (s.lastReceived + 1) .. (g - 1)
        BY <1>3, <1>5, <3>2
      <4>2. n \in Seqns(packets)
        BY <1>5, <4>1
      <4> QED BY <1>4, <4>2 DEF Seqns
    <3> QED BY <3>1, <3>2
  <2>2. v \subseteq o.wire
    BY <1>8 DEF Settled, Reads
  <2> QED BY <1>10, <2>1, <2>2 DEF Reads
<1>13. s.lastReceived <= t.lastReceived
  BY <1>3, <1>5, <1>10
<1>14. Keeps(s, t, o, Y)
  BY <1>3, <1>10, <1>11, <1>12, <1>13, ReadAlive
<1>15. fins # {} => FinSeen(t, o.wire)
  <2> SUFFICES ASSUME NEW q \in packets, q.fin, q.seqn < g PROVE FinSeen(t, o.wire)
    OBVIOUS
  <2>1. q \in o.wire /\ q.seqn <= t.lastReceived
    BY <1>4, <1>5, <1>10
  <2> QED BY <2>1 DEF FinSeen
<1> HIDE DEF fins
<1>16. Keeps(t, ProcessFins(t, fins), o, Y)
  BY <1>7, <1>10, <1>11, <1>14, <1>15, ProcessFinsAlive DEF Keeps
<1> QED BY <1>1, <1>14, <1>16, KeepsTransitive

LEMMA NextInSequenceAlive ==
  ASSUME NEW s, NEW L \in Seq(Nat), Good(s, L), NEW o, NEW X, NEW Y, Tracks(s, o, X, Y),
         Alive(s, o, Y), Len(L) = o.seqn, s.status \notin {"Reset", "New"},
         o.wire \subseteq Packets, NEW p, p \in o.wire, NextFor(s, L, p)
  PROVE  Alive(NextInSequence(s, p), o, Y)
<1> DEFINE t == ProcessPackets(s, p)
<1>1. Receives(s, t, L) /\ Tracks(t, o, X, Y) /\ Keeps(s, t, o, Y)
  BY ProcessPacketsReceives, ProcessPacketsTracks, ProcessPacketsAlive DEF Alive
<1>2. \/ NextInSequence(s, p) = t \/ NextInSequence(s, p) = ArmAckSendTimer(t)
      \/ NextInSequence(s, p) = SendBuffer(t)
  BY DEF NextInSequence
<1> HIDE DEF t
<1>3. Good(t, L) /\ t \in StreamStates /\ Alive(t, o, Y)
  BY <1>1, KeepsAlive DEF Receives, Good
<1>4. Alive(ArmAckSendTimer(t), o, Y)
  BY <1>3, TimersCalm, CalmAlive
<1>5. Alive(SendBuffer(t), o, Y)
  BY <1>1, <1>3, SendBufferAlive DEF Alive
<1> QED BY <1>2, <1>3, <1>4, <1>5

LEMMA FewMissingGrows ==
  ASSUME NEW s, NEW t, NEW b \in Nat, FewMissing(s, b), Grows(s, t)
  PROVE  FewMissing(t, b)
<1>1. PICK M : /\ IsFiniteSet(M) /\ Cardinality(M) < MaxNacks
               /\ \A n \in 0 .. (b - 2) : n \in M \/ Has(s, n)
  BY DEF FewMissing
<1>2. \A n \in 0 .. (b - 2) : n \in M \/ Has(t, n)
  BY <1>1 DEF Grows
<1> QED BY <1>1, <1>2 DEF FewMissing

LEMMA OutOfSequenceAlive ==
  ASSUME NEW s, NEW L \in Seq(Nat), Good(s, L), NEW o, NEW Y,
         Alive(s, o, Y), Len(L) = o.seqn, s.status # "New", o.wire \subseteq Packets,
         NEW p \in Packets, p \in o.wire, Fits(L, p), ~PlainAck(p),
         p.seqn > s.lastReceived + 1, FewMissing(s, Len(L))
  PROVE  Alive(OutOfSequence(s, p), o, Y)
<1> DEFINE v == IF p.seqn \in Seqns(s.saved) THEN s.saved ELSE s.saved \cup {p}
           t == [s EXCEPT !.saved = v]
           u == IF s.ackScheduled THEN StopAckSend(t) ELSE t
<1>1. /\ s \in StreamStates /\ v \in SUBSET Packets /\ s.saved \subseteq v
      /\ v \subseteq o.wire
  BY DEF Good, StreamStates, Alive, Settled, Reads
<1>2. \A q \in v : Fits(L, q) /\ ~PlainAck(q) /\ q.seqn > s.lastReceived + 1
  BY SavedAhead
<1>3. OutOfSequence(s, p) = ArmAckSendTimer(t) \/ OutOfSequence(s, p) = SendQuickAck(u)
  BY DEF OutOfSequence
<1> HIDE DEF v
<1>4. /\ t \in StreamStates /\ t.saved = v
      /\ t.got = s.got /\ t.lastReceived = s.lastReceived
      /\ t.log = s.log /\ t.seqn = s.seqn /\ t.taken = s.taken /\ t.written = s.written
      /\ t.sent = s.sent /\ t.wire = s.wire /\ t.ready = s.ready
      /\ t.window = s.window /\ t.status = s.status /\ t.attached = s.attached
      /\ t.established = s.established /\ t.resendArmed = s.resendArmed
      /\ t.closeAsked = s.closeAsked
  BY <1>1 DEF StreamStates
<1> HIDE DEF t
<1>5. Good(t, L)
  <2>1. PostedPackets(t) = PostedPackets(s)
    BY <1>4 DEF PostedPackets
  <2>2. SenderGood(t)
    BY <1>4, <2>1 DEF SenderGood, Good, Outgoing
  <2>3. ReceiverGood(t, L)
    BY <1>2, <1>4 DEF ReceiverGood, Good
  <2> QED BY <1>4, <2>2, <2>3 DEF Good
<1>6. Grows(s, t) /\ t.taken <= t.written
  BY <1>1, <1>4, <1>5, GoodTaken DEF Grows, Has, Seqns
<1>7. Alive(t, o, Y)
  <2>1. Reads(t, o.wire)
    BY <1>1, <1>4 DEF Alive, Settled, Reads
  <2>2. s.lastReceived <= t.lastReceived
    BY <1>1, <1>4 DEF StreamStates
  <2>3. Keeps(s, t, o, Y)
    BY <1>1, <1>4, <2>1, <2>2, ReadAlive DEF Alive
  <2> QED BY <2>3, KeepsAlive
<1>8. Alive(ArmAckSendTimer(t), o, Y) /\ Alive(StopAckSend(t), o, Y)
  BY <1>4, <1>7, TimersCalm, CalmAlive
<1>9. Sends(t, u, L) /\ Alive(u, o, Y)
  BY <1>4, <1>5, <1>6, <1>7, <1>8, StopQuiet, QuietSends, SendsReflexive
<1> HIDE DEF u
<1>10. Good(u, L) /\ FewMissing(u, Len(L))
  <2>1. Good(u, L) /\ Grows(t, u)
    BY <1>9, SendsGrows DEF Sends
  <2>2. Grows(s, u) /\ Len(L) \in Nat
    BY <1>6, <2>1 DEF Grows
  <2> QED BY <2>1, <2>2, FewMissingGrows
<1>11. Keeps(u, SendQuickAck(u), o, Y)
  BY <1>9, <1>10, SendQuickAckAlive DEF Alive
<1>12. Alive(SendQuickAck(u), o, Y)
  BY <1>9, <1>11, KeepsAlive
<1> QED BY <1>3, <1>8, <1>12

\* A stream that a packet of the peer establishes has been answered: the packet takes
\* the SYN out of the window, and what waits in the buffer is sent behind it.
LEMMA HandleNextPacketAlive ==
  ASSUME NEW s, NEW L \in Seq(Nat), Good(s, L), NEW o, NEW X, NEW Y \in SUBSET {0},
         Tracks(s, o, X, Y), Alive(s, o, Y), Len(L) = o.seqn, s.attached,
         s.status \notin {"Reset", "New"}, FewMissing(s, Len(L)), o.wire \subseteq Packets,
         NEW p \in Packets, p \in o.wire, Fits(L, p), p.noAck \/ Heard(p, o, Y),
         Y = {} => Answers(p, s.seqn), NEW grow \in BOOLEAN
  PROVE  Alive(HandleNextPacket(s, p, grow), o, Y)
<1> DEFINE t == [s EXCEPT !.established = TRUE]
           u == IF p.noAck THEN t ELSE ProcessAck(t, p, grow)
           n == CASE p.seqn = u.lastReceived + 1 -> NextInSequence(u, p)
                  [] p.seqn <= u.lastReceived    -> SendQuickAck(u)
                  [] OTHER                       -> OutOfSequence(u, p)
           H == HandleNextPacket(s, p, grow)
<1>1. H = IF PlainAck(p) THEN u ELSE n
  BY DEF HandleNextPacket
<1>2. s \in StreamStates /\ s.taken <= s.written
  BY GoodTaken
<1>3. /\ t \in StreamStates
      /\ t.log = s.log /\ t.seqn = s.seqn /\ t.taken = s.taken /\ t.written = s.written
      /\ t.got = s.got /\ t.lastReceived = s.lastReceived /\ t.saved = s.saved
      /\ t.sent = s.sent /\ t.wire = s.wire /\ t.ready = s.ready
      /\ t.window = s.window /\ t.status = s.status /\ t.attached = s.attached
      /\ t.resendArmed = s.resendArmed /\ t.established
      /\ t.closeAsked = s.closeAsked
  BY <1>2 DEF StreamStates
<1> HIDE DEF t, H
<1>4. Sends(s, t, L)
  BY <1>2, <1>3, FieldsQuiet, QuietSends
<1>5. Good(t, L) /\ Grows(s, t)
  BY <1>4, SendsGrows DEF Sends
<1>6. Tracks(t, o, X, Y)
  BY <1>3, <1>5, GrownTracks
<1>7. PostedPackets(t) = PostedPackets(s) /\ \A h : Queued(t, h) <=> Queued(s, h)
  BY <1>3 DEF PostedPackets, Queued
<1>8. Outgoing(t) = Outgoing(s)
  BY <1>3, <1>7 DEF Outgoing
<1>9. Settled(t, o, Y) /\ Timed(t)
  <2>1. Reads(t, o.wire) /\ EmptyOnes(t, Y)
    BY <1>3, <1>7 DEF Alive, Settled, Reads, EmptyOnes
  <2>2. Ended(t, o)
    BY <1>3 DEF Alive, Settled, Ended, FinSeen, Delivered, BufferIsEmpty
  <2>3. Y = {} => Calls(t)
    BY <1>3, <1>8 DEF Alive, Settled, Calls
  <2>4. Y # {} => Replies(t, o)
    BY <1>3, <1>8 DEF Alive, Settled, Replies
  <2>5. Settled(t, o, Y)
    BY <1>3, <2>1, <2>2, <2>3, <2>4 DEF Alive, Settled
  <2>6. Timed(t)
    BY <1>3, <1>7 DEF Alive, Timed
  <2> QED BY <2>5, <2>6
<1>10. s.established => Flushed(t)
  BY <1>3, <1>7 DEF Alive, Flushed, BufferIsEmpty, Room
<1>11. ~s.established => Y = {} /\ 0 \in Seqns(t.sent)
  BY <1>3 DEF Alive, Settled, Calls, Replies
<1>12. /\ Settled(u, o, Y) /\ Timed(u) /\ Flushed(u)
       /\ u.status = "New" => t.status = "New"
  <2>1. CASE p.noAck
    <3>1. s.established
      BY <1>11, <2>1 DEF Answers
    <3> QED BY <1>9, <1>10, <2>1, <3>1
  <2>2. CASE ~p.noAck
    <3>1. Flushed(t) \/ (0 \in Seqns(t.sent) /\ Answers(p, t.seqn))
      BY <1>3, <1>10, <1>11
    <3>2. LET a == ProcessAck(t, p, grow) IN
          /\ Settled(a, o, Y) /\ Timed(a) /\ Flushed(a)
          /\ a.status = "New" => t.status = "New"
      BY <1>3, <1>5, <1>6, <1>9, <2>2, <3>1, ProcessAckAlive
    <3> QED BY <2>2, <3>2
  <2> QED BY <2>1, <2>2
<1>13. Sends(t, u, L)
  BY <1>5, ProcessAckSends, SendsReflexive
<1>14. Tracks(u, o, X, Y) /\ u.status # "Reset"
  BY <1>3, <1>5, <1>6, ProcessAckTracks
<1>15. Good(u, L) /\ Grows(t, u) /\ u.lastReceived = s.lastReceived
  BY <1>3, <1>13, SendsGrows DEF Sends
<1>16. Alive(u, o, Y) /\ u.status # "New"
  BY <1>3, <1>12 DEF Alive
<1> HIDE DEF u
<1>17. FewMissing(u, Len(L))
  <2>1. Grows(s, u) /\ Len(L) \in Nat
    BY <1>5, <1>15 DEF Grows
  <2> QED BY <2>1, FewMissingGrows
<1>18. CASE PlainAck(p)
  BY <1>1, <1>16, <1>18 DEF H
<1>19. CASE ~PlainAck(p)
  <2>1. p.seqn \in Nat /\ u.lastReceived \in Int
    BY <1>15, SavedBound DEF Packets
  <2>2. CASE p.seqn = u.lastReceived + 1
    <3>1. NextFor(u, L, p)
      BY <1>19, <2>2 DEF NextFor
    <3>2. H = NextInSequence(u, p)
      BY <1>1, <1>19, <2>1, <2>2
    <3>3. Alive(H, o, Y)
      BY <1>14, <1>15, <1>16, <3>1, <3>2, NextInSequenceAlive
    <3> QED BY <3>3 DEF H
  <2>3. CASE p.seqn # u.lastReceived + 1 /\ p.seqn <= u.lastReceived
    <3>1. H = SendQuickAck(u)
      BY <1>1, <1>19, <2>1, <2>3
    <3>2. Keeps(u, SendQuickAck(u), o, Y)
      BY <1>15, <1>16, <1>17, SendQuickAckAlive DEF Alive
    <3>3. Alive(H, o, Y)
      BY <1>16, <3>1, <3>2, KeepsAlive
    <3> QED BY <3>3 DEF H
  <2>4. CASE p.seqn > u.lastReceived + 1
    <3>1. H = OutOfSequence(u, p)
      BY <1>1, <1>19, <2>1, <2>4
    <3>2. Alive(H, o, Y)
      BY <1>15, <1>16, <1>17, <1>19, <2>4, <3>1, OutOfSequenceAlive
    <3> QED BY <3>2 DEF H
  <2> QED BY <2>1, <2>2, <2>3, <2>4
<1> QED BY <1>18, <1>19

----------------------------------------------------------------------------
(* What the peer of an end relies on: what was on the wire stays there, and a *)
(* stream that has sent its SYN is never new again.                          *)

Shaped(s) == {"wire", "status"} \subseteq DOMAIN s

Moves(s, t) ==
  /\ DOMAIN t = DOMAIN s
  /\ s.wire \subseteq t.wire
  /\ t.status = "New" => s.status = "New"

LEMMA MovesTransitive ==
  ASSUME NEW s, NEW t, NEW u, Moves(s, t), Moves(t, u)
  PROVE  Moves(s, u)
BY DEF Moves

LEMMA MovesShaped ==
  ASSUME NEW s, NEW t, Shaped(s), Moves(s, t)
  PROVE  Shaped(t)
BY DEF Moves, Shaped

LEMMA TimersMove ==
  ASSUME NEW s, Shaped(s)
  PROVE  /\ Moves(s, s) /\ Moves(s, ArmAckSendTimer(s)) /\ Moves(s, StopAckSend(s))
         /\ Moves(s, Terminate(s)) /\ Moves(s, ScheduleResend(s))
         /\ Moves(s, [s EXCEPT !.ackScheduled = FALSE])
<1> DEFINE t == CancelAckSendTimer(s)
<1>1. Moves(s, t)
  BY DEF CancelAckSendTimer, Shaped, Moves
<1> HIDE DEF t
<1>2. /\ ArmAckSendTimer(s) = [t EXCEPT !.ackScheduled = TRUE, !.ackArmed = TRUE]
      /\ StopAckSend(s) = [t EXCEPT !.ackScheduled = FALSE]
      /\ Terminate(s) = [t EXCEPT !.resendArmed = FALSE, !.attached = FALSE]
  BY DEF ArmAckSendTimer, StopAckSend, Terminate, t
<1>3. Shaped(t)
  BY <1>1, MovesShaped
<1>4. /\ Moves(t, ArmAckSendTimer(s)) /\ Moves(t, StopAckSend(s)) /\ Moves(t, Terminate(s))
  BY <1>2, <1>3 DEF Shaped, Moves
<1>5. Moves(s, s) /\ Moves(s, ScheduleResend(s)) /\ Moves(s, [s EXCEPT !.ackScheduled = FALSE])
  BY DEF Shaped, Moves, ScheduleResend
<1> QED BY <1>1, <1>4, <1>5, MovesTransitive

LEMMA SendPacketsMove ==
  ASSUME NEW s, Shaped(s), NEW P
  PROVE  Moves(s, SendPackets(s, P)) /\ Moves(s, SendAndTrack(s, P))
<1> DEFINE x == SendPackets(s, P)
           t == [x EXCEPT !.sent = @ \cup P]
<1>1. Moves(s, x)
  BY DEF SendPackets, Shaped, Moves
<1> HIDE DEF x
<1>2. Shaped(x)
  BY <1>1, MovesShaped
<1>3. Moves(x, t)
  BY <1>2 DEF Shaped, Moves
<1>4. SendAndTrack(s, P) = t \/ SendAndTrack(s, P) = ScheduleResend(t)
  BY DEF SendAndTrack, x
<1> HIDE DEF t
<1>5. Moves(t, ScheduleResend(t))
  BY <1>2, <1>3, MovesShaped, TimersMove
<1> QED BY <1>1, <1>3, <1>4, <1>5, MovesTransitive DEF x

LEMMA CloseMoves ==
  ASSUME NEW s, Shaped(s)
  PROVE  /\ \A last : Moves(s, SendCloseAfter(s, last))
         /\ Moves(s, SendClose(s)) /\ Moves(s, CloseWhenSent(s)) /\ Moves(s, Close(s))
         /\ Moves(s, AfterAck(s)) /\ Moves(s, ResetAndClose(s))
<1>1. ASSUME NEW t, Shaped(t), NEW last PROVE Moves(t, SendCloseAfter(t, last))
  BY <1>1 DEF SendCloseAfter, Shaped, Moves
<1>2. ASSUME NEW t, Shaped(t) PROVE Moves(t, SendClose(t))
  BY <1>1, <1>2 DEF SendClose
<1>3. ASSUME NEW t, Shaped(t), NEW x \in {"Closed", "Closing", "Reset"},
             NEW u, u = [t EXCEPT !.status = x]
      PROVE  Moves(t, u) /\ Shaped(u)
  <2>1. Moves(t, u)
    BY <1>3 DEF Shaped, Moves
  <2> QED BY <1>3, <2>1, MovesShaped
<1>4. ASSUME NEW t, Shaped(t) PROVE Moves(t, CloseWhenSent(t))
  <2> DEFINE x == [t EXCEPT !.status = "Closed"]
  <2>1. Moves(t, x) /\ Shaped(x)
    BY <1>3, <1>4
  <2>2. CloseWhenSent(t) \in {t, SendClose(x)}
    BY DEF CloseWhenSent
  <2> HIDE DEF x
  <2>3. Moves(t, SendClose(x))
    BY <1>2, <2>1, MovesTransitive
  <2> QED BY <1>4, <2>2, <2>3, TimersMove
<1>5. ASSUME NEW t, Shaped(t) PROVE Moves(t, Close(t))
  <2> DEFINE x == [t EXCEPT !.status = "Closing"]
  <2>1. Moves(t, x) /\ Shaped(x)
    BY <1>3, <1>5
  <2>2. Close(t) \in {t, CloseWhenSent(x), CloseWhenSent(t), Terminate(t)}
    BY DEF Close
  <2> HIDE DEF x
  <2>3. Moves(t, CloseWhenSent(x)) /\ Moves(t, CloseWhenSent(t))
    BY <1>4, <1>5, <2>1, MovesTransitive
  <2> QED BY <1>5, <2>2, <2>3, TimersMove
<1>6. Moves(s, AfterAck(s))
  BY <1>5, TimersMove DEF AfterAck
<1>7. Moves(s, ResetAndClose(s))
  <2> DEFINE x == [s EXCEPT !.status = "Reset"]
  <2>1. Moves(s, x) /\ Shaped(x)
    BY <1>3
  <2>2. ResetAndClose(s) = Close(x)
    BY DEF ResetAndClose
  <2> HIDE DEF x
  <2> QED BY <1>5, <2>1, <2>2, MovesTransitive
<1> QED BY <1>1, <1>2, <1>4, <1>5, <1>6, <1>7

LEMMA SendBufferMoves ==
  ASSUME NEW s, Shaped(s)
  PROVE  Moves(s, SendBuffer(s))
<1> DEFINE t == IF s.saved = {} THEN StopAckSend(s) ELSE s
           v == TakeFromBuffer(t)
           u == SendAndTrack(v, BufferPackets(t))
<1>1. SendBuffer(s) \in {s, u, SendClose(u)}
  BY DEF SendBuffer
<1>2. Moves(s, t) /\ Shaped(t)
  BY TimersMove, MovesShaped
<1> HIDE DEF t
<1>3. Moves(t, v)
  <2> DEFINE n == NumToSend(t)
             status == IF t.status = "New" THEN "Open" ELSE t.status
             taken == Least(t.taken + n, t.written)
             log == [i \in 1 .. (Len(t.log) + n) |->
                       IF i <= Len(t.log) THEN t.log[i] ELSE PayloadAt(t, i - 1)]
  <2>1. v = [t EXCEPT !.status = status, !.seqn = @ + n, !.taken = taken, !.log = log]
    BY DEF TakeFromBuffer
  <2>2. status # "New"
    OBVIOUS
  <2> HIDE DEF n, status, taken, log, v
  <2> QED BY <1>2, <2>1, <2>2 DEF Shaped, Moves
<1> HIDE DEF v
<1>4. Moves(v, u) /\ Shaped(v)
  BY <1>2, <1>3, MovesShaped, SendPacketsMove
<1> HIDE DEF u
<1>5. Moves(s, u) /\ Shaped(u)
  BY <1>2, <1>3, <1>4, MovesTransitive, MovesShaped
<1>6. Moves(s, SendClose(u))
  BY <1>5, CloseMoves, MovesTransitive
<1> QED BY <1>1, <1>5, <1>6, TimersMove

LEMMA HandlersMove ==
  ASSUME NEW s, Shaped(s)
  PROVE  /\ \A p : Moves(s, SendPacket(s, p))
         /\ Moves(s, SendQuickAck(s)) /\ Moves(s, HandleAckSendTimer(s))
         /\ \A due : Moves(s, HandleResendTimer(s, due))
<1>1. ASSUME NEW p PROVE Moves(s, SendPacket(s, p))
  <2> DEFINE t == IF s.ackScheduled THEN StopAckSend(s) ELSE s
  <2>1. Moves(s, t) /\ Shaped(t) /\ SendPacket(s, p) = SendAndTrack(t, {p})
    BY TimersMove, MovesShaped DEF SendPacket
  <2> HIDE DEF t
  <2> QED BY <2>1, SendPacketsMove, MovesTransitive
<1>2. Moves(s, SendQuickAck(s))
  BY SendPacketsMove, TimersMove DEF SendQuickAck
<1>3. Moves(s, HandleAckSendTimer(s))
  <2> DEFINE t == IF s.status = "Open" THEN SendQuickAck(s) ELSE s
             u == [t EXCEPT !.ackScheduled = FALSE]
  <2>1. HandleAckSendTimer(s) \in {s, ResetAndClose(s), u}
    BY DEF HandleAckSendTimer
  <2>2. Moves(s, t) /\ Shaped(t)
    BY <1>2, TimersMove, MovesShaped
  <2> HIDE DEF t
  <2>3. Moves(s, u)
    BY <2>2, TimersMove, MovesTransitive
  <2> QED BY <2>1, <2>3, CloseMoves, TimersMove
<1>4. ASSUME NEW due PROVE Moves(s, HandleResendTimer(s, due))
  <2> DEFINE w == IF s.attempts = 0 THEN HalvedWindow(s.window) ELSE s.window
             t == [s EXCEPT !.attempts = @ + 1, !.window = w]
             u == SendPackets(t, due)
  <2>1. HandleResendTimer(s, due) \in {ResetAndClose(s), ScheduleResend(s), ScheduleResend(u)}
    BY DEF HandleResendTimer
  <2> HIDE DEF w
  <2>2. Moves(s, t)
    BY DEF Shaped, Moves
  <2> HIDE DEF t
  <2>3. Moves(s, u) /\ Shaped(u)
    BY <2>2, MovesShaped, SendPacketsMove, MovesTransitive
  <2> HIDE DEF u
  <2>4. Moves(s, ScheduleResend(u))
    BY <2>3, TimersMove, MovesTransitive
  <2> QED BY <2>1, <2>4, CloseMoves, TimersMove
<1> QED BY <1>1, <1>2, <1>3, <1>4

LEMMA ProcessAckMoves ==
  ASSUME NEW s, Shaped(s), NEW p, NEW grow
  PROVE  Moves(s, ProcessAck(s, p, grow))
<1> DEFINE t == Removed(s, p, grow)
           b == SendBuffer(t)
<1>1. ProcessAck(s, p, grow) \in {s, AfterAck(t), AfterAck(b)}
  BY DEF ProcessAck, Removed
<1>2. Moves(s, t)
  <2> DEFINE acked == Acknowledged(s, p)
             w == GrownWindow(s.window, Cardinality(acked), grow)
             a == IF acked = {} THEN s.attempts ELSE 0
             r == s.resendArmed /\ s.sent # acked
             rest == s.sent \ acked
  <2>1. t = [s EXCEPT !.sent = rest, !.window = w, !.resendArmed = r, !.attempts = a]
    BY DEF Removed
  <2> HIDE DEF acked, w, a, r, rest, t
  <2> QED BY <2>1 DEF Shaped, Moves
<1> HIDE DEF t
<1>3. Shaped(t) /\ Moves(t, b)
  BY <1>2, MovesShaped, SendBufferMoves
<1> HIDE DEF b
<1>4. Moves(s, b) /\ Shaped(b)
  BY <1>2, <1>3, MovesTransitive, MovesShaped
<1>5. Moves(s, AfterAck(t)) /\ Moves(s, AfterAck(b))
  BY <1>2, <1>3, <1>4, CloseMoves, MovesTransitive
<1> QED BY <1>1, <1>5, TimersMove

LEMMA HandleNextPacketMoves ==
  ASSUME NEW s, Shaped(s), NEW p, NEW grow
  PROVE  Moves(s, HandleNextPacket(s, p, grow))
<1>1. ASSUME NEW t, Shaped(t), NEW fins PROVE Moves(t, ProcessFins(t, fins))
  <2> DEFINE first == CHOOSE f \in fins : \A g \in fins : f <= g
             x == IF t.status = "Closed" THEN t ELSE SendCloseAfter(t, first)
             u == [x EXCEPT !.status = "Closed"]
  <2>1. ProcessFins(t, fins) \in {t, Terminate(u)}
    BY DEF ProcessFins
  <2>2. Moves(t, x) /\ Shaped(x)
    BY <1>1, TimersMove, CloseMoves, MovesShaped
  <2> HIDE DEF x
  <2>3. Moves(x, u)
    BY <2>2 DEF Shaped, Moves
  <2> HIDE DEF u
  <2>4. Moves(t, u) /\ Shaped(u)
    BY <1>1, <2>2, <2>3, MovesTransitive, MovesShaped
  <2>5. Moves(t, Terminate(u))
    BY <2>4, TimersMove, MovesTransitive
  <2> QED BY <1>1, <2>1, <2>5, TimersMove
<1>2. ASSUME NEW t, Shaped(t) PROVE Moves(t, ProcessPackets(t, p))
  <2> DEFINE packets == t.saved \cup {p}
             g == NextGap(t, packets)
             h == GotBefore(t, packets, g)
             u == [t EXCEPT !.lastReceived = g - 1, !.saved = {q \in @ : q.seqn >= g}, !.got = h]
             fins == {q.seqn : q \in {r \in packets : r.fin /\ r.seqn < g}}
  <2>1. ProcessPackets(t, p) = ProcessFins(u, fins)
    BY DEF ProcessPackets, GotBefore
  <2> HIDE DEF fins, h
  <2>2. Moves(t, u)
    BY <1>2 DEF Shaped, Moves
  <2> HIDE DEF u
  <2>3. Moves(u, ProcessFins(u, fins))
    BY <1>1, <1>2, <2>2, MovesShaped
  <2> QED BY <2>1, <2>2, <2>3, MovesTransitive
<1>3. ASSUME NEW t, Shaped(t) PROVE Moves(t, NextInSequence(t, p))
  <2> DEFINE u == ProcessPackets(t, p)
  <2>1. NextInSequence(t, p) \in {u, ArmAckSendTimer(u), SendBuffer(u)}
    BY DEF NextInSequence
  <2>2. Moves(t, u) /\ Shaped(u)
    BY <1>2, <1>3, MovesShaped
  <2> HIDE DEF u
  <2>3. Moves(u, ArmAckSendTimer(u)) /\ Moves(u, SendBuffer(u))
    BY <2>2, TimersMove, SendBufferMoves
  <2> QED BY <2>1, <2>2, <2>3, MovesTransitive
<1>4. ASSUME NEW t, Shaped(t) PROVE Moves(t, OutOfSequence(t, p))
  <2> DEFINE v == IF p.seqn \in Seqns(t.saved) THEN t.saved ELSE t.saved \cup {p}
             x == [t EXCEPT !.saved = v]
             u == IF t.ackScheduled THEN StopAckSend(x) ELSE x
  <2>1. OutOfSequence(t, p) \in {ArmAckSendTimer(x), SendQuickAck(u)}
    BY DEF OutOfSequence
  <2> HIDE DEF v
  <2>2. Moves(t, x)
    BY <1>4 DEF Shaped, Moves
  <2> HIDE DEF x
  <2>3. Shaped(x)
    BY <1>4, <2>2, MovesShaped
  <2>4. Moves(x, u) /\ Moves(x, ArmAckSendTimer(x))
    BY <2>3, TimersMove
  <2> HIDE DEF u
  <2>5. Moves(u, SendQuickAck(u))
    BY <2>3, <2>4, MovesShaped, HandlersMove
  <2>6. Moves(t, ArmAckSendTimer(x)) /\ Moves(t, SendQuickAck(u))
    BY <2>2, <2>4, <2>5, MovesTransitive
  <2> QED BY <2>1, <2>6
<1> DEFINE t == [s EXCEPT !.established = TRUE]
           u == IF p.noAck THEN t ELSE ProcessAck(t, p, grow)
<1>5. HandleNextPacket(s, p, grow) = u
        \/ HandleNextPacket(s, p, grow) = NextInSequence(u, p)
        \/ HandleNextPacket(s, p, grow) = SendQuickAck(u)
        \/ HandleNextPacket(s, p, grow) = OutOfSequence(u, p)
  BY DEF HandleNextPacket
<1>6. Moves(s, t)
  BY DEF Shaped, Moves
<1> HIDE DEF t
<1>7. Moves(t, u)
  BY <1>6, MovesShaped, ProcessAckMoves, TimersMove
<1> HIDE DEF u
<1>8. Moves(s, u) /\ Shaped(u)
  BY <1>6, <1>7, MovesTransitive, MovesShaped
<1>9. Moves(u, NextInSequence(u, p)) /\ Moves(u, SendQuickAck(u)) /\ Moves(u, OutOfSequence(u, p))
  BY <1>3, <1>4, <1>8, HandlersMove
<1>10. /\ Moves(s, NextInSequence(u, p)) /\ Moves(s, SendQuickAck(u))
       /\ Moves(s, OutOfSequence(u, p))
  BY <1>8, <1>9, MovesTransitive
<1> QED BY <1>5, <1>8, <1>10

----------------------------------------------------------------------------
(* Actions, and the step from one stream to both.                            *)

\* A handler is queued: behind a unit written, SendBuffer, and behind an expired resend
\* timer, HandleResendTimer.
LEMMA PostAlive ==
  ASSUME NEW s \in StreamStates, NEW o, NEW Y, Alive(s, o, Y),
         NEW h \in Handlers \ {"SendPacket"}, NEW t, t.ready = Append(s.ready, Job(h)),
         t.seqn = s.seqn, t.sent = s.sent, t.wire = s.wire, t.log = s.log,
         t.lastReceived = s.lastReceived, t.saved = s.saved,
         t.window = s.window, t.status = s.status, t.attached = s.attached,
         t.established = s.established, t.taken = s.taken,
         s.closeAsked => t.closeAsked /\ t.written = s.written,
         t.written = s.written \/ h = "SendBuffer",
         t.resendArmed = s.resendArmed \/ h = "HandleResendTimer"
  PROVE  Alive(t, o, Y)
<1> DEFINE j == Job(h)
<1>1. j \in Jobs /\ j.run = h
  BY JobType DEF Job
<1> HIDE DEF j
<1>2. t.ready = Append(s.ready, j)
  BY DEF j
<1>3. PostedPackets(t) = PostedPackets(s) \cup {}
  BY <1>1, <1>2, PostedAppend
<1>4. (\A x : Queued(s, x) => Queued(t, x)) /\ Queued(t, h)
  BY <1>1, <1>2, AppendQueued
<1>5. Outgoing(t) = Outgoing(s)
  BY <1>3 DEF Outgoing
<1>6. Settled(t, o, Y)
  <2>1. Reads(t, o.wire) /\ EmptyOnes(t, Y)
    BY <1>3 DEF Alive, Settled, Reads, EmptyOnes
  <2>2. Ended(t, o)
    BY DEF Alive, Settled, Ended, FinSeen, Delivered, BufferIsEmpty
  <2>3. (Y = {} => Calls(t)) /\ (Y # {} => Replies(t, o))
    BY <1>5 DEF Alive, Settled, Calls, Replies
  <2> QED BY <2>1, <2>2, <2>3 DEF Alive, Settled
<1>7. Timed(t)
  BY <1>4 DEF Alive, Timed
<1>8. Flushed(t)
  BY <1>4 DEF Alive, Flushed, BufferIsEmpty, Room
<1> QED BY <1>6, <1>7, <1>8 DEF Alive

\* The SYN of the outgoing end is answered by a SYN with an empty payload, which
\* acknowledges packet 0.
LEMMA SynAnswered ==
  ASSUME NEW o, NEW L \in Seq(Nat), Len(L) = o.seqn, o.status # "New",
         NEW p, p \in o.wire, p \in Packets, Fits(L, p), p.seqn = 0, p.syn, p.noAck, ~p.fin
  PROVE  Alive(HandleNextPacket(NewStream("New"), p, FALSE), o, {0})
<1> DEFINE n == NewStream("New")
           t == [n EXCEPT !.established = TRUE]
           packets == t.saved \cup {p}
           g == NextGap(t, packets)
           h == GotBefore(t, packets, g)
           v == {q \in t.saved : q.seqn >= g}
           x == [t EXCEPT !.lastReceived = g - 1, !.saved = v, !.got = h]
           fins == {q.seqn : q \in {r \in packets : r.fin /\ r.seqn < g}}
           y == [x EXCEPT !.ackScheduled = FALSE]
           w == TakeFromBuffer(y)
           B == BufferPackets(y)
           z == [SendPackets(w, B) EXCEPT !.sent = @ \cup B]
           u == [z EXCEPT !.resendArmed = TRUE]
           H == HandleNextPacket(n, p, FALSE)
           Fields == {"status", "seqn", "sent", "wire", "written", "taken", "window", "log",
                      "ready", "saved", "ackArmed", "ackScheduled", "resendArmed",
                      "established", "attached", "lastReceived", "got"}
           Fresh(s) ==
             /\ Fields \subseteq DOMAIN s
             /\ s.status = "New" /\ s.seqn = 0 /\ s.sent = {} /\ s.wire = {}
             /\ s.written = 0 /\ s.taken = 0 /\ s.window = MinWindow /\ s.log = << >>
             /\ s.ready = << >> /\ s.saved = {} /\ ~s.ackArmed
<1>1. Fresh(n) /\ n.lastReceived = -1
  BY DEF NewStream
<1>2. Good(n, L) /\ n \in StreamStates /\ n.taken <= n.written
  BY NewStreamGood, GoodTaken DEF Statuses
<1> HIDE DEF n
<1>3. Fresh(t) /\ t.lastReceived = -1 /\ t.established /\ t \in StreamStates
  BY <1>1, <1>2 DEF StreamStates
<1>4. Good(t, L)
  <2>1. /\ t.log = n.log /\ t.seqn = n.seqn /\ t.taken = n.taken /\ t.written = n.written
        /\ t.got = n.got /\ t.lastReceived = n.lastReceived /\ t.saved = n.saved
        /\ t.sent = n.sent /\ t.wire = n.wire /\ t.ready = n.ready
    BY <1>1
  <2> HIDE DEF t, Fresh
  <2> QED BY <1>2, <1>3, <2>1, FieldsQuiet, QuietSends DEF Sends
<1>5. ~PlainAck(p) /\ H = NextInSequence(t, p)
  <2>1. ~PlainAck(p)
    BY DEF PlainAck
  <2> HIDE DEF t, Fresh
  <2>2. H = NextInSequence(t, p)
    BY <1>3, <2>1 DEF HandleNextPacket, t
  <2> QED BY <2>1, <2>2
<1> HIDE DEF t
<1>6. packets = t.saved \cup {p} /\ packets = {p}
  BY <1>3
<1> HIDE DEF packets
<1>7. g = 1
  <2>1. NextFor(t, L, p)
    BY <1>3, <1>5 DEF NextFor
  <2>2. g \in Nat /\ g > 0 /\ 0 .. (g - 1) \subseteq Seqns(packets)
    BY <1>3, <1>4, <1>6, <2>1, NextGapFits
  <2>3. Seqns(packets) = {0}
    BY <1>6 DEF Seqns
  <2> HIDE DEF g
  <2>4. g - 1 \in 0 .. (g - 1)
    BY <2>2
  <2> QED BY <2>2, <2>3, <2>4
<1>8. ProcessPackets(t, p) = x
  <2>1. ProcessPackets(t, p) = ProcessFins(x, fins)
    BY DEF ProcessPackets, GotBefore, packets
  <2>2. fins = {}
    BY <1>6
  <2> HIDE DEF fins, x
  <2> QED BY <2>1, <2>2 DEF ProcessFins
<1> HIDE DEF g, h
<1>9. v = {}
  BY <1>3
<1>10. Fresh(x) /\ x.lastReceived = 0 /\ x.established
  <2> HIDE DEF v
  <2> QED BY <1>3, <1>7, <1>9
<1> HIDE DEF x
<1>11. H = SendBuffer(x)
  <2> HIDE DEF H
  <2> QED BY <1>5, <1>8, <1>10 DEF NextInSequence
<1>12. StopAckSend(x) = y /\ Fresh(y) /\ y.lastReceived = 0 /\ y.established
  BY <1>10 DEF StopAckSend, CancelAckSendTimer
<1> HIDE DEF y
<1>13. Cardinality({}) = 0 /\ MinWindow \in Nat /\ MinWindow > 0
  BY FS_EmptySet, WindowAssumption
<1>14. Room(x) > 0 /\ NumToSend(x) = 1 /\ NumToSend(y) = 1
  BY <1>10, <1>12, <1>13 DEF Room, NumToSend, Pending
<1>15. PayloadAt(y, 0) = 0
  BY <1>12 DEF PayloadAt
<1>16. /\ DOMAIN w = DOMAIN y /\ w.status = "Open" /\ w.seqn = 1 /\ w.taken = 0
       /\ w.sent = {} /\ w.wire = {} /\ w.written = 0 /\ w.window = MinWindow
       /\ w.ready = << >> /\ w.saved = {} /\ w.lastReceived = 0 /\ w.established
       /\ w.log[1] = 0
  <2> DEFINE f == [i \in 1 .. (Len(y.log) + 1) |->
                     IF i <= Len(y.log) THEN y.log[i] ELSE PayloadAt(y, i - 1)]
             status == IF y.status = "New" THEN "Open" ELSE y.status
             taken == Least(y.taken + 1, y.written)
  <2>1. w = [y EXCEPT !.status = status, !.seqn = @ + 1, !.taken = taken, !.log = f]
    BY <1>14 DEF TakeFromBuffer
  <2>2. f[1] = 0
    BY <1>12, <1>15
  <2>3. status = "Open" /\ taken = 0
    BY <1>12 DEF Least
  <2> HIDE DEF f, status, taken
  <2> QED BY <1>12, <2>1, <2>2, <2>3
<1> HIDE DEF w
<1>17. B = {BufferPacket(y, 0)}
  <2>1. \A i : i \in y.seqn .. (y.seqn + NumToSend(y) - 1) <=> i = 0
    BY <1>12, <1>14
  <2> QED BY <2>1 DEF BufferPackets
<1>18. \A q \in B : q.seqn = 0 /\ ~q.noAck /\ q.ackThrough = 0 /\ q.nacks = {}
  <2>1. y.lastReceived = 0
    BY <1>12
  <2> HIDE DEF y, B, Fresh
  <2> DEFINE k == BufferPacket(y, 0)
  <2>2. /\ k.seqn = 0 /\ k.nacks = {}
        /\ k.noAck = ((y.status = "New" /\ 0 = y.seqn) /\ y.lastReceived < 0)
        /\ k.ackThrough = IF y.lastReceived < 0 THEN 0 ELSE y.lastReceived
    BY DEF BufferPacket
  <2> HIDE DEF k
  <2>3. k.seqn = 0 /\ ~k.noAck /\ k.ackThrough = 0 /\ k.nacks = {}
    <3>1. ~(y.lastReceived < 0)
      BY <2>1
    <3>2. ~k.noAck
      BY <2>2, <3>1
    <3>3. k.ackThrough = 0
      BY <2>1, <2>2, <3>1
    <3> QED BY <2>2, <3>2, <3>3
  <2> QED BY <1>17, <2>3 DEF k
<1> HIDE DEF B
<1>19. SendAndTrack(w, B) = u
  BY <1>12, <1>16 DEF SendAndTrack, ScheduleResend, SendPackets
<1>20. /\ u.status = "Open" /\ u.seqn = 1 /\ u.taken = 0 /\ u.sent = B /\ u.wire = B
       /\ u.written = 0 /\ u.window = MinWindow /\ u.ready = << >> /\ u.saved = {}
       /\ u.lastReceived = 0 /\ u.established /\ u.log[1] = 0 /\ u.resendArmed
  <2> DEFINE a == SendPackets(w, B)
  <2>1. /\ DOMAIN a = DOMAIN y /\ a.status = "Open" /\ a.seqn = 1 /\ a.taken = 0
        /\ a.sent = {} /\ a.wire = B /\ a.written = 0 /\ a.window = MinWindow
        /\ a.ready = << >> /\ a.saved = {} /\ a.lastReceived = 0 /\ a.established
        /\ a.log[1] = 0
    BY <1>12, <1>16 DEF SendPackets
  <2> HIDE DEF a
  <2> DEFINE b == [a EXCEPT !.sent = @ \cup B]
  <2>2. u = [b EXCEPT !.resendArmed = TRUE]
    BY DEF a
  <2>3. /\ DOMAIN b = DOMAIN y /\ b.status = "Open" /\ b.seqn = 1 /\ b.taken = 0
        /\ b.sent = B /\ b.wire = B /\ b.written = 0 /\ b.window = MinWindow
        /\ b.ready = << >> /\ b.saved = {} /\ b.lastReceived = 0 /\ b.established
        /\ b.log[1] = 0
    BY <1>12, <2>1
  <2> HIDE DEF b
  <2> QED BY <1>12, <2>2, <2>3
<1> HIDE DEF u
<1>21. H = u
  <2>1. x.saved = {} /\ StopAckSend(x) = y /\ Room(x) = MinWindow
    BY <1>10, <1>12, <1>13 DEF Room
  <2>2. ~(Room(x) <= 0 \/ NumToSend(x) = 0)
    BY <1>13, <1>14, <2>1
  <2>3. SendAndTrack(TakeFromBuffer(y), BufferPackets(y)) = u
    BY <1>19 DEF w, B
  <2> HIDE DEF Fresh
  <2>4. SendBuffer(x) = IF u.status = "Closing" /\ BufferIsEmpty(u) THEN SendClose(u) ELSE u
    BY <2>1, <2>2, <2>3 DEF SendBuffer
  <2> QED BY <1>11, <1>20, <2>4
<1>22. PostedPackets(u) = {}
  BY <1>20 DEF PostedPackets
<1>23. Outgoing(u) = B
  BY <1>20, <1>22 DEF Outgoing
<1>24. Reads(u, o.wire)
  <2>1. \A m \in 0 .. 0 : m = p.seqn
    OBVIOUS
  <2> QED BY <1>5, <1>20, <2>1 DEF Reads
<1>25. EmptyOnes(u, {0})
  BY <1>18, <1>20, <1>22 DEF EmptyOnes
<1>26. Replies(u, o)
  <2>1. 0 \in 0 .. o.seqn
    OBVIOUS
  <2> QED BY <1>18, <1>20, <1>23, <2>1 DEF Replies, Answers
<1>27. u.window >= MinWindow /\ Ended(u, o) /\ Timed(u) /\ Flushed(u)
  BY <1>13, <1>20 DEF Ended, Timed, Flushed, BufferIsEmpty
<1>28. Alive(u, o, {0})
  BY <1>24, <1>25, <1>26, <1>27 DEF Alive, Settled
<1> QED BY <1>21, <1>28 DEF H, n

\* The peer of the end that steps relies on no more than it did.
LEMMA PeerAlive ==
  ASSUME NEW s, NEW t, NEW o, NEW Y, Alive(o, s, Y), Grows(s, t), Moves(s, t),
         s.seqn \in Nat, t.seqn \in Nat, s.seqn <= t.seqn, o.seqn \in Nat
  PROVE  Alive(o, t, Y)
<1>1. Reads(o, t.wire) /\ (FinSeen(o, s.wire) => FinSeen(o, t.wire))
  BY DEF Alive, Settled, Reads, FinSeen, Moves
<1>2. Delivered(o, s) => Delivered(o, t)
  BY DEF Delivered, Grows
<1>3. Ended(o, t)
  BY <1>1, <1>2 DEF Alive, Settled, Ended
<1>4. Replies(o, s) => Replies(o, t)
  <2>1. \A k \in 0 .. s.seqn : k \in 0 .. t.seqn
    OBVIOUS
  <2>2. \A p : Answers(p, s.seqn) => Answers(p, t.seqn)
    BY <2>1 DEF Answers
  <2> QED BY <2>2 DEF Replies, Moves
<1> QED BY <1>1, <1>3, <1>4 DEF Alive, Settled

LEMMA AliveFacts ==
  ASSUME AliveInv, NEW e \in Ends
  PROVE  LET s == stream[e]
             o == stream[Peer(e)]
             Y == Excused(Peer(e))
         IN  /\ Y \in SUBSET {0}
             /\ Alive(s, o, Y) \/ s = NewStream("None")
             /\ Len(o.log) = o.seqn /\ o.seqn \in Nat /\ o \in StreamStates
             /\ o.wire \subseteq Packets
             /\ \A p \in o.wire : s # NewStream("None") =>
                  s.status # "New" /\ (Y = {} => Answers(p, s.seqn))
<1> DEFINE s == stream[e]
           f == Peer(e)
           o == stream[f]
           Y == Excused(f)
<1>1. f \in Ends /\ Peer(f) = e
  BY EndsFacts
<1>2. Good(o, s.log) /\ o \in StreamStates
  BY <1>1 DEF AliveInv, AckInv, IInv
<1>3. /\ Alive(s, o, Y) \/ s = NewStream("None")
      /\ Alive(o, s, Excused(e)) \/ o = NewStream("None")
  BY <1>1 DEF AliveInv
<1>4. Y = {0} \/ (Y = {} /\ Excused(e) = {0})
  BY <1>1 DEF Excused, Peer, Ends
<1> HIDE DEF s, o, f, Y
<1>5. Len(o.log) = o.seqn /\ o.seqn \in Nat /\ o.wire \subseteq Packets
  BY <1>2 DEF Good, SenderGood, StreamStates
<1>6. ASSUME NEW p \in o.wire, s # NewStream("None")
      PROVE  s.status # "New" /\ (Y = {} => Answers(p, s.seqn))
  <2>1. CASE Y = {0}
    BY <1>3, <1>6, <2>1 DEF Alive, Settled, Replies
  <2>2. CASE Y = {} /\ Excused(e) = {0}
    <3>1. o # NewStream("None")
      <4> SUFFICES ASSUME o = NewStream("None") PROVE FALSE
        OBVIOUS
      <4>1. o.wire = {}
        BY DEF NewStream
      <4> QED BY <4>1
    <3>2. Replies(o, s)
      BY <1>3, <2>2, <3>1 DEF Alive, Settled
    <3> QED BY <3>2 DEF Replies, Outgoing
  <2> QED BY <1>4, <2>1, <2>2
<1>7. Y \in SUBSET {0}
  BY <1>4
<1> QED BY <1>2, <1>3, <1>5, <1>6, <1>7 DEF s, o, f, Y

\* What a step does to the stream of the end that takes it.
Lives(e, t) ==
  Step(e, t) /\ Alive(t, stream[Peer(e)], Excused(Peer(e))) /\ Moves(stream[e], t)

LEMMA StartedLives ==
  ASSUME AliveInv, NEW e \in Ends,
         \/ AsyncSend(e) \/ Connect(e) \/ AsyncClose(e) \/ ReceivePacket(e)
         \/ AckSendTimerExpires(e) \/ ResendTimerExpires(e)
         \/ Run(e) \/ SendUpdatedLeaseSet(e)
  PROVE  \E t : Lives(e, t)
<1> DEFINE s == stream[e]
           o == stream[Peer(e)]
           L == o.log
           X == Excused(e)
           Y == Excused(Peer(e))
           u == Taken(e)
<1>1. /\ Good(s, L) /\ L \in Seq(Nat) /\ s \in StreamStates
      /\ Tracks(s, o, X, Y) \/ s = NewStream("None")
      /\ FewMissing(s, Len(L))
      /\ \A p \in o.wire : p \in Packets /\ Fits(L, p) /\ (p.noAck \/ Heard(p, o, Y))
  BY EndFacts DEF AliveInv
<1>2. /\ Y \in SUBSET {0} /\ Len(L) = o.seqn /\ o.wire \subseteq Packets
      /\ Alive(s, o, Y) \/ s = NewStream("None")
      /\ \A p \in o.wire : s # NewStream("None") =>
           s.status # "New" /\ (Y = {} => Answers(p, s.seqn))
  BY AliveFacts
<1>3. s # NewStream("None")
  <2> SUFFICES ASSUME s = NewStream("None") PROVE FALSE
    OBVIOUS
  <2> DEFINE n == NewStream("None")
  <2>1. /\ n.status = "None" /\ ~n.attached /\ n.ready = << >>
        /\ ~n.ackArmed /\ ~n.resendArmed
    BY DEF NewStream
  <2>2. s = n
    OBVIOUS
  <2> HIDE DEF s, n
  <2>3. /\ s.status = "None" /\ ~s.attached /\ s.ready = << >>
        /\ ~s.ackArmed /\ ~s.resendArmed
    BY <2>1, <2>2
  <2> QED BY <2>3
        DEF AsyncSend, Connect, AsyncClose, ReceivePacket, AckSendTimerExpires,
            ResendTimerExpires, Run, RunSendBuffer, RunClose, RunSendPacket, RunAckSendTimer,
            RunAbortedAckSendTimer, RunResendTimer, NextJobIs, SendUpdatedLeaseSet, s
<1>4. Tracks(s, o, X, Y) /\ Alive(s, o, Y) /\ Shaped(s)
  BY <1>1, <1>2, <1>3 DEF StreamStates, Shaped
<1>5. ASSUME NEW h \in Handlers \ {"SendPacket"}, NEW x \in StreamStates,
             Step(e, Post(x, Job(h))), x.ready = s.ready,
             x.seqn = s.seqn, x.sent = s.sent, x.wire = s.wire, x.log = s.log,
             x.lastReceived = s.lastReceived, x.saved = s.saved,
             x.window = s.window, x.status = s.status, x.attached = s.attached,
             x.established = s.established,
             x.taken = s.taken, s.closeAsked => x.closeAsked /\ x.written = s.written,
             x.written = s.written \/ h = "SendBuffer",
             x.resendArmed = s.resendArmed \/ h = "HandleResendTimer"
      PROVE  Lives(e, Post(x, Job(h)))
  <2> DEFINE t == Post(x, Job(h))
  <2> HIDE DEF s, o, X, Y
  <2>1. /\ t \in StreamStates /\ t.ready = Append(s.ready, Job(h))
        /\ t.seqn = x.seqn /\ t.sent = x.sent /\ t.wire = x.wire
        /\ t.lastReceived = x.lastReceived /\ t.saved = x.saved
        /\ t.window = x.window /\ t.status = x.status /\ t.attached = x.attached
        /\ t.taken = x.taken /\ t.written = x.written /\ t.closeAsked = x.closeAsked
    BY <1>1, <1>5, PostType
  <2>2. Step(e, t)
    BY <1>5
  <2>3. t.log = x.log /\ t.established = x.established /\ t.resendArmed = x.resendArmed
    <3> DEFINE r == Append(x.ready, Job(h))
    <3>1. t = [x EXCEPT !.ready = r]
      BY DEF Post
    <3> HIDE DEF r, t
    <3> QED BY <3>1 DEF StreamStates
  <2> HIDE DEF t
  <2>4. /\ t.seqn = s.seqn /\ t.sent = s.sent /\ t.wire = s.wire /\ t.log = s.log
        /\ t.lastReceived = s.lastReceived /\ t.saved = s.saved
        /\ t.window = s.window /\ t.status = s.status /\ t.attached = s.attached
        /\ t.established = s.established
        /\ t.taken = s.taken /\ (s.closeAsked => t.closeAsked /\ t.written = s.written)
        /\ t.written = s.written \/ h = "SendBuffer"
        /\ t.resendArmed = s.resendArmed \/ h = "HandleResendTimer"
    BY <1>5, <2>1, <2>3
  <2>5. Alive(t, o, Y)
    BY <1>1, <1>4, <2>1, <2>4, PostAlive
  <2>6. Moves(s, t)
    BY <1>1, <2>1, <2>4 DEF Moves, StreamStates
  <2>7. Lives(e, t)
    BY <2>2, <2>5, <2>6 DEF Lives, s, o, Y
  <2> QED BY <2>7 DEF t
<1>6. CASE AsyncSend(e)
  <2> DEFINE x == [s EXCEPT !.written = @ + 1]
  <2>1. Step(e, Post(x, Job("SendBuffer"))) /\ ~s.closeAsked
    BY <1>6 DEF AsyncSend
  <2>2. "SendBuffer" \in Handlers \ {"SendPacket"}
    BY DEF Handlers
  <2>3. /\ x \in StreamStates /\ x.ready = s.ready
        /\ x.seqn = s.seqn /\ x.sent = s.sent /\ x.wire = s.wire /\ x.log = s.log
        /\ x.lastReceived = s.lastReceived /\ x.saved = s.saved
        /\ x.window = s.window /\ x.status = s.status /\ x.attached = s.attached
        /\ x.established = s.established /\ x.taken = s.taken
        /\ x.resendArmed = s.resendArmed
    <3> HIDE DEF s
    <3>1. s.written + 1 \in Nat
      BY <1>1 DEF StreamStates
    <3> QED BY <1>1, <3>1 DEF StreamStates
  <2> HIDE DEF x, s
  <2>4. Lives(e, Post(x, Job("SendBuffer")))
    BY <1>5, <2>1, <2>2, <2>3
  <2> QED BY <2>4
<1>7. CASE Connect(e)
  <2>1. Step(e, Post(s, Job("SendBuffer")))
    BY <1>7 DEF Connect
  <2>2. "SendBuffer" \in Handlers \ {"SendPacket"}
    BY DEF Handlers
  <2> HIDE DEF s
  <2>3. Lives(e, Post(s, Job("SendBuffer")))
    BY <1>1, <1>5, <2>1, <2>2
  <2> QED BY <2>3
<1>8. CASE AsyncClose(e)
  <2> DEFINE x == [s EXCEPT !.closeAsked = TRUE]
  <2>1. Step(e, Post(x, Job("Close")))
    BY <1>8 DEF AsyncClose
  <2>2. "Close" \in Handlers \ {"SendPacket"}
    BY DEF Handlers
  <2>3. /\ x \in StreamStates /\ x.ready = s.ready
        /\ x.seqn = s.seqn /\ x.sent = s.sent /\ x.wire = s.wire /\ x.log = s.log
        /\ x.lastReceived = s.lastReceived /\ x.saved = s.saved
        /\ x.window = s.window /\ x.status = s.status /\ x.attached = s.attached
        /\ x.established = s.established /\ x.taken = s.taken
        /\ x.resendArmed = s.resendArmed /\ x.closeAsked /\ x.written = s.written
    <3> HIDE DEF s
    <3> QED BY <1>1 DEF StreamStates
  <2> HIDE DEF x, s
  <2>4. Lives(e, Post(x, Job("Close")))
    BY <1>5, <2>1, <2>2, <2>3
  <2> QED BY <2>4
<1>9. CASE AckSendTimerExpires(e)
  <2> DEFINE x == [s EXCEPT !.ackArmed = FALSE]
  <2>1. Step(e, Post(x, Job("HandleAckSendTimer")))
    BY <1>9 DEF AckSendTimerExpires
  <2>2. "HandleAckSendTimer" \in Handlers \ {"SendPacket"}
    BY DEF Handlers
  <2>3. /\ x \in StreamStates /\ x.ready = s.ready
        /\ x.seqn = s.seqn /\ x.sent = s.sent /\ x.wire = s.wire /\ x.log = s.log
        /\ x.lastReceived = s.lastReceived /\ x.saved = s.saved
        /\ x.window = s.window /\ x.status = s.status /\ x.attached = s.attached
        /\ x.established = s.established /\ x.taken = s.taken
        /\ x.resendArmed = s.resendArmed
        /\ x.closeAsked = s.closeAsked /\ x.written = s.written
    <3> HIDE DEF s
    <3> QED BY <1>1 DEF StreamStates
  <2> HIDE DEF x, s
  <2>4. Lives(e, Post(x, Job("HandleAckSendTimer")))
    BY <1>5, <2>1, <2>2, <2>3
  <2> QED BY <2>4
<1>10. CASE ResendTimerExpires(e)
  <2> DEFINE x == [s EXCEPT !.resendArmed = FALSE]
  <2>1. Step(e, Post(x, Job("HandleResendTimer")))
    BY <1>10 DEF ResendTimerExpires
  <2>2. "HandleResendTimer" \in Handlers \ {"SendPacket"}
    BY DEF Handlers
  <2>3. /\ x \in StreamStates /\ x.ready = s.ready
        /\ x.seqn = s.seqn /\ x.sent = s.sent /\ x.wire = s.wire /\ x.log = s.log
        /\ x.lastReceived = s.lastReceived /\ x.saved = s.saved
        /\ x.window = s.window /\ x.status = s.status /\ x.attached = s.attached
        /\ x.established = s.established /\ x.taken = s.taken
        /\ x.closeAsked = s.closeAsked /\ x.written = s.written
    <3> HIDE DEF s
    <3> QED BY <1>1 DEF StreamStates
  <2> HIDE DEF x, s
  <2>4. Lives(e, Post(x, Job("HandleResendTimer")))
    BY <1>5, <2>1, <2>2, <2>3
  <2> QED BY <2>4
<1>11. CASE ReceivePacket(e)
  <2>1. PICK p \in o.wire, grow \in BOOLEAN : Step(e, HandleNextPacket(s, p, grow))
    BY <1>11 DEF ReceivePacket
  <2>2. s.attached
    BY <1>11 DEF ReceivePacket
  <2> HIDE DEF s, o, L, X, Y
  <2>3. s.status \notin {"Reset", "New"} /\ (Y = {} => Answers(p, s.seqn))
    BY <1>2, <1>3, <1>4, <2>2 DEF Tracks
  <2> DEFINE t == HandleNextPacket(s, p, grow)
  <2>4. Alive(t, o, Y)
    <3>1. p \in Packets /\ Fits(L, p) /\ (p.noAck \/ Heard(p, o, Y))
      BY <1>1
    <3> QED BY <1>1, <1>2, <1>4, <2>2, <2>3, <3>1, HandleNextPacketAlive
  <2>5. Moves(s, t)
    BY <1>4, HandleNextPacketMoves
  <2> HIDE DEF t
  <2>6. Step(e, t)
    BY <2>1 DEF t
  <2> QED BY <2>4, <2>5, <2>6 DEF Lives, s, o, Y
<1>12. CASE Run(e)
  <2>1. s.ready # << >>
    BY <1>12 DEF Run, RunSendBuffer, RunClose, RunSendPacket, RunAckSendTimer,
                RunAbortedAckSendTimer, RunResendTimer, NextJobIs
  <2>2. u = [s EXCEPT !.ready = Tail(@)]
    BY DEF Taken
  <2>3. \/ RunSendPacket(e)
        \/ Step(e, SendBuffer(u)) /\ Head(s.ready).run = "SendBuffer"
        \/ Step(e, Close(u)) /\ Head(s.ready).run = "Close"
        \/ Step(e, HandleAckSendTimer(u))
             /\ Head(s.ready).run \in {"HandleAckSendTimer", "AbortedAckSendTimer"}
        \/ /\ Head(s.ready).run = "HandleResendTimer"
           /\ \E due \in SUBSET s.sent : Step(e, HandleResendTimer(u, due))
    BY <1>12 DEF Run, RunSendBuffer, RunClose, RunAckSendTimer,
                RunAbortedAckSendTimer, RunResendTimer, NextJobIs
  <2>4. RunSendPacket(e) => /\ Step(e, SendPacket(u, Head(s.ready).packet))
                            /\ Head(s.ready).run = "SendPacket"
    BY DEF RunSendPacket, NextJobIs
  <2> HIDE DEF s, o, L, X, Y, u
  <2>5. Moves(s, u) /\ Shaped(u)
    <3>1. Moves(s, u)
      BY <1>1, <2>2 DEF Moves, StreamStates
    <3> QED BY <1>4, <3>1, MovesShaped
  <2>6. ASSUME NEW t, Step(e, t), Alive(t, o, Y), Moves(u, t) PROVE Lives(e, t)
    <3>1. Moves(s, t)
      BY <2>5, <2>6, MovesTransitive
    <3> QED BY <2>6, <3>1 DEF Lives, s, o, Y
  <2>7. /\ Sends(s, u, L) /\ Good(u, L) /\ Grows(s, u) /\ u \in StreamStates
    BY <1>1, <2>1, <2>2, TakenSends, SendsGrows DEF Sends, Good
  <2>8. /\ Settled(u, o, Y) /\ u.status = s.status
        /\ Head(s.ready).run # "HandleResendTimer" => Timed(u)
        /\ Head(s.ready).run # "SendBuffer" => Flushed(u)
    BY <1>1, <1>4, <2>1, <2>2, TakenAlive
  <2>9. CASE RunSendPacket(e)
    <3> DEFINE t == SendPacket(u, Head(s.ready).packet)
    <3>1. IsFiniteSet(s.sent)
      BY <1>1 DEF Good, SenderGood
    <3>2. Alive(t, o, Y)
      BY <1>1, <1>4, <2>1, <2>2, <2>4, <2>9, <3>1, SendPacketAlive
    <3>3. Moves(u, t) /\ Step(e, t)
      BY <2>4, <2>5, <2>9, HandlersMove
    <3> HIDE DEF t
    <3> QED BY <2>6, <3>2, <3>3
  <2>10. CASE Head(s.ready).run # "SendPacket" /\ ~RunSendPacket(e)
    <3>1. Tracks(u, o, X, Y)
      BY <1>1, <1>4, <2>1, <2>2, <2>10, TakenTracks
    <3>2. /\ u.sent = s.sent /\ u.saved = s.saved /\ u.lastReceived = s.lastReceived
          /\ u.closeAsked = s.closeAsked
      BY <1>1, <2>2 DEF StreamStates
    <3>3. FewMissing(u, Len(L))
      BY <1>1, <3>2 DEF FewMissing, Has
    <3>4. Head(s.ready).run = "Close" => u.closeAsked
      BY <1>1, <1>4, <2>1, <2>2, <3>2, TakenQueue DEF Tracks
    <3>5. CASE Step(e, SendBuffer(u)) /\ Head(s.ready).run = "SendBuffer"
      <4>1. Alive(SendBuffer(u), o, Y)
        BY <1>1, <1>2, <2>7, <2>8, <3>1, <3>5, SendBufferAlive DEF Alive
      <4>2. Moves(u, SendBuffer(u))
        BY <2>5, SendBufferMoves
      <4> QED BY <2>6, <3>5, <4>1, <4>2
    <3>6. CASE Step(e, Close(u)) /\ Head(s.ready).run = "Close"
      <4>1. Keeps(u, Close(u), o, Y) /\ Alive(u, o, Y)
        BY <1>1, <1>2, <2>7, <2>8, <3>1, <3>4, <3>6, CloseAlive DEF Alive
      <4>2. Alive(Close(u), o, Y) /\ Moves(u, Close(u))
        BY <2>5, <4>1, KeepsAlive, CloseMoves
      <4> QED BY <2>6, <3>6, <4>2
    <3>7. CASE /\ Step(e, HandleAckSendTimer(u))
               /\ Head(s.ready).run \in {"HandleAckSendTimer", "AbortedAckSendTimer"}
      <4>1. Keeps(u, HandleAckSendTimer(u), o, Y) /\ Alive(u, o, Y)
        BY <1>1, <1>2, <2>7, <2>8, <3>3, <3>7, HandleAckSendTimerAlive DEF Alive
      <4>2. Alive(HandleAckSendTimer(u), o, Y) /\ Moves(u, HandleAckSendTimer(u))
        BY <2>5, <4>1, KeepsAlive, HandlersMove
      <4> QED BY <2>6, <3>7, <4>2
    <3>8. CASE /\ Head(s.ready).run = "HandleResendTimer"
               /\ \E due \in SUBSET s.sent : Step(e, HandleResendTimer(u, due))
      <4>1. PICK due \in SUBSET u.sent : Step(e, HandleResendTimer(u, due))
        BY <3>2, <3>8
      <4>2. Alive(HandleResendTimer(u, due), o, Y)
        BY <1>1, <2>7, <2>8, <3>8, HandleResendTimerAlive DEF Alive
      <4>3. Moves(u, HandleResendTimer(u, due))
        BY <2>5, HandlersMove
      <4> QED BY <2>6, <4>1, <4>2, <4>3
    <3> QED BY <2>3, <2>10, <3>5, <3>6, <3>7, <3>8
  <2> QED BY <2>3, <2>9, <2>10
<1>13. CASE SendUpdatedLeaseSet(e)
  <2>1. Step(e, SendQuickAck(s))
    BY <1>13 DEF SendUpdatedLeaseSet
  <2> HIDE DEF s, o, L, X, Y
  <2>2. Keeps(s, SendQuickAck(s), o, Y)
    BY <1>1, <1>2, <1>4, SendQuickAckAlive DEF Alive
  <2>3. Alive(SendQuickAck(s), o, Y) /\ Moves(s, SendQuickAck(s))
    BY <1>4, <2>2, KeepsAlive, HandlersMove
  <2> QED BY <2>1, <2>3 DEF Lives, s, o, Y
<1> QED BY <1>6, <1>7, <1>8, <1>9, <1>10, <1>11, <1>12, <1>13

LEMMA ReceiveSynLives ==
  ASSUME AliveInv, NEW e \in Ends, ReceiveSyn(e)
  PROVE  \E t : Lives(e, t)
<1> DEFINE s == stream[e]
           n == NewStream("New")
           f == Peer(e)
           o == stream[f]
           L == o.log
           Y == Excused(f)
<1>1. /\ L \in Seq(Nat) /\ s \in StreamStates
      /\ \A p \in o.wire : /\ p \in Packets /\ Fits(L, p)
                           /\ p.syn => p.seqn = 0
  BY EndFacts DEF AliveInv
<1>2. PICK p \in o.wire : p.syn /\ Step(e, HandleNextPacket(n, p, FALSE))
  BY DEF ReceiveSyn
<1> DEFINE t == HandleNextPacket(n, p, FALSE)
<1>3. s = NewStream("None")
  BY DEF ReceiveSyn
<1>4. /\ s.status = "None" /\ s.seqn = 0 /\ s.wire = {} /\ n.status = "New" /\ n.wire = {}
  BY <1>3 DEF NewStream
<1>5. n \in StreamStates
  BY <1>1, NewStreamGood DEF Statuses, Good
<1>6. f \in Ends /\ Peer(f) = e
  BY EndsFacts
<1>7. o # NewStream("None")
  <2> SUFFICES ASSUME o = NewStream("None") PROVE FALSE
    OBVIOUS
  <2>1. o.wire = {}
    BY DEF NewStream
  <2> QED BY <1>2, <2>1
<1>8. /\ Alive(o, s, Excused(e)) /\ Tracks(o, s, Excused(f), Excused(e))
      /\ Good(o, s.log) /\ Good(s, o.log)
  <2>1. Alive(o, s, Excused(e)) \/ o = NewStream("None")
    BY <1>6 DEF AliveInv
  <2>2. Tracks(o, s, Excused(f), Excused(e)) \/ o = NewStream("None")
    BY <1>6 DEF AliveInv, AckInv
  <2>3. Good(o, s.log) /\ Good(s, o.log)
    BY <1>6 DEF AliveInv, AckInv, IInv
  <2> QED BY <1>7, <2>1, <2>2, <2>3
<1>9. (Y = {0} /\ Excused(e) = {}) \/ (Y = {} /\ Excused(e) = {0})
  BY <1>6 DEF Excused, Peer, Ends
<1> HIDE DEF n, o, s, L, Y, f
<1>10. Y = {0} /\ Excused(e) = {}
  <2> SUFFICES ASSUME Excused(e) = {0} PROVE FALSE
    BY <1>9
  <2>1. o.lastReceived >= 0
    BY <1>8 DEF Alive, Settled, Replies
  <2>2. o.lastReceived < Len(s.log) /\ o.lastReceived \in Int
    BY <1>1, <1>8, SavedBound DEF StreamStates
  <2>3. Len(s.log) = 0
    BY <1>4, <1>8 DEF Good, SenderGood
  <2> QED BY <2>1, <2>2, <2>3
<1>11. p \in Packets /\ Fits(L, p) /\ p.seqn = 0 /\ p.noAck /\ ~p.fin
  <2>1. p \in Outgoing(o)
    BY <1>2 DEF Outgoing
  <2> QED BY <1>1, <1>2, <1>8, <1>10, <2>1 DEF Alive, Settled, Calls
<1>12. Len(L) = o.seqn /\ o.status # "New"
  <2>1. Len(L) = o.seqn
    BY <1>8 DEF Good, SenderGood, L
  <2>2. 0 < Len(L)
    BY <1>2, <1>11 DEF Fits, PlainAck
  <2> QED BY <1>8, <2>1, <2>2 DEF Tracks
<1>13. Alive(t, o, {0})
  BY <1>1, <1>2, <1>11, <1>12, SynAnswered DEF n
<1>14. Moves(n, t)
  <2>1. Shaped(n)
    BY <1>5 DEF Shaped, StreamStates
  <2> QED BY <2>1, HandleNextPacketMoves
<1> HIDE DEF t
<1>15. Moves(s, t)
  <2>1. t.status # "New"
    BY <1>13 DEF Alive, Settled, Replies
  <2>2. DOMAIN s = DOMAIN n
    BY <1>1, <1>5 DEF StreamStates
  <2> QED BY <1>4, <1>14, <2>1, <2>2 DEF Moves
<1>16. Step(e, t)
  BY <1>2 DEF t
<1> QED BY <1>10, <1>13, <1>15, <1>16 DEF Lives, s, o, f, Y

LEMMA NextKeepsAliveInv ==
  ASSUME AliveInv, Next
  PROVE  AliveInv'
<1>1. AckInv /\ AckInv' /\ IInv
  BY NextKeepsAckInv DEF AliveInv, AckInv
<1>2. PICK e \in Ends :
        \/ AsyncSend(e) \/ Connect(e) \/ AsyncClose(e)
        \/ ReceiveSyn(e) \/ ReceivePacket(e)
        \/ AckSendTimerExpires(e) \/ ResendTimerExpires(e)
        \/ Run(e) \/ SendUpdatedLeaseSet(e)
  BY DEF Next
<1>3. PICK t : Lives(e, t)
  BY <1>2, StartedLives, ReceiveSynLives
<1>4. PICK a : Acts(e, a)
  BY <1>1, <1>2, StartedActs, ReceiveSynActs
<1>5. PICK r : /\ Step(e, r)
               /\ \/ Receives(stream[e], r, stream[Peer(e)].log)
                  \/ Writes(stream[e], r, stream[Peer(e)].log)
  BY <1>1, <1>2, NextReceives
<1> DEFINE f == Peer(e)
<1>6. f \in Ends /\ f # e /\ Peer(f) = e /\ \A x \in Ends : x = e \/ x = f
  BY EndsFacts
<1>7. stream \in [Ends -> StreamStates]
  BY <1>1 DEF IInv
<1>8. \A x : Step(e, x) => stream'[e] = x /\ stream'[f] = stream[f]
  BY <1>6, <1>7 DEF Step
<1>9. t = stream'[e] /\ a = t /\ r = t /\ stream'[f] = stream[f]
  BY <1>3, <1>4, <1>5, <1>8 DEF Lives, Acts
<1>10. /\ Alive(t, stream[f], Excused(f)) /\ Moves(stream[e], t) /\ Grows(stream[e], t)
  BY <1>3, <1>4, <1>9 DEF Lives, Acts
<1>11. /\ stream[e].seqn \in Nat /\ t.seqn \in Nat /\ stream[e].seqn <= t.seqn
       /\ stream[f].seqn \in Nat
  <2>1. Good(t, stream[f].log) /\ Prefix(stream[e].log, t.log)
    BY <1>5, <1>9 DEF Receives, Writes
  <2>2. Good(stream[e], stream[f].log)
    BY <1>1 DEF IInv
  <2>3. stream[e].seqn \in Nat /\ stream[f].seqn \in Nat
    BY <1>6, <1>7 DEF StreamStates
  <2> HIDE DEF f
  <2>4. Len(t.log) = t.seqn /\ t.seqn \in Nat /\ Len(stream[e].log) = stream[e].seqn
    BY <2>1, <2>2 DEF Good, SenderGood, StreamStates
  <2> QED BY <2>1, <2>3, <2>4 DEF Prefix
<1>12. \/ Alive(stream[f], t, Excused(e))
       \/ f = "incoming" /\ stream[f] = NewStream("None")
  <2>1. \/ Alive(stream[f], stream[e], Excused(e))
        \/ f = "incoming" /\ stream[f] = NewStream("None")
    BY <1>6 DEF AliveInv
  <2> HIDE DEF f
  <2>2. ASSUME Alive(stream[f], stream[e], Excused(e)) PROVE Alive(stream[f], t, Excused(e))
    BY <1>10, <1>11, <2>2, PeerAlive
  <2> QED BY <2>1, <2>2
<1>13. ASSUME NEW x \in Ends
       PROVE  \/ Alive(stream'[x], stream'[Peer(x)], Excused(Peer(x)))
              \/ x = "incoming" /\ stream'[x] = NewStream("None")
  <2>1. Peer(e) = f
    OBVIOUS
  <2> HIDE DEF f
  <2>2. CASE x = e
    BY <1>9, <1>10, <2>1, <2>2
  <2>3. CASE x = f
    BY <1>6, <1>9, <1>12, <2>3
  <2> QED BY <1>6, <2>2, <2>3
<1> QED BY <1>1, <1>13 DEF AliveInv

LEMMA InitAliveInv == Init => AliveInv
<1> SUFFICES ASSUME Init PROVE AliveInv
  OBVIOUS
<1> DEFINE s == NewStream("New")
           o == NewStream("None")
<1>1. stream["outgoing"] = s /\ stream["incoming"] = o
  BY DEF Init, Ends
<1>2. /\ s.status = "New" /\ s.lastReceived = -1 /\ s.saved = {} /\ s.sent = {} /\ s.wire = {}
      /\ s.ready = << >> /\ ~s.established /\ s.window = MinWindow
  BY DEF NewStream
<1>3. Peer("outgoing") = "incoming" /\ Excused("incoming") = {}
  BY DEF Peer, Excused
<1> HIDE DEF s, o
<1>4. PostedPackets(s) = {} /\ Outgoing(s) = {}
  BY <1>2 DEF PostedPackets, Outgoing
<1>5. s.window >= MinWindow /\ Reads(s, o.wire) /\ EmptyOnes(s, {}) /\ Ended(s, o) /\ Calls(s)
  <2>1. MinWindow \in Nat
    BY WindowAssumption
  <2>2. Reads(s, o.wire)
    BY <1>2 DEF Reads
  <2>3. EmptyOnes(s, {}) /\ Ended(s, o) /\ Calls(s)
    BY <1>2, <1>4 DEF EmptyOnes, Ended, Calls
  <2> QED BY <1>2, <2>1, <2>2, <2>3
<1>6. Timed(s) /\ Flushed(s)
  BY <1>2 DEF Timed, Flushed
<1>7. Alive(s, o, {})
  BY <1>5, <1>6 DEF Alive, Settled
<1>8. \A e \in Ends : e = "outgoing" \/ e = "incoming"
  BY DEF Ends
<1>9. AckInv
  BY InitAckInv
<1>10. Alive(stream["outgoing"], stream[Peer("outgoing")], Excused(Peer("outgoing")))
  BY <1>1, <1>3, <1>7
<1> QED BY <1>1, <1>8, <1>9, <1>10 DEF AliveInv, o

LEMMA AliveInvHolds == Spec => []AliveInv
<1>1. AliveInv /\ [Next]_stream => AliveInv'
  <2>1. CASE Next
    BY <2>1, NextKeepsAliveInv
  <2>2. CASE UNCHANGED stream
    BY <2>2 DEF AliveInv, AckInv, IInv
  <2> QED BY <2>1, <2>2
<1> QED BY <1>1, InitAliveInv, PTL DEF Spec

----------------------------------------------------------------------------
(* The theorems.                                                             *)

\* A live stream never waits for an acknowledgement without a timer, and never for the
\* application or the peer with data it could send: whichever handlers are queued, and
\* wherever the window stands.
THEOREM NeverStuck == Spec => []NothingIsStuck
<1>1. ASSUME AliveInv, NEW e \in Ends PROVE Timed(stream[e]) /\ Flushed(stream[e])
  <2>1. CASE Alive(stream[e], stream[Peer(e)], Excused(Peer(e)))
    BY <2>1 DEF Alive
  <2>2. CASE stream[e] = NewStream("None")
    <3> DEFINE n == NewStream("None")
    <3>1. ~n.attached
      BY DEF NewStream
    <3> HIDE DEF n
    <3>2. Timed(n) /\ Flushed(n)
      BY <3>1 DEF Timed, Flushed
    <3> QED BY <2>2, <3>2 DEF n
  <2> QED BY <1>1, <2>1, <2>2 DEF AliveInv
<1>2. AliveInv => NothingIsStuck
  BY <1>1 DEF NothingIsStuck, UnackedIsTimed, NoLostWakeup, Timed, Flushed, Queued
<1> QED BY <1>2, AliveInvHolds, PTL

\* A stream that closes on its own account has got everything across that its
\* application wrote.
THEOREM ClosedAfterDelivery == Spec => []GracefulCloseDeliversAll
<1>1. ASSUME AliveInv, NEW e \in Ends, stream[e].status = "Closed", ~FinProcessed(e),
             NEW n \in 1 .. stream[e].written
      PROVE  \E p \in stream[e].wire : p.data = n /\ Has(stream[Peer(e)], p.seqn)
  <2> DEFINE s == stream[e]
             f == Peer(e)
             o == stream[f]
  <2>1. f \in Ends /\ Peer(f) = e
    BY EndsFacts
  <2>2. /\ Good(s, o.log) /\ Good(o, s.log) /\ s \in StreamStates /\ o \in StreamStates
    BY <1>1, <2>1 DEF AliveInv, AckInv, IInv
  <2>3. s # NewStream("None")
    BY <1>1 DEF NewStream
  <2>4. /\ Alive(s, o, Excused(f))
        /\ Alive(o, s, Excused(e)) \/ o = NewStream("None")
    BY <1>1, <2>1, <2>3 DEF AliveInv
  <2>5. ~FinSeen(s, o.wire)
    BY <1>1 DEF FinProcessed, FinSeen
  <2> HIDE DEF s, o, f
  <2>6. Delivered(s, o)
    BY <1>1, <2>4, <2>5 DEF Alive, Settled, Ended, s
  <2>7. n \in 1 .. s.taken /\ s.log \in Seq(Nat) /\ Len(s.log) = s.seqn /\ s.seqn \in Nat
    BY <1>1, <2>2, <2>6 DEF Delivered, BufferIsEmpty, StreamStates, Good, SenderGood, s
  <2>8. PICK j \in 1 .. Len(s.log) : s.log[j] = n
    BY <2>2, <2>7 DEF Good, SenderGood, LogInOrder
  <2>9. j - 1 \in 0 .. (s.seqn - 1) /\ (j - 1) + 1 = j /\ n # 0
    BY <2>7
  <2>10. Has(o, j - 1)
    BY <2>6, <2>8, <2>9 DEF Delivered
  <2>11. Reads(o, s.wire)
    <3>1. CASE o = NewStream("None")
      <4>1. o.saved = {} /\ o.lastReceived = -1
        BY <3>1 DEF NewStream
      <4> QED BY <4>1 DEF Reads
    <3> QED BY <2>4, <3>1 DEF Alive, Settled
  <2>12. PICK p \in s.wire : p.seqn = j - 1 /\ ~PlainAck(p)
    <3>1. CASE j - 1 <= o.lastReceived
      <4>1. j - 1 \in 0 .. o.lastReceived
        BY <2>2, <2>9, <3>1 DEF StreamStates
      <4> QED BY <2>11, <4>1 DEF Reads
    <3>2. CASE j - 1 \in Seqns(o.saved)
      <4>1. PICK q \in o.saved : q.seqn = j - 1
        BY <3>2 DEF Seqns
      <4>2. ~PlainAck(q) /\ q \in s.wire
        BY <2>2, <2>11 DEF Good, ReceiverGood, Reads
      <4> QED BY <4>1, <4>2
    <3> QED BY <2>10, <3>1, <3>2 DEF Has
  <2>13. p.data = s.log[j]
    <3>1. Fits(s.log, p)
      BY <2>2 DEF Good, SenderGood, Outgoing
    <3> QED BY <2>9, <2>12, <3>1 DEF Fits
  <2>14. p.data = n /\ Has(o, p.seqn)
    BY <2>8, <2>10, <2>12, <2>13
  <2> QED BY <2>14 DEF s, o, f
<1>2. AliveInv => GracefulCloseDeliversAll
  BY <1>1 DEF GracefulCloseDeliversAll
<1> QED BY <1>2, AliveInvHolds, PTL

=============================================================================
