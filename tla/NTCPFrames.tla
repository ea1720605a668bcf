------------------------------- MODULE NTCPFrames -------------------------------
(***************************************************************************)
(* Messages over an established NTCP session (NTCPSession in                 *)
(* libdotnet/NTCPSession.cpp): batches are posted to the server's thread,     *)
(* queued while a write is in progress and framed in blocks of 16 bytes; the  *)
(* other side reads what TCP happens to deliver, decrypts whole blocks and    *)
(* keeps the rest.                                                          *)
(*                                                                         *)
(* Blocks that are taken in order are decrypted right.  A frame is            *)
(* [msg, len]; msg 0 is the time, which has 4 bytes and 0 in the size field.  *)
(***************************************************************************)
EXTENDS Integers, Sequences, SequencesExt

CONSTANTS
  Lengths,      \* of messages
  Reads,        \* how many bytes a read may return
  BufferSize,   \* NTCP_BUFFER_SIZE
  MaxLength,    \* the longest message that the receiver takes
  MaxQueue,     \* NTCP_MAX_OUTGOING_QUEUE_SIZE
  MaxMessages   \* bound on the messages

VARIABLES
  messages,   \* history: what has been handed over, in order
  posted,     \* batches that SendDNNPMessages has posted
  sender,     \* sending: the frames of the write in progress; queue: m_SendQueue
  stream,     \* the frames that have been written to the socket
  receiver    \* see ReceiverInit

vars == <<messages, posted, sender, stream, receiver>>

BlockSize == 16
Blank == [msg |-> -1, len |-> 0]
TimeSync == [msg |-> 0, len |-> 4]

----------------------------------------------------------------------------
(* The sender.                                                              *)

\* CreateMsgBuffer: size field, data, padding and checksum.
Padding_Broken(len) == IF len % BlockSize > 0 THEN BlockSize - (len % BlockSize) ELSE 0   \* of the data
Padding(len) == IF (len + 6) % BlockSize > 0 THEN BlockSize - ((len + 6) % BlockSize) ELSE 0
FrameSize(frame) == frame.len + 6 + Padding(frame.len)

SendDNNPMessages(batch) ==
  /\ Len(messages) + Len(batch) <= MaxMessages
  /\ LET new == [n \in DOMAIN batch |-> [msg |-> Len(messages) + n, len |-> batch[n]]]
     IN  messages' = messages \o new /\ posted' = Append(posted, new)
  /\ UNCHANGED <<sender, stream, receiver>>

PostDNNPMessages ==
  /\ posted # <<>> /\ posted' = Tail(posted)
  /\ sender' = CASE sender.terminated -> sender
                 [] ~sender.terminated /\ sender.sending = <<>> -> [sender EXCEPT !.sending = Head(posted)]
                 [] OTHER -> IF Len(sender.queue) < MaxQueue THEN [sender EXCEPT !.queue = @ \o Head(posted)]
                             ELSE [sender EXCEPT !.terminated = TRUE, !.queue = <<>>]
  /\ UNCHANGED <<messages, stream, receiver>>

\* The write is complete: what has been queued meanwhile is next.
NextBatch_Broken(queue) == [sending |-> queue, queue |-> queue]   \* the queue is not cleared
NextBatch(queue) == [sending |-> queue, queue |-> <<>>]

HandleSent ==
  /\ sender.sending # <<>> /\ ~sender.terminated
  /\ stream' = stream \o sender.sending
  /\ sender' = [sender EXCEPT !.sending = NextBatch(sender.queue).sending,
                              !.queue = NextBatch(sender.queue).queue]
  /\ UNCHANGED <<messages, posted, receiver>>

----------------------------------------------------------------------------
(* The receiver.  read: bytes taken from the socket, rest: those of them in    *)
(* the buffer that are no whole block yet, next: m_NextMessage, offset: how     *)
(* much of it is there, put: what has gone to m_Handler, in order.             *)
ReceiverInit == [read |-> 0, rest |-> 0, next |-> Blank, offset |-> 0, put |-> <<>>, failed |-> FALSE]

\* The bytes up to and with the first n frames, and the frame that a byte is in.
Bytes(n) == FoldLeft(LAMBDA sum, frame : sum + FrameSize(frame), 0, SubSeq(stream, 1, n))
FrameAt(byte) == CHOOSE n \in DOMAIN stream : Bytes(n - 1) <= byte /\ byte < Bytes(n)

\* DecryptNextBlock, for the block that begins at that byte.  Out of step, it takes data for a
\* size: that is an error at best.
Header(r, byte) ==
  LET n == FrameAt(byte)
      frame == stream[n]
  IN  IF byte # Bytes(n - 1) \/ (frame.msg # 0 /\ frame.len > MaxLength) THEN [r EXCEPT !.failed = TRUE]
      ELSE IF frame.msg = 0 THEN r
      ELSE [r EXCEPT !.next = frame, !.offset = BlockSize]

Complete(r) ==
  IF r.next # Blank /\ r.offset >= r.next.len + 6
    THEN [r EXCEPT !.put = Append(@, r.next), !.next = Blank] ELSE r

DecryptNextBlock(r, byte) ==
  CASE r.failed -> r
    [] ~r.failed /\ r.next = Blank -> Complete(Header(r, byte))
    [] OTHER -> Complete([r EXCEPT !.offset = @ + BlockSize])

\* The loop of HandleReceived over whole blocks; what remains is moved to the front.
Received(r, n) ==
  LET first == r.read - r.rest
      blocks == (r.rest + n) \div BlockSize
      done == FoldLeft(LAMBDA x, i : DecryptNextBlock(x, first + i * BlockSize), r,
                       [i \in 1..blocks |-> i - 1])
  IN  [done EXCEPT !.read = @ + n, !.rest = (r.rest + n) % BlockSize]

\* It reads what fits into the buffer, then all that is available by then, up to that many
\* frames.
HandleReceived ==
  LET there == Bytes(Len(stream)) - receiver.read
  IN  /\ ~receiver.failed
      /\ \E n \in Reads :
           /\ n <= there /\ n <= BufferSize - receiver.rest
           /\ \E more \in {0, there - n} :
                receiver' = IF Received(receiver, n).failed THEN Received(receiver, n)
                            ELSE Received(Received(receiver, n), more)
      /\ UNCHANGED <<messages, posted, sender, stream>>

----------------------------------------------------------------------------
\* Connected has sent the time.
Init ==
  /\ messages = <<>> /\ posted = <<>> /\ stream = <<>> /\ receiver = ReceiverInit
  /\ sender = [sending |-> <<TimeSync>>, queue |-> <<>>, terminated |-> FALSE]

Batches == {<<a>> : a \in Lengths} \cup {<<a, b>> : a, b \in Lengths}

Next ==
  \/ (\E batch \in Batches : SendDNNPMessages(batch)) \/ PostDNNPMessages \/ HandleSent \/ HandleReceived

Spec == Init /\ [][Next]_vars

----------------------------------------------------------------------------
(* However batches meet writes and the stream is cut into reads, the other side *)
(* gets the messages that were handed over, in their order, none twice, none     *)
(* left out between two, and never falls out of step with the frames.           *)
ReceivedInOrder == ~receiver.failed /\ IsPrefix(receiver.put, messages)
=============================================================================
