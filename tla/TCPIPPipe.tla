------------------------------ MODULE TCPIPPipe ------------------------------
(***************************************************************************)
(* TCPIPPipe (DotNetService.cpp): two sockets, each read into one buffer, copied   *)
(* into another and written to the other socket before it is read again.         *)
(*                                                                         *)
(* Units are numbered as a peer sends them.  Terminate closes both sockets and      *)
(* what is pending is aborted.  When the service stops, only m_Dead is set, and     *)
(* the sockets are closed with the last callback that holds the pipe.            *)
(***************************************************************************)
EXTENDS Naturals, Sequences, SequencesExt

CONSTANTS
  MaxSent,   \* bound: units a peer sends
  Chunk      \* TCP_IP_PIPE_BUFFER_SIZE

Sides == {"up", "down"}
Other(s) == IF s = "up" THEN "down" ELSE "up"

VARIABLES
  peers,    \* of each peer: what it has sent, whether it has closed, and whether the connection broke
  input,    \* what was sent and not read
  reading,  \* a read is pending on the side
  buffer,   \* what is written to the other side from this one: m_upstream_buf and m_downstream_buf
  writing,  \* that write is pending
  output,   \* what was written to the other side from this one
  dead,     \* m_Dead
  open      \* the sockets

vars == <<peers, input, reading, buffer, writing, output, dead, open>>

----------------------------------------------------------------------------
(* The peers.                                                               *)

Send(s) ==
  /\ open /\ ~peers[s].closed /\ peers[s].sent < MaxSent
  /\ peers' = [peers EXCEPT ![s].sent = @ + 1]
  /\ input' = [input EXCEPT ![s] = Append(@, peers'[s].sent)]
  /\ UNCHANGED <<reading, buffer, writing, output, dead, open>>

Close(s) ==
  /\ ~peers[s].closed
  /\ peers' = [peers EXCEPT ![s].closed = TRUE]
  /\ UNCHANGED <<input, reading, buffer, writing, output, dead, open>>

\* What has not arrived is lost.
Reset(s) ==
  /\ ~peers[s].broken
  /\ peers' = [peers EXCEPT ![s].closed = TRUE, ![s].broken = TRUE]
  /\ \E n \in 0 .. Len(input[s]) : input' = [input EXCEPT ![s] = SubSeq(@, 1, n)]
  /\ UNCHANGED <<reading, buffer, writing, output, dead, open>>

----------------------------------------------------------------------------
\* Terminate returns when the handler is dead; a callback that ends without another may be the last.
Terminate(s) ==
  IF dead
  THEN /\ reading' = [reading EXCEPT ![s] = FALSE] /\ writing' = [writing EXCEPT ![s] = FALSE]
       /\ open' = \E r \in Sides : reading'[r] \/ writing'[r]
       /\ UNCHANGED dead
  ELSE /\ dead' = TRUE /\ open' = FALSE
       /\ reading' = [r \in Sides |-> FALSE] /\ writing' = [r \in Sides |-> FALSE]

\* HandleUpstreamReceived and HandleDownstreamReceived.
Received_Broken(s) == reading
Received(s) == [reading EXCEPT ![s] = FALSE]
AsyncReceive(s) == [reading EXCEPT ![s] = TRUE]
HandleReceived(s) ==
  /\ open /\ reading[s] /\ input[s] # <<>>
  /\ \E n \in 1 .. Chunk :
       /\ n <= Len(input[s])
       /\ buffer' = [buffer EXCEPT ![s] = SubSeq(input[s], 1, n)]
       /\ input' = [input EXCEPT ![s] = SubSeq(@, n + 1, Len(@))]
  /\ writing' = [writing EXCEPT ![s] = TRUE] /\ reading' = Received(s)
  /\ UNCHANGED <<peers, output, dead, open>>

HandleEnd(s) ==
  /\ open /\ reading[s] /\ input[s] = <<>> /\ peers[s].closed
  /\ Terminate(s)
  /\ UNCHANGED <<peers, input, buffer, output>>

\* HandleUpstreamWrite and HandleDownstreamWrite, which read the side again.
HandleWritten(s) ==
  /\ open /\ writing[s]
  /\ output' = [output EXCEPT ![s] = @ \o buffer[s]]
  /\ writing' = [writing EXCEPT ![s] = FALSE] /\ reading' = AsyncReceive(s)
  /\ UNCHANGED <<peers, input, buffer, dead, open>>

\* A part may have been written.
HandleWriteError(s) ==
  /\ open /\ writing[s] /\ peers[Other(s)].closed
  /\ \E n \in 0 .. Len(buffer[s]) - 1 : output' = [output EXCEPT ![s] = @ \o SubSeq(buffer[s], 1, n)]
  /\ Terminate(s)
  /\ UNCHANGED <<peers, input, buffer>>

\* ClearHandlers.
Stop ==
  /\ ~dead /\ dead' = TRUE
  /\ UNCHANGED <<peers, input, reading, buffer, writing, output, open>>

Init ==
  /\ peers = [s \in Sides |-> [sent |-> 0, closed |-> FALSE, broken |-> FALSE]]
  /\ input = [s \in Sides |-> <<>>] /\ reading = [s \in Sides |-> TRUE]
  /\ buffer = [s \in Sides |-> <<>>] /\ writing = [s \in Sides |-> FALSE]
  /\ output = [s \in Sides |-> <<>>]
  /\ dead = FALSE /\ open = TRUE

Handler(s) == HandleReceived(s) \/ HandleEnd(s) \/ HandleWritten(s) \/ HandleWriteError(s)
Next == (\E s \in Sides : Send(s) \/ Close(s) \/ Reset(s) \/ Handler(s)) \/ Stop

\* Callbacks run.
Fairness == \A s \in Sides : WF_vars(Handler(s))
Spec == Init /\ [][Next]_vars /\ Fairness

----------------------------------------------------------------------------
Sent(s) == [i \in 1 .. peers[s].sent |-> i]

(* What one peer is given is what the other has sent, in its order and without a gap; *)
(* when the sockets are closed because a peer has, all that this peer had sent before   *)
(* was written, unless its connection broke, or the other had closed as well or had     *)
(* sent what could not be written any more.                                       *)
PipeIsFaithful ==
  /\ \A s \in Sides : IsPrefix(output[s], Sent(s))
  /\ ~open => \E s \in Sides :
                /\ peers[s].closed
                /\ \/ output[s] = Sent(s) \/ peers[s].broken \/ peers[Other(s)].closed
                   \/ output[Other(s)] # Sent(Other(s))

(* When a peer has closed the pipe closes the other side too, if the service goes on.  *)
HalfClosed == \E s \in Sides : peers[s].closed
PipeEnds == HalfClosed ~> ~open \/ dead

\* This does not hold: a pipe of a service that was stopped waits for both.
StoppedPipeEnds == HalfClosed ~> ~open

TypeOK ==
  /\ \A s \in Sides : peers[s].sent \in 0 .. MaxSent /\ ~(reading[s] /\ writing[s])
  /\ dead \in BOOLEAN /\ open \in BOOLEAN
=============================================================================
