--------------------------- MODULE TunnelGateway ---------------------------
(***************************************************************************)
(* The gateway of a tunnel (libdotnet/TunnelGateway.cpp): it packs DNNP     *)
(* messages of any length into tunnel data messages of a fixed payload,     *)
(* cutting a message into fragments where it does not fit.                  *)
(*                                                                         *)
(* A block is one fragment with its delivery instructions: message, number, *)
(* whether it is the last one, the first byte it carries and how many.      *)
(*                                                                         *)
(* Operators whose names end in _Broken are variants with a plausible bug,  *)
(* used to see that the properties notice it.                               *)
(***************************************************************************)
EXTENDS Naturals, Sequences

CONSTANTS
  Payload,      \* TUNNEL_DATA_MAX_PAYLOAD_SIZE
  Messages,     \* the messages an application hands to the gateway, each once
  Length,       \* [Messages -> bytes of the message]
  Instructions  \* [Messages -> bytes of the delivery instructions, 1 to 37]

SizeField == 2      \* length of a fragment
IdField   == 4      \* message ID
FollowOn  == 7      \* delivery instructions of a follow-on fragment, size included

ASSUME LengthAssumption == Length \in [Messages -> Nat \ {0}]
ASSUME InstructionsAssumption ==
  /\ Payload \in Nat /\ Payload > FollowOn
  /\ Instructions \in [Messages -> Nat \ {0}]
  /\ \A m \in Messages : Instructions[m] + IdField + SizeField <= Payload

\* DNNP_MAX_MESSAGE_SIZE is less than the payload of 63 follow-on fragments.
ASSUME NumberAssumption == \A m \in Messages : Length[m] <= 63 * (Payload - FollowOn)

VARIABLES
  buffer,   \* TunnelGatewayBuffer
  put,      \* history: messages handed to PutDNNPMsg
  outbox    \* tunnel data messages given to transports.SendMessages, in order

vars == <<buffer, put, outbox>>

Blocks == [id : Messages, num : Nat, last : BOOLEAN, from : Nat, size : Nat]

\* m_TunnelDataMsgs, and m_CurrentTunnelDataMsg with its length and m_RemainingSize.
EmptyBuffer == [ready |-> << >>, open |-> FALSE, current |-> << >>,
                used |-> 0, remaining |-> 0]

CreateCurrent_Broken(b) ==   \* m_RemainingSize is not set again
  [b EXCEPT !.open = TRUE, !.current = << >>, !.used = 0]

CreateCurrent(b) ==
  [b EXCEPT !.open = TRUE, !.current = << >>, !.used = 0, !.remaining = Payload]

CompleteCurrent(b) ==
  IF b.open
    THEN [b EXCEPT !.ready = Append(@, [blocks |-> b.current, used |-> b.used]),
                   !.open = FALSE, !.current = << >>, !.used = 0]
    ELSE b

\* A block of `bytes` in the current message, which is completed when it is full.
AddBlock(b, block, bytes) ==
  LET t == [b EXCEPT !.current = Append(@, block), !.used = @ + bytes,
                     !.remaining = @ - bytes]
  IN  IF t.remaining = 0 THEN CompleteCurrent(t) ELSE t

----------------------------------------------------------------------------
(* PutDNNPMsg.                                                               *)

WholeSize(m) == Instructions[m] + Length[m] + SizeField

Whole(b, m) ==
  AddBlock(b, [id |-> m, num |-> 0, last |-> TRUE, from |-> 0, size |-> Length[m]],
           WholeSize(m))

FirstHeader(m) == Instructions[m] + IdField + SizeField

\* The rest of a message goes into messages of its own; all but the last are full.
NumFollowOns_Broken(rest) == rest \div (Payload - FollowOn)

NumFollowOns(rest) == ((rest - 1) \div (Payload - FollowOn)) + 1

FollowOnBlock_Broken(m, first, i) ==   \* the number counts on before it is used
  LET from == first + (i - 1) * (Payload - FollowOn)
      last == from + (Payload - FollowOn) >= Length[m]
  IN  [id |-> m, num |-> i + 1, last |-> last, from |-> from,
       size |-> IF last THEN Length[m] - from ELSE Payload - FollowOn]

FollowOnBlock(m, first, i) ==
  LET from == first + (i - 1) * (Payload - FollowOn)
      last == from + (Payload - FollowOn) >= Length[m]
  IN  [id |-> m, num |-> i, last |-> last, from |-> from,
       size |-> IF last THEN Length[m] - from ELSE Payload - FollowOn]

FullFollowOn(m, first, i) == [blocks |-> <<FollowOnBlock(m, first, i)>>, used |-> Payload]

Split(b, m) ==
  LET first == b.remaining - FirstHeader(m)
      n     == NumFollowOns(Length[m] - first)
      head  == CompleteCurrent([b EXCEPT
                 !.current = Append(@, [id |-> m, num |-> 0, last |-> FALSE,
                                        from |-> 0, size |-> first]),
                 !.used = @ + FirstHeader(m) + first])
      body  == [head EXCEPT !.ready = @ \o [i \in 1 .. (n - 1) |-> FullFollowOn(m, first, i)]]
      tail  == FollowOnBlock(m, first, n)
  IN  AddBlock(CreateCurrent(body), tail, tail.size + FollowOn)

\* Bytes of the message that are left over for the message where it begins.
NonFit(m) ==
  (WholeSize(m) + (WholeSize(m) \div Payload) * FollowOn) % Payload

\* The message is better begun in a new tunnel data message.
StartsAnew(b, m) ==
  b.open /\ WholeSize(m) > b.remaining /\ (NonFit(m) = 0 \/ NonFit(m) > b.remaining)

InstructionsFit_Broken(b, m) == Instructions[m] <= b.remaining   \* ID and size are not counted

InstructionsFit(b, m) == FirstHeader(m) <= b.remaining

Place(b, m) == IF WholeSize(m) <= b.remaining THEN Whole(b, m) ELSE Split(b, m)

PutDNNPMsg(b, m) ==
  LET t == IF ~b.open \/ StartsAnew(b, m) THEN CreateCurrent(CompleteCurrent(b)) ELSE b
  IN  IF WholeSize(m) <= t.remaining \/ InstructionsFit(t, m)
        THEN Place(t, m)
        ELSE Place(CreateCurrent(CompleteCurrent(t)), m)

----------------------------------------------------------------------------

Init == buffer = EmptyBuffer /\ put = << >> /\ outbox = << >>

BufferIsEmpty == ~buffer.open /\ buffer.ready = << >>

IsPut(m) == \E i \in 1 .. Len(put) : put[i] = m

\* One message of a batch; SendBuffer may follow after any number of them.
PutTunnelDataMsg(m) ==
  /\ ~IsPut(m)
  /\ put' = Append(put, m)
  /\ buffer' = PutDNNPMsg(buffer, m)
  /\ UNCHANGED outbox

SendBuffer ==
  /\ ~BufferIsEmpty
  /\ outbox' = outbox \o CompleteCurrent(buffer).ready
  /\ buffer' = [CompleteCurrent(buffer) EXCEPT !.ready = << >>]
  /\ UNCHANGED put

Next == SendBuffer \/ \E m \in Messages : PutTunnelDataMsg(m)

Spec == Init /\ [][Next]_vars

----------------------------------------------------------------------------
(* Properties.                                                               *)

TunnelDataMsgs == [blocks : Seq(Blocks), used : Nat]

Buffers == [ready : Seq(TunnelDataMsgs), open : BOOLEAN, current : Seq(Blocks),
            used : Nat, remaining : Nat]

\* The buffer and what leaves it keep their types: no length or offset is negative.
TypeOK == buffer \in Buffers /\ put \in Seq(Messages) /\ outbox \in Seq(TunnelDataMsgs)

\* What is left of the current message is what its blocks have not used: a block never
\* overflows it ("remaining size overflow" is never logged), and it is never full.
RemainingIsExact ==
  buffer.open => buffer.remaining > 0 /\ buffer.used + buffer.remaining = Payload

\* No completed tunnel data message exceeds its payload, so that its padding never has
\* a negative size.
NeverOverfull ==
  \A msgs \in {buffer.ready, outbox} : \A i \in 1 .. Len(msgs) : msgs[i].used <= Payload

\* All the blocks produced so far, in their order.
BlocksOf(msgs, current) ==
  LET all[i \in 0 .. Len(msgs)] == IF i = 0 THEN << >> ELSE all[i - 1] \o msgs[i].blocks
  IN  all[Len(msgs)] \o current

Emitted == BlocksOf(outbox \o buffer.ready, buffer.current)

\* The fragments of each message come in its order, number after number, carry each of
\* its bytes once, and the last one is marked; and whole messages keep the order in
\* which they were put.
CutExactly ==
  LET emitted == Emitted IN
  /\ \A i \in 1 .. Len(put) :
       LET own == SelectSeq(emitted, LAMBDA block : block.id = put[i]) IN
       /\ own # << >>
       /\ \A k \in 1 .. Len(own) :
            /\ own[k].num = k - 1
            /\ own[k].from = IF k = 1 THEN 0 ELSE own[k - 1].from + own[k - 1].size
            /\ own[k].last <=> k = Len(own)
       /\ own[Len(own)].from + own[Len(own)].size = Length[put[i]]
  /\ \A i \in 1 .. (Len(emitted) - 1) : \E k \in 1 .. Len(put) :
       /\ put[k] = emitted[i].id
       /\ emitted[i + 1].id \in {put[k]} \cup {put[j] : j \in {k + 1} \cap (1 .. Len(put))}

\* A fragment number has six bits in the delivery instructions.
NumbersFit(blocks) == \A j \in 1 .. Len(blocks) : blocks[j].num < 64

FragmentNumberFits ==
  /\ NumbersFit(buffer.current)
  /\ \A msgs \in {buffer.ready, outbox} : \A i \in 1 .. Len(msgs) : NumbersFit(msgs[i].blocks)
=============================================================================
