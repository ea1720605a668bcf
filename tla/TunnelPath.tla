----------------------------- MODULE TunnelPath -----------------------------
(***************************************************************************)
(* A tunnel from its gateway to its endpoint.  The hops in between forward  *)
(* every tunnel data message on its own (TransitTunnelParticipant), and     *)
(* transports may lose or reorder them, or deliver one again.               *)
(***************************************************************************)
EXTENDS Naturals, Sequences

CONSTANTS
  Payload, Messages, Length, Instructions, MaxMessage,
  MaxRepeats   \* bound on the tunnel data messages that arrive once more

VARIABLES
  buffer, put, outbox,   \* of the gateway
  endpoint,
  arrived, repeats,      \* positions of outbox that have arrived; how many arrived again
  expired                \* history: messages of which Cleanup has removed something

vars == <<buffer, put, outbox, endpoint, arrived, repeats, expired>>

Gateway  == INSTANCE TunnelGateway
Endpoint == INSTANCE TunnelEndpoint

Init ==
  /\ Gateway!Init /\ Endpoint!Init
  /\ arrived = {} /\ repeats = 0 /\ expired = {}

PutTunnelDataMsg(m) ==
  Gateway!PutTunnelDataMsg(m) /\ UNCHANGED <<endpoint, arrived, repeats, expired>>

SendBuffer ==
  Gateway!SendBuffer /\ UNCHANGED <<endpoint, arrived, repeats, expired>>

Arrive(i) ==
  /\ i \in arrived => repeats < MaxRepeats
  /\ arrived' = arrived \cup {i}
  /\ repeats' = IF i \in arrived THEN repeats + 1 ELSE repeats
  /\ Endpoint!HandleDecryptedTunnelDataMsg(outbox[i].blocks)
  /\ UNCHANGED <<buffer, put, outbox, expired>>

\* Of both kinds of entries those are removed that are old enough.
Cleanup(ids, blocks) ==
  /\ Endpoint!Cleanup(ids, blocks)
  /\ ids # {} \/ blocks # {}
  /\ expired' = expired \cup ids \cup {b.id : b \in blocks}
  /\ UNCHANGED <<buffer, put, outbox, arrived, repeats>>

Next ==
  \/ SendBuffer
  \/ \E m \in Messages : PutTunnelDataMsg(m)
  \/ \E i \in 1 .. Len(outbox) : Arrive(i)
  \/ \E ids \in SUBSET DOMAIN endpoint.incomplete, blocks \in SUBSET endpoint.saved :
       Cleanup(ids, blocks)

Spec == Init /\ [][Next]_vars

----------------------------------------------------------------------------
(* Properties.                                                               *)

Arrived(m) ==
  UNION {{b \in {outbox[i].blocks[j] : j \in 1 .. Len(outbox[i].blocks)} : b.id = m} : i \in arrived}

Delivered(m) == {i \in 1 .. Len(endpoint.delivered) : endpoint.delivered[i].id = m}

Handed(m) == \E i \in 1 .. Len(put) : put[i] = m

\* A message is handed on as it was put into the tunnel: all its fragments, in their
\* order, each once, whatever order they came in and however often.
DeliveredIsWhole ==
  \A i \in 1 .. Len(endpoint.delivered) :
    LET message == endpoint.delivered[i] IN
    Length[message.id] < MaxMessage =>
      /\ Handed(message.id)
      /\ \A k \in 1 .. Len(message.parts) : message.parts[k] = k - 1
      /\ message.size = Length[message.id]

HasAllFragments(m) ==
  LET here == Arrived(m) IN
  /\ \E b \in here : b.last
  /\ \A b \in here : \A n \in 0 .. b.num : \E c \in here : c.num = n

\* When the last missing fragment of a message arrives, in whatever order, the message
\* is handed on at once: none waits for a fragment that came long ago.
ArrivedIsDelivered ==
  \A m \in Messages :
    HasAllFragments(m) /\ Length[m] < MaxMessage /\ m \notin expired => Delivered(m) # {}

\* A network that repeats nothing makes the endpoint hand on nothing twice, and once a
\* message is handed on, no trace of it is left to wait for its expiry.
DeliveredOnce ==
  repeats = 0 =>
    /\ \A i, j \in 1 .. Len(endpoint.delivered) :
         endpoint.delivered[i].id = endpoint.delivered[j].id => i = j
    /\ \A m \in Messages : Delivered(m) # {} =>
         m \notin DOMAIN endpoint.incomplete /\ \A b \in endpoint.saved : b.id # m
=============================================================================
