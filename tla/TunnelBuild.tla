---------------------------- MODULE TunnelBuild ----------------------------
(***************************************************************************)
(* How a router builds tunnels through others and how the tunnels carry     *)
(* messages (Tunnel.cpp, TunnelConfig.h, TransitTunnel.cpp and the build      *)
(* handlers of DNNPProtocol.cpp).                                            *)
(*                                                                         *)
(* A build request holds a record for every hop at a random place.  A hop    *)
(* reads the record that begins with its own hash, replaces it with its       *)
(* answer and encrypts all records with the reply key it has read, so that    *)
(* the creator decrypts the later records beforehand and the answers          *)
(* afterwards.  Keys are hops: the k-th hop of tunnel t is <<t, k>>, which     *)
(* is also the tunnel ID it receives at; what a cipher made of a text is the   *)
(* sequence of its layers, where encryption and decryption with one key         *)
(* cancel.  The network may deliver a message never, later, after a later one,  *)
(* or again.                                                                *)
(***************************************************************************)
EXTENDS Integers, SequencesExt

CONSTANTS
  Inbound, Outbound,  \* the tunnels that are built
  ZeroHops,           \* ZeroHopsInboundTunnel, there from the start
  Creator, Routers,
  Paths,              \* tunnel -> the sequences of Routers it may be made of
  NumRecords,         \* STANDARD_NUM_RECORDS
  CreationTimeout,    \* TUNNEL_CREATION_TIMEOUT
  Expiration,         \* TUNNEL_EXPIRATION_TIMEOUT
  MaxRepeats,         \* bound on messages that are delivered and come again
  MaxTime             \* bound on the clock

VARIABLES
  tunnel,   \* Tunnel -> its configuration, state and m_CreationTime
  transit,  \* Router -> m_TransitTunnels, by tunnel ID
  network,  \* the messages under way
  repeats,  \* messages that were delivered and stayed
  now

vars == <<tunnel, transit, network, repeats, now>>

Tunnels == Inbound \cup Outbound
NoHop == <<ZeroHops, 0>>    \* of a record that is filled with random data
Hops(path, t) == [k \in 1 .. Len(path) |-> <<t, k>>]

----------------------------------------------------------------------------
(* Ciphers.                                                                 *)

Enc(key) == [does |-> "encrypt", key |-> key]
Dec(key) == [does |-> "decrypt", key |-> key]
Undoes(f, g) == f.key = g.key /\ f.does # g.does

\* A text with these layers goes through one more cipher.
Through(layers, f) ==
  IF layers # <<>> /\ Undoes(Last(layers), f) THEN Front(layers) ELSE Append(layers, f)

\* ... through the decryptions with these keys, the last one first.
DecryptedBack(layers, keys) == FoldLeft(LAMBDA l, key : Through(l, Dec(key)), layers, Reverse(keys))

Record(hop, says, layers) == [hop |-> hop, says |-> says, layers |-> layers]
Coded(record, layers) == [record EXCEPT !.layers = layers]
Plain(record) == record.layers = <<>>

----------------------------------------------------------------------------
(* The tunnel's creator.                                                    *)

IsInbound(t) == t \in Inbound \cup {ZeroHops}
Path(t) == tunnel[t].path
NumHops(t) == Len(Path(t))
\* The ID of the creator's end of an inbound tunnel: nextTunnelID of its last hop.
GetTunnelID(t) == <<t, NumHops(t) + 1>>
\* Who takes what is sent into the tunnel, and as what.
GetNextIdentHash(t) == IF Path(t) = <<>> THEN Creator ELSE Path(t)[1]
GetNextTunnelID(t) == <<t, 1>>

IsEstablished(t) == tunnel[t].state = "Established"
Usable(S) == {t \in S : IsEstablished(t)}

\* What the record of hop k says: TunnelHopConfig as the constructors of TunnelConfig leave it.
NextOf(t, path, k, reply) ==
  IF k < Len(path) THEN [to |-> path[k + 1], id |-> <<t, k + 1>>]
  ELSE IF t \in Inbound THEN [to |-> Creator, id |-> <<t, k + 1>>]
  ELSE [to |-> GetNextIdentHash(reply), id |-> GetNextTunnelID(reply)]

KindOf(t, path, k) ==
  IF k = Len(path) /\ t \in Outbound THEN "endpoint"
  ELSE IF k = 1 /\ t \in Inbound THEN "gateway" ELSE "participant"

\* The records of a request: recordIndicies is a permutation, and the record of each hop
\* is decrypted with the reply keys of the hops before it.
RecordOf(t, path, k) == Record(<<t, k>>, "request", DecryptedBack(<<>>, SubSeq(Hops(path, t), 1, k - 1)))

BuildRecords_Broken(t, path, index) ==
  [i \in 1 .. NumRecords |->
     IF \E k \in 1 .. Len(path) : index[k] = i
     THEN LET k == CHOOSE k \in 1 .. Len(path) : index[k] = i
          IN  Record(<<t, k>>, "request", DecryptedBack(<<>>, Reverse(SubSeq(Hops(path, t), 1, k - 1))))
     ELSE Record(NoHop, "noise", <<>>)]
BuildRecords(t, path, index) ==
  [i \in 1 .. NumRecords |->
     IF \E k \in 1 .. Len(path) : index[k] = i
     THEN RecordOf(t, path, CHOOSE k \in 1 .. Len(path) : index[k] = i)
     ELSE Record(NoHop, "noise", <<>>)]

\* The messages between routers.  A pending tunnel is known by its replyMsgID.
BuildMsg(to, msgID, records) == [type |-> "build", to |-> to, msgID |-> msgID, records |-> records]
ReplyMsg(msgID, records) == [type |-> "reply", msgID |-> msgID, records |-> records]
DataMsg(to, id, payload, layers) ==
  [type |-> "data", to |-> to, id |-> id, payload |-> payload, layers |-> layers]
GatewayMsg(to, id, payload) == [type |-> "gateway", to |-> to, id |-> id, payload |-> payload]

\* TunnelGateway::SendBuffer through Tunnel::EncryptTunnelMsg.
SentInto(t, payload) ==
  IF Path(t) = <<>> THEN payload
  ELSE DataMsg(GetNextIdentHash(t), GetNextTunnelID(t), payload, DecryptedBack(<<>>, Hops(Path(t), t)))

\* CreateTunnel: the request goes to the first hop or into an outbound tunnel.  The configuration
\* keeps where the record of each hop is.
Build(t) ==
  /\ tunnel[t].state = "none"
  /\ \E path \in Paths[t], reply \in Usable(Inbound \cup {ZeroHops}) :
     \E index \in {p \in [1 .. Len(path) -> 1 .. NumRecords] : IsInjective(p)} :
       /\ t \in Inbound => reply = ZeroHops
       /\ tunnel' = [tunnel EXCEPT ![t] =
            [path |-> path, index |-> index, reply |-> reply, state |-> "Pending", created |-> now]]
       /\ LET request == BuildMsg(path[1], <<t, 1>>, BuildRecords(t, path, index))
          IN  \/ network' = network \cup {request}
              \/ \E out \in Usable(Outbound) : network' = network \cup {SentInto(out, request)}
  /\ UNCHANGED <<transit, repeats, now>>

Answers(t, records) ==
  [k \in 1 .. NumHops(t) |->
     LET record == records[tunnel[t].index[k]]
     IN  Coded(record, DecryptedBack(record.layers, SubSeq(Hops(Path(t), t), k, NumHops(t))))]

\* What is still ciphered is no zero.
Accepted(answer) == Plain(answer) /\ answer.says = "accept"

\* GetPendingTunnel finds the tunnel once; AddInboundTunnel or AddOutboundTunnel.
HandleBuildResponse(t, records) ==
  tunnel' = [tunnel EXCEPT ![t].state =
    IF \A k \in 1 .. NumHops(t) : Accepted(Answers(t, records)[k]) THEN "Established" ELSE "BuildFailed"]

IsPending(t) == tunnel[t].state = "Pending"

\* The creator's end of a tunnel takes data: InboundTunnel::HandleTunnelDataMsg.
Opened(t, layers) == DecryptedBack(layers, Hops(Path(t), t))

\* ManagePendingTunnels, ManageInboundTunnels and ManageOutboundTunnels.
ManageTunnel(t) ==
  /\ \/ IsPending(t) /\ now > tunnel[t].created + CreationTimeout
     \/ IsEstablished(t) /\ now > tunnel[t].created + Expiration
  /\ tunnel' = [tunnel EXCEPT ![t].state = "gone"]
  /\ UNCHANGED <<transit, network, repeats, now>>

----------------------------------------------------------------------------
(* The other routers.                                                       *)

\* A message is delivered, others are sent.
Take(m, sent) ==
  \/ network' = (network \ {m}) \cup sent /\ UNCHANGED repeats
  \/ repeats < MaxRepeats /\ repeats' = repeats + 1 /\ network' = network \cup sent

\* HandleBuildRequestRecords: the first record that begins with this router's hash.
IsOurs(r, record) ==
  /\ Plain(record) /\ record.says = "request"
  /\ tunnel[record.hop[1]].path[record.hop[2]] = r
Ours(r, records) == {i \in DOMAIN records : IsOurs(r, records[i])}
FirstOf(S) == CHOOSE i \in S : \A j \in S : i <= j

Replied_Broken(records, i, says) ==
  LET hop == records[i].hop
  IN  [j \in DOMAIN records |->
         IF j = i THEN Record(hop, says, <<>>) ELSE Coded(records[j], Through(records[j].layers, Enc(hop)))]
Replied(records, i, says) ==
  LET hop == records[i].hop
  IN  [j \in DOMAIN records |->
         LET record == IF j = i THEN Record(hop, says, <<>>) ELSE records[j]
         IN  Coded(record, Through(record.layers, Enc(hop)))]

\* A tunnel of this ID stays as it is.
AddTransitTunnel(r, id) ==
  LET t == id[1]
      k == id[2]
      new == [id |-> id, next |-> NextOf(t, Path(t), k, tunnel[t].reply), kind |-> KindOf(t, Path(t), k), created |-> now]
  IN  IF \E known \in transit[r] : known.id = id THEN transit[r] ELSE transit[r] \cup {new}

\* A router accepts or declines by its load.
HandleBuildRequest(r, m) ==
  /\ Ours(r, m.records) # {}
  /\ \E says \in {"accept", "decline"} :
       LET i       == FirstOf(Ours(r, m.records))
           id      == m.records[i].hop
           t       == id[1]
           next    == NextOf(t, Path(t), id[2], tunnel[t].reply)
           records == Replied(m.records, i, says)
       IN  /\ transit' = IF says = "accept" THEN [transit EXCEPT ![r] = AddTransitTunnel(r, id)] ELSE transit
           /\ Take(m, {IF KindOf(t, Path(t), id[2]) = "endpoint"
                       THEN GatewayMsg(next.to, next.id, ReplyMsg(t, records))
                       ELSE BuildMsg(next.to, next.id, records)})
  /\ UNCHANGED <<tunnel, now>>

\* Tunnels::Run at a router that is not the creator: a transit tunnel takes what is addressed to it.
HandleTransit(r, m) ==
  \E known \in transit[r] :
    /\ known.id = m.id
    /\ \/ /\ m.type = "gateway" /\ known.kind = "gateway"
          /\ Take(m, {DataMsg(known.next.to, known.next.id, m.payload, Through(<<>>, Enc(known.id)))})
       \/ /\ m.type = "data" /\ known.kind = "participant"
          /\ Take(m, {DataMsg(known.next.to, known.next.id, m.payload, Through(m.layers, Enc(known.id)))})
       \/ \* the endpoint hands on what it can read
          /\ m.type = "data" /\ known.kind = "endpoint" /\ Through(m.layers, Enc(known.id)) = <<>>
          /\ Take(m, {m.payload})
    /\ UNCHANGED <<tunnel, transit, now>>

ManageTransitTunnels(r) ==
  /\ \E known \in transit[r] : now > known.created + Expiration
  /\ transit' = [transit EXCEPT ![r] = {known \in @ : now <= known.created + Expiration}]
  /\ UNCHANGED <<tunnel, network, repeats, now>>

----------------------------------------------------------------------------
\* The creator: a build message for a pending inbound tunnel is the reply to it, one that came
\* through an inbound tunnel is for an outbound one.
HandleAtCreator(m) ==
  /\ \/ /\ m.type = "build"
        /\ m.msgID[1] \in Inbound /\ m.msgID = GetTunnelID(m.msgID[1]) /\ IsPending(m.msgID[1])
        /\ HandleBuildResponse(m.msgID[1], m.records)
     \/ /\ m.type = "gateway" /\ m.id[1] = ZeroHops
        /\ IsPending(m.payload.msgID) /\ HandleBuildResponse(m.payload.msgID, m.payload.records)
     \/ /\ m.type = "data" /\ IsEstablished(m.id[1]) /\ m.id = GetTunnelID(m.id[1])
        /\ Opened(m.id[1], m.layers) = <<>>
        /\ IsPending(m.payload.msgID) /\ HandleBuildResponse(m.payload.msgID, m.payload.records)
  /\ Take(m, {})
  /\ UNCHANGED <<transit, now>>

HandleMessage(m) ==
  \/ m.to = Creator /\ HandleAtCreator(m)
  \/ m.to # Creator /\ m.type = "build" /\ HandleBuildRequest(m.to, m)
  \/ m.to # Creator /\ m.type # "build" /\ HandleTransit(m.to, m)

Tick ==
  /\ now < MaxTime
  /\ now' = now + 1
  /\ UNCHANGED <<tunnel, transit, network, repeats>>

----------------------------------------------------------------------------
NoTunnel == [path |-> <<>>, index |-> <<>>, reply |-> ZeroHops, state |-> "none", created |-> 0]

Init ==
  /\ tunnel = [t \in Tunnels \cup {ZeroHops} |->
       IF t = ZeroHops THEN [NoTunnel EXCEPT !.state = "Established", !.created = MaxTime] ELSE NoTunnel]
  /\ transit = [r \in Routers |-> {}]
  /\ network = {}
  /\ repeats = 0
  /\ now = 0

Next ==
  \/ \E t \in Tunnels : Build(t) \/ ManageTunnel(t)
  \/ \E m \in network : HandleMessage(m)
  \/ \E r \in Routers : ManageTransitTunnels(r)
  \/ Tick

Spec == Init /\ [][Next]_vars

----------------------------------------------------------------------------
Carried(m) == IF m.type \in {"data", "gateway"} THEN m.payload ELSE m
Requests == {b \in {Carried(m) : m \in network} : b.type = "build" /\ b.to # Creator}
RepliesTo(t) ==
  {b.records : b \in {b \in {Carried(m) : m \in network} :
     \/ b.type = "reply" /\ b.msgID = t
     \/ b.type = "build" /\ b.to = Creator /\ b.msgID = GetTunnelID(t)}}

\* Every request holds a record that the router it goes to can read, and the first such record is the one
\* of the hop that is next; every reply holds an answer of each hop that the creator can read.
RecordsAreRead ==
  /\ \A b \in Requests : LET ours == Ours(b.to, b.records)
                         IN  ours # {} /\ b.records[FirstOf(ours)].hop = b.msgID
  /\ \A t \in Tunnels : \A records \in RepliesTo(t) : \A k \in 1 .. NumHops(t) :
       LET answer == Answers(t, records)[k] IN Plain(answer) /\ answer.says \in {"accept", "decline"}

\* As long as the creator takes a tunnel for established, every hop of it has a transit tunnel that hands on
\* to the next one: a message put in at one end comes out in the clear at the other.
Carries(t) ==
  \A k \in 1 .. NumHops(t) :
    \E known \in transit[Path(t)[k]] :
      /\ known.id = <<t, k>>
      /\ k < NumHops(t) => known.next = [to |-> Path(t)[k + 1], id |-> <<t, k + 1>>]
      /\ k = NumHops(t) /\ t \in Inbound => known.next = [to |-> Creator, id |-> GetTunnelID(t)]
EstablishedCarries ==
  \A t \in Tunnels : IsEstablished(t) /\ now <= tunnel[t].created + Expiration => Carries(t)

\* What is at the end of a tunnel can be read there.
DataIsRead ==
  \A m \in network : m.type = "data" =>
    /\ m.to = Creator => Opened(m.id[1], m.layers) = <<>>
    /\ \A r \in Routers : m.to = r =>
         \A known \in transit[r] : known.id = m.id /\ known.kind = "endpoint" => Through(m.layers, Enc(known.id)) = <<>>


TypeOK ==
  /\ now \in 0 .. MaxTime
  /\ \A t \in DOMAIN tunnel : tunnel[t].state \in {"none", "Pending", "Established", "BuildFailed", "gone"}
=============================================================================
