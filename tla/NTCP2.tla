------------------------------- MODULE NTCP2 -------------------------------
(***************************************************************************)
(* The two ends of an NTCP2 session (NTCP2Session and NTCP2Establisher in    *)
(* libdotnet/NTCP2.cpp): the handshake of three messages, the frames that   *)
(* carry DNNP messages, and termination.                                    *)
(*                                                                         *)
(* Cryptography is symbolic: a hash or a key is the sequence of everything  *)
(* mixed into it, and a sealed text opens under the key, the nonce and the  *)
(* associated data it was sealed with.  What was written arrives in order,  *)
(* until the connection breaks, which either end may notice at any time.    *)
(* Both ends are correct: what the one seals, the other must open.          *)
(***************************************************************************)
EXTENDS Integers, SequencesExt, FiniteSetsExt

CONSTANTS
  FrameMax,     \* NTCP2_UNENCRYPTED_FRAME_MAX_SIZE
  Lengths,      \* the lengths that GetNTCP2Length may return
  Rooms,        \* bytes left for padding behind the last message of a frame
  Posters,      \* the ends at which messages are posted
  MaxPosted     \* bound on the messages posted at each of them

VARIABLES
  state,      \* how far each end is
  secret,     \* each end's m_Establisher: m_H, m_CK, m_IV, the ephemeral key and messages it has
  sender,     \* m_SendKey, m_SendSipKey, m_SendSequenceNumber, m_IsSending, m_SendQueue
  receiver,   \* m_ReceiveKey, m_ReceiveSipKey, m_ReceiveSequenceNumber
  wire,       \* what is on its way to each end
  posted,     \* history: the messages posted at each end
  delivered,  \* history: the messages that each end has passed on
  rejected    \* history: texts that an end could not open, although they came as written

vars == <<state, secret, sender, receiver, wire, posted, delivered, rejected>>

Ends == {"alice", "bob"}
Other(e) == CHOOSE o \in Ends : o # e

Sealed(key, nonce, ad, text) == [key |-> key, nonce |-> nonce, ad |-> ad, text |-> text]
Opens(sealed, key, nonce, ad) == sealed.key = key /\ sealed.nonce = nonce /\ sealed.ad = ad

\* X25519 of a public and a private key.
Agree(a, b) == {a, b}
Static(e) == [alice |-> "alice static", bob |-> "bob static"][e]
Ephemeral(e) == [alice |-> "X", bob |-> "Y"][e]

----------------------------------------------------------------------------
(* The establisher.  Keys are what has been mixed into m_CK.                 *)

NoMessage == [padding |-> 0]
NoSecret  ==
  [ h |-> <<>>, ck |-> <<>>, iv |-> <<"published">>, remote |-> "none",
    request |-> NoMessage, created |-> NoMessage ]

MixHash(s, x) == [s EXCEPT !.h = Append(@, x)]
MixKey(s, x)  == [s EXCEPT !.ck = Append(@, x)]

\* A message is hashed with its padding, if it has any.
MixMessage(s, m) ==
  LET hashed == MixHash(s, m.sealed)
  IN  IF m.padding = 0 THEN hashed ELSE MixHash(hashed, m.padding)

KDF1(s, x) ==
  MixKey(MixHash([s EXCEPT !.h = <<"protocol", Static("bob")>>, !.ck = <<"protocol">>], x),
         Agree(x, Static("bob")))
KDF2(s, x, y) == MixKey(MixHash(MixMessage(s, s.request), y), Agree(x, y))
KDF3(s, static, y) == MixKey(s, Agree(static, y))

\* The ephemeral key is encrypted with an IV that the next message takes on.
Hidden(s, pub) == [iv |-> s.iv, pub |-> pub]
NextIV(s, hidden) == [s EXCEPT !.iv = <<@, hidden.pub>>]
Revealed(s, hidden) == IF hidden.iv = s.iv THEN hidden.pub ELSE "garbage"

Message(s, hidden, padding) ==
  [hidden |-> hidden, sealed |-> Sealed(s.ck, 0, s.h, padding), padding |-> padding]

\* Data phase: keys for both directions from m_CK, those for lengths from m_H as well.
FrameKey(s, from) == [ck |-> s.ck, from |-> from]
SipKey(s, from)   == [ck |-> s.ck, h |-> s.h, from |-> from]

----------------------------------------------------------------------------
(* Ends of a session.                                                        *)

Write(e, x) == wire' = [wire EXCEPT ![Other(e)] = Append(@, x)]
Reads(e) == wire[e] # <<>>
Next1(e) == Head(wire[e])
Consume(e) == [wire EXCEPT ![e] = Tail(@)]

\* Terminate: the socket is closed and the queue emptied.
Ended(e) ==
  /\ state' = [state EXCEPT ![e] = "terminated"]
  /\ sender' = [sender EXCEPT ![e].queue = <<>>]

\* A read or a write ends with an error, there is a timeout of the server or too long a queue,
\* what was read does not conform, or the clocks differ by more than NTCP2_CLOCK_SKEW.
Fail(e) ==
  /\ state[e] # "terminated" /\ Ended(e)
  /\ UNCHANGED <<secret, receiver, wire, posted, delivered, rejected>>

\* Could not open a part of the handshake.
Reject(e) ==
  /\ Ended(e) /\ rejected' = rejected \cup {state[e]} /\ wire' = Consume(e)
  /\ UNCHANGED <<secret, receiver, posted, delivered>>

SetKeys(e, s) ==
  /\ sender' = [sender EXCEPT ![e].key = FrameKey(s, e), ![e].sip = SipKey(s, e)]
  /\ receiver' = [receiver EXCEPT ![e].key = FrameKey(s, Other(e)), ![e].sip = SipKey(s, Other(e))]

Proceed(e, to, s) == state' = [state EXCEPT ![e] = to] /\ secret' = [secret EXCEPT ![e] = s]

UnchangedData == UNCHANGED <<sender, receiver, posted, delivered, rejected>>

----------------------------------------------------------------------------
(* Frames.                                                                   *)

BlockHeader == 3
MacSize     == 16
TooLong(m) == m.length + BlockHeader > FrameMax
BlocksSize(msgs) ==
  FoldSeq(LAMBDA m, total : total + IF TooLong(m) THEN 0 ELSE m.length + BlockHeader, 0, msgs)

\* SendQueue takes messages up to the first that does not fit, and drops those that never will.
Taken(queue) == Max({n \in 0 .. Len(queue) : BlocksSize(SubSeq(queue, 1, n)) <= FrameMax})

\* CreatePaddingBlock: its sizes for msgLen bytes and room for room more, the smallest and the
\* largest.  Sizes are unsigned: what is left of FrameMax may wrap around.
PaddingBlock(msgLen, room) ==
  LET long   == Max({msgLen, 256})
      ratio  == (long * 6) \div 100
      left   == FrameMax - long - BlockHeader
      wanted == IF long + ratio + BlockHeader <= FrameMax THEN ratio ELSE left
      most   == IF wanted < 0 \/ wanted > room - BlockHeader THEN room - BlockHeader ELSE wanted
  IN  IF room < BlockHeader THEN {0} ELSE {BlockHeader, BlockHeader + Max({most - 1, 0})}

\* Sixteen bits say how long the frame is.  A frame that is written while another is still
\* being written is mixed up with it.
Frame(s, msgs, terminates, size) ==
  [ key |-> s.key, sip |-> s.sip, seqn |-> s.seqn, msgs |-> msgs, terminates |-> terminates,
    size |-> size, length |-> (size + MacSize) % 65536, whole |-> ~s.sending ]

Advanced(s) == [s EXCEPT !.seqn = @ + 1, !.sending = TRUE]

\* SendTermination: at most so long, and sent without regard to a frame on its way.
Goodbye(s) == Frame(s, <<>>, TRUE, 31)

----------------------------------------------------------------------------
(* The handshake.                                                            *)

Paddings == {0, 1}   \* without and with

\* ClientLogin, SendSessionRequest.
ClientLogin ==
  /\ state["alice"] = "start"
  /\ \E padding \in Paddings :
       LET s == secret["alice"]
           hidden == Hidden(s, Ephemeral("alice"))
           t == KDF1(NextIV(s, hidden), Ephemeral("alice"))
           m == Message(t, hidden, padding)
       IN  Proceed("alice", "awaits created", [t EXCEPT !.request = m]) /\ Write("alice", m)
  /\ UnchangedData

\* HandleSessionRequestReceived and, when there is padding, HandleSessionRequestPaddingReceived:
\* SendSessionCreated answers.
HandleSessionRequestReceived ==
  LET m == Next1("bob")
      s == secret["bob"]
      x == Revealed(s, m.hidden)
      t == KDF1(NextIV(s, m.hidden), x)
      u == KDF2([t EXCEPT !.request = m, !.remote = x], x, Ephemeral("bob"))
  IN  /\ state["bob"] = "start" /\ Reads("bob")
      /\ \/ /\ ~Opens(m.sealed, t.ck, 0, t.h) /\ Reject("bob")
         \/ /\ Opens(m.sealed, t.ck, 0, t.h)
            /\ \E padding \in Paddings :
                 LET reply == Message(u, Hidden(u, Ephemeral("bob")), padding)
                 IN  /\ Proceed("bob", "awaits confirmed", [u EXCEPT !.created = reply])
                     /\ wire' = [Consume("bob") EXCEPT !["alice"] = Append(@, reply)]
            /\ UnchangedData

\* HandleSessionCreatedReceived and HandleSessionCreatedPaddingReceived: SendSessionConfirmed
\* hashes the buffer as long as it was received.
Confirmed(s, ri) ==
  LET t     == MixMessage(s, s.created)
      part1 == Sealed(t.ck, 1, t.h, Static("alice"))
      u     == KDF3(MixHash(t, part1), Static("alice"), s.remote)
      part2 == Sealed(u.ck, 0, u.h, ri)
  IN  [message |-> [part1 |-> part1, part2 |-> part2], secret |-> MixHash(u, part2)]

HandleSessionCreatedReceived ==
  LET m == Next1("alice")
      s == secret["alice"]
      y == Revealed(s, m.hidden)
      t == KDF2(s, Ephemeral("alice"), y)
      c == Confirmed([t EXCEPT !.created = m, !.remote = y], "RouterInfo")
  IN  /\ state["alice"] = "awaits created" /\ Reads("alice")
      /\ \/ /\ ~Opens(m.sealed, t.ck, 0, t.h) /\ Reject("alice")
         \/ /\ Opens(m.sealed, t.ck, 0, t.h)
            /\ Proceed("alice", "confirms", c.secret)
            /\ wire' = [Consume("alice") EXCEPT !["bob"] = Append(@, c.message)]
            /\ UnchangedData

HandleSessionConfirmedSent ==
  /\ state["alice"] = "confirms" /\ state' = [state EXCEPT !["alice"] = "established"]
  /\ SetKeys("alice", secret["alice"])
  /\ secret' = [secret EXCEPT !["alice"] = NoSecret]
  /\ UNCHANGED <<wire, posted, delivered, rejected>>

\* What Bob finds in the RouterInfo may not please him: he says so or just goes (Fail).
HandleSessionConfirmedReceived ==
  LET m == Next1("bob")
      s == MixMessage(secret["bob"], secret["bob"].created)
      t == KDF3(MixHash(s, m.part1), m.part1.text, Ephemeral("bob"))
      u == MixHash(t, m.part2)
      opens == Opens(m.part1, s.ck, 1, s.h) /\ Opens(m.part2, t.ck, 0, t.h)
  IN  /\ state["bob"] = "awaits confirmed" /\ Reads("bob")
      /\ \/ ~opens /\ Reject("bob")
         \/ /\ opens
            /\ SetKeys("bob", u)
            /\ \/ Proceed("bob", "established", NoSecret) /\ wire' = Consume("bob")
               \/ /\ Proceed("bob", "refused", NoSecret)
                  /\ wire' = [Consume("bob") EXCEPT !["alice"] = Append(@, Goodbye(sender'["bob"]))]
            /\ UNCHANGED <<posted, delivered, rejected>>

----------------------------------------------------------------------------
(* The data phase.                                                           *)

\* SendQueue and SendDNNPMsgs with q as the queue of end e.
SendQueue(e, q) ==
  LET n    == Taken(q)
      msgs == SelectSeq(SubSeq(q, 1, n), LAMBDA m : ~TooLong(m))
      rest == SubSeq(q, n + 1, Len(q))
      s    == [sender[e] EXCEPT !.queue = rest, !.sending = FALSE]
      size == BlocksSize(msgs)
  IN  \/ msgs = <<>> /\ sender' = [sender EXCEPT ![e] = s] /\ UNCHANGED wire
      \/ /\ msgs # <<>>
         /\ \E room \in Rooms : \E padding \in PaddingBlock(size, room) :
              Write(e, Frame(s, msgs, FALSE, size + padding))
         /\ sender' = [sender EXCEPT ![e] = Advanced(s)]

\* PostDNNPMessages.
PostDNNPMessages(e) ==
  /\ state[e] \in {"established", "closing"} /\ e \in Posters /\ Len(posted[e]) < MaxPosted
  /\ \E length \in Lengths :
       LET m == [id |-> Len(posted[e]) + 1, length |-> length]
           q == Append(sender[e].queue, m)
       IN  /\ posted' = [posted EXCEPT ![e] = Append(@, m)]
           /\ IF sender[e].sending
                THEN sender' = [sender EXCEPT ![e].queue = q] /\ UNCHANGED wire
                ELSE SendQueue(e, q)
  /\ UNCHANGED <<state, secret, receiver, delivered, rejected>>

HandleNextFrameSent(e) ==
  /\ sender[e].sending
  /\ IF state[e] = "terminated"
       THEN sender' = [sender EXCEPT ![e].sending = FALSE] /\ UNCHANGED wire
       ELSE SendQueue(e, sender[e].queue)
  /\ UNCHANGED <<state, secret, receiver, posted, delivered, rejected>>

\* SendTerminationAndTerminate: Terminate is posted behind it (Fail).
TerminateByTimeout(e) ==
  /\ state[e] = "established" /\ state' = [state EXCEPT ![e] = "closing"]
  /\ Write(e, Goodbye(sender[e]))
  /\ sender' = [sender EXCEPT ![e] = Advanced(@)]
  /\ UNCHANGED <<secret, receiver, posted, delivered, rejected>>

\* HandleReceivedLength, HandleReceived and ProcessNextFrame.
Understood(f, r) ==
  /\ f.whole /\ f.length = f.size + MacSize
  /\ f.sip = r.sip /\ f.key = r.key /\ f.seqn = r.seqn

\* A frame behind which another was written too early may be torn by it.
Torn(frames) == \E i \in 1 .. Min({2, Len(frames)}) : ~frames[i].whole

HandleReceived(e) ==
  LET f == Next1(e)
  IN  /\ state[e] = "established" /\ Reads(e)
      /\ receiver' = [receiver EXCEPT ![e].seqn = @ + 1]
      /\ \/ /\ Understood(f, receiver[e])
            /\ delivered' = [delivered EXCEPT ![e] = @ \o f.msgs]
            /\ IF f.terminates THEN Ended(e) ELSE UNCHANGED <<state, sender>>
            /\ wire' = Consume(e) /\ UNCHANGED rejected
         \/ /\ ~Understood(f, receiver[e]) \/ Torn(wire[e])
            /\ rejected' = IF Torn(wire[e]) THEN rejected ELSE rejected \cup {"frame"}
            /\ state' = [state EXCEPT ![e] = "closing"]
            /\ wire' = [Consume(e) EXCEPT ![Other(e)] = Append(@, Goodbye(sender[e]))]
            /\ sender' = [sender EXCEPT ![e] = Advanced(@)]
            /\ UNCHANGED delivered
      /\ UNCHANGED <<secret, posted>>

----------------------------------------------------------------------------
Init ==
  /\ state = [e \in Ends |-> "start"]
  /\ secret = [e \in Ends |-> NoSecret]
  /\ sender = [e \in Ends |-> [key |-> "none", sip |-> "none", seqn |-> 0, sending |-> FALSE, queue |-> <<>>]]
  /\ receiver = [e \in Ends |-> [key |-> "none", sip |-> "none", seqn |-> 0]]
  /\ wire = [e \in Ends |-> <<>>]
  /\ posted = [e \in Ends |-> <<>>] /\ delivered = [e \in Ends |-> <<>>]
  /\ rejected = {}

Next ==
  \/ ClientLogin \/ HandleSessionRequestReceived \/ HandleSessionCreatedReceived
  \/ HandleSessionConfirmedSent \/ HandleSessionConfirmedReceived
  \/ \E e \in Ends :
       PostDNNPMessages(e) \/ HandleNextFrameSent(e) \/ TerminateByTimeout(e) \/ HandleReceived(e) \/ Fail(e)

Spec == Init /\ [][Next]_vars

----------------------------------------------------------------------------
(* Two correct ends understand one another: with or without padding in either *)
(* message both compute the same hashes and keys, and no part of the          *)
(* handshake and no frame that was written whole fails to open.               *)
HonestIsUnderstood == rejected = {}

(* What an end passes on is what the other was given to send, in that order,  *)
(* with nothing left out but messages too long for any frame (SendQueue).     *)
DeliveredInOrder ==
  \A e \in Ends :
    IsPrefix(delivered[e], SelectSeq(posted[Other(e)], LAMBDA m : ~TooLong(m)))

(* No frame is longer than the maximum that its name promises                 *)
(* (NTCP2_UNENCRYPTED_FRAME_MAX_SIZE), so that sixteen bits hold its length.   *)
FrameFits ==
  \A e \in Ends : \A i \in DOMAIN wire[e] :
    LET x == wire[e][i] IN "size" \in DOMAIN x => x.size <= FrameMax
=============================================================================
