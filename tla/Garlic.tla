------------------------------- MODULE Garlic -------------------------------
(***************************************************************************)
(* A garlic session from one destination to another (libdotnet/Garlic.cpp): *)
(* one-time session tags that the receiver has confirmed encrypt messages,  *)
(* and a changed LeaseSet travels with the next message until a delivery    *)
(* status confirms it.                                                      *)
(*                                                                         *)
(* Messages and delivery statuses are lost, repeated and reordered: each    *)
(* one sent may arrive at any time, again and again, or never.  The message *)
(* ID is the position of the message in `sent`; a tag is the ID of the      *)
(* message that brings it with a number.  Time is counted in ticks.         *)
(*                                                                         *)
(* Operators whose names end in _Broken are variants with a plausible bug.  *)
(***************************************************************************)
EXTENDS Integers, Sequences, FiniteSets

CONSTANTS
  NumTags,          \* m_NumTags
  OutExpiry,        \* OUTGOING_TAGS_EXPIRATION_TIMEOUT
  InExpiry,         \* INCOMING_TAGS_EXPIRATION_TIMEOUT
  TagsTimeout,      \* OUTGOING_TAGS_CONFIRMATION_TIMEOUT
  LeaseSetTimeout,  \* LEASET_CONFIRMATION_TIMEOUT
  MaxMessages,      \* bound on the messages sent
  MaxLeaseSets,     \* bound on the versions of the sender's LeaseSet
  MaxClock           \* bound on the clock

\* All are natural numbers, and OutExpiry < InExpiry.

VARIABLES
  clock,
  version,   \* version of m_LeaseSet of the sending destination
  announce,   \* SetLeaseSet has replaced it and is about to tell the sessions
  session,    \* the session in m_Sessions, or NoSession
  awaited,    \* m_DeliveryStatusSessions: the IDs that lead to the session
  sent,       \* messages, in the order of WrapSingleMessage
  statuses,   \* IDs of delivery statuses on their way back
  inTags,     \* m_Tags of the receiving destination
  known,      \* version of the LeaseSet in its m_RemoteLeaseSets
  arrived     \* history: IDs of the messages that have arrived

garlicVars == <<clock, version, announce, session, awaited, sent, statuses, inTags, known, arrived>>

MessageIds  == 1 .. MaxMessages
Tags == MessageIds \X (1 .. NumTags)
NoTag == <<0, 0>>   \* ElGamal
NoId  == 0

Created(tag) == sent[tag[1]].at   \* creationTime at the sender

----------------------------------------------------------------------------
(* GarlicRoutingSession.                                                     *)

NoSession == [status |-> "None"]

NewSession ==
  [ status      |-> "Updated",  \* m_LeaseSetUpdateStatus
    updateID    |-> NoId,       \* m_LeaseSetUpdateMsgID
    submitted   |-> 0,          \* m_LeaseSetSubmissionTime
    tags        |-> << >>,      \* m_SessionTags
    unconfirmed |-> {},         \* m_UnconfirmedTagsMsgs
    offered     |-> 0 ]         \* history: the version that updateID carried

IsFresh(tag) == clock < Created(tag) + OutExpiry

\* The first tag that has not expired, and the tags that are left behind it.
TakeTag_Broken(tags) ==   \* expired tags are used
  IF tags = << >> THEN [tag |-> NoTag, left |-> << >>]
  ELSE [tag |-> tags[1], left |-> Tail(tags)]

TakeTag_Keeps(tags) ==   \* the tag is not taken out of the list
  IF \E k \in 1 .. Len(tags) : IsFresh(tags[k])
    THEN LET k == CHOOSE k \in 1 .. Len(tags) :
                    IsFresh(tags[k]) /\ \A j \in 1 .. (k - 1) : ~IsFresh(tags[j])
         IN  [tag |-> tags[k], left |-> SubSeq(tags, k, Len(tags))]
    ELSE [tag |-> NoTag, left |-> << >>]

TakeTag(tags) ==
  IF \E k \in 1 .. Len(tags) : IsFresh(tags[k])
    THEN LET k == CHOOSE k \in 1 .. Len(tags) :
                    IsFresh(tags[k]) /\ \A j \in 1 .. (k - 1) : ~IsFresh(tags[j])
         IN  [tag |-> tags[k], left |-> SubSeq(tags, k + 1, Len(tags))]
    ELSE [tag |-> NoTag, left |-> << >>]

NeedsTags(left) == NumTags > 0 /\ Len(left) <= (NumTags * 2) \div 3

\* A LeaseSet that was not confirmed in time is sent again.
Resubmitted(s) ==
  IF s.status = "Submitted" /\ clock > s.submitted + LeaseSetTimeout
    THEN [s EXCEPT !.status = "Updated"] ELSE s

\* The message in which session s wraps the next one, and the session afterwards; there
\* is a delivery status clove only when the pool has an inbound tunnel.
Message(s, id, hasTunnel) ==
  LET take == TakeTag(s.tags)
      fresh == NeedsTags(take.left)
      update == Resubmitted(s).status = "Updated"
  IN  [tag |-> take.tag, at |-> clock,
       newTags |-> IF fresh THEN {<<id, n>> : n \in 1 .. NumTags} ELSE {},
       status |-> hasTunnel /\ (fresh \/ update),
       leaseSet |-> IF update THEN version ELSE 0]

AfterWrap(s, message, id) ==
  LET t == [Resubmitted(s) EXCEPT
              !.tags = TakeTag(s.tags).left,
              !.unconfirmed = IF message.newTags # {} /\ message.status THEN @ \cup {id} ELSE @]
  IN  IF message.leaseSet # 0
        THEN [t EXCEPT !.status = "Submitted", !.updateID = id, !.submitted = clock,
                       !.offered = message.leaseSet]
        ELSE t

\* GetRoutingSession makes a session when there is none (any more).
WrapSingleMessage(hasTunnel) ==
  LET id == Len(sent) + 1
      s == IF session = NoSession THEN NewSession ELSE session
      message == Message(s, id, hasTunnel)
  IN  /\ id <= MaxMessages
      /\ sent' = Append(sent, message)
      /\ session' = AfterWrap(s, message, id)
      /\ awaited' = (awaited \cup (IF message.status THEN {id} ELSE {}))
                    \ (IF message.leaseSet # 0 THEN {s.updateID} ELSE {})
      /\ UNCHANGED <<clock, version, announce, statuses, inTags, known, arrived>>

----------------------------------------------------------------------------
(* Delivery status and cleanup.                                              *)

TagSeq_Broken(id) == [n \in 1 .. NumTags |-> <<id, n - 1>>]   \* counted from 0

TagSeq(id) == [n \in 1 .. NumTags |-> <<id, n>>]

TagsConfirmed(s, id) ==
  IF id \in s.unconfirmed
    THEN [s EXCEPT !.unconfirmed = @ \ {id},
                   !.tags = IF clock < sent[id].at + OutExpiry THEN @ \o TagSeq(id) ELSE @]
    ELSE s

OutdatedTags(s) == {id \in s.unconfirmed : clock >= sent[id].at + TagsTimeout}

OutdatedUpdate(s) ==
  IF s.updateID # NoId /\ clock > s.submitted + LeaseSetTimeout THEN {s.updateID} ELSE {}

\* Those of a list of tags that have not expired, in their order.
FreshTags(tags) ==
  LET fresh == {k \in DOMAIN tags : IsFresh(tags[k])}
      At(n) == CHOOSE k \in fresh : Cardinality({j \in fresh : j < k}) = n - 1
  IN  [n \in 1 .. Cardinality(fresh) |-> tags[At(n)]]

CleanedUp(s) ==
  [s EXCEPT !.tags = FreshTags(@),
            !.unconfirmed = @ \ OutdatedTags(s),
            !.updateID = IF OutdatedUpdate(s) = {} THEN @ ELSE NoId]

\* RemoveDeliveryStatusSession for what CleanedUp forgets.
StillAwaited_Broken(s, ids) == ids \ OutdatedUpdate(s)

StillAwaited(s, ids) == ids \ (OutdatedTags(s) \cup OutdatedUpdate(s))

Confirms_Broken(s, id) == s.status = "Submitted"   \* of whichever message

Confirms(s, id) == id = s.updateID

MessageConfirmed(id) ==
  LET s == TagsConfirmed(session, id) IN
  IF Confirms(s, id)
    THEN /\ session' = [s EXCEPT !.status = "UpToDate", !.updateID = NoId]
         /\ awaited' = awaited \ {id}
    ELSE /\ session' = CleanedUp(s)
         /\ awaited' = StillAwaited(s, awaited \ {id})

\* A status nobody waits for is ignored.
HandleDeliveryStatusMessage(id) ==
  /\ id \in statuses
  /\ IF id \in awaited THEN MessageConfirmed(id) ELSE UNCHANGED <<session, awaited>>
  /\ UNCHANGED <<clock, version, announce, sent, statuses, inTags, known, arrived>>

\* The sessions' half of CleanupExpiredTags: a session without tags is removed.
CleanupSessions ==
  LET s == CleanedUp(session) IN
  /\ session # NoSession
  /\ IF s.tags = << >> /\ s.unconfirmed = {}
       THEN session' = NoSession /\ awaited' = {}
       ELSE session' = s /\ awaited' = StillAwaited(session, awaited)
  /\ UNCHANGED <<clock, version, announce, sent, statuses, inTags, known, arrived>>

\* LeaseSetDestination::SetLeaseSet first replaces the LeaseSet, on the thread of tunnels, ...
SetLeaseSet ==
  /\ version < MaxLeaseSets /\ ~announce
  /\ version' = version + 1 /\ announce' = TRUE
  /\ UNCHANGED <<clock, session, awaited, sent, statuses, inTags, known, arrived>>

\* ... and then tells every session.
SetLeaseSetUpdated ==
  /\ announce /\ announce' = FALSE
  /\ session' = IF session = NoSession THEN session ELSE [session EXCEPT !.status = "Updated"]
  /\ UNCHANGED <<clock, version, awaited, sent, statuses, inTags, known, arrived>>

\* Stop and Start of the sending destination.
RestartSender ==
  /\ session # NoSession
  /\ session' = NoSession /\ awaited' = {}
  /\ UNCHANGED <<clock, version, announce, sent, statuses, inTags, known, arrived>>

----------------------------------------------------------------------------
(* The receiving destination.                                                *)

HasTag(tag) == \E t \in inTags : t.tag = tag

\* A tag is used only once.  The time of a tag that is there already stays.
AfterTags(message) ==
  LET left == {t \in inTags : t.tag # message.tag} IN
  left \cup {[tag |-> tag, created |-> clock] :
               tag \in {g \in message.newTags : \A t \in left : t.tag # g}}

HandleGarlicMessage(id) ==
  /\ arrived' = arrived \cup {id}
  /\ IF sent[id].tag = NoTag \/ HasTag(sent[id].tag)
       THEN /\ inTags' = AfterTags(sent[id])
            /\ known' = IF sent[id].leaseSet > known THEN sent[id].leaseSet ELSE known
            /\ statuses' = IF sent[id].status THEN statuses \cup {id} ELSE statuses
       ELSE UNCHANGED <<inTags, known, statuses>>
  /\ UNCHANGED <<clock, version, announce, session, awaited, sent>>

\* The other half of CleanupExpiredTags.
CleanupTags ==
  /\ inTags' = {t \in inTags : clock <= t.created + InExpiry}
  /\ UNCHANGED <<clock, version, announce, session, awaited, sent, statuses, known, arrived>>

\* SaveTags when it stops, LoadTags when it starts.
RestartReceiver ==
  /\ inTags' = {[t EXCEPT !.created = clock] : t \in {u \in inTags : clock < u.created + InExpiry}}
  /\ UNCHANGED <<clock, version, announce, session, awaited, sent, statuses, known, arrived>>

----------------------------------------------------------------------------

GarlicTick ==
  /\ clock < MaxClock /\ clock' = clock + 1
  /\ UNCHANGED <<version, announce, session, awaited, sent, statuses, inTags, known, arrived>>

GarlicInit ==
  /\ clock = 0 /\ version = 1 /\ announce = FALSE
  /\ session = NoSession /\ awaited = {}
  /\ sent = << >> /\ statuses = {}
  /\ inTags = {} /\ known = 0 /\ arrived = {}

GarlicNext ==
  \/ \E hasTunnel \in BOOLEAN : WrapSingleMessage(hasTunnel)
  \/ \E id \in 1 .. Len(sent) : HandleGarlicMessage(id) \/ HandleDeliveryStatusMessage(id)
  \/ CleanupSessions \/ CleanupTags
  \/ SetLeaseSet \/ SetLeaseSetUpdated
  \/ RestartSender \/ RestartReceiver
  \/ GarlicTick

GarlicSpec == GarlicInit /\ [][GarlicNext]_garlicVars

----------------------------------------------------------------------------
(* Properties.                                                               *)

GarlicMsgs ==
  [tag : Tags \cup {NoTag}, at : Nat, newTags : SUBSET Tags, status : BOOLEAN, leaseSet : Nat]

Sessions ==
  [status : {"Updated", "Submitted", "UpToDate"}, updateID : MessageIds \cup {NoId},
   submitted : Nat, tags : Seq(Tags), unconfirmed : SUBSET MessageIds, offered : Nat]

GarlicTypeOK ==
  /\ clock \in Nat /\ version \in Nat /\ announce \in BOOLEAN /\ known \in Nat
  /\ session \in Sessions \cup {NoSession}
  /\ sent \in Seq(GarlicMsgs) /\ Len(sent) <= MaxMessages
  /\ {awaited, statuses, arrived} \subseteq SUBSET (1 .. Len(sent))
  /\ inTags \subseteq [tag : Tags, created : Nat]

\* No two messages are encrypted with the same tag.
TagsAreOneTime ==
  \A i, j \in 1 .. Len(sent) : sent[i].tag = sent[j].tag /\ sent[i].tag # NoTag => i = j

\* A message that travels for less than the difference of the two expiration timeouts
\* finds its tag, whatever was lost, cleaned up or restarted in between.
DecryptableInTime ==
  \A i \in 1 .. Len(sent) :
    /\ sent[i].tag # NoTag /\ i \notin arrived
    /\ clock <= sent[i].at + (InExpiry - OutExpiry)
    => HasTag(sent[i].tag)

\* Every entry of m_DeliveryStatusSessions will be taken out again: its session waits for
\* the confirmation of tags or of a LeaseSet.
StatusIsAwaited ==
  IF session = NoSession THEN awaited = {}
  ELSE awaited \subseteq session.unconfirmed \cup {session.updateID}

\* A session takes its LeaseSet for up to date only when the peer has the one that the
\* session sent last.
ConfirmedIsKnown ==
  session # NoSession /\ session.status = "UpToDate" => known >= session.offered

\* The four of them are what the tags and the confirmations of a session are for.
TagsDecrypt == TagsAreOneTime /\ DecryptableInTime /\ StatusIsAwaited /\ ConfirmedIsKnown

\* And the peer has the current one, as long as nobody is about to tell the session.
UpToDateIsKnown ==
  session # NoSession /\ session.status = "UpToDate" /\ ~announce => known = version
=============================================================================
