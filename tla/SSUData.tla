-------------------------------- MODULE SSUData --------------------------------
(***************************************************************************)
(* Messages over an established SSU session (libdotnet/SSUData.cpp), from    *)
(* one side to the other: they are cut into fragments, each in a packet that *)
(* may be lost or overtaken; the receiver puts them together and             *)
(* acknowledges fragments and messages; the sender repeats what is not        *)
(* acknowledged until it gives up.                                          *)
(*                                                                         *)
(* Intervals are not compared with each other: a timer that runs goes off at  *)
(* any time, and what has to be older than some time becomes so at any time.  *)
(***************************************************************************)
EXTENDS Integers, Sequences, FiniteSets, FiniteSetTheorems, SequenceTheorems, TLAPS

CONSTANTS
  Size,         \* a function from messages to the number of their fragments
  FieldBits,    \* how many fragments a byte of an acknowledgement bitfield is for, 7
  MaxResends    \* MAX_NUM_RESENDS

VARIABLES
  unsent,      \* messages that the session will be given
  sentMessages, \* m_SentMessages: the fragments left and numResends, for those that are there
  resendTimer, \* "off", "armed" or "expired": the handler has still to run
  incomplete,  \* m_IncompleteMessages
  received,    \* m_ReceivedMessages
  decays,      \* no message has been received for DECAY_INTERVAL, or there are too many
  packets,     \* on their way
  delivered,   \* history: what has been put to m_Handler, in order, as the fragments joined
  arrived      \* history: the fragments that have been processed

sending == <<unsent, sentMessages, resendTimer>>
receiving == <<incomplete, received, decays, delivered, arrived>>
dataVars == <<unsent, sentMessages, resendTimer, incomplete, received, decays, packets, delivered, arrived>>

Messages == DOMAIN Size
Fragments(m) == 0..(Size[m] - 1)
IsLast(m, n) == n = Size[m] - 1
Data(m, ns) == {[type |-> "fragment", msg |-> m, n |-> n] : n \in ns}

Absent == [present |-> FALSE, left |-> {}, resends |-> 0]
Sent(m) == sentMessages[m].present
NothingSent(s) == \A m \in Messages : ~s[m].present

----------------------------------------------------------------------------
(* The sender.                                                              *)

Send(m) ==
  /\ m \in unsent /\ unsent' = unsent \ {m}
  /\ resendTimer' = IF NothingSent(sentMessages) THEN "armed" ELSE resendTimer
  /\ sentMessages' = [sentMessages EXCEPT ![m] = [present |-> TRUE, left |-> Fragments(m), resends |-> 0]]
  /\ packets' = packets \cup Data(m, Fragments(m))
  /\ UNCHANGED receiving

\* ProcessSentMessageAck.
HandleMsgAck(p) ==
  /\ p \in packets /\ p.type = "ack" /\ packets' = packets \ {p}
  /\ sentMessages' = [sentMessages EXCEPT ![p.msg] = Absent]
  /\ resendTimer' = IF Sent(p.msg) /\ NothingSent(sentMessages') /\ resendTimer = "armed"
                    THEN "off" ELSE resendTimer
  /\ UNCHANGED unsent /\ UNCHANGED receiving

\* What the loop over the bytes of a bitfield takes it for: bytes without a bit set, which are
\* all but the last, are not counted.
AckedFragment(p) == p.bit

\* ProcessAcks, for a bitfield.
HandleFragmentAck(p) ==
  /\ p \in packets /\ p.type = "bitfield" /\ packets' = packets \ {p}
  /\ sentMessages' = [sentMessages EXCEPT ![p.msg].left = @ \ {AckedFragment(p)}]
  /\ UNCHANGED <<unsent, resendTimer>> /\ UNCHANGED receiving

\* Whatever is due is sent again, or given up.  Runs of the timer with nothing due are left out.
Resent(s, m) ==
  IF s[m].resends < MaxResends THEN [s EXCEPT ![m].resends = @ + 1] ELSE [s EXCEPT ![m] = Absent]

Rearmed_Broken(s) == "off"   \* a timer that has gone off
Rearmed(s) == IF NothingSent(s) THEN "off" ELSE "armed"

\* Past the window of MAX_OUTGOING_WINDOW_SIZE fragments the session is closed, see module SSU.
HandleResendTimer ==
  /\ resendTimer = "expired"
  /\ \E due \in SUBSET {m \in Messages : Sent(m)} :
       /\ due # {} \/ NothingSent(sentMessages)
       /\ sentMessages' =
            [m \in Messages |-> IF m \in due THEN Resent(sentMessages, m)[m] ELSE sentMessages[m]]
       /\ packets' = packets \cup UNION {Data(m, sentMessages[m].left) :
                                         m \in {d \in due : sentMessages[d].resends < MaxResends}}
  /\ resendTimer' = Rearmed(sentMessages')
  /\ UNCHANGED unsent /\ UNCHANGED receiving

ResendTimerExpires ==
  /\ resendTimer = "armed" /\ resendTimer' = "expired"
  /\ UNCHANGED <<unsent, sentMessages, packets>> /\ UNCHANGED receiving

----------------------------------------------------------------------------
(* The receiver.  An incomplete message: the fragments joined so far, those     *)
(* saved for later, and the age of the last that was saved: "none" while that    *)
(* time is 0.                                                               *)
NewIncomplete == [joined |-> <<>>, saved |-> {}, age |-> "none"]
Incomplete(m) == IF m \in DOMAIN incomplete THEN incomplete[m] ELSE NewIncomplete

\* The fragments that follow the joined ones without a gap.
Follows_Broken(x) == x.saved   \* the next number is not looked at
Follows(x) == {n \in x.saved : \A k \in Len(x.joined)..n : k \in x.saved}

\* As a std::set with FragmentCmp lists them.
InOrder(ns) == [k \in 1..Cardinality(ns) |-> CHOOSE n \in ns : Cardinality({i \in ns : i < n}) = k - 1]

Joined(x, n) ==
  LET y == [x EXCEPT !.joined = Append(@, n)]
  IN  [y EXCEPT !.joined = @ \o InOrder(Follows(y)), !.saved = @ \ Follows(y)]

Saved(x, n) == IF n \in x.saved THEN x ELSE [x EXCEPT !.saved = @ \cup {n}, !.age = "young"]

Without(m) == [k \in DOMAIN incomplete \ {m} |-> incomplete[k]]
With(m, x) == [k \in DOMAIN incomplete \cup {m} |-> IF k = m THEN x ELSE incomplete[k]]

\* The last fragment in the place of the next completes the message, saved ones or not.
ProcessFragment(p) ==
  LET m == p.msg
      x == Incomplete(m)
      expected == p.n = Len(x.joined)
      y == IF ~expected THEN IF p.n < Len(x.joined) THEN x ELSE Saved(x, p.n)
           ELSE IF IsLast(m, p.n) THEN [x EXCEPT !.joined = Append(@, p.n)] ELSE Joined(x, p.n)
      complete == expected /\ IsLast(m, y.joined[Len(y.joined)])
  IN  /\ p \in packets /\ p.type = "fragment"
      /\ arrived' = arrived \cup {<<m, p.n>>}
      /\ IF complete
           THEN /\ incomplete' = Without(m) /\ received' = received \cup {m}
                /\ packets' = (packets \ {p}) \cup {[type |-> "ack", msg |-> m]}
                /\ delivered' = IF m \in received THEN delivered
                                ELSE Append(delivered, [msg |-> m, joined |-> y.joined])
                /\ decays' = IF m \in received THEN decays ELSE FALSE
           ELSE /\ incomplete' = With(m, y) /\ UNCHANGED <<received, delivered, decays>>
                /\ packets' = (packets \ {p}) \cup
                     {[type |-> "bitfield", msg |-> m, byte |-> p.n \div FieldBits, bit |-> p.n % FieldBits]}
      /\ UNCHANGED sending

\* HandleIncompleteMessagesCleanupTimer.
Cleanup ==
  /\ incomplete' = [m \in {k \in DOMAIN incomplete : incomplete[k].age = "young"} |-> incomplete[m]]
  /\ received' = IF decays THEN {} ELSE received
  /\ UNCHANGED <<decays, packets, delivered, arrived>> /\ UNCHANGED sending

TimePasses ==
  /\ \/ decays' = TRUE /\ UNCHANGED incomplete
     \/ /\ \E m \in DOMAIN incomplete :
             /\ incomplete[m].age = "young" /\ incomplete' = [incomplete EXCEPT ![m].age = "old"]
        /\ UNCHANGED decays
  /\ UNCHANGED <<received, packets, delivered, arrived>> /\ UNCHANGED sending

LosePacket(p) == p \in packets /\ packets' = packets \ {p} /\ UNCHANGED sending /\ UNCHANGED receiving

----------------------------------------------------------------------------
DataInit ==
  /\ unsent = Messages /\ sentMessages = [m \in Messages |-> Absent] /\ resendTimer = "off"
  /\ incomplete = <<>> /\ received = {} /\ decays = TRUE /\ packets = {} /\ delivered = <<>> /\ arrived = {}

DataNext ==
  \/ (\E m \in unsent : Send(m)) \/ ResendTimerExpires \/ HandleResendTimer \/ Cleanup \/ TimePasses
  \/ \E p \in packets : HandleMsgAck(p) \/ HandleFragmentAck(p) \/ ProcessFragment(p) \/ LosePacket(p)

\* The service's thread runs timers; the network owes nothing.
DataFairness == WF_dataVars(ResendTimerExpires) /\ WF_dataVars(HandleResendTimer)

DataSpec == DataInit /\ [][DataNext]_dataVars /\ DataFairness

----------------------------------------------------------------------------
(* A message that is passed on is whole: all its fragments, in their order,      *)
(* whatever was lost, overtaken, repeated or cleaned up on the way.             *)
DeliveredIsWhole ==
  \A i \in DOMAIN delivered :
    delivered[i].joined = [k \in 1..Size[delivered[i].msg] |-> k - 1]

(* The sender forgets a fragment only because the receiver has it: one that was  *)
(* lost is sent again.  The bit of a bitfield is the "corresponding bit" of the   *)
(* fragment (SSUData.cpp:410).                                                *)
AckedWasReceived ==
  \A m \in Messages : Sent(m) => \A n \in Fragments(m) \ sentMessages[m].left : <<m, n>> \in arrived

(* Whatever is sent is acknowledged or given up in the end, although the network  *)
(* may lose everything: the timer runs as long as a message is kept.            *)
EverySentEnds == \A m \in Messages : Sent(m) ~> ~Sent(m)

(* A message "was not completed in 30 seconds, deleted" (SSUData.cpp:497): only   *)
(* one whose last fragment came that long ago is cleaned up.                    *)
DeletedAreOld == [][Cleanup => \A m \in DOMAIN incomplete : incomplete[m].age # "none"]_dataVars
----------------------------------------------------------------------------
(* The proof that what is delivered is whole.                               *)

SizesArePositive == Size \in [Messages -> Nat \ {0}]

AllBefore(n) == [k \in 1..n |-> k - 1]

\* What is kept of an incomplete message: the joined fragments are all before some number, which has
\* not come, and those that are saved are behind it.
Sound(m, x) ==
  /\ x \in [joined : Seq(Nat), saved : SUBSET Nat, age : {"none", "young", "old"}]
  /\ x.joined = AllBefore(Len(x.joined)) /\ Len(x.joined) < Size[m]
  /\ \A n \in x.saved : Len(x.joined) < n /\ n < Size[m]

IncompleteIsSound == DOMAIN incomplete \subseteq Messages /\ \A m \in DOMAIN incomplete : Sound(m, incomplete[m])

SentTypeOK ==
  sentMessages \in [Messages -> [present : BOOLEAN, left : SUBSET Nat, resends : Nat]]

LeftAreFragments == \A m \in Messages : sentMessages[m].left \subseteq Fragments(m)

OnTheWay == \A p \in packets : p.type = "fragment" => p.msg \in Messages /\ p.n \in Fragments(p.msg)

DeliveredTypeOK == delivered \in Seq([msg : Messages, joined : Seq(Nat)])

DataInv ==
  /\ unsent \subseteq Messages /\ SentTypeOK /\ LeftAreFragments /\ OnTheWay
  /\ IncompleteIsSound /\ DeliveredTypeOK /\ DeliveredIsWhole

LEMMA AllBeforeIsSeq ==
  ASSUME NEW n \in Nat
  PROVE  AllBefore(n) \in Seq(Nat) /\ Len(AllBefore(n)) = n /\ Append(AllBefore(n), n) = AllBefore(n + 1)
<1>1. AllBefore(n) \in [1..n -> Nat]
  BY DEF AllBefore
<1>2. AllBefore(n) \in Seq(Nat) /\ Len(AllBefore(n)) = n
  BY <1>1 DEF AllBefore
<1>3. Append(AllBefore(n), n) \in Seq(Nat) /\ Len(Append(AllBefore(n), n)) = n + 1
  BY <1>2
<1>4. \A k \in 1..(n + 1) : Append(AllBefore(n), n)[k] = k - 1
  BY <1>2 DEF AllBefore
<1>5. AllBefore(n + 1) \in Seq(Nat) /\ Len(AllBefore(n + 1)) = n + 1
  BY DEF AllBefore
<1>6. \A k \in 1..(n + 1) : AllBefore(n + 1)[k] = k - 1
  BY DEF AllBefore
<1> QED BY <1>2, <1>3, <1>4, <1>5, <1>6, SeqEqual

\* An interval in its order.
LEMMA IntervalInOrder ==
  ASSUME NEW a \in Nat, NEW c \in Nat
  PROVE  Cardinality(a..(a + c - 1)) = c /\ InOrder(a..(a + c - 1)) = [k \in 1..c |-> a + k - 1]
<1> DEFINE I == a..(a + c - 1)
<1>1. Cardinality(I) = c
  BY FS_Interval
<1>2. ASSUME NEW n \in I PROVE Cardinality({i \in I : i < n}) = n - a
  <2> DEFINE S == {i \in I : i < n}
  <2>1. S = a..(n - 1) /\ n \in Int /\ a <= n
    OBVIOUS
  <2>2. Cardinality(a..(n - 1)) = n - a
    <3> DEFINE b == n - 1
    <3>1. b \in Int /\ (a > b => n - a = 0) /\ b - a + 1 = n - a
      BY <2>1
    <3> HIDE DEF b
    <3>2. Cardinality(a..b) = IF a > b THEN 0 ELSE b - a + 1
      BY <3>1, FS_Interval
    <3>3. Cardinality(a..b) = n - a
      BY <3>1, <3>2
    <3> QED BY <3>3 DEF b
  <2> HIDE DEF S
  <2>3. Cardinality(S) = n - a
    BY <2>1, <2>2
  <2> QED BY <2>3 DEF S
<1>3. ASSUME NEW k \in 1..c
      PROVE  (CHOOSE n \in I : Cardinality({i \in I : i < n}) = k - 1) = a + k - 1
  <2>1. a + k - 1 \in I
    OBVIOUS
  <2>2. \A n \in I : Cardinality({i \in I : i < n}) = k - 1 <=> n = a + k - 1
    BY <1>2
  <2> QED BY <2>1, <2>2
<1> QED BY <1>1, <1>3 DEF InOrder

LEMMA JoinedAll ==
  ASSUME NEW a \in Nat, NEW c \in Nat
  PROVE  AllBefore(a) \o [k \in 1..c |-> a + k - 1] = AllBefore(a + c)
<1> DEFINE t == [k \in 1..c |-> a + k - 1]
<1>1. t \in Seq(Nat) /\ Len(t) = c
  OBVIOUS
<1>2. AllBefore(a) \in Seq(Nat) /\ Len(AllBefore(a)) = a
  BY AllBeforeIsSeq
<1>3. AllBefore(a + c) \in Seq(Nat) /\ Len(AllBefore(a + c)) = a + c
  BY AllBeforeIsSeq
<1>4. AllBefore(a) \o t \in Seq(Nat) /\ Len(AllBefore(a) \o t) = a + c
  BY <1>1, <1>2
<1>5. \A k \in 1..(a + c) : (AllBefore(a) \o t)[k] = k - 1
  BY <1>1, <1>2 DEF AllBefore
<1>6. \A k \in 1..(a + c) : AllBefore(a + c)[k] = k - 1
  BY DEF AllBefore
<1> QED BY <1>3, <1>4, <1>5, <1>6, SeqEqual

\* Those that follow without a gap are an interval, and the next one is not saved.
LEMMA FollowsIsInterval ==
  ASSUME NEW l \in Nat, NEW last \in Nat, NEW x,
         Len(x.joined) = l, x.saved \subseteq l..last
  PROVE  \E c \in Nat : /\ Follows(x) = l..(l + c - 1)
                        /\ l + c \notin x.saved
                        /\ l + c <= last + 1 \/ c = 0
<1> DEFINE F == Follows(x)
           c == Cardinality(F)
<1>1. F \subseteq l..last
  BY DEF Follows
<1>2. IsFiniteSet(F) /\ c \in Nat
  <2>1. IsFiniteSet(l..last) /\ F \in SUBSET (l..last)
    BY <1>1, FS_Interval
  <2>2. IsFiniteSet(F)
    BY <2>1, FS_Subset
  <2> QED BY <2>2, FS_CardinalityType
<1>3. \A n \in F : l..n \subseteq F
  BY DEF Follows
<1>4. ASSUME NEW n \in F PROVE n - l + 1 <= c
  <2>1. n \in l..last /\ Cardinality(l..n) = n - l + 1
    BY <1>1, FS_Interval
  <2>2. Cardinality(l..n) <= c
    BY <1>2, <1>3, FS_Subset
  <2> QED BY <1>2, <2>1, <2>2
<1> HIDE DEF F, c
<1>5. F \subseteq l..(l + c - 1)
  BY <1>1, <1>2, <1>4
<1>6. IsFiniteSet(l..(l + c - 1)) /\ Cardinality(l..(l + c - 1)) = c
  BY <1>2, FS_Interval
<1>7. F = l..(l + c - 1)
  BY <1>5, <1>6, FS_Subset DEF c
<1>8. l + c \notin x.saved
  <2>1. SUFFICES ASSUME l + c \in x.saved PROVE FALSE
    OBVIOUS
  <2>2. l + c \in F
    BY <1>2, <1>7, <2>1 DEF F, Follows
  <2> QED BY <1>2, <1>7, <2>2
<1>9. l + c <= last + 1 \/ c = 0
  <2>1. CASE c = 0
    BY <2>1
  <2>2. CASE c # 0
    <3>1. l + c - 1 \in F
      BY <1>2, <1>7, <2>2
    <3> QED BY <1>1, <1>2, <3>1
  <2> QED BY <2>1, <2>2
<1> QED BY <1>2, <1>7, <1>8, <1>9 DEF F

\* What Joined makes of a sound message with its next fragment, which is not the last one.
LEMMA JoinedIsAlmostSound ==
  ASSUME SizesArePositive, NEW m \in Messages, NEW x, Sound(m, x), Len(x.joined) < Size[m] - 1
  PROVE  LET y == Joined(x, Len(x.joined))
         IN  /\ y \in [joined : Seq(Nat), saved : SUBSET Nat, age : {"none", "young", "old"}]
             /\ y.joined = AllBefore(Len(y.joined)) /\ Len(y.joined) \in 1..Size[m]
             /\ \A n \in y.saved : Len(y.joined) < n /\ n < Size[m]
<1> DEFINE l == Len(x.joined)
           u == [x EXCEPT !.joined = Append(@, l)]
           y == Joined(x, l)
<1>1. l \in Nat /\ Size[m] \in Nat /\ x.joined = AllBefore(l) /\ l < Size[m] - 1
  BY DEF Sound, SizesArePositive
<1>2. /\ u \in [joined : Seq(Nat), saved : SUBSET Nat, age : {"none", "young", "old"}]
      /\ u.joined = AllBefore(l + 1) /\ u.saved = x.saved
  <2>1. x \in [joined : Seq(Nat), saved : SUBSET Nat, age : {"none", "young", "old"}]
    BY DEF Sound
  <2>2. Append(x.joined, l) = AllBefore(l + 1) /\ Append(x.joined, l) \in Seq(Nat)
    <3> HIDE DEF l
    <3> QED BY <1>1, AllBeforeIsSeq
  <2> HIDE DEF l
  <2> QED BY <2>1, <2>2
<1>3. y = [u EXCEPT !.joined = @ \o InOrder(Follows(u)), !.saved = @ \ Follows(u)]
  BY DEF Joined
<1> DEFINE a == l + 1
<1>4. a \in Nat /\ a >= 1 /\ a <= Size[m] - 1 /\ Size[m] - 1 \in Nat /\ u.joined = AllBefore(a)
  <2> HIDE DEF l, u
  <2> QED BY <1>1, <1>2
<1>5. u.saved \subseteq a..(Size[m] - 1)
  <2>1. x.saved \subseteq Nat /\ \A n \in x.saved : l < n /\ n < Size[m]
    BY DEF Sound
  <2> HIDE DEF l, u
  <2> QED BY <1>1, <1>2, <2>1
<1> HIDE DEF l, u, y, a
<1>6. PICK c \in Nat : Follows(u) = a..(a + c - 1) /\ a + c \notin u.saved /\ (a + c <= Size[m] - 1 + 1 \/ c = 0)
  <2>1. Len(u.joined) = a
    BY <1>4, AllBeforeIsSeq
  <2> QED BY <1>4, <1>5, <2>1, FollowsIsInterval
<1>7. InOrder(Follows(u)) = [k \in 1..c |-> a + k - 1]
  BY <1>4, <1>6, IntervalInOrder
<1>8. u.joined \o InOrder(Follows(u)) = AllBefore(a + c)
  BY <1>4, <1>7, JoinedAll
<1> DEFINE b == a + c
<1>9. b \in Nat /\ b \in 1..Size[m]
  BY <1>1, <1>4, <1>6
<1>10. \A n \in u.saved \ Follows(u) : b < n /\ n < Size[m]
  BY <1>1, <1>4, <1>5, <1>6
<1> HIDE DEF b
<1>11. AllBefore(b) \in Seq(Nat) /\ Len(AllBefore(b)) = b
  BY <1>9, AllBeforeIsSeq
<1>12. /\ y \in [joined : Seq(Nat), saved : SUBSET Nat, age : {"none", "young", "old"}]
       /\ y.joined = AllBefore(b) /\ y.saved = u.saved \ Follows(u)
  BY <1>2, <1>3, <1>8, <1>11 DEF b
<1> QED BY <1>9, <1>10, <1>11, <1>12 DEF l, y

LEMMA NewIsSound ==
  ASSUME SizesArePositive, NEW m \in Messages, IncompleteIsSound
  PROVE  Sound(m, Incomplete(m))
<1>1. Sound(m, NewIncomplete)
  <2>1. AllBefore(0) = <<>>
    BY DEF AllBefore
  <2> QED BY <2>1 DEF Sound, NewIncomplete, SizesArePositive
<1> QED BY <1>1 DEF Incomplete, IncompleteIsSound

LEMMA SavedIsSound ==
  ASSUME NEW m, NEW x, Sound(m, x), NEW n \in Nat, Len(x.joined) < n, n < Size[m]
  PROVE  Sound(m, Saved(x, n))
BY DEF Sound, Saved

LEMMA WithKeepsSound ==
  ASSUME IncompleteIsSound, NEW m \in Messages, NEW x, Sound(m, x), incomplete' = With(m, x)
  PROVE  IncompleteIsSound'
BY DEF IncompleteIsSound, With, Messages, Sound

LEMMA WithoutKeepsSound ==
  ASSUME IncompleteIsSound, NEW m, incomplete' = Without(m)
  PROVE  IncompleteIsSound'
BY DEF IncompleteIsSound, Without, Messages, Sound

\* A fragment that completes its message, and one that does not.
LEMMA ProcessFragmentKeepsDataInv ==
  ASSUME SizesArePositive, DataInv, NEW p \in packets, ProcessFragment(p)
  PROVE  DataInv'
<1> DEFINE m == p.msg
           x == Incomplete(m)
           expected == p.n = Len(x.joined)
           y == IF ~expected THEN IF p.n < Len(x.joined) THEN x ELSE Saved(x, p.n)
                ELSE IF IsLast(m, p.n) THEN [x EXCEPT !.joined = Append(@, p.n)] ELSE Joined(x, p.n)
           complete == expected /\ IsLast(m, y.joined[Len(y.joined)])
<1>1. m \in Messages /\ p.n \in Nat /\ p.n < Size[m] /\ Size[m] \in Nat /\ Size[m] > 0
  BY DEF ProcessFragment, DataInv, OnTheWay, Fragments, SizesArePositive
<1>2. Sound(m, x)
  BY <1>1, NewIsSound DEF DataInv
<1>3. /\ unsent' = unsent /\ sentMessages' = sentMessages
      /\ IF complete
           THEN /\ incomplete' = Without(m)
                /\ packets' = (packets \ {p}) \cup {[type |-> "ack", msg |-> m]}
                /\ delivered' = IF m \in received THEN delivered
                                ELSE Append(delivered, [msg |-> m, joined |-> y.joined])
           ELSE /\ incomplete' = With(m, y) /\ delivered' = delivered
                /\ packets' = (packets \ {p}) \cup
                     {[type |-> "bitfield", msg |-> m, byte |-> p.n \div FieldBits, bit |-> p.n % FieldBits]}
  BY DEF ProcessFragment, sending
<1> HIDE DEF m, x
<1>4. ~complete => Sound(m, y)
  <2>1. CASE ~expected
    <3>1. Len(x.joined) \in Nat
      BY <1>2 DEF Sound
    <3>2. CASE p.n < Len(x.joined)
      BY <1>2, <2>1, <3>2
    <3>3. CASE ~(p.n < Len(x.joined))
      <4>1. y = Saved(x, p.n) /\ Len(x.joined) < p.n
        BY <1>1, <2>1, <3>1, <3>3
      <4> HIDE DEF y, complete
      <4> QED BY <1>1, <1>2, <4>1, SavedIsSound
    <3> QED BY <3>2, <3>3
  <2>2. CASE expected /\ ~IsLast(m, p.n)
    <3>1. y = Joined(x, Len(x.joined)) /\ Len(x.joined) < Size[m] - 1
      BY <1>1, <1>2, <2>2 DEF IsLast, Sound
    <3> HIDE DEF y
    <3>2. /\ y \in [joined : Seq(Nat), saved : SUBSET Nat, age : {"none", "young", "old"}]
          /\ y.joined = AllBefore(Len(y.joined)) /\ Len(y.joined) \in 1..Size[m]
          /\ \A n \in y.saved : Len(y.joined) < n /\ n < Size[m]
      BY <1>1, <1>2, <3>1, JoinedIsAlmostSound
    <3>3. y.joined[Len(y.joined)] = Len(y.joined) - 1
      BY <3>2 DEF AllBefore
    <3>4. ~complete => Len(y.joined) < Size[m]
      BY <1>1, <2>2, <3>2, <3>3 DEF IsLast
    <3> QED BY <3>2, <3>4 DEF Sound
  <2>3. CASE expected /\ IsLast(m, p.n)
    <3>1. y.joined = Append(x.joined, p.n)
      BY <1>2, <2>3 DEF Sound
    <3>2. y.joined[Len(y.joined)] = p.n
      BY <1>1, <1>2, <3>1 DEF Sound
    <3> QED BY <2>3, <3>2
  <2> QED BY <2>1, <2>2, <2>3
<1>5. complete => y.joined \in Seq(Nat) /\ y.joined = [k \in 1..Size[m] |-> k - 1]
  <2>1. SUFFICES ASSUME complete PROVE y.joined \in Seq(Nat) /\ y.joined = AllBefore(Size[m])
    BY DEF AllBefore
  <2>2. CASE IsLast(m, p.n)
    <3>1. y.joined = Append(AllBefore(p.n), p.n) /\ p.n + 1 = Size[m]
      BY <1>1, <1>2, <2>1, <2>2 DEF Sound, IsLast
    <3> HIDE DEF y
    <3> QED BY <1>1, <3>1, AllBeforeIsSeq
  <2>3. CASE ~IsLast(m, p.n)
    <3>1. y = Joined(x, Len(x.joined)) /\ Len(x.joined) < Size[m] - 1
      BY <1>1, <1>2, <2>1, <2>3 DEF IsLast, Sound
    <3>2. IsLast(m, y.joined[Len(y.joined)])
      BY <2>1
    <3> HIDE DEF y
    <3>3. /\ y \in [joined : Seq(Nat), saved : SUBSET Nat, age : {"none", "young", "old"}]
          /\ y.joined = AllBefore(Len(y.joined)) /\ Len(y.joined) \in 1..Size[m]
      BY <1>1, <1>2, <3>1, JoinedIsAlmostSound
    <3>4. y.joined[Len(y.joined)] = Len(y.joined) - 1
      BY <3>3 DEF AllBefore
    <3>5. Len(y.joined) = Size[m]
      BY <1>1, <3>2, <3>3, <3>4 DEF IsLast
    <3> QED BY <3>3, <3>5
  <2> QED BY <2>2, <2>3
<1> HIDE DEF y, complete
<1>6. IncompleteIsSound'
  <2>1. CASE complete
    BY <1>3, <2>1, WithoutKeepsSound DEF DataInv
  <2>2. CASE ~complete
    BY <1>1, <1>3, <1>4, <2>2, WithKeepsSound DEF DataInv
  <2> QED BY <2>1, <2>2
<1>7. DeliveredTypeOK' /\ DeliveredIsWhole'
  <2>1. CASE complete /\ m \notin received
    <3> DEFINE d == [msg |-> m, joined |-> y.joined]
    <3>1. d \in [msg : Messages, joined : Seq(Nat)] /\ d.msg = m /\ d.joined = [k \in 1..Size[m] |-> k - 1]
      BY <1>1, <1>5, <2>1
    <3>2. delivered' = Append(delivered, d)
      BY <1>3, <2>1
    <3> HIDE DEF d
    <3>3. DeliveredTypeOK'
      BY <3>1, <3>2 DEF DataInv, DeliveredTypeOK, Messages
    <3>4. ASSUME NEW i \in DOMAIN delivered' PROVE delivered'[i].joined = [k \in 1..Size[delivered'[i].msg] |-> k - 1]
      <4>1. CASE i = Len(delivered) + 1
        <5>1. delivered'[i] = d
          BY <3>2, <4>1 DEF DataInv, DeliveredTypeOK
        <5> QED BY <3>1, <5>1
      <4>2. CASE i # Len(delivered) + 1
        <5>1. i \in DOMAIN delivered /\ delivered'[i] = delivered[i]
          BY <3>1, <3>2, <3>4, <4>2 DEF DataInv, DeliveredTypeOK
        <5> QED BY <5>1 DEF DataInv, DeliveredIsWhole
      <4> QED BY <4>1, <4>2
    <3> QED BY <3>3, <3>4 DEF DeliveredIsWhole
  <2>2. CASE ~(complete /\ m \notin received)
    <3>1. delivered' = delivered
      BY <1>3, <2>2
    <3> QED BY <3>1 DEF DataInv, DeliveredTypeOK, DeliveredIsWhole, Messages
  <2> QED BY <2>1, <2>2
<1>8. OnTheWay'
  BY <1>3 DEF DataInv, OnTheWay, Messages, Fragments
<1> QED BY <1>3, <1>6, <1>7, <1>8 DEF DataInv, SentTypeOK, LeftAreFragments, Messages, Fragments

LEMMA ReceivingUnchanged ==
  ASSUME DataInv, UNCHANGED receiving
  PROVE  IncompleteIsSound' /\ DeliveredTypeOK' /\ DeliveredIsWhole'
BY DEF receiving, DataInv, IncompleteIsSound, DeliveredTypeOK, DeliveredIsWhole, Messages, Sound
LEMMA SendKeepsDataInv ==
  ASSUME DataInv, NEW m \in unsent, Send(m)
  PROVE  DataInv'
<1>1. IncompleteIsSound' /\ DeliveredTypeOK' /\ DeliveredIsWhole'
  BY ReceivingUnchanged DEF Send
<1>2. m \in Messages /\ Fragments(m) \subseteq Nat
  BY DEF DataInv, Fragments
<1>3. SentTypeOK' /\ LeftAreFragments' /\ unsent' \subseteq Messages
  BY <1>2 DEF DataInv, SentTypeOK, LeftAreFragments, Send, Messages, Fragments
<1>4. OnTheWay'
  BY <1>2 DEF DataInv, OnTheWay, Send, Data, Messages, Fragments
<1> QED BY <1>1, <1>3, <1>4 DEF DataInv, Messages

\* What is sent again has been sent before.
LEMMA ResendKeepsDataInv ==
  ASSUME DataInv, HandleResendTimer
  PROVE  DataInv'
<1>1. IncompleteIsSound' /\ DeliveredTypeOK' /\ DeliveredIsWhole' /\ unsent' = unsent
  BY ReceivingUnchanged DEF HandleResendTimer
<1>2. PICK due \in SUBSET {m \in Messages : Sent(m)} :
       /\ sentMessages' =
            [m \in Messages |-> IF m \in due THEN Resent(sentMessages, m)[m] ELSE sentMessages[m]]
       /\ packets' = packets \cup UNION {Data(m, sentMessages[m].left) :
                                         m \in {d \in due : sentMessages[d].resends < MaxResends}}
  BY DEF HandleResendTimer
<1>3. ASSUME NEW m \in Messages
      PROVE  /\ sentMessages'[m] \in [present : BOOLEAN, left : SUBSET Nat, resends : Nat]
             /\ sentMessages'[m].left \subseteq sentMessages[m].left
  <2>1. /\ Resent(sentMessages, m)[m] \in [present : BOOLEAN, left : SUBSET Nat, resends : Nat]
        /\ Resent(sentMessages, m)[m].left \subseteq sentMessages[m].left
    BY DEF Resent, Absent, DataInv, SentTypeOK
  <2> QED BY <1>2, <2>1 DEF DataInv, SentTypeOK
<1>4. SentTypeOK' /\ LeftAreFragments'
  BY <1>2, <1>3 DEF DataInv, SentTypeOK, LeftAreFragments, Messages, Fragments
<1>5. OnTheWay'
  <2>1. SUFFICES ASSUME NEW q \in packets', q.type = "fragment"
                 PROVE  q.msg \in Messages /\ q.n \in Fragments(q.msg)
    BY DEF OnTheWay, Messages, Fragments
  <2>2. CASE q \in packets
    BY <2>1, <2>2 DEF DataInv, OnTheWay
  <2>3. CASE q \notin packets
    <3>1. PICK m \in Messages : q \in Data(m, sentMessages[m].left)
      BY <1>2, <2>1, <2>3
    <3> QED BY <3>1 DEF Data, DataInv, LeftAreFragments
  <2> QED BY <2>2, <2>3
<1> QED BY <1>1, <1>4, <1>5 DEF DataInv, Messages

\* Acknowledgements take fragments away and put nothing on the way.
LEMMA AckKeepsDataInv ==
  ASSUME DataInv, NEW p \in packets, HandleMsgAck(p) \/ HandleFragmentAck(p)
  PROVE  DataInv'
<1>1. IncompleteIsSound' /\ DeliveredTypeOK' /\ DeliveredIsWhole' /\ unsent' = unsent
  BY ReceivingUnchanged DEF HandleMsgAck, HandleFragmentAck
<1>2. OnTheWay'
  BY DEF DataInv, OnTheWay, HandleMsgAck, HandleFragmentAck, Messages, Fragments
<1>3. SentTypeOK' /\ LeftAreFragments'
  <2>1. CASE HandleMsgAck(p)
    <3>1. sentMessages' = [sentMessages EXCEPT ![p.msg] = Absent]
      BY <2>1 DEF HandleMsgAck
    <3> QED BY <3>1 DEF DataInv, SentTypeOK, LeftAreFragments, Absent, Messages, Fragments
  <2>2. CASE HandleFragmentAck(p)
    <3>1. sentMessages' = [sentMessages EXCEPT ![p.msg] = [sentMessages[p.msg] EXCEPT !.left = @ \ {AckedFragment(p)}]]
      BY <2>2 DEF HandleFragmentAck
    <3>2. ASSUME NEW m \in Messages
          PROVE  /\ sentMessages'[m] \in [present : BOOLEAN, left : SUBSET Nat, resends : Nat]
                 /\ sentMessages'[m].left \subseteq sentMessages[m].left
      BY <3>1 DEF DataInv, SentTypeOK
    <3>3. sentMessages' \in [Messages -> [present : BOOLEAN, left : SUBSET Nat, resends : Nat]]
      BY <3>1, <3>2 DEF DataInv, SentTypeOK
    <3> QED BY <3>2, <3>3 DEF DataInv, SentTypeOK, LeftAreFragments, Messages, Fragments
  <2> QED BY <2>1, <2>2
<1> QED BY <1>1, <1>2, <1>3 DEF DataInv, Messages

LEMMA CleanupKeepsDataInv ==
  ASSUME DataInv, Cleanup \/ TimePasses
  PROVE  DataInv'
<1>1. unsent' = unsent /\ sentMessages' = sentMessages /\ packets' = packets /\ delivered' = delivered
  BY DEF Cleanup, TimePasses, sending
<1>2. IncompleteIsSound'
  <2>1. CASE Cleanup
    BY <2>1 DEF Cleanup, DataInv, IncompleteIsSound, Messages, Sound
  <2>2. CASE TimePasses
    BY <2>2 DEF TimePasses, DataInv, IncompleteIsSound, Messages, Sound
  <2> QED BY <2>1, <2>2
<1> QED
  BY <1>1, <1>2 DEF DataInv, SentTypeOK, LeftAreFragments, OnTheWay, DeliveredTypeOK, DeliveredIsWhole,
                    Messages, Fragments

\* A message that the session puts to its handler is whole, whatever its size, however the packets
\* of both directions are lost, overtaken and repeated, and whenever timers run.
THEOREM DeliveredAreWhole ==
  ASSUME SizesArePositive
  PROVE  DataSpec => []DeliveredIsWhole
<1>1. DataInit => DataInv
  <2>1. SUFFICES ASSUME DataInit PROVE DataInv
    OBVIOUS
  <2>2. SentTypeOK /\ LeftAreFragments
    BY <2>1 DEF DataInit, SentTypeOK, LeftAreFragments, Absent
  <2>3. IncompleteIsSound /\ OnTheWay
    BY <2>1 DEF DataInit, IncompleteIsSound, OnTheWay
  <2>4. DeliveredTypeOK /\ DeliveredIsWhole
    BY <2>1 DEF DataInit, DeliveredTypeOK, DeliveredIsWhole
  <2> QED BY <2>1, <2>2, <2>3, <2>4 DEF DataInit, DataInv
<1>2. DataInv /\ [DataNext]_dataVars => DataInv'
  <2>1. SUFFICES ASSUME DataInv, [DataNext]_dataVars PROVE DataInv'
    OBVIOUS
  <2>2. CASE \E m \in unsent : Send(m)
    BY <2>1, <2>2, SendKeepsDataInv
  <2>3. CASE HandleResendTimer
    BY <2>1, <2>3, ResendKeepsDataInv
  <2>4. CASE Cleanup \/ TimePasses
    BY <2>1, <2>4, CleanupKeepsDataInv
  <2>5. ASSUME NEW p \in packets, HandleMsgAck(p) \/ HandleFragmentAck(p) PROVE DataInv'
    BY <2>1, <2>5, AckKeepsDataInv
  <2>6. ASSUME NEW p \in packets, ProcessFragment(p) PROVE DataInv'
    BY <2>1, <2>6, ProcessFragmentKeepsDataInv
  <2>7. CASE ResendTimerExpires \/ (\E p \in packets : LosePacket(p)) \/ UNCHANGED dataVars
    <3>1. unsent' = unsent /\ sentMessages' = sentMessages /\ packets' \subseteq packets /\ UNCHANGED receiving
      BY <2>7 DEF ResendTimerExpires, LosePacket, sending, dataVars, receiving
    <3>2. IncompleteIsSound' /\ DeliveredTypeOK' /\ DeliveredIsWhole'
      BY <2>1, <3>1, ReceivingUnchanged
    <3> QED BY <2>1, <3>1, <3>2 DEF DataInv, SentTypeOK, LeftAreFragments, OnTheWay, Messages, Fragments
  <2> QED BY <2>1, <2>2, <2>3, <2>4, <2>5, <2>6, <2>7 DEF DataNext
<1>3. DataInv => DeliveredIsWhole
  BY DEF DataInv
<1> QED BY <1>1, <1>2, <1>3, PTL DEF DataSpec
=============================================================================
