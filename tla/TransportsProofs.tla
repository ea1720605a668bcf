--------------------------- MODULE TransportsProofs ---------------------------
(***************************************************************************)
(* What module Transports promises holds for any limit of delayed messages,  *)
(* any size of a batch and any number of messages and sessions.             *)
(*                                                                         *)
(* A message is in one of three places: in a handler that is posted, in the  *)
(* entry of the peer, or with a session.  It moves on from one to the next    *)
(* and never back, and what is in a place was posted after all that has left  *)
(* it: Line says so of the three places together.                           *)
(*                                                                         *)
(* A session that is open has its handler on the way or is in the entry,      *)
(* because an entry that is dropped tells the sessions in it to end.         *)
(***************************************************************************)
EXTENDS Transports, TLAPS

States == {"connecting", "open", "done", "closed"}

Handlers ==
  [type : {"messages"}, msgs : Seq(Nat)] \cup [type : {"request"}, found : BOOLEAN]
    \cup [type : {"connected", "disconnected"}, session : Nat] \cup [type : {"close"}]

Entries ==
  [known : {TRUE}, attempts : Nat, hasRouter : BOOLEAN, sessions : SUBSET Nat, old : BOOLEAN,
   delayed : Seq(Nat)]

Typed ==
  /\ peer \in Entries \/ peer = NoPeer
  /\ session \in Seq(States) /\ queue \in Seq(Handlers)
  /\ posted \in Nat /\ sent \in Seq(Nat)

----------------------------------------------------------------------------
(* Messages in the order of their posting.                                   *)

Rising(q) == \A i, j \in DOMAIN q : i < j => q[i] < q[j]
Below(q, r) == \A i \in DOMAIN q, j \in DOMAIN r : q[i] < r[j]
UpTo(q, n) == \A i \in DOMAIN q : q[i] <= n

Brings(Q, i) == i \in DOMAIN Q /\ Q[i].type = "messages"

\* S is with sessions, D is in the entry, Q are the handlers, and n messages have been posted.
Line(S, D, Q, n) ==
  /\ Rising(S) /\ UpTo(S, n)
  /\ Rising(D) /\ UpTo(D, n) /\ Below(S, D)
  /\ \A i \in DOMAIN Q : Brings(Q, i) =>
       /\ Rising(Q[i].msgs) /\ UpTo(Q[i].msgs, n)
       /\ Below(S, Q[i].msgs) /\ Below(D, Q[i].msgs)
  /\ \A i, j \in DOMAIN Q : Brings(Q, i) /\ Brings(Q, j) /\ i < j => Below(Q[i].msgs, Q[j].msgs)

Delayed(p) == IF p.known THEN p.delayed ELSE <<>>

InLine == Line(sent, Delayed(peer), queue, posted)

\* An entry that has a session has handed its messages over.
NothingWaits == peer.known /\ peer.sessions # {} => peer.delayed = <<>>

\* The session whose end is posted has ended.
GoneIsClosed ==
  \A i \in DOMAIN queue : queue[i].type = "disconnected" =>
    queue[i].session \in DOMAIN session /\ session[queue[i].session] = "closed"

IInv == Typed /\ InLine /\ NothingWaits /\ GoneIsClosed /\ OpenIsListed

----------------------------------------------------------------------------
(* Lemmas about sequences of messages and handlers.                          *)

LEMMA EmptyIsSeq == <<>> \in Seq(Nat) /\ DOMAIN <<>> = {}
OBVIOUS

LEMMA Joining ==
  ASSUME NEW q \in Seq(Nat), NEW r \in Seq(Nat)
  PROVE  /\ q \o r \in Seq(Nat)
         /\ \A i \in DOMAIN (q \o r) :
              \/ i \in DOMAIN q /\ (q \o r)[i] = q[i]
              \/ /\ i - Len(q) \in DOMAIN r /\ (q \o r)[i] = r[i - Len(q)]
                 /\ \A j \in DOMAIN q : j < i
OBVIOUS

LEMMA RisingJoined ==
  ASSUME NEW q \in Seq(Nat), NEW r \in Seq(Nat), Rising(q), Rising(r), Below(q, r)
  PROVE  Rising(q \o r)
<1> SUFFICES ASSUME NEW i \in DOMAIN (q \o r), NEW j \in DOMAIN (q \o r), i < j
             PROVE  (q \o r)[i] < (q \o r)[j]
  BY DEF Rising
<1>1. CASE i \in DOMAIN q /\ j \in DOMAIN q
  BY <1>1, Joining DEF Rising
<1>2. CASE i \in DOMAIN q /\ j \notin DOMAIN q
  BY <1>2, Joining DEF Below
<1>3. CASE i \notin DOMAIN q
  <2>1. i - Len(q) \in DOMAIN r /\ (q \o r)[i] = r[i - Len(q)] /\ j \notin DOMAIN q
    BY <1>3, Joining
  <2>2. j - Len(q) \in DOMAIN r /\ (q \o r)[j] = r[j - Len(q)]
    BY <2>1, Joining
  <2>3. i - Len(q) < j - Len(q)
    OBVIOUS
  <2> QED BY <2>1, <2>2, <2>3 DEF Rising
<1> QED BY <1>1, <1>2, <1>3

LEMMA BelowJoined ==
  ASSUME NEW q \in Seq(Nat), NEW r \in Seq(Nat), NEW x \in Seq(Nat), Below(q, x), Below(r, x)
  PROVE  Below(q \o r, x)
BY Joining DEF Below

LEMMA UpToJoined ==
  ASSUME NEW q \in Seq(Nat), NEW r \in Seq(Nat), NEW n \in Nat, UpTo(q, n), UpTo(r, n)
  PROVE  UpTo(q \o r, n)
BY Joining DEF UpTo

LEMMA Rest ==
  ASSUME NEW Q \in Seq(Handlers), Q # <<>>
  PROVE  /\ 1 \in DOMAIN Q /\ Head(Q) = Q[1] /\ Q[1] \in Handlers /\ Tail(Q) \in Seq(Handlers)
         /\ \A i \in DOMAIN Tail(Q) : i + 1 \in DOMAIN Q /\ Tail(Q)[i] = Q[i + 1] /\ 1 < i + 1
         /\ \A i \in DOMAIN Q : \/ i = 1
                                \/ i - 1 \in DOMAIN Tail(Q) /\ Tail(Q)[i - 1] = Q[i]
OBVIOUS

LEMMA Posting ==
  ASSUME NEW Q \in Seq(Handlers), NEW h \in Handlers
  PROVE  /\ Append(Q, h) \in Seq(Handlers)
         /\ \A i \in DOMAIN Append(Q, h) :
              \/ i \in DOMAIN Q /\ Append(Q, h)[i] = Q[i]
              \/ i = Len(Q) + 1 /\ Append(Q, h)[i] = h
         /\ Len(Q) + 1 \in DOMAIN Append(Q, h) /\ Append(Q, h)[Len(Q) + 1] = h
         /\ \A i \in DOMAIN Q : i \in DOMAIN Append(Q, h) /\ i < Len(Q) + 1
OBVIOUS

LEMMA BringsMessages ==
  ASSUME NEW h \in Handlers, h.type = "messages"
  PROVE  h.msgs \in Seq(Nat)
BY DEF Handlers

----------------------------------------------------------------------------
(* What the handlers do to the three places.                                 *)

\* The entry is dropped, and the messages in it with it.
LEMMA LineDrops ==
  ASSUME NEW S, NEW D, NEW Q, NEW n, Line(S, D, Q, n)
  PROVE  Line(S, <<>>, Q, n)
BY EmptyIsSeq DEF Line, Rising, UpTo, Below

\* A handler is taken.
LEMMA LineTakes ==
  ASSUME NEW S, NEW D, NEW Q \in Seq(Handlers), NEW n, Q # <<>>, Line(S, D, Q, n)
  PROVE  Line(S, D, Tail(Q), n)
<1>1. ASSUME NEW i \in DOMAIN Tail(Q), Brings(Tail(Q), i)
      PROVE  Brings(Q, i + 1) /\ i + 1 \in DOMAIN Q /\ Tail(Q)[i] = Q[i + 1]
  BY <1>1, Rest DEF Brings
<1>2. \A i \in DOMAIN Tail(Q) : i \in Nat
  OBVIOUS
<1>3. \A i \in DOMAIN Tail(Q) : Brings(Tail(Q), i) =>
        /\ Rising(Tail(Q)[i].msgs) /\ UpTo(Tail(Q)[i].msgs, n)
        /\ Below(S, Tail(Q)[i].msgs) /\ Below(D, Tail(Q)[i].msgs)
  BY <1>1 DEF Line
<1>4. \A i, j \in DOMAIN Tail(Q) : Brings(Tail(Q), i) /\ Brings(Tail(Q), j) /\ i < j =>
        Below(Tail(Q)[i].msgs, Tail(Q)[j].msgs)
  <2> SUFFICES ASSUME NEW i \in DOMAIN Tail(Q), NEW j \in DOMAIN Tail(Q),
                      Brings(Tail(Q), i), Brings(Tail(Q), j), i < j
               PROVE  Below(Tail(Q)[i].msgs, Tail(Q)[j].msgs)
    OBVIOUS
  <2>1. i + 1 < j + 1
    BY <1>2
  <2> QED BY <1>1, <2>1 DEF Line
<1> QED BY <1>3, <1>4 DEF Line

\* The messages of the first handler come into the entry.
LEMMA LineDelays ==
  ASSUME NEW S \in Seq(Nat), NEW D \in Seq(Nat), NEW Q \in Seq(Handlers), NEW n \in Nat,
         Q # <<>>, Head(Q).type = "messages", Line(S, D, Q, n)
  PROVE  Line(S, D \o Head(Q).msgs, Tail(Q), n)
<1> DEFINE M == Head(Q).msgs
<1>1. Head(Q) = Q[1] /\ 1 \in DOMAIN Q /\ Brings(Q, 1) /\ M \in Seq(Nat)
  BY Rest, BringsMessages DEF Brings
<1>2. Rising(M) /\ UpTo(M, n) /\ Below(S, M) /\ Below(D, M)
  BY <1>1 DEF Line
<1>3. Line(S, D, Tail(Q), n)
  BY LineTakes
<1>4. Rising(D \o M) /\ UpTo(D \o M, n)
  BY <1>1, <1>2, <1>3, RisingJoined, UpToJoined DEF Line
<1>5. Below(S, D \o M)
  BY <1>1, <1>2, <1>3, Joining DEF Line, Below
<1>6. ASSUME NEW i \in DOMAIN Tail(Q), Brings(Tail(Q), i)
      PROVE  Below(D \o M, Tail(Q)[i].msgs)
  <2>1. i + 1 \in DOMAIN Q /\ Tail(Q)[i] = Q[i + 1] /\ 1 < i + 1
    BY Rest
  <2>2. Brings(Q, i + 1) /\ Tail(Q)[i].msgs \in Seq(Nat)
    BY <1>6, <2>1, BringsMessages DEF Brings
  <2>3. Below(M, Tail(Q)[i].msgs)
    BY <1>1, <2>1, <2>2 DEF Line
  <2>4. Below(D, Tail(Q)[i].msgs)
    BY <1>3, <1>6 DEF Line
  <2> QED BY <1>1, <2>2, <2>3, <2>4, BelowJoined
<1> QED BY <1>3, <1>4, <1>5, <1>6 DEF Line

\* A session takes the messages of the entry.
LEMMA LineSends ==
  ASSUME NEW S \in Seq(Nat), NEW D \in Seq(Nat), NEW Q \in Seq(Handlers), NEW n \in Nat,
         Line(S, D, Q, n)
  PROVE  Line(S \o D, <<>>, Q, n)
<1>1. Rising(S \o D) /\ UpTo(S \o D, n)
  BY RisingJoined, UpToJoined DEF Line
<1>2. ASSUME NEW i \in DOMAIN Q, Brings(Q, i)
      PROVE  Below(S \o D, Q[i].msgs)
  <2>1. Q[i].msgs \in Seq(Nat)
    BY <1>2, BringsMessages DEF Brings
  <2> QED BY <1>2, <2>1, BelowJoined DEF Line
<1>3. Rising(<<>>) /\ UpTo(<<>>, n) /\ Below(S \o D, <<>>) /\ \A q : Below(<<>>, q)
  BY EmptyIsSeq DEF Rising, UpTo, Below
<1> QED BY <1>1, <1>2, <1>3 DEF Line

\* A handler without messages is posted.
LEMMA LinePosts ==
  ASSUME NEW S, NEW D, NEW Q \in Seq(Handlers), NEW n, NEW h \in Handlers,
         h.type # "messages", Line(S, D, Q, n)
  PROVE  Line(S, D, Append(Q, h), n)
<1>1. ASSUME NEW i \in DOMAIN Append(Q, h), Brings(Append(Q, h), i)
      PROVE  i \in DOMAIN Q /\ Brings(Q, i) /\ Append(Q, h)[i] = Q[i]
  BY <1>1, Posting DEF Brings
<1>2. \A i \in DOMAIN Append(Q, h) : Brings(Append(Q, h), i) =>
        /\ Rising(Append(Q, h)[i].msgs) /\ UpTo(Append(Q, h)[i].msgs, n)
        /\ Below(S, Append(Q, h)[i].msgs) /\ Below(D, Append(Q, h)[i].msgs)
  BY <1>1 DEF Line
<1>3. \A i, j \in DOMAIN Append(Q, h) :
        Brings(Append(Q, h), i) /\ Brings(Append(Q, h), j) /\ i < j =>
          Below(Append(Q, h)[i].msgs, Append(Q, h)[j].msgs)
  BY <1>1 DEF Line
<1> QED BY <1>2, <1>3 DEF Line

\* The next k messages are posted.
LEMMA LinePostsMessages ==
  ASSUME NEW S \in Seq(Nat), NEW D \in Seq(Nat), NEW Q \in Seq(Handlers), NEW n \in Nat,
         NEW k \in Nat, Line(S, D, Q, n)
  PROVE  LET h == [type |-> "messages", msgs |-> [i \in 1 .. k |-> n + i]]
         IN  h \in Handlers /\ Line(S, D, Append(Q, h), n + k)
<1> DEFINE M == [i \in 1 .. k |-> n + i]
           h == [type |-> "messages", msgs |-> M]
           R == Append(Q, h)
<1>1. M \in Seq(Nat) /\ Rising(M) /\ UpTo(M, n + k) /\ \A i \in DOMAIN M : n < M[i]
  BY DEF Rising, UpTo
<1>2. h \in Handlers
  BY <1>1 DEF Handlers
<1>3. ASSUME NEW q \in Seq(Nat), UpTo(q, n)
      PROVE  UpTo(q, n + k) /\ Below(q, M)
  <2>1. \A i \in DOMAIN q : q[i] \in Nat /\ q[i] <= n
    BY <1>3 DEF UpTo
  <2> HIDE DEF M
  <2> QED BY <1>1, <2>1 DEF UpTo, Below
<1> HIDE DEF M
<1>4. ASSUME NEW i \in DOMAIN R, Brings(R, i)
      PROVE  \/ i \in DOMAIN Q /\ Brings(Q, i) /\ R[i] = Q[i] /\ Q[i].msgs \in Seq(Nat) /\ i <= Len(Q)
             \/ i = Len(Q) + 1 /\ R[i] = h
  <2>1. CASE i \in DOMAIN Q /\ R[i] = Q[i]
    <3>1. Brings(Q, i) /\ Q[i] \in Handlers
      BY <1>4, <2>1 DEF Brings
    <3> QED BY <2>1, <3>1, BringsMessages DEF Brings
  <2>2. CASE i = Len(Q) + 1 /\ R[i] = h
    BY <2>2
  <2> QED BY <1>2, <2>1, <2>2, Posting
<1>5. \A i \in DOMAIN R : Brings(R, i) =>
        /\ Rising(R[i].msgs) /\ UpTo(R[i].msgs, n + k)
        /\ Below(S, R[i].msgs) /\ Below(D, R[i].msgs)
  <2> SUFFICES ASSUME NEW i \in DOMAIN R, Brings(R, i)
               PROVE  /\ Rising(R[i].msgs) /\ UpTo(R[i].msgs, n + k)
                      /\ Below(S, R[i].msgs) /\ Below(D, R[i].msgs)
    OBVIOUS
  <2>1. CASE R[i] = h
    <3>1. R[i].msgs = M
      BY <2>1
    <3> QED BY <1>1, <1>3, <3>1 DEF Line
  <2>2. CASE i \in DOMAIN Q /\ Brings(Q, i) /\ R[i] = Q[i] /\ Q[i].msgs \in Seq(Nat)
    BY <1>3, <2>2 DEF Line
  <2> QED BY <1>4, <2>1, <2>2
<1>6. \A i, j \in DOMAIN R : Brings(R, i) /\ Brings(R, j) /\ i < j => Below(R[i].msgs, R[j].msgs)
  <2> SUFFICES ASSUME NEW i \in DOMAIN R, NEW j \in DOMAIN R, Brings(R, i), Brings(R, j), i < j
               PROVE  Below(R[i].msgs, R[j].msgs)
    OBVIOUS
  <2>0. i \in Nat /\ j \in Nat /\ j <= Len(Q) + 1
    BY <1>2, Posting
  <2>1. i \in DOMAIN Q /\ Brings(Q, i) /\ R[i] = Q[i] /\ Q[i].msgs \in Seq(Nat)
    BY <1>4, <2>0
  <2>2. CASE R[j] = h
    <3>1. R[j].msgs = M /\ UpTo(R[i].msgs, n)
      BY <2>1, <2>2 DEF Line
    <3> QED BY <1>3, <2>1, <3>1
  <2>3. CASE j \in DOMAIN Q /\ Brings(Q, j) /\ R[j] = Q[j]
    BY <2>1, <2>3 DEF Line
  <2> QED BY <1>4, <2>2, <2>3
<1>7. Rising(S) /\ UpTo(S, n + k) /\ Rising(D) /\ UpTo(D, n + k) /\ Below(S, D)
  BY <1>3 DEF Line
<1>8. Line(S, D, Append(Q, h), n + k)
  BY <1>5, <1>6, <1>7 DEF Line
<1> QED BY <1>2, <1>8 DEF M

----------------------------------------------------------------------------
(* Sessions.                                                                 *)

\* From sessions s to sessions t no one opens, and who has ended stays so.
NoneOpens(s, t) ==
  /\ DOMAIN s \subseteq DOMAIN t
  /\ \A i \in DOMAIN t : t[i] = "open" => i \in DOMAIN s /\ s[i] = "open"
  /\ \A i \in DOMAIN s : s[i] = "closed" => t[i] = "closed"

LEMMA OneChanges ==
  ASSUME session \in Seq(States), NEW s, NEW x, s \in DOMAIN session => x \in States
  PROVE  LET t == [session EXCEPT ![s] = x]
         IN  /\ t \in Seq(States) /\ DOMAIN t = DOMAIN session
             /\ \A i \in DOMAIN session : t[i] = IF i = s THEN x ELSE session[i]
<1>1. [session EXCEPT ![s] = x] = [i \in 1 .. Len(session) |-> IF i = s THEN x ELSE session[i]]
  OBVIOUS
<1>2. \A i \in 1 .. Len(session) : (IF i = s THEN x ELSE session[i]) \in States
  OBVIOUS
<1>3. [i \in 1 .. Len(session) |-> IF i = s THEN x ELSE session[i]] \in Seq(States)
  BY <1>2
<1> QED BY <1>1, <1>3

LEMMA DoneAllEnds ==
  ASSUME NEW p, session \in Seq(States)
  PROVE  /\ DoneAll(p) \in Seq(States) /\ NoneOpens(session, DoneAll(p))
         /\ \A i \in DOMAIN session : DoneAll(p)[i] = "open" => i \notin p.sessions
<1>1. \A i \in DOMAIN session : DoneAll(p)[i] \in States
  BY DEF DoneAll, States
<1>2. DOMAIN DoneAll(p) = 1 .. Len(session) /\ DoneAll(p) = [i \in 1 .. Len(session) |-> DoneAll(p)[i]]
  BY DEF DoneAll
<1>3. DoneAll(p) \in Seq(States)
  BY <1>1, <1>2
<1> QED BY <1>3 DEF DoneAll, NoneOpens

LEMMA LowestTransport ==
  ASSUME NEW p \in Entries, Left(p) # {}
  PROVE  Min(Left(p)) \in Nat
<1>1. Left(p) \subseteq {1, 2, 3}
  <2>1. Len(Order) = 3
    BY DEF Order
  <2> QED BY <2>1 DEF Left, Entries
<1>2. \E x \in Left(p) : \A y \in Left(p) : x <= y
  BY <1>1
<1> QED BY <1>1, <1>2 DEF Min

\* ConnectToPeer either keeps the entry as it is, or drops it and tells its sessions.
LEMMA Connecting ==
  ASSUME NEW p \in Entries, session \in Seq(States), ConnectToPeer(p)
  PROVE  /\ session' \in Seq(States) /\ NoneOpens(session, session')
         /\ \/ /\ peer' \in Entries /\ peer'.sessions = p.sessions /\ peer'.delayed = p.delayed
               /\ peer'.known
            \/ /\ peer' = NoPeer
               /\ \A i \in DOMAIN session' : session'[i] = "open" => i \notin p.sessions
<1>0. p.known
  BY DEF Entries
<1>1. CASE ~p.hasRouter
  BY <1>0, <1>1 DEF ConnectToPeer, NoneOpens
<1>2. CASE p.hasRouter /\ Left(p) # {}
  <2>1. session' = Append(session, "connecting") /\ peer' = [p EXCEPT !.attempts = Min(Left(p))]
    BY <1>2 DEF ConnectToPeer
  <2>2. peer' \in Entries /\ peer'.sessions = p.sessions /\ peer'.delayed = p.delayed /\ peer'.known
    BY <1>0, <1>2, <2>1, LowestTransport DEF Entries
  <2>3. session' \in Seq(States) /\ NoneOpens(session, session')
    BY <2>1 DEF States, NoneOpens
  <2> QED BY <2>2, <2>3
<1>3. CASE p.hasRouter /\ Left(p) = {}
  <2>1. session' = DoneAll(p) /\ peer' = NoPeer
    BY <1>3 DEF ConnectToPeer
  <2>2. \A i \in DOMAIN session' : i \in DOMAIN session
    BY <2>1 DEF DoneAll
  <2> QED BY <2>1, <2>2, DoneAllEnds
<1> QED BY <1>1, <1>2, <1>3

LEMMA NoPeerHasNothing == ~NoPeer.known /\ Delayed(NoPeer) = <<>>
BY DEF NoPeer, Delayed

LEMMA EntryIsKnown == \A p \in Entries : p.known /\ Delayed(p) = p.delayed /\ p.delayed \in Seq(Nat)
BY DEF Entries, Delayed

LEMMA DelayedIsSeq ==
  ASSUME Typed PROVE Delayed(peer) \in Seq(Nat)
BY EmptyIsSeq, EntryIsKnown, NoPeerHasNothing DEF Typed

\* A session whose handler is not posted, after one handler has been taken.
LEMMA AnnouncedTakes ==
  ASSUME queue \in Seq(Handlers), NEW type, Takes(type), NEW s, Announced(s)',
         Head(queue).type \in {"connected", "disconnected"} => Head(queue).session # s
  PROVE  Announced(s)
<1> SUFFICES ASSUME NEW i \in DOMAIN queue, queue[i].type \in {"connected", "disconnected"}
             PROVE  queue[i].session # s
  BY DEF Announced
<1>1. queue # <<>> /\ queue' = Tail(queue)
  BY DEF Takes
<1>2. CASE i = 1
  BY <1>1, <1>2, Rest
<1>3. CASE i - 1 \in DOMAIN queue' /\ queue'[i - 1] = queue[i]
  BY <1>3 DEF Announced
<1> QED BY <1>1, <1>2, <1>3, Rest

LEMMA AnnouncedPosts ==
  ASSUME queue \in Seq(Handlers), NEW h \in Handlers, Post(h), NEW s, Announced(s)'
  PROVE  /\ Announced(s)
         /\ h.type \in {"connected", "disconnected"} => h.session # s
<1>1. queue' = Append(queue, h)
  BY DEF Post
<1>2. \A i \in DOMAIN queue : i \in DOMAIN queue' /\ queue'[i] = queue[i]
  BY <1>1, Posting
<1>3. Len(queue) + 1 \in DOMAIN queue' /\ queue'[Len(queue) + 1] = h
  BY <1>1, Posting
<1> QED BY <1>2, <1>3 DEF Announced

LEMMA GoneTakes ==
  ASSUME queue \in Seq(Handlers), NEW type, Takes(type), GoneIsClosed,
         NoneOpens(session, session')
  PROVE  GoneIsClosed'
<1> SUFFICES ASSUME NEW i \in DOMAIN queue', queue'[i].type = "disconnected"
             PROVE  queue'[i].session \in DOMAIN session' /\ session'[queue'[i].session] = "closed"
  BY DEF GoneIsClosed
<1>1. i + 1 \in DOMAIN queue /\ queue'[i] = queue[i + 1]
  BY Rest DEF Takes
<1>2. queue'[i].session \in DOMAIN session /\ session[queue'[i].session] = "closed"
  BY <1>1 DEF GoneIsClosed
<1> QED BY <1>2 DEF NoneOpens

LEMMA GonePosts ==
  ASSUME queue \in Seq(Handlers), NEW h \in Handlers, Post(h), GoneIsClosed,
         DOMAIN session \subseteq DOMAIN session',
         \A i \in DOMAIN session : session[i] = "closed" => session'[i] = "closed",
         h.type = "disconnected" =>
           h.session \in DOMAIN session' /\ session'[h.session] = "closed"
  PROVE  GoneIsClosed'
<1>1. queue' = Append(queue, h)
  BY DEF Post
<1> SUFFICES ASSUME NEW i \in DOMAIN queue', queue'[i].type = "disconnected"
             PROVE  queue'[i].session \in DOMAIN session' /\ session'[queue'[i].session] = "closed"
  BY DEF GoneIsClosed
<1>2. CASE i \in DOMAIN queue /\ queue'[i] = queue[i]
  BY <1>2 DEF GoneIsClosed
<1>3. CASE queue'[i] = h
  BY <1>3
<1> QED BY <1>1, <1>2, <1>3, Posting

\* A step that takes a handler keeps the list when no session opens, and those of the entry
\* that stay open, and the one of the handler, are in the entry afterwards or are orphans.
LEMMA ListedTakes ==
  ASSUME Typed, OpenIsListed, NEW type, Takes(type),
         NoneOpens(session, session'), orphans \subseteq orphans',
         \A s \in DOMAIN session' :
           /\ session'[s] = "open" /\ s \notin orphans'
           /\ \/ peer.known /\ s \in peer.sessions
              \/ Head(queue).type \in {"connected", "disconnected"} /\ Head(queue).session = s
           => peer'.known /\ s \in peer'.sessions
  PROVE  OpenIsListed'
<1> SUFFICES ASSUME NEW s \in DOMAIN session', session'[s] = "open", Announced(s)', s \notin orphans'
             PROVE  peer'.known /\ s \in peer'.sessions
  BY DEF OpenIsListed
<1>1. CASE Head(queue).type \in {"connected", "disconnected"} /\ Head(queue).session = s
  BY <1>1
<1>2. CASE ~(Head(queue).type \in {"connected", "disconnected"} /\ Head(queue).session = s)
  <2>1. Announced(s)
    BY <1>2, AnnouncedTakes DEF Typed
  <2>2. s \in DOMAIN session /\ session[s] = "open"
    BY DEF NoneOpens
  <2>3. peer.known /\ s \in peer.sessions
    BY <2>1, <2>2 DEF OpenIsListed
  <2> QED BY <2>3
<1> QED BY <1>1, <1>2

----------------------------------------------------------------------------
(* One lemma for each handler and each thing that happens elsewhere.          *)

LEMMA TakenHandler ==
  ASSUME Typed, NEW type, Takes(type)
  PROVE  /\ queue # <<>> /\ Head(queue) \in Handlers /\ Head(queue).type = type
         /\ queue' = Tail(queue) /\ queue' \in Seq(Handlers)
BY Rest DEF Typed, Takes

LEMMA PostMessagesKeeps ==
  ASSUME IInv, PostMessages
  PROVE  IInv'
<1> DEFINE msgs == Head(queue).msgs
<1>0. Typed /\ InLine /\ NothingWaits /\ GoneIsClosed /\ OpenIsListed /\ Takes("messages")
  BY DEF IInv, PostMessages
<1>1. /\ queue # <<>> /\ Head(queue) \in Handlers /\ Head(queue).type = "messages"
      /\ queue' = Tail(queue) /\ queue' \in Seq(Handlers) /\ msgs \in Seq(Nat)
  BY <1>0, TakenHandler, BringsMessages
<1>2. /\ posted' = posted /\ orphans' = orphans /\ posted \in Nat /\ sent \in Seq(Nat)
      /\ session \in Seq(States) /\ queue \in Seq(Handlers) /\ Delayed(peer) \in Seq(Nat)
  BY <1>0, DelayedIsSeq DEF PostMessages, Typed
<1>3. Line(sent, Delayed(peer) \o msgs, queue', posted) /\ Line(sent, Delayed(peer), queue', posted)
  BY <1>0, <1>1, <1>2, LineDelays, LineTakes DEF InLine
<1>4. Line(sent, <<>>, queue', posted)
  BY <1>3, LineDrops
<1>5. <<>> \o msgs = msgs
  BY <1>1
<1>6. CASE ~allowed.peer /\ UNCHANGED <<peer, session, requested, sent>>
  <2>1. NoneOpens(session, session')
    BY <1>6 DEF NoneOpens
  <2>2. GoneIsClosed' /\ OpenIsListed'
    BY <1>0, <1>1, <1>2, <1>6, <2>1, GoneTakes, ListedTakes DEF Typed
  <2> QED BY <1>0, <1>1, <1>2, <1>3, <1>6, <2>2 DEF IInv, Typed, InLine, NothingWaits
<1>7. CASE ~peer.known /\ sent' = sent /\ \E found \in BOOLEAN : ConnectToPeer(NewPeer(found, {}, msgs))
  <2>1. PICK found \in BOOLEAN : ConnectToPeer(NewPeer(found, {}, msgs))
    BY <1>7
  <2>2. /\ NewPeer(found, {}, msgs) \in Entries /\ NewPeer(found, {}, msgs).sessions = {}
        /\ NewPeer(found, {}, msgs).delayed = msgs
    BY <1>1 DEF NewPeer, Entries
  <2>3. /\ session' \in Seq(States) /\ NoneOpens(session, session')
        /\ \/ peer' \in Entries /\ peer'.sessions = {} /\ peer'.delayed = msgs /\ peer'.known
           \/ peer' = NoPeer
    BY <1>2, <2>1, <2>2, Connecting
  <2>4. GoneIsClosed'
    BY <1>0, <1>2, <2>3, GoneTakes
  <2>5. OpenIsListed'
    BY <1>0, <1>1, <1>2, <1>7, <2>3, ListedTakes DEF Typed
  <2>6. Delayed(peer') = msgs \/ Delayed(peer') = <<>>
    BY <2>3, NoPeerHasNothing DEF Delayed
  <2>7. Delayed(peer) = <<>>
    BY <1>7 DEF Delayed
  <2>8. InLine'
    BY <1>2, <1>3, <1>4, <1>5, <1>7, <2>6, <2>7 DEF InLine
  <2>9. NothingWaits'
    BY <2>3, NoPeerHasNothing DEF NothingWaits
  <2> QED BY <1>1, <1>2, <1>7, <2>3, <2>4, <2>5, <2>8, <2>9 DEF IInv, Typed
<1>8. CASE /\ peer.known /\ peer.sessions # {} /\ sent' = sent \o msgs
           /\ UNCHANGED <<peer, session, requested>>
  <2>1. Delayed(peer) = <<>>
    BY <1>0, <1>8 DEF NothingWaits, Delayed
  <2>2. Line(sent \o msgs, <<>>, queue', posted)
    BY <1>1, <1>2, <1>3, <1>5, <2>1, LineSends
  <2>3. NoneOpens(session, session')
    BY <1>8 DEF NoneOpens
  <2>4. GoneIsClosed' /\ OpenIsListed'
    BY <1>0, <1>1, <1>2, <1>8, <2>3, GoneTakes, ListedTakes DEF Typed
  <2>5. sent' \in Seq(Nat)
    BY <1>1, <1>2, <1>8
  <2> QED BY <1>0, <1>1, <1>2, <1>8, <2>1, <2>2, <2>4, <2>5 DEF IInv, Typed, InLine, NothingWaits
<1>9. CASE /\ peer.known /\ peer.sessions = {} /\ UNCHANGED <<session, requested, sent>>
           /\ peer' = IF Len(peer.delayed) < MaxDelayed
                        THEN [peer EXCEPT !.delayed = @ \o msgs] ELSE NoPeer
  <2>0. peer \in Entries /\ Delayed(peer) = peer.delayed
    BY <1>0, <1>9, NoPeerHasNothing, EntryIsKnown DEF Typed
  <2>1. NoneOpens(session, session')
    BY <1>9 DEF NoneOpens
  <2>2. GoneIsClosed'
    BY <1>0, <1>2, <2>1, GoneTakes
  <2>3. OpenIsListed'
    BY <1>0, <1>1, <1>2, <1>9, <2>1, ListedTakes DEF Typed
  <2>4. \/ peer' \in Entries /\ peer'.delayed = peer.delayed \o msgs /\ peer'.sessions = {} /\ peer'.known
        \/ peer' = NoPeer
    BY <1>1, <1>9, <2>0, Joining DEF Entries
  <2>5. Delayed(peer') = Delayed(peer) \o msgs \/ Delayed(peer') = <<>>
    BY <2>0, <2>4, NoPeerHasNothing DEF Delayed
  <2>6. InLine'
    BY <1>2, <1>3, <1>4, <1>9, <2>5 DEF InLine
  <2>7. NothingWaits'
    BY <2>4, NoPeerHasNothing DEF NothingWaits
  <2> QED BY <1>1, <1>2, <1>9, <2>2, <2>3, <2>4, <2>6, <2>7 DEF IInv, Typed
<1> QED BY <1>6, <1>7, <1>8, <1>9 DEF PostMessages

LEMMA HandleRequestCompleteKeeps ==
  ASSUME IInv, HandleRequestComplete
  PROVE  IInv'
<1>0. Typed /\ InLine /\ NothingWaits /\ GoneIsClosed /\ OpenIsListed /\ Takes("request")
  BY DEF IInv, HandleRequestComplete
<1>1. /\ queue # <<>> /\ Head(queue).type = "request"
      /\ queue' = Tail(queue) /\ queue' \in Seq(Handlers)
  BY <1>0, TakenHandler
<1>2. /\ posted' = posted /\ sent' = sent /\ posted \in Nat /\ sent \in Seq(Nat)
      /\ session \in Seq(States) /\ queue \in Seq(Handlers) /\ Delayed(peer) \in Seq(Nat)
  BY <1>0, DelayedIsSeq DEF HandleRequestComplete, Typed
<1>3. Line(sent, Delayed(peer), queue', posted) /\ Line(sent, <<>>, queue', posted)
  BY <1>0, <1>1, <1>2, LineTakes, LineDrops DEF InLine
<1>4. CASE ~peer.known /\ UNCHANGED <<peer, session, requested, orphans>>
  <2>1. NoneOpens(session, session')
    BY <1>4 DEF NoneOpens
  <2>2. GoneIsClosed' /\ OpenIsListed'
    BY <1>0, <1>1, <1>2, <1>4, <2>1, GoneTakes, ListedTakes DEF Typed
  <2> QED BY <1>0, <1>1, <1>2, <1>3, <1>4, <2>2 DEF IInv, Typed, InLine, NothingWaits
<1>5. CASE peer.known /\ orphans' = orphans /\ ConnectToPeer([peer EXCEPT !.hasRouter = TRUE])
  <2> DEFINE p == [peer EXCEPT !.hasRouter = TRUE]
  <2>0. peer \in Entries /\ Delayed(peer) = peer.delayed
    BY <1>0, <1>5, NoPeerHasNothing, EntryIsKnown DEF Typed
  <2>1. p \in Entries /\ p.sessions = peer.sessions /\ p.delayed = peer.delayed
    BY <2>0 DEF Entries
  <2>2. ConnectToPeer(p)
    BY <1>5
  <2> HIDE DEF p
  <2>3. /\ session' \in Seq(States) /\ NoneOpens(session, session')
        /\ \/ /\ peer' \in Entries /\ peer'.sessions = peer.sessions /\ peer'.delayed = peer.delayed
              /\ peer'.known
           \/ /\ peer' = NoPeer
              /\ \A i \in DOMAIN session' : session'[i] = "open" => i \notin peer.sessions
    BY <1>2, <2>1, <2>2, Connecting
  <2>4. GoneIsClosed'
    BY <1>0, <1>2, <2>3, GoneTakes
  <2>5. OpenIsListed'
    BY <1>0, <1>1, <1>5, <2>3, ListedTakes
  <2>6. Delayed(peer') = Delayed(peer) \/ Delayed(peer') = <<>>
    BY <2>0, <2>3, NoPeerHasNothing DEF Delayed
  <2>7. InLine'
    BY <1>2, <1>3, <2>6 DEF InLine
  <2>8. NothingWaits'
    BY <1>0, <1>5, <2>3, NoPeerHasNothing DEF NothingWaits
  <2> QED BY <1>1, <1>2, <2>3, <2>4, <2>5, <2>7, <2>8 DEF IInv, Typed
<1>6. CASE /\ peer' = NoPeer /\ orphans' = orphans \cup peer.sessions
           /\ UNCHANGED <<session, requested>>
  <2>1. NoneOpens(session, session')
    BY <1>6 DEF NoneOpens
  <2>2. GoneIsClosed' /\ OpenIsListed'
    BY <1>0, <1>1, <1>2, <1>6, <2>1, GoneTakes, ListedTakes
  <2> QED BY <1>1, <1>2, <1>3, <1>6, <2>2, NoPeerHasNothing DEF IInv, Typed, InLine, NothingWaits
<1> QED BY <1>4, <1>5, <1>6 DEF HandleRequestComplete

LEMMA PeerConnectedKeeps ==
  ASSUME IInv, PeerConnected
  PROVE  IInv'
<1> DEFINE s == Head(queue).session
<1>0. Typed /\ InLine /\ NothingWaits /\ GoneIsClosed /\ OpenIsListed /\ Takes("connected")
  BY DEF IInv, PeerConnected
<1>1. /\ queue # <<>> /\ Head(queue).type = "connected" /\ s \in Nat
      /\ queue' = Tail(queue) /\ queue' \in Seq(Handlers)
  BY <1>0, TakenHandler DEF Handlers
<1>2. /\ posted' = posted /\ orphans' = orphans /\ posted \in Nat /\ sent \in Seq(Nat)
      /\ session \in Seq(States) /\ queue \in Seq(Handlers) /\ Delayed(peer) \in Seq(Nat)
  BY <1>0, DelayedIsSeq DEF PeerConnected, Typed
<1>3. Line(sent, Delayed(peer), queue', posted) /\ Line(sent, <<>>, queue', posted)
  BY <1>0, <1>1, <1>2, LineTakes, LineDrops DEF InLine
<1>4. CASE /\ peer.known /\ peer' = Connected(peer, s) /\ sent' = sent \o peer.delayed
           /\ UNCHANGED session
  <2>0. peer \in Entries /\ Delayed(peer) = peer.delayed /\ peer.delayed \in Seq(Nat)
    BY <1>0, <1>4, NoPeerHasNothing, EntryIsKnown DEF Typed
  <2>1. /\ peer' \in Entries /\ peer'.delayed = <<>> /\ peer'.sessions = peer.sessions \cup {s}
        /\ peer'.known
    <3>1. s \in Nat /\ <<>> \in Seq(Nat)
      BY <1>1, EmptyIsSeq
    <3>2. peer' = [peer EXCEPT !.sessions = peer.sessions \cup {s}, !.delayed = <<>>]
      BY <1>4 DEF Connected
    <3> HIDE DEF s
    <3>3. peer' = [peer EXCEPT !.sessions = peer.sessions \cup {s}, !.delayed = <<>>]
          /\ peer.sessions \cup {s} \in SUBSET Nat
      BY <2>0, <3>1, <3>2 DEF Entries
    <3> QED BY <2>0, <3>1, <3>3 DEF Entries
  <2>2. NoneOpens(session, session')
    BY <1>4 DEF NoneOpens
  <2>3. GoneIsClosed' /\ OpenIsListed'
    BY <1>0, <1>1, <1>2, <2>1, <2>2, GoneTakes, ListedTakes
  <2>4. Line(sent \o peer.delayed, <<>>, queue', posted)
    BY <1>1, <1>2, <1>3, <2>0, LineSends
  <2>5. sent' \in Seq(Nat)
    BY <1>2, <1>4, <2>0, Joining
  <2> QED BY <1>1, <1>2, <1>4, <2>1, <2>3, <2>4, <2>5 DEF IInv, Typed, InLine, NothingWaits, Delayed
<1>5. CASE ~peer.known /\ peer' = NewPeer(FALSE, {s}, <<>>) /\ UNCHANGED <<session, sent>>
  <2>1. peer' \in Entries /\ peer'.delayed = <<>> /\ peer'.sessions = {s} /\ peer'.known
    BY <1>1, <1>5 DEF NewPeer, Entries
  <2>2. NoneOpens(session, session')
    BY <1>5 DEF NoneOpens
  <2>3. GoneIsClosed' /\ OpenIsListed'
    BY <1>0, <1>1, <1>2, <1>5, <2>1, <2>2, GoneTakes, ListedTakes
  <2> QED BY <1>1, <1>2, <1>3, <1>5, <2>1, <2>3 DEF IInv, Typed, InLine, NothingWaits, Delayed
<1>6. CASE /\ ~peer.known /\ UNCHANGED <<peer, sent>>
           /\ session' = [session EXCEPT ![s] = IF @ = "open" THEN "done" ELSE @]
  <2>1. session' \in Seq(States) /\ NoneOpens(session, session')
        /\ \A i \in DOMAIN session' : session'[i] = "open" => i # s
    <3> DEFINE x == IF session[s] = "open" THEN "done" ELSE session[s]
    <3>1. session' = [session EXCEPT ![s] = x]
      BY <1>6
    <3>2. \A i \in DOMAIN session : session[i] \in States
      BY <1>2
    <3>3. s \in DOMAIN session => x \in States /\ x # "open"
      BY <3>2 DEF States
    <3>4. s \in DOMAIN session /\ session[s] = "closed" => x = "closed"
      OBVIOUS
    <3> HIDE DEF s, x
    <3> QED BY <1>2, <3>1, <3>3, <3>4, OneChanges DEF NoneOpens
  <2>2. GoneIsClosed' /\ OpenIsListed'
    BY <1>0, <1>1, <1>2, <1>6, <2>1, GoneTakes, ListedTakes
  <2> QED BY <1>0, <1>1, <1>2, <1>3, <1>6, <2>1, <2>2 DEF IInv, Typed, InLine, NothingWaits
<1> QED BY <1>4, <1>5, <1>6 DEF PeerConnected

LEMMA PeerDisconnectedKeeps ==
  ASSUME IInv, PeerDisconnected
  PROVE  IInv'
<1> DEFINE s == Head(queue).session
           rest == peer.sessions \ {s}
<1>0. Typed /\ InLine /\ NothingWaits /\ GoneIsClosed /\ OpenIsListed /\ Takes("disconnected")
  BY DEF IInv, PeerDisconnected
<1>1. /\ queue # <<>> /\ Head(queue).type = "disconnected" /\ Head(queue) = queue[1]
      /\ 1 \in DOMAIN queue /\ queue' = Tail(queue) /\ queue' \in Seq(Handlers)
  BY <1>0, TakenHandler, Rest DEF Typed
<1>2. /\ posted' = posted /\ sent' = sent /\ orphans' = orphans /\ posted \in Nat /\ sent \in Seq(Nat)
      /\ session \in Seq(States) /\ queue \in Seq(Handlers) /\ Delayed(peer) \in Seq(Nat)
  BY <1>0, DelayedIsSeq DEF PeerDisconnected, Typed
<1>3. Line(sent, Delayed(peer), queue', posted) /\ Line(sent, <<>>, queue', posted)
  BY <1>0, <1>1, <1>2, LineTakes, LineDrops DEF InLine
<1>4. session[s] = "closed" /\ s \in DOMAIN session
  BY <1>0, <1>1 DEF GoneIsClosed
<1>5. ASSUME NoneOpens(session, session'), NEW i \in DOMAIN session', session'[i] = "open"
      PROVE  i # s
  BY <1>4, <1>5 DEF NoneOpens
<1>6. CASE UNCHANGED <<peer, session, requested>> /\ ~peer.known
  <2>1. NoneOpens(session, session')
    BY <1>6 DEF NoneOpens
  <2>2. GoneIsClosed' /\ OpenIsListed'
    BY <1>0, <1>1, <1>2, <1>5, <1>6, <2>1, GoneTakes, ListedTakes
  <2> QED BY <1>0, <1>1, <1>2, <1>3, <1>6, <2>2 DEF IInv, Typed, InLine, NothingWaits
<1>7. CASE /\ peer.known /\ rest # {} /\ peer' = [peer EXCEPT !.sessions = rest]
           /\ UNCHANGED <<session, requested>>
  <2>0. peer \in Entries
    BY <1>0, <1>7, NoPeerHasNothing DEF Typed
  <2>1. peer' \in Entries /\ peer'.delayed = peer.delayed /\ peer'.sessions = rest /\ peer'.known
    BY <1>7, <2>0 DEF Entries
  <2>2. NoneOpens(session, session')
    BY <1>7 DEF NoneOpens
  <2>3. GoneIsClosed' /\ OpenIsListed'
    BY <1>0, <1>1, <1>2, <1>5, <2>1, <2>2, GoneTakes, ListedTakes
  <2>4. Delayed(peer') = Delayed(peer)
    BY <1>7, <2>1 DEF Delayed
  <2> QED BY <1>0, <1>1, <1>2, <1>3, <1>7, <2>1, <2>3, <2>4 DEF IInv, Typed, InLine, NothingWaits
<1>8. CASE peer.known /\ rest = {} /\ ConnectToPeer([peer EXCEPT !.sessions = rest])
  <2> DEFINE p == [peer EXCEPT !.sessions = rest]
  <2>0. peer \in Entries /\ Delayed(peer) = peer.delayed
    BY <1>0, <1>8, NoPeerHasNothing, EntryIsKnown DEF Typed
  <2>1. p \in Entries /\ p.sessions = {} /\ p.delayed = peer.delayed
    BY <1>8, <2>0 DEF Entries
  <2>2. ConnectToPeer(p)
    BY <1>8
  <2> HIDE DEF p
  <2>3. /\ session' \in Seq(States) /\ NoneOpens(session, session')
        /\ \/ /\ peer' \in Entries /\ peer'.sessions = {} /\ peer'.delayed = peer.delayed
              /\ peer'.known
           \/ peer' = NoPeer
    BY <1>2, <2>1, <2>2, Connecting
  <2>4. GoneIsClosed'
    BY <1>0, <1>2, <2>3, GoneTakes
  <2>5. OpenIsListed'
    BY <1>0, <1>1, <1>2, <1>5, <1>8, <2>3, ListedTakes
  <2>6. Delayed(peer') = Delayed(peer) \/ Delayed(peer') = <<>>
    BY <2>0, <2>3, NoPeerHasNothing DEF Delayed
  <2>7. InLine'
    BY <1>2, <1>3, <2>6 DEF InLine
  <2>8. NothingWaits'
    BY <2>3, NoPeerHasNothing DEF NothingWaits
  <2> QED BY <1>1, <1>2, <2>3, <2>4, <2>5, <2>7, <2>8 DEF IInv, Typed
<1>9. CASE peer.known /\ rest = {} /\ peer' = NoPeer /\ UNCHANGED <<session, requested>>
  <2>1. NoneOpens(session, session')
    BY <1>9 DEF NoneOpens
  <2>2. GoneIsClosed' /\ OpenIsListed'
    BY <1>0, <1>1, <1>2, <1>5, <1>9, <2>1, GoneTakes, ListedTakes
  <2> QED BY <1>1, <1>2, <1>3, <1>9, <2>2, NoPeerHasNothing DEF IInv, Typed, InLine, NothingWaits
<1> QED BY <1>6, <1>7, <1>8, <1>9 DEF PeerDisconnected

LEMMA PostCloseSessionKeeps ==
  ASSUME IInv, PostCloseSession
  PROVE  IInv'
<1>0. Typed /\ InLine /\ NothingWaits /\ GoneIsClosed /\ OpenIsListed /\ Takes("close")
  BY DEF IInv, PostCloseSession
<1>1. /\ queue # <<>> /\ Head(queue).type = "close"
      /\ queue' = Tail(queue) /\ queue' \in Seq(Handlers)
  BY <1>0, TakenHandler
<1>2. /\ UNCHANGED <<peer, posted, sent, orphans>>
      /\ session \in Seq(States) /\ queue \in Seq(Handlers)
  BY <1>0 DEF PostCloseSession, Typed
<1>3. PICK closed \in SUBSET {s \in DOMAIN session : session[s] = "open"} :
        session' = [s \in DOMAIN session |-> IF s \in closed THEN "done" ELSE session[s]]
  BY DEF PostCloseSession
<1>4. session' \in Seq(States) /\ NoneOpens(session, session')
  <2>1. DOMAIN session' = 1 .. Len(session) /\ DOMAIN session = 1 .. Len(session)
    BY <1>2, <1>3
  <2>2. \A s \in 1 .. Len(session) : (IF s \in closed THEN "done" ELSE session[s]) \in States
    BY <1>2 DEF States
  <2>3. [s \in 1 .. Len(session) |-> IF s \in closed THEN "done" ELSE session[s]] \in Seq(States)
    BY <1>2, <2>2
  <2> QED BY <1>3, <2>1, <2>3 DEF NoneOpens
<1>5. GoneIsClosed' /\ OpenIsListed'
  BY <1>0, <1>1, <1>2, <1>4, GoneTakes, ListedTakes
<1>6. InLine'
  BY <1>0, <1>1, <1>2, LineTakes DEF InLine
<1> QED BY <1>0, <1>1, <1>2, <1>4, <1>5, <1>6 DEF IInv, Typed, NothingWaits

\* An entry that is dropped for its age has no session.
LEMMA HandlePeerCleanupTimerKeeps ==
  ASSUME IInv, HandlePeerCleanupTimer
  PROVE  IInv'
<1>0. Typed /\ InLine /\ NothingWaits /\ GoneIsClosed /\ OpenIsListed
  BY DEF IInv
<1>1. /\ peer.known /\ peer.sessions = {} /\ peer' = NoPeer
      /\ UNCHANGED <<session, queue, posted, sent, orphans>>
  BY DEF HandlePeerCleanupTimer, NotCreated
<1>2. Line(sent, <<>>, queue, posted)
  BY <1>0, LineDrops DEF InLine
<1>3. \A s : Announced(s)' <=> Announced(s)
  BY <1>1 DEF Announced
<1>4. OpenIsListed'
  BY <1>0, <1>1, <1>3 DEF OpenIsListed
<1> QED BY <1>0, <1>1, <1>2, <1>4, NoPeerHasNothing
        DEF IInv, Typed, InLine, NothingWaits, GoneIsClosed

LEMMA GrowOldKeeps ==
  ASSUME IInv, GrowOld
  PROVE  IInv'
<1>0. Typed /\ InLine /\ NothingWaits /\ GoneIsClosed /\ OpenIsListed
  BY DEF IInv
<1>1. peer.known /\ peer' = [peer EXCEPT !.old = TRUE] /\ UNCHANGED <<session, queue, posted, sent, orphans>>
  BY DEF GrowOld
<1>2. peer \in Entries
  BY <1>0, <1>1, NoPeerHasNothing DEF Typed
<1>3. peer' \in Entries /\ peer'.known /\ peer'.sessions = peer.sessions /\ peer'.delayed = peer.delayed
  BY <1>1, <1>2 DEF Entries
<1>4. \A s : Announced(s)' <=> Announced(s)
  BY <1>1 DEF Announced
<1>5. OpenIsListed'
  BY <1>0, <1>1, <1>3, <1>4 DEF OpenIsListed
<1> QED BY <1>0, <1>1, <1>3, <1>5 DEF IInv, Typed, InLine, Delayed, NothingWaits, GoneIsClosed

\* A step that only posts handler h, and may change sessions: one that is open afterwards was
\* open, or h tells of it.
LEMMA Posts ==
  ASSUME IInv, NEW h \in Handlers, Post(h), h.type # "messages",
         session' \in Seq(States), UNCHANGED <<peer, posted, sent, orphans>>,
         DOMAIN session \subseteq DOMAIN session',
         \A s \in DOMAIN session : session[s] = "closed" => session'[s] = "closed",
         \A s \in DOMAIN session' : session'[s] = "open" =>
           \/ s \in DOMAIN session /\ session[s] = "open"
           \/ h.type = "connected" /\ h.session = s,
         h.type = "disconnected" =>
           h.session \in DOMAIN session' /\ session'[h.session] = "closed"
  PROVE  IInv'
<1>0. Typed /\ InLine /\ NothingWaits /\ GoneIsClosed /\ OpenIsListed
  BY DEF IInv
<1>1. queue' = Append(queue, h) /\ queue' \in Seq(Handlers) /\ queue \in Seq(Handlers)
  BY <1>0, Posting DEF Post, Typed
<1>2. InLine'
  BY <1>0, <1>1, LinePosts DEF InLine
<1>3. GoneIsClosed'
  BY <1>0, <1>1, GonePosts
<1>4. OpenIsListed'
  <2> SUFFICES ASSUME NEW s \in DOMAIN session', session'[s] = "open", Announced(s)', s \notin orphans'
               PROVE  peer'.known /\ s \in peer'.sessions
    BY DEF OpenIsListed
  <2>1. Announced(s) /\ ~(h.type = "connected" /\ h.session = s)
    BY <1>1, AnnouncedPosts
  <2> QED BY <1>0, <2>1 DEF OpenIsListed
<1> QED BY <1>0, <1>1, <1>2, <1>3, <1>4 DEF IInv, Typed, NothingWaits

LEMMA SendMessagesKeeps ==
  ASSUME IInv, SendMessages
  PROVE  IInv'
<1>0. Typed /\ InLine /\ NothingWaits /\ GoneIsClosed /\ OpenIsListed
  BY DEF IInv
<1>1. PICK n \in 1 .. MaxBatch :
        posted' = posted + n /\ Post([type |-> "messages", msgs |-> [i \in 1 .. n |-> posted + i]])
  BY DEF SendMessages
<1> DEFINE h == [type |-> "messages", msgs |-> [i \in 1 .. n |-> posted + i]]
<1>2. UNCHANGED <<peer, session, sent, orphans>> /\ queue' = Append(queue, h)
  BY <1>1 DEF SendMessages, Post
<1>3. /\ n \in Nat /\ posted \in Nat /\ sent \in Seq(Nat) /\ queue \in Seq(Handlers)
      /\ Delayed(peer) \in Seq(Nat)
  BY <1>0, <1>1, DelayedIsSeq DEF Typed
<1>4. h \in Handlers /\ Line(sent, Delayed(peer), queue', posted')
  BY <1>0, <1>1, <1>2, <1>3, LinePostsMessages DEF InLine
<1>5. h.type = "messages" /\ Post(h)
  BY <1>1
<1> HIDE DEF h
<1>6. GoneIsClosed'
  BY <1>0, <1>2, <1>3, <1>4, <1>5, GonePosts
<1>7. OpenIsListed'
  BY <1>0, <1>2, <1>3, <1>4, <1>5, AnnouncedPosts DEF OpenIsListed
<1>8. queue' \in Seq(Handlers) /\ posted' \in Nat
  BY <1>1, <1>2, <1>3, <1>4, Posting
<1> QED BY <1>0, <1>2, <1>4, <1>6, <1>7, <1>8 DEF IInv, Typed, InLine, NothingWaits

LEMMA CloseSessionKeeps ==
  ASSUME IInv, CloseSession
  PROVE  IInv'
<1> DEFINE h == [type |-> "close"]
<1>1. h \in Handlers /\ h.type = "close" /\ Post(h) /\ UNCHANGED <<peer, session, posted, sent, orphans>>
  BY DEF CloseSession, Handlers
<1>2. session' \in Seq(States)
  BY <1>1 DEF IInv, Typed
<1> QED BY <1>1, <1>2, Posts

LEMMA RequestCompleteKeeps ==
  ASSUME IInv, RequestComplete
  PROVE  IInv'
<1>1. PICK found \in BOOLEAN : Post([type |-> "request", found |-> found])
  BY DEF RequestComplete
<1> DEFINE h == [type |-> "request", found |-> found]
<1>2. h \in Handlers /\ h.type = "request" /\ Post(h) /\ UNCHANGED <<peer, session, posted, sent, orphans>>
  BY <1>1 DEF RequestComplete, Handlers
<1>3. session' \in Seq(States)
  BY <1>2 DEF IInv, Typed
<1> QED BY <1>2, <1>3, Posts

LEMMA EstablishKeeps ==
  ASSUME IInv, NEW s \in DOMAIN session, Establish(s)
  PROVE  IInv'
<1> DEFINE h == [type |-> "connected", session |-> s]
<1>0. session \in Seq(States) /\ s \in Nat
  BY DEF IInv, Typed
<1>1. h \in Handlers /\ h.type = "connected" /\ h.session = s /\ Post(h)
  BY <1>0 DEF Establish, Handlers
<1>2. /\ session[s] = "connecting" /\ session' = [session EXCEPT ![s] = "open"]
      /\ UNCHANGED <<peer, posted, sent, orphans>>
  BY DEF Establish
<1>3. /\ session' \in Seq(States) /\ DOMAIN session' = DOMAIN session
      /\ \A i \in DOMAIN session : session'[i] = IF i = s THEN "open" ELSE session[i]
  BY <1>0, <1>2, OneChanges DEF States
<1> HIDE DEF h
<1> QED BY <1>1, <1>2, <1>3, Posts

LEMMA AcceptKeeps ==
  ASSUME IInv, Accept
  PROVE  IInv'
<1> DEFINE h == [type |-> "connected", session |-> Len(session) + 1]
<1>0. session \in Seq(States) /\ Len(session) + 1 \in Nat
  BY DEF IInv, Typed
<1>1. h \in Handlers /\ h.type = "connected" /\ h.session = Len(session) + 1 /\ Post(h)
  BY <1>0 DEF Accept, Handlers
<1>2. session' = Append(session, "open") /\ UNCHANGED <<peer, posted, sent, orphans>>
  BY DEF Accept
<1>3. /\ session' \in Seq(States) /\ DOMAIN session \subseteq DOMAIN session'
      /\ \A i \in DOMAIN session : session'[i] = session[i]
      /\ \A i \in DOMAIN session' : i \in DOMAIN session \/ i = Len(session) + 1
  BY <1>0, <1>2 DEF States
<1> HIDE DEF h
<1> QED BY <1>1, <1>2, <1>3, Posts

LEMMA TerminateKeeps ==
  ASSUME IInv, NEW s \in DOMAIN session, Terminate(s)
  PROVE  IInv'
<1> DEFINE h == [type |-> "disconnected", session |-> s]
<1>0. session \in Seq(States) /\ s \in Nat
  BY DEF IInv, Typed
<1>1. h \in Handlers /\ h.type = "disconnected" /\ h.session = s /\ Post(h)
  BY <1>0 DEF Terminate, Handlers
<1>2. session' = [session EXCEPT ![s] = "closed"] /\ UNCHANGED <<peer, posted, sent, orphans>>
  BY DEF Terminate
<1>3. /\ session' \in Seq(States) /\ DOMAIN session' = DOMAIN session
      /\ \A i \in DOMAIN session : session'[i] = IF i = s THEN "closed" ELSE session[i]
  BY <1>0, <1>2, OneChanges DEF States
<1> HIDE DEF h
<1> QED BY <1>1, <1>2, <1>3, Posts

----------------------------------------------------------------------------

LEMMA InitInv == Init => IInv
<1> SUFFICES ASSUME Init PROVE IInv
  OBVIOUS
<1>1. /\ peer = NoPeer /\ session = <<>> /\ queue = <<>> /\ posted = 0 /\ sent = <<>>
      /\ DOMAIN queue = {} /\ DOMAIN session = {}
  BY DEF Init
<1>2. Delayed(peer) = <<>> /\ ~peer.known
  BY <1>1, NoPeerHasNothing
<1>3. Typed
  BY <1>1 DEF Typed
<1>4. Line(<<>>, <<>>, <<>>, 0)
  BY EmptyIsSeq DEF Line, Rising, UpTo, Below
<1> QED BY <1>1, <1>2, <1>3, <1>4 DEF IInv, InLine, NothingWaits, GoneIsClosed, OpenIsListed

LEMMA StepInv == IInv /\ [Next]_vars => IInv'
<1> SUFFICES ASSUME IInv, [Next]_vars PROVE IInv'
  OBVIOUS
<1>1. CASE Handle
  BY <1>1, PostMessagesKeeps, HandleRequestCompleteKeeps, PeerConnectedKeeps, PeerDisconnectedKeeps,
     PostCloseSessionKeeps DEF Handle
<1>2. CASE HandlePeerCleanupTimer
  BY <1>2, HandlePeerCleanupTimerKeeps
<1>3. CASE SendMessages \/ CloseSession \/ RequestComplete \/ Accept
  BY <1>3, SendMessagesKeeps, CloseSessionKeeps, RequestCompleteKeeps, AcceptKeeps
<1>4. CASE \E s \in DOMAIN session : Establish(s) \/ Terminate(s)
  BY <1>4, EstablishKeeps, TerminateKeeps
<1>5. CASE GrowOld
  BY <1>5, GrowOldKeeps
<1>6. CASE UNCHANGED vars
  <2>1. UNCHANGED <<peer, session, queue, posted, sent, orphans>>
    BY <1>6 DEF vars
  <2>2. \A s : Announced(s)' <=> Announced(s)
    BY <2>1 DEF Announced
  <2> QED BY <2>1, <2>2 DEF IInv, Typed, InLine, NothingWaits, GoneIsClosed, OpenIsListed
<1> QED BY <1>1, <1>2, <1>3, <1>4, <1>5, <1>6 DEF Next

LEMMA InvServes == IInv => PeersAreServed
<1> SUFFICES ASSUME IInv PROVE SentInOrder /\ OpenIsListed
  BY DEF PeersAreServed
<1>1. Rising(sent) /\ sent \in Seq(Nat)
  BY DEF IInv, InLine, Line, Typed
<1>2. SentInOrder
  BY <1>1 DEF Rising, SentInOrder
<1> QED BY <1>2 DEF IInv

(* Transports::PostMessages, PeerConnected, PeerDisconnected, ConnectToPeer and    *)
(* the rest, for whatever limits: messages are handed to sessions once and in the  *)
(* order in which they were posted, and a session that is open, and not an orphan  *)
(* of a lookup in vain, is in the entry of its peer once its handler has run.      *)
THEOREM PeersServed == Spec => []PeersAreServed
<1>1. Init => IInv
  BY InitInv
<1>2. IInv /\ [Next]_vars => IInv'
  BY StepInv
<1>3. IInv => PeersAreServed
  BY InvServes
<1> QED BY <1>1, <1>2, <1>3, PTL DEF Spec

=============================================================================
