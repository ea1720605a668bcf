------------------------ MODULE TunnelGatewayProofs ------------------------
(* Proofs about module TunnelGateway, for every payload, every set of messages *)
(* and all their lengths.  The inductive invariant is a predicate of the        *)
(* buffer: its current message and all completed ones obey the sizes.           *)
EXTENDS TunnelGateway, Integers, TLAPS

MsgGood(t) == t \in TunnelDataMsgs /\ t.used <= Payload /\ NumbersFit(t.blocks)

AllGood(msgs) == msgs \in Seq(TunnelDataMsgs) /\ \A i \in 1 .. Len(msgs) : MsgGood(msgs[i])

Good(b) ==
  /\ b \in Buffers
  /\ AllGood(b.ready)
  /\ NumbersFit(b.current)
  /\ b.open => b.remaining > 0 /\ b.used + b.remaining = Payload

IInv == Good(buffer) /\ AllGood(outbox) /\ put \in Seq(Messages)

----------------------------------------------------------------------------
(* Sequences.                                                                *)

LEMMA AppendGood ==
  ASSUME NEW msgs, AllGood(msgs), NEW t, MsgGood(t)
  PROVE  AllGood(Append(msgs, t))
<1>1. t \in TunnelDataMsgs /\ msgs \in Seq(TunnelDataMsgs)
  BY DEF MsgGood, AllGood
<1> DEFINE T == TunnelDataMsgs
<1> HIDE DEF T
<1>2. /\ Append(msgs, t) \in Seq(T) /\ Len(Append(msgs, t)) = Len(msgs) + 1
      /\ \A i \in 1 .. (Len(msgs) + 1) :
           Append(msgs, t)[i] = IF i <= Len(msgs) THEN msgs[i] ELSE t
  BY <1>1 DEF T
<1>3. Len(msgs) \in Nat
  BY <1>1
<1> QED BY <1>2, <1>3 DEF AllGood, T

LEMMA ConcatGood ==
  ASSUME NEW f, AllGood(f), NEW g, AllGood(g)
  PROVE  AllGood(f \o g)
<1> DEFINE T == TunnelDataMsgs
<1>1. f \in Seq(T) /\ g \in Seq(T)
  BY DEF AllGood
<1> HIDE DEF T
<1>2. /\ f \o g \in Seq(T) /\ Len(f \o g) = Len(f) + Len(g)
      /\ \A i \in 1 .. (Len(f) + Len(g)) :
           (f \o g)[i] = IF i <= Len(f) THEN f[i] ELSE g[i - Len(f)]
  BY <1>1
<1>3. Len(f) \in Nat /\ Len(g) \in Nat
  BY <1>1
<1>4. \A i \in 1 .. (Len(f) + Len(g)) : MsgGood((f \o g)[i])
  <2> SUFFICES ASSUME NEW i \in 1 .. (Len(f) + Len(g)) PROVE MsgGood((f \o g)[i])
    OBVIOUS
  <2>1. CASE i <= Len(f)
    BY <1>2, <1>3, <2>1 DEF AllGood
  <2>2. CASE ~(i <= Len(f))
    <3>1. i - Len(f) \in 1 .. Len(g)
      BY <1>3, <2>2
    <3> QED BY <1>2, <2>2, <3>1 DEF AllGood
  <2> QED BY <2>1, <2>2
<1> QED BY <1>2, <1>4 DEF AllGood, T

LEMMA BlocksAppend ==
  ASSUME NEW blocks \in Seq(Blocks), NumbersFit(blocks), NEW b \in Blocks, b.num < 64
  PROVE  Append(blocks, b) \in Seq(Blocks) /\ NumbersFit(Append(blocks, b))
<1> DEFINE T == Blocks
<1> HIDE DEF T
<1>1. /\ Append(blocks, b) \in Seq(T) /\ Len(Append(blocks, b)) = Len(blocks) + 1
      /\ \A i \in 1 .. (Len(blocks) + 1) :
           Append(blocks, b)[i] = IF i <= Len(blocks) THEN blocks[i] ELSE b
  BY DEF T
<1>2. Len(blocks) \in Nat
  OBVIOUS
<1> QED BY <1>1, <1>2 DEF NumbersFit, T

----------------------------------------------------------------------------
(* The current message.                                                      *)

LEMMA NothingGood == NumbersFit(<< >>) /\ << >> \in Seq(Blocks) /\ AllGood(<< >>)
BY DEF NumbersFit, AllGood

LEMMA CreateGood ==
  ASSUME NEW b, Good(b)
  PROVE  /\ Good(CreateCurrent(b)) /\ CreateCurrent(b).open
         /\ CreateCurrent(b).remaining = Payload
<1>1. Payload \in Nat /\ Payload > 0
  BY InstructionsAssumption DEF FollowOn
<1> DEFINE t == CreateCurrent(b)
<1>2. /\ t \in Buffers /\ t.ready = b.ready /\ t.current = << >>
      /\ t.open /\ t.used = 0 /\ t.remaining = Payload
  BY <1>1, NothingGood DEF Good, CreateCurrent, Buffers
<1> HIDE DEF t
<1>3. Good(t)
  BY <1>1, <1>2, NothingGood DEF Good
<1> QED BY <1>2, <1>3 DEF t

\* A message that is completed may be full, which a current one never is.
LEMMA CompleteGood ==
  ASSUME NEW b, b \in Buffers, AllGood(b.ready), NumbersFit(b.current),
         b.open => b.used <= Payload
  PROVE  Good(CompleteCurrent(b)) /\ ~CompleteCurrent(b).open
<1> DEFINE t == [blocks |-> b.current, used |-> b.used]
           r == Append(b.ready, t)
<1>1. CASE b.open
  <2>1. MsgGood(t)
    BY <1>1 DEF MsgGood, TunnelDataMsgs, Buffers
  <2>2. AllGood(r)
    BY <2>1, AppendGood
  <2> HIDE DEF r
  <2>3. r \in Seq(TunnelDataMsgs)
    BY <2>2 DEF AllGood
  <2> DEFINE u == [b EXCEPT !.ready = r, !.open = FALSE, !.current = << >>, !.used = 0]
  <2>4. CompleteCurrent(b) = u
    BY <1>1 DEF CompleteCurrent, r, Buffers
  <2>5. u \in Buffers /\ u.ready = r /\ u.open = FALSE /\ u.current = << >>
    BY <2>3, NothingGood DEF Buffers
  <2> HIDE DEF u
  <2>6. Good(u) /\ ~u.open
    BY <2>2, <2>5, NothingGood DEF Good
  <2> QED BY <2>4, <2>6
<1>2. CASE ~b.open
  BY <1>2 DEF CompleteCurrent, Good
<1> QED BY <1>1, <1>2

LEMMA AddBlockGood ==
  ASSUME NEW b, Good(b), b.open, NEW block \in Blocks, block.num < 64,
         NEW bytes \in Nat, bytes <= b.remaining
  PROVE  Good(AddBlock(b, block, bytes))
<1> DEFINE c == Append(b.current, block)
           r == b.remaining - bytes
           u == b.used + bytes
           t == [b EXCEPT !.current = c, !.used = u, !.remaining = r]
<1>1. b \in Buffers /\ b.used + b.remaining = Payload /\ b.used \in Nat /\ b.remaining \in Nat
  BY DEF Good, Buffers
<1>2. c \in Seq(Blocks) /\ NumbersFit(c)
  BY BlocksAppend DEF Good, Buffers
<1>3. r \in Nat /\ u \in Nat /\ u + r = Payload
  BY <1>1
<1>4. AddBlock(b, block, bytes) = IF t.remaining = 0 THEN CompleteCurrent(t) ELSE t
  BY DEF AddBlock
<1> HIDE DEF c, r, u
<1>5. /\ t \in Buffers /\ t.remaining = r /\ t.used = u /\ t.current = c
      /\ t.ready = b.ready /\ t.open = b.open
  BY <1>1, <1>2, <1>3 DEF Buffers
<1> HIDE DEF t
<1>6. AllGood(t.ready) /\ NumbersFit(t.current)
  BY <1>2, <1>5 DEF Good
<1>7. CASE r = 0
  BY <1>3, <1>4, <1>5, <1>6, <1>7, CompleteGood
<1>8. CASE r # 0
  BY <1>3, <1>4, <1>5, <1>6, <1>8 DEF Good
<1> QED BY <1>7, <1>8
----------------------------------------------------------------------------
(* PutDNNPMsg.                                                               *)

LEMMA SizesFacts ==
  ASSUME NEW m \in Messages
  PROVE  /\ Length[m] \in Nat \ {0} /\ Instructions[m] \in Nat \ {0}
         /\ Payload \in Nat /\ Payload > 7
         /\ FirstHeader(m) = Instructions[m] + 6 /\ FirstHeader(m) <= Payload
         /\ WholeSize(m) = Instructions[m] + Length[m] + 2
         /\ Length[m] <= 63 * (Payload - 7)
BY LengthAssumption, InstructionsAssumption, NumberAssumption
   DEF FirstHeader, WholeSize, SizeField, IdField, FollowOn

LEMMA WholeGood ==
  ASSUME NEW b, Good(b), b.open, NEW m \in Messages, WholeSize(m) <= b.remaining
  PROVE  Good(Whole(b, m))
<1> DEFINE block == [id |-> m, num |-> 0, last |-> TRUE, from |-> 0, size |-> Length[m]]
<1>1. block \in Blocks /\ block.num < 64 /\ WholeSize(m) \in Nat
  BY SizesFacts DEF Blocks
<1> HIDE DEF block
<1>2. Good(AddBlock(b, block, WholeSize(m)))
  BY <1>1, AddBlockGood
<1> QED BY <1>2 DEF Whole, block

\* a div d, for the way NumFollowOns uses it.
LEMMA Division ==
  ASSUME NEW a \in Nat, NEW d \in Nat, d > 0
  PROVE  a \div d \in Nat /\ (a \div d) * d <= a /\ a < (a \div d) * d + d
OBVIOUS

LEMMA ProductOrder ==
  ASSUME NEW i \in Nat, NEW j \in Nat, NEW d \in Nat, d > 0
  PROVE  /\ i * d \in Nat
         /\ i <= j => i * d <= j * d
         /\ i * d < j * d => i < j
<1>1. i <= j => i * d <= j * d
  OBVIOUS
<1>2. i * d < j * d => i < j
  OBVIOUS
<1> QED BY <1>1, <1>2

\* Where the follow-on fragments of a message begin and end.
LEMMA FollowOnsFit ==
  ASSUME NEW m \in Messages, NEW first \in Nat, first < Length[m],
         NEW n, n = NumFollowOns(Length[m] - first)
  PROVE  /\ n \in 1 .. 63
         /\ \A i \in 1 .. n : FollowOnBlock(m, first, i) \in Blocks /\ FollowOnBlock(m, first, i).num = i
         /\ FollowOnBlock(m, first, n).size + FollowOn <= Payload
<1> DEFINE c == Payload - 7
           L == Length[m]
           k == (L - first - 1) \div c
<1>1. c \in Nat /\ c > 0 /\ L \in Nat /\ L - first - 1 \in Nat /\ L <= 63 * c
  BY SizesFacts
<1>2. n = k + 1
  BY DEF NumFollowOns, FollowOn
<1>3. k \in Nat /\ k * c <= L - first - 1 /\ L - first - 1 < k * c + c
  <2> DEFINE a == L - first - 1
  <2>1. a \in Nat
    BY <1>1
  <2> HIDE DEF a, c
  <2>2. a \div c \in Nat /\ (a \div c) * c <= a /\ a < (a \div c) * c + c
    BY <1>1, <2>1, Division
  <2> QED BY <2>2 DEF a
<1> HIDE DEF k, c, L
<1>4. k < 63
  <2>1. k * c < 63 * c
    BY <1>1, <1>3, ProductOrder
  <2> QED BY <1>1, <1>3, <2>1, ProductOrder
<1>5. ASSUME NEW i \in 1 .. n
      PROVE  FollowOnBlock(m, first, i) \in Blocks /\ FollowOnBlock(m, first, i).num = i
  <2> DEFINE x == (i - 1) * c
  <2>1. i - 1 \in Nat /\ i - 1 <= k
    BY <1>2, <1>3
  <2>2. x \in Nat /\ x <= k * c /\ k * c \in Nat
    BY <1>1, <1>3, <2>1, ProductOrder
  <2> DEFINE size == IF first + x + c >= L THEN L - (first + x) ELSE c
  <2>3. FollowOnBlock(m, first, i) =
          [id |-> m, num |-> i, last |-> first + x + c >= L, from |-> first + x, size |-> size]
    BY DEF FollowOnBlock, FollowOn, c, L
  <2> HIDE DEF x
  <2>4. first + x \in Nat /\ size \in Nat /\ (first + x + c >= L) \in BOOLEAN
    BY <1>1, <1>3, <2>2
  <2> HIDE DEF size
  <2> QED BY <2>1, <2>3, <2>4 DEF Blocks
<1>6. FollowOnBlock(m, first, n).size + FollowOn <= Payload
  <2> DEFINE x == k * c
  <2>1. n - 1 = k
    BY <1>2, <1>3
  <2>2. x \in Nat /\ first + x + c >= L /\ L - (first + x) <= c
    BY <1>1, <1>3, ProductOrder
  <2>3. FollowOnBlock(m, first, n).size = IF first + x + c >= L THEN L - (first + x) ELSE c
    BY <2>1 DEF FollowOnBlock, FollowOn, c, L
  <2> HIDE DEF x
  <2>4. FollowOnBlock(m, first, n).size <= c
    BY <1>1, <2>2, <2>3
  <2>5. FollowOnBlock(m, first, n).size \in Int
    BY <1>1, <2>2, <2>3
  <2>6. Payload \in Nat
    BY SizesFacts
  <2> QED BY <2>4, <2>5, <2>6 DEF c, FollowOn
<1> QED BY <1>2, <1>3, <1>4, <1>5, <1>6

\* The messages between the first fragment and the last one are full.
LEMMA BodyGood ==
  ASSUME NEW m \in Messages, NEW first \in Nat, first < Length[m],
         NEW n, n = NumFollowOns(Length[m] - first)
  PROVE  AllGood([i \in 1 .. (n - 1) |-> FullFollowOn(m, first, i)])
<1> DEFINE P(i) == FullFollowOn(m, first, i)
           D == 1 .. (n - 1)
           f == [i \in D |-> P(i)]
<1>1. n \in 1 .. 63 /\ Payload \in Nat
  BY FollowOnsFit, SizesFacts
<1>2. ASSUME NEW i \in D PROVE MsgGood(P(i)) /\ P(i) \in TunnelDataMsgs
  <2> DEFINE block == FollowOnBlock(m, first, i)
  <2>1. i \in 1 .. n /\ i < 64
    BY <1>1
  <2>2. block \in Blocks /\ block.num = i
    BY <2>1, FollowOnsFit
  <2> HIDE DEF block
  <2>3. <<block>> = Append(<< >>, block)
    OBVIOUS
  <2>4. Append(<< >>, block) \in Seq(Blocks) /\ NumbersFit(Append(<< >>, block))
    BY <2>1, <2>2, BlocksAppend, NothingGood
  <2>5. <<block>> \in Seq(Blocks) /\ NumbersFit(<<block>>)
    BY <2>3, <2>4
  <2> DEFINE s == <<block>>
  <2>6. P(i) = [blocks |-> s, used |-> Payload]
    BY DEF FullFollowOn, block
  <2>7. s \in Seq(Blocks) /\ NumbersFit(s)
    BY <2>5
  <2> HIDE DEF s
  <2> QED BY <1>1, <2>6, <2>7 DEF MsgGood, TunnelDataMsgs
<1>3. n - 1 \in Nat
  BY <1>1
<1>4. f \in Seq(TunnelDataMsgs) /\ Len(f) = n - 1
  <2> DEFINE T == TunnelDataMsgs
  <2>1. \A i \in D : P(i) \in T
    BY <1>2
  <2> HIDE DEF P, T
  <2>2. f \in [1 .. (n - 1) -> T]
    BY <2>1
  <2>3. f \in Seq(T) /\ Len(f) = n - 1
    BY <1>3, <2>2
  <2> QED BY <2>3 DEF T
<1>5. \A i \in 1 .. Len(f) : MsgGood(f[i])
  <2> SUFFICES ASSUME NEW i \in 1 .. Len(f) PROVE MsgGood(f[i])
    OBVIOUS
  <2>1. i \in D
    BY <1>4
  <2>2. f[i] = P(i)
    BY <2>1
  <2> QED BY <1>2, <2>1, <2>2
<1> QED BY <1>4, <1>5 DEF AllGood

LEMMA SplitGood ==
  ASSUME NEW b, Good(b), b.open, NEW m \in Messages,
         FirstHeader(m) <= b.remaining, b.remaining < WholeSize(m)
  PROVE  Good(Split(b, m))
<1> DEFINE first == b.remaining - FirstHeader(m)
           n     == NumFollowOns(Length[m] - first)
           block == [id |-> m, num |-> 0, last |-> FALSE, from |-> 0, size |-> first]
           cut   == [b EXCEPT !.current = Append(@, block),
                              !.used = @ + FirstHeader(m) + first]
           head  == CompleteCurrent(cut)
           full  == [i \in 1 .. (n - 1) |-> FullFollowOn(m, first, i)]
           body  == [head EXCEPT !.ready = @ \o full]
           tail  == FollowOnBlock(m, first, n)
<1>1. /\ b \in Buffers /\ b.used + b.remaining = Payload
      /\ b.used \in Nat /\ b.remaining \in Nat /\ b.current \in Seq(Blocks)
  BY DEF Good, Buffers
<1>2. first \in Nat /\ first < Length[m] /\ b.used + FirstHeader(m) + first = Payload
  <2>1. /\ Length[m] \in Nat /\ Instructions[m] \in Nat
        /\ FirstHeader(m) = Instructions[m] + 6
        /\ WholeSize(m) = Instructions[m] + Length[m] + 2
    BY SizesFacts
  <2>2. FirstHeader(m) \in Nat
    BY <2>1
  <2>3. first \in Nat /\ b.used + FirstHeader(m) + first = Payload
    BY <1>1, <2>2
  <2>4. b.remaining < Instructions[m] + Length[m] + 2
    BY <2>1
  <2>5. first = b.remaining - (Instructions[m] + 6)
    BY <2>1
  <2>6. first < Length[m]
    BY <1>1, <2>1, <2>4, <2>5
  <2> QED BY <2>3, <2>6
<1>3. Payload \in Nat
  BY SizesFacts
<1>4. Split(b, m) = AddBlock(CreateCurrent(body), tail, tail.size + FollowOn)
  BY DEF Split
<1> HIDE DEF first
<1>5. Good(head)
  <2> DEFINE c == Append(b.current, block)
             u == b.used + FirstHeader(m) + first
  <2>1. block \in Blocks /\ block.num < 64
    BY <1>2 DEF Blocks
  <2> HIDE DEF block
  <2>2. c \in Seq(Blocks) /\ NumbersFit(c)
    BY <1>1, <2>1, BlocksAppend DEF Good
  <2>3. u = Payload
    BY <1>2
  <2>4. cut = [b EXCEPT !.current = c, !.used = u]
    BY <1>1 DEF Buffers
  <2> HIDE DEF c, u, cut
  <2>5. cut \in Buffers /\ cut.current = c /\ cut.used = u /\ cut.ready = b.ready
    BY <1>1, <1>3, <2>2, <2>3, <2>4 DEF Buffers
  <2>6. AllGood(cut.ready) /\ NumbersFit(cut.current) /\ cut.used <= Payload
    BY <1>3, <2>2, <2>3, <2>5 DEF Good
  <2> QED BY <2>5, <2>6, CompleteGood
<1> HIDE DEF head
<1>6. AllGood(full)
  BY <1>2, BodyGood
<1> HIDE DEF full
<1>7. Good(body)
  <2> DEFINE r == head.ready \o full
  <2>1. AllGood(r)
    BY <1>5, <1>6, ConcatGood DEF Good
  <2>2. head \in Buffers
    BY <1>5 DEF Good
  <2>3. body = [head EXCEPT !.ready = r]
    BY <2>2 DEF Buffers
  <2> HIDE DEF r, body
  <2>4. r \in Seq(TunnelDataMsgs)
    BY <2>1 DEF AllGood
  <2>5. /\ body \in Buffers /\ body.ready = r /\ body.open = head.open
        /\ body.current = head.current /\ body.used = head.used
        /\ body.remaining = head.remaining
    BY <2>2, <2>3, <2>4 DEF Buffers
  <2> QED BY <1>5, <2>1, <2>5 DEF Good
<1> HIDE DEF body
<1>8. n \in 1 .. 63 /\ tail \in Blocks /\ tail.num = n /\ tail.size + FollowOn <= Payload
  <2> HIDE DEF n
  <2>1. n = NumFollowOns(Length[m] - first)
    BY DEF n
  <2>2. /\ n \in 1 .. 63
        /\ \A i \in 1 .. n : FollowOnBlock(m, first, i) \in Blocks /\ FollowOnBlock(m, first, i).num = i
        /\ FollowOnBlock(m, first, n).size + FollowOn <= Payload
    BY <1>2, <2>1, FollowOnsFit
  <2>3. n \in 1 .. n
    BY <2>2
  <2> QED BY <2>2, <2>3
<1> HIDE DEF tail, n
<1>9. tail.size + FollowOn \in Nat /\ tail.num < 64
  BY <1>8 DEF Blocks, FollowOn
<1>10. /\ Good(CreateCurrent(body)) /\ CreateCurrent(body).open
       /\ CreateCurrent(body).remaining = Payload
  BY <1>7, CreateGood
<1> QED BY <1>4, <1>8, <1>9, <1>10, AddBlockGood

LEMMA PlaceGood ==
  ASSUME NEW b, Good(b), b.open, NEW m \in Messages,
         WholeSize(m) <= b.remaining \/ FirstHeader(m) <= b.remaining
  PROVE  Good(Place(b, m))
<1>1. CASE WholeSize(m) <= b.remaining
  BY <1>1, WholeGood DEF Place
<1>2. CASE ~(WholeSize(m) <= b.remaining)
  <2>1. Length[m] \in Nat /\ Instructions[m] \in Nat /\ WholeSize(m) = Instructions[m] + Length[m] + 2
    BY SizesFacts
  <2>2. b.remaining \in Nat
    BY DEF Good, Buffers
  <2>3. b.remaining < WholeSize(m)
    <3>1. WholeSize(m) \in Nat
      BY <2>1
    <3> QED BY <1>2, <2>2, <3>1
  <2> QED BY <1>2, <2>3, SplitGood DEF Place
<1> QED BY <1>1, <1>2

LEMMA AnewGood ==
  ASSUME NEW b, Good(b)
  PROVE  /\ Good(CreateCurrent(CompleteCurrent(b))) /\ CreateCurrent(CompleteCurrent(b)).open
         /\ CreateCurrent(CompleteCurrent(b)).remaining = Payload
<1>1. b \in Buffers /\ AllGood(b.ready) /\ NumbersFit(b.current) /\ (b.open => b.used <= Payload)
  BY DEF Good, Buffers
<1> QED BY <1>1, CompleteGood, CreateGood

LEMMA PutGood ==
  ASSUME NEW b, Good(b), NEW m \in Messages
  PROVE  Good(PutDNNPMsg(b, m))
<1> DEFINE t == IF ~b.open \/ StartsAnew(b, m) THEN CreateCurrent(CompleteCurrent(b)) ELSE b
<1>1. PutDNNPMsg(b, m) = IF WholeSize(m) <= t.remaining \/ InstructionsFit(t, m)
                           THEN Place(t, m)
                           ELSE Place(CreateCurrent(CompleteCurrent(t)), m)
  BY DEF PutDNNPMsg
<1>2. Good(t) /\ t.open
  <2>1. CASE ~b.open \/ StartsAnew(b, m)
    BY <2>1, AnewGood
  <2>2. CASE ~(~b.open \/ StartsAnew(b, m))
    BY <2>2
  <2> QED BY <2>1, <2>2
<1> HIDE DEF t
<1>3. CASE WholeSize(m) <= t.remaining \/ InstructionsFit(t, m)
  BY <1>1, <1>2, <1>3, PlaceGood DEF InstructionsFit
<1>4. CASE ~(WholeSize(m) <= t.remaining \/ InstructionsFit(t, m))
  <2> DEFINE u == CreateCurrent(CompleteCurrent(t))
  <2>1. Good(u) /\ u.open /\ u.remaining = Payload
    BY <1>2, AnewGood
  <2> HIDE DEF u
  <2>2. FirstHeader(m) <= u.remaining
    BY <2>1, SizesFacts
  <2>3. Good(Place(u, m))
    BY <2>1, <2>2, PlaceGood
  <2> QED BY <1>1, <1>4, <2>3 DEF u
<1> QED BY <1>3, <1>4

----------------------------------------------------------------------------
(* The gateway.                                                              *)

LEMMA InitGood == Init => IInv
<1> SUFFICES ASSUME Init PROVE IInv
  OBVIOUS
<1>1. EmptyBuffer \in Buffers
  BY NothingGood DEF EmptyBuffer, Buffers, AllGood
<1>2. Good(EmptyBuffer)
  BY <1>1, NothingGood DEF Good, EmptyBuffer
<1> QED BY <1>2, NothingGood DEF Init, IInv

LEMMA StepGood == IInv /\ [Next]_vars => IInv'
<1> SUFFICES ASSUME IInv, [Next]_vars PROVE IInv'
  OBVIOUS
<1>1. CASE SendBuffer
  <2> DEFINE t == CompleteCurrent(buffer)
             u == [t EXCEPT !.ready = << >>]
  <2>1. /\ buffer \in Buffers /\ AllGood(buffer.ready) /\ NumbersFit(buffer.current)
        /\ (buffer.open => buffer.used <= Payload)
    BY DEF IInv, Good, Buffers
  <2>2. Good(t) /\ ~t.open
    BY <2>1, CompleteGood
  <2> HIDE DEF t
  <2>3. AllGood(t.ready) /\ t \in Buffers
    BY <2>2 DEF Good
  <2>4. AllGood(outbox')
    BY <1>1, <2>3, ConcatGood DEF SendBuffer, IInv, t
  <2>5. u \in Buffers /\ u.ready = << >> /\ u.current = t.current /\ u.open = t.open
    BY <2>3, NothingGood DEF Buffers, AllGood
  <2> HIDE DEF u
  <2>6. Good(u)
    BY <2>2, <2>5, NothingGood DEF Good
  <2>7. buffer' = u /\ put' = put
    BY <1>1 DEF SendBuffer, u, t
  <2> QED BY <2>4, <2>6, <2>7 DEF IInv
<1>2. ASSUME NEW m \in Messages, PutTunnelDataMsg(m) PROVE IInv'
  <2>1. Good(PutDNNPMsg(buffer, m))
    BY PutGood DEF IInv
  <2>2. Append(put, m) \in Seq(Messages)
    BY DEF IInv
  <2> QED BY <1>2, <2>1, <2>2 DEF PutTunnelDataMsg, IInv
<1>3. CASE UNCHANGED vars
  BY <1>3 DEF vars, IInv
<1> QED BY <1>1, <1>2, <1>3 DEF Next

LEMMA AlwaysGood == Spec => []IInv
BY InitGood, StepGood, PTL DEF Spec

\* The buffer and the tunnel data messages keep their types, whatever the lengths: none
\* of the subtractions of PutDNNPMsg goes below zero.
THEOREM TypeCorrect == Spec => []TypeOK
<1>1. IInv => TypeOK
  BY DEF IInv, TypeOK, Good, AllGood
<1> QED BY <1>1, AlwaysGood, PTL

\* m_RemainingSize is always what the blocks have left of the payload, and not zero.
THEOREM RemainingExact == Spec => []RemainingIsExact
<1>1. IInv => RemainingIsExact
  BY DEF IInv, Good, RemainingIsExact
<1> QED BY <1>1, AlwaysGood, PTL

\* No completed tunnel data message holds more than its payload.
THEOREM PayloadSuffices == Spec => []NeverOverfull
<1>1. IInv => NeverOverfull
  BY DEF IInv, Good, AllGood, MsgGood, NeverOverfull
<1> QED BY <1>1, AlwaysGood, PTL

\* The number of every fragment fits its six bits, for messages of any length within
\* the payload of 63 follow-on fragments.
THEOREM SixBitsSuffice == Spec => []FragmentNumberFits
<1>1. IInv => FragmentNumberFits
  BY DEF IInv, Good, AllGood, MsgGood, FragmentNumberFits
<1> QED BY <1>1, AlwaysGood, PTL
=============================================================================
