----------------------------- MODULE GarlicProofs -----------------------------
(***************************************************************************)
(* What module Garlic says of tags and confirmations holds for any number of *)
(* tags in a message, any timeouts and any bounds.                           *)
(*                                                                         *)
(* A tag goes one way: a message brings it, a delivery status confirms the    *)
(* message, the sender uses it once.  So a tag that the sender has is one     *)
(* that the receiver got with a message it has seen, and no sent message has  *)
(* it (Stock), unconfirmed tags are in no list and in no message (Unused),     *)
(* and the receiver has what it got until it was used or has grown old        *)
(* (Held).  The sender uses a tag OutExpiry after it made it at the latest,   *)
(* which is why the receiver, whose clock for it starts later and runs for    *)
(* InExpiry, still has it when the message is not late by more than the        *)
(* difference of the two.                                                   *)
(***************************************************************************)
EXTENDS Garlic, FiniteSetTheorems, TLAPS

\* The limits and timeouts are natural numbers.
NaturalLimits ==
  {NumTags, OutExpiry, InExpiry, TagsTimeout, LeaseSetTimeout, MaxMessages} \subseteq Nat

----------------------------------------------------------------------------
(* The invariant.                                                            *)

Typed ==
  /\ clock \in Nat /\ version \in Nat \ {0} /\ known \in Nat
  /\ session = NoSession \/ session \in Sessions
  /\ sent \in Seq(GarlicMsgs)
  /\ statuses \subseteq DOMAIN sent /\ arrived \subseteq DOMAIN sent
  /\ inTags \subseteq [tag : Tags, created : Nat]

TagsOf(id) == {<<id, n>> : n \in 1 .. NumTags}

\* What is true of every message, and of those whose status has been sent.
Messages ==
  /\ \A i \in DOMAIN sent : sent[i].at <= clock /\ sent[i].newTags \in {{}, TagsOf(i)}
  /\ \A i \in statuses : sent[i].leaseSet <= known

\* Tags that the receiver got with a message it has seen.
Brought(g) == g \in Tags /\ g[1] \in statuses /\ g \in sent[g[1]].newTags

Used(g) == \E i \in DOMAIN sent : sent[i].tag = g

UsedAreBrought ==
  \A i \in DOMAIN sent : sent[i].tag # NoTag =>
    Brought(sent[i].tag) /\ sent[i].at < Created(sent[i].tag) + OutExpiry

\* The list of tags and the messages whose tags have not been confirmed.
Distinct(tags) == \A j, k \in DOMAIN tags : tags[j] = tags[k] => j = k
Stock(tags, unconfirmed) ==
  /\ Distinct(tags)
  /\ \A k \in DOMAIN tags : Brought(tags[k]) /\ tags[k][1] \notin unconfirmed /\ ~Used(tags[k])

Unused(unconfirmed) ==
  \A id \in unconfirmed :
    /\ id \in DOMAIN sent /\ sent[id].newTags = TagsOf(id)
    /\ \A i \in DOMAIN sent : sent[i].tag[1] # id

\* The message that carried the LeaseSet last.
Offers(s) ==
  /\ s.updateID # NoId => s.updateID \in DOMAIN sent /\ sent[s.updateID].leaseSet = s.offered
  /\ s.status = "UpToDate" => known >= s.offered

Good(s) == s \in Sessions /\ Stock(s.tags, s.unconfirmed) /\ Unused(s.unconfirmed) /\ Offers(s)

SessionIsGood == session # NoSession => Good(session)

\* What the receiver still has.
Consumed(g) == \E i \in arrived : sent[i].tag = g
Held ==
  /\ \A id \in statuses : \A g \in sent[id].newTags :
       HasTag(g) \/ Consumed(g) \/ clock >= sent[id].at + InExpiry
  /\ \A t \in inTags : t.tag[1] \in DOMAIN sent /\ sent[t.tag[1]].at <= t.created

IInv ==
  /\ Typed /\ Messages /\ UsedAreBrought /\ TagsAreOneTime /\ SessionIsGood /\ Held /\ StatusIsAwaited

----------------------------------------------------------------------------
(* FreshTags lists some of the tags, each once.                               *)

\* Every place of the list is taken by exactly one of the chosen positions: their ranks are
\* different, and there are as many as places.
LEMMA RanksAreTaken ==
  ASSUME NEW L \in Nat, NEW F \in SUBSET (1 .. L)
  PROVE  /\ IsFiniteSet(F) /\ Cardinality(F) \in Nat
         /\ \A n \in 1 .. Cardinality(F) :
              \E k \in F : Cardinality({j \in F : j < k}) = n - 1
<1> DEFINE Below(k) == {j \in F : j < k}
           N == Cardinality(F)
           rank == [k \in F |-> Cardinality(Below(k)) + 1]
<1>1. IsFiniteSet(F) /\ N \in Nat
  <2>1. IsFiniteSet(1 .. L)
    BY FS_Interval
  <2>2. IsFiniteSet(F)
    BY <2>1, FS_Subset
  <2> QED BY <2>2, FS_CardinalityType
<1>2. \A k \in F : IsFiniteSet(Below(k)) /\ Cardinality(Below(k)) \in Nat /\ Cardinality(Below(k)) < N
  <2> SUFFICES ASSUME NEW k \in F
               PROVE  IsFiniteSet(Below(k)) /\ Cardinality(Below(k)) \in Nat /\ Cardinality(Below(k)) < N
    OBVIOUS
  <2>1. Below(k) \subseteq F /\ k \notin Below(k)
    OBVIOUS
  <2>2. Below(k) # F
    BY <2>1
  <2> HIDE DEF Below
  <2>3. IsFiniteSet(Below(k)) /\ Cardinality(Below(k)) <= N /\ Cardinality(Below(k)) # N
    BY <1>1, <2>1, <2>2, FS_Subset
  <2>4. Cardinality(Below(k)) \in Nat
    BY <2>3, FS_CardinalityType
  <2> QED BY <1>1, <2>3, <2>4
<1>3. ASSUME NEW k \in F, NEW m \in F, k < m
      PROVE  Cardinality(Below(k)) < Cardinality(Below(m))
  <2>1. Below(k) \subseteq Below(m) /\ k \in Below(m) /\ k \notin Below(k)
    <3>1. \A j \in F : j \in Nat
      OBVIOUS
    <3>2. \A j \in F : j < k => j < m
      BY <1>3, <3>1
    <3>3. Below(k) \subseteq Below(m)
      BY <3>2
    <3>4. k \in Below(m) /\ k \notin Below(k)
      BY <1>3, <3>1
    <3> QED BY <3>3, <3>4
  <2>2. Below(k) # Below(m)
    BY <2>1
  <2> HIDE DEF Below
  <2>3. Cardinality(Below(k)) <= Cardinality(Below(m)) /\ Cardinality(Below(k)) # Cardinality(Below(m))
    BY <1>2, <2>1, <2>2, FS_Subset
  <2> QED BY <1>2, <2>3
<1> HIDE DEF Below
<1>4. rank \in [F -> 1 .. N]
  BY <1>1, <1>2
<1>5. \A k, m \in F : rank[k] = rank[m] => k = m
  <2> SUFFICES ASSUME NEW k \in F, NEW m \in F, k # m
               PROVE  Cardinality(Below(k)) # Cardinality(Below(m))
    BY <1>2
  <2>1. k < m \/ m < k
    OBVIOUS
  <2> QED BY <1>2, <1>3, <2>1
<1>6. rank \in Injection(F, 1 .. N)
  BY <1>4, <1>5 DEF Injection, IsInjective
<1>7. IsFiniteSet(1 .. N) /\ Cardinality(1 .. N) = N
  BY <1>1, FS_Interval
<1>8. rank \in Surjection(F, 1 .. N)
  BY <1>1, <1>6, <1>7, FS_Injection
<1>9. ASSUME NEW n \in 1 .. N
      PROVE  \E k \in F : Cardinality(Below(k)) = n - 1
  <2>1. PICK k \in F : rank[k] = n
    BY <1>8 DEF Surjection
  <2>2. Cardinality(Below(k)) + 1 = n
    BY <2>1
  <2> QED BY <1>2, <2>2
<1> QED BY <1>1, <1>9 DEF Below

LEMMA FreshTagsAreSome ==
  ASSUME NEW tags \in Seq(Tags)
  PROVE  LET kept == FreshTags(tags)
         IN  /\ kept \in Seq(Tags)
             /\ \E at \in [DOMAIN kept -> DOMAIN tags] :
                  /\ \A n \in DOMAIN kept : kept[n] = tags[at[n]]
                  /\ \A m, n \in DOMAIN kept : at[m] = at[n] => m = n
<1> DEFINE F == {k \in DOMAIN tags : IsFresh(tags[k])}
           N == Cardinality(F)
           At(n) == CHOOSE k \in F : Cardinality({j \in F : j < k}) = n - 1
           kept == [n \in 1 .. N |-> tags[At(n)]]
<1>1. FreshTags(tags) = kept
  BY DEF FreshTags
<1>2. /\ F \in SUBSET (1 .. Len(tags)) /\ Len(tags) \in Nat /\ DOMAIN tags = 1 .. Len(tags)
      /\ \A k \in 1 .. Len(tags) : tags[k] \in Tags
  OBVIOUS
<1> HIDE DEF F
<1>3. N \in Nat /\ \A n \in 1 .. N : \E k \in F : Cardinality({j \in F : j < k}) = n - 1
  BY <1>2, RanksAreTaken
<1>4. \A n \in 1 .. N : At(n) \in F /\ Cardinality({j \in F : j < At(n)}) = n - 1
  BY <1>3
<1> HIDE DEF At
<1>5. \A n \in 1 .. N : At(n) \in DOMAIN tags /\ tags[At(n)] \in Tags
  BY <1>2, <1>4
<1>6. kept \in Seq(Tags) /\ DOMAIN kept = 1 .. N
  BY <1>3, <1>5
<1> DEFINE at == [n \in 1 .. N |-> At(n)]
<1>7. at \in [DOMAIN kept -> DOMAIN tags]
  BY <1>5, <1>6
<1>8. \A n \in DOMAIN kept : kept[n] = tags[at[n]]
  BY <1>6
<1>9. \A m, n \in DOMAIN kept : at[m] = at[n] => m = n
  <2> SUFFICES ASSUME NEW m \in 1 .. N, NEW n \in 1 .. N, At(m) = At(n)
               PROVE  m = n
    BY <1>6
  <2>1. m - 1 = n - 1
    BY <1>4
  <2> QED BY <1>3, <2>1
<1> HIDE DEF kept, at
<1> QED BY <1>1, <1>6, <1>7, <1>8, <1>9

----------------------------------------------------------------------------
(* What MessageConfirmed and CleanupExpiredTags make of a good session.        *)

LEMMA StockFewer ==
  ASSUME NEW tags \in Seq(Tags), NEW u, NEW v \in SUBSET u, Stock(tags, u)
  PROVE  Stock(FreshTags(tags), v)
<1> DEFINE kept == FreshTags(tags)
<1>1. PICK at \in [DOMAIN kept -> DOMAIN tags] :
        /\ \A n \in DOMAIN kept : kept[n] = tags[at[n]]
        /\ \A m, n \in DOMAIN kept : at[m] = at[n] => m = n
  BY FreshTagsAreSome
<1> HIDE DEF kept
<1>2. Distinct(kept)
  <2> SUFFICES ASSUME NEW m \in DOMAIN kept, NEW n \in DOMAIN kept, kept[m] = kept[n]
               PROVE  m = n
    BY DEF Distinct
  <2>1. at[m] \in DOMAIN tags /\ at[n] \in DOMAIN tags /\ tags[at[m]] = tags[at[n]]
    BY <1>1
  <2>2. at[m] = at[n]
    BY <2>1 DEF Stock, Distinct
  <2> QED BY <1>1, <2>2
<1>3. ASSUME NEW n \in DOMAIN kept
      PROVE  Brought(kept[n]) /\ kept[n][1] \notin v /\ ~Used(kept[n])
  <2>1. at[n] \in DOMAIN tags /\ kept[n] = tags[at[n]]
    BY <1>1
  <2> QED BY <2>1 DEF Stock
<1>4. Stock(kept, v)
  BY <1>2, <1>3 DEF Stock
<1> QED BY <1>4 DEF kept

LEMMA CleanedUpFields ==
  ASSUME NEW s \in Sessions
  PROVE  LET t == CleanedUp(s)
         IN  /\ t \in Sessions
             /\ t.status = s.status /\ t.offered = s.offered /\ t.submitted = s.submitted
             /\ t.tags = FreshTags(s.tags) /\ t.unconfirmed = s.unconfirmed \ OutdatedTags(s)
             /\ t.updateID = IF OutdatedUpdate(s) = {} THEN s.updateID ELSE NoId
<1> DEFINE x == FreshTags(s.tags)
           u == s.unconfirmed \ OutdatedTags(s)
           d == IF OutdatedUpdate(s) = {} THEN s.updateID ELSE NoId
<1>1. CleanedUp(s) = [s EXCEPT !.tags = x, !.unconfirmed = u, !.updateID = d]
  BY DEF CleanedUp
<1>2. s.tags \in Seq(Tags) /\ s.unconfirmed \in SUBSET MessageIds /\ s.updateID \in MessageIds \cup {NoId}
  BY DEF Sessions
<1>3. x \in Seq(Tags)
  BY <1>2, FreshTagsAreSome
<1>4. u \in SUBSET MessageIds /\ d \in MessageIds \cup {NoId}
  BY <1>2
<1> HIDE DEF x, u, d
<1>5. [s EXCEPT !.tags = x, !.unconfirmed = u, !.updateID = d] \in Sessions
  BY <1>3, <1>4 DEF Sessions
<1>6. LET t == [s EXCEPT !.tags = x, !.unconfirmed = u, !.updateID = d]
      IN  /\ t.status = s.status /\ t.offered = s.offered /\ t.submitted = s.submitted
          /\ t.tags = x /\ t.unconfirmed = u /\ t.updateID = d
  BY DEF Sessions
<1> QED BY <1>1, <1>5, <1>6 DEF x, u, d

LEMMA CleanedUpGood ==
  ASSUME NEW s, Good(s)
  PROVE  Good(CleanedUp(s))
<1> DEFINE t == CleanedUp(s)
<1>1. s \in Sessions /\ s.tags \in Seq(Tags)
  BY DEF Good, Sessions
<1>2. /\ t \in Sessions /\ t.status = s.status /\ t.offered = s.offered
      /\ t.tags = FreshTags(s.tags) /\ t.unconfirmed \in SUBSET s.unconfirmed
      /\ (t.updateID = NoId \/ t.updateID = s.updateID)
  BY <1>1, CleanedUpFields
<1> HIDE DEF t
<1>3. Stock(t.tags, t.unconfirmed)
  BY <1>1, <1>2, StockFewer DEF Good
<1>4. Unused(t.unconfirmed)
  BY <1>2 DEF Good, Unused
<1>5. Offers(t)
  BY <1>2 DEF Good, Offers
<1>6. Good(t)
  BY <1>2, <1>3, <1>4, <1>5 DEF Good
<1> QED BY <1>6 DEF t

LEMMA NewTags ==
  ASSUME NaturalLimits, NEW id \in MessageIds
  PROVE  /\ TagSeq(id) \in Seq(Tags) /\ Len(TagSeq(id)) = NumTags
         /\ \A n \in 1 .. NumTags : TagSeq(id)[n] = <<id, n>> /\ TagSeq(id)[n][1] = id
<1>1. NumTags \in Nat
  BY DEF NaturalLimits
<1>2. \A n \in 1 .. NumTags : <<id, n>> \in Tags /\ <<id, n>>[1] = id
  BY DEF Tags
<1>3. [n \in 1 .. NumTags |-> <<id, n>>] \in Seq(Tags)
  BY <1>1, <1>2
<1>4. Len([n \in 1 .. NumTags |-> <<id, n>>]) = NumTags
  BY <1>1
<1> QED BY <1>2, <1>3, <1>4 DEF TagSeq

LEMMA TagsConfirmedFields ==
  ASSUME NaturalLimits, NEW s \in Sessions, NEW id
  PROVE  LET t == TagsConfirmed(s, id)
         IN  /\ t \in Sessions
             /\ t.status = s.status /\ t.offered = s.offered /\ t.updateID = s.updateID
             /\ t.unconfirmed = s.unconfirmed \ {id}
             /\ \/ t.tags = s.tags
                \/ id \in s.unconfirmed /\ t.tags = s.tags \o TagSeq(id)
<1>0. s.tags \in Seq(Tags) /\ s.unconfirmed \in SUBSET MessageIds
  BY DEF Sessions
<1>1. CASE id \notin s.unconfirmed
  <2>1. TagsConfirmed(s, id) = s
    BY <1>1 DEF TagsConfirmed
  <2> QED BY <1>1, <2>1
<1>2. CASE id \in s.unconfirmed
  <2> DEFINE u == s.unconfirmed \ {id}
             x == IF clock < sent[id].at + OutExpiry THEN s.tags \o TagSeq(id) ELSE s.tags
  <2>1. TagsConfirmed(s, id) = [s EXCEPT !.unconfirmed = u, !.tags = x]
    BY <1>2 DEF TagsConfirmed
  <2>2. TagSeq(id) \in Seq(Tags)
    BY <1>0, <1>2, NewTags
  <2>3. x \in Seq(Tags) /\ u \in SUBSET MessageIds
    BY <1>0, <2>2
  <2>4. x = s.tags \/ x = s.tags \o TagSeq(id)
    OBVIOUS
  <2> HIDE DEF x, u
  <2>5. [s EXCEPT !.unconfirmed = u, !.tags = x] \in Sessions
    BY <2>3 DEF Sessions
  <2>6. LET t == [s EXCEPT !.unconfirmed = u, !.tags = x]
        IN  /\ t.status = s.status /\ t.offered = s.offered /\ t.updateID = s.updateID
            /\ t.unconfirmed = u /\ t.tags = x
    BY DEF Sessions
  <2> QED BY <1>2, <2>1, <2>4, <2>5, <2>6 DEF u
<1> QED BY <1>1, <1>2

LEMMA TagsConfirmedGood ==
  ASSUME NaturalLimits, NEW s, Good(s), NEW id \in statuses
  PROVE  Good(TagsConfirmed(s, id))
<1> DEFINE t == TagsConfirmed(s, id)
<1>1. s \in Sessions /\ s.tags \in Seq(Tags) /\ s.unconfirmed \in SUBSET MessageIds
  BY DEF Good, Sessions
<1>2. /\ t \in Sessions /\ t.status = s.status /\ t.offered = s.offered /\ t.updateID = s.updateID
      /\ t.unconfirmed = s.unconfirmed \ {id}
      /\ \/ t.tags = s.tags
         \/ id \in s.unconfirmed /\ t.tags = s.tags \o TagSeq(id)
  BY <1>1, TagsConfirmedFields
<1> HIDE DEF t
<1>3. Unused(t.unconfirmed) /\ Offers(t)
  BY <1>2 DEF Good, Unused, Offers
<1>4. CASE t.tags = s.tags
  <2>1. Stock(t.tags, t.unconfirmed)
    BY <1>2, <1>4 DEF Good, Stock
  <2>2. Good(t)
    BY <1>2, <1>3, <2>1 DEF Good
  <2> QED BY <2>2 DEF t
<1>5. CASE id \in s.unconfirmed /\ t.tags = s.tags \o TagSeq(id)
  <2> DEFINE q == s.tags
             r == TagSeq(id)
  <2>1. /\ r \in Seq(Tags) /\ Len(r) = NumTags /\ id \in MessageIds
        /\ \A n \in 1 .. NumTags : r[n] = <<id, n>> /\ r[n][1] = id
    BY <1>1, <1>5, NewTags
  <2>2. /\ Unused(s.unconfirmed) /\ Stock(q, s.unconfirmed) /\ NumTags \in Nat
    BY DEF Good, NaturalLimits
  <2>3. \A n \in 1 .. NumTags : Brought(r[n]) /\ ~Used(r[n]) /\ r[n][1] = id /\ r[n] = <<id, n>>
    <3> SUFFICES ASSUME NEW n \in 1 .. NumTags
                 PROVE  Brought(r[n]) /\ ~Used(r[n])
      BY <2>1
    <3>1. r[n] = <<id, n>> /\ r[n][1] = id /\ r[n] \in Tags
      BY <2>1 DEF Tags
    <3>2. r[n] \in sent[id].newTags
      BY <1>5, <2>2, <3>1 DEF Unused, TagsOf
    <3>3. ~Used(r[n])
      BY <1>5, <2>2, <3>1 DEF Unused, Used
    <3> QED BY <3>1, <3>2, <3>3 DEF Brought
  <2>10. t.tags = q \o r
    BY <1>5
  <2> HIDE DEF r
  <2>4. \A k \in DOMAIN (q \o r) :
          \/ k \in DOMAIN q /\ (q \o r)[k] = q[k]
          \/ k - Len(q) \in 1 .. NumTags /\ k \notin DOMAIN q /\ (q \o r)[k] = r[k - Len(q)]
    BY <1>1, <2>1
  <2>5. \A k \in DOMAIN q : q[k][1] # id /\ Brought(q[k]) /\ q[k][1] \notin s.unconfirmed /\ ~Used(q[k])
    BY <1>5, <2>2 DEF Stock
  <2>6. \A k \in DOMAIN (q \o r) :
          /\ Brought((q \o r)[k]) /\ ~Used((q \o r)[k])
          /\ (q \o r)[k][1] \notin t.unconfirmed
    BY <1>2, <2>3, <2>4, <2>5
  <2>7. Distinct(q \o r)
    <3> SUFFICES ASSUME NEW j \in DOMAIN (q \o r), NEW k \in DOMAIN (q \o r), (q \o r)[j] = (q \o r)[k]
                 PROVE  j = k
      BY DEF Distinct
    <3>1. CASE j \in DOMAIN q /\ (q \o r)[j] = q[j]
      <4>1. k \in DOMAIN q /\ (q \o r)[k] = q[k]
        BY ZenonT(40), <2>3, <2>4, <2>5, <3>1
      <4> QED BY <2>2, <3>1, <4>1 DEF Stock, Distinct
    <3>2. CASE j - Len(q) \in 1 .. NumTags /\ j \notin DOMAIN q /\ (q \o r)[j] = r[j - Len(q)]
      <4>1. k - Len(q) \in 1 .. NumTags /\ (q \o r)[k] = r[k - Len(q)]
        BY <2>3, <2>4, <2>5, <3>2
      <4>2. <<id, j - Len(q)>> = <<id, k - Len(q)>>
        BY <2>3, <3>2, <4>1
      <4>3. j - Len(q) = k - Len(q)
        BY <4>2
      <4>4. j \in Nat /\ k \in Nat /\ Len(q) \in Nat
        <5>1. q \in Seq(Tags) /\ q \o r \in Seq(Tags)
          BY <1>1, <2>1
        <5> HIDE DEF q
        <5>2. DOMAIN (q \o r) = 1 .. Len(q \o r) /\ Len(q \o r) \in Nat
          BY <5>1
        <5> QED BY <5>1, <5>2
      <4> QED BY <4>3, <4>4
    <3> QED BY <2>4, <3>1, <3>2
  <2>8. Stock(t.tags, t.unconfirmed)
    BY <2>10, <2>6, <2>7 DEF Stock
  <2>9. Good(t)
    BY <1>2, <1>3, <2>8 DEF Good
  <2> QED BY <2>9 DEF t
<1> QED BY <1>2, <1>4, <1>5

----------------------------------------------------------------------------
(* WrapSingleMessage: the tag that it takes, and the session afterwards.       *)

\* TakeTag takes out one fresh tag, and the ones before it.
LEMMA Taking ==
  ASSUME NEW tags \in Seq(Tags)
  PROVE  LET take == TakeTag(tags)
         IN  \/ take.tag = NoTag /\ take.left = <<>>
             \/ \E k \in DOMAIN tags :
                  /\ take.tag = tags[k] /\ IsFresh(tags[k])
                  /\ take.left = SubSeq(tags, k + 1, Len(tags))
<1>1. CASE ~\E k \in 1 .. Len(tags) : IsFresh(tags[k])
  BY <1>1 DEF TakeTag
<1>2. CASE \E k \in 1 .. Len(tags) : IsFresh(tags[k])
  <2> DEFINE F == {k \in 1 .. Len(tags) : IsFresh(tags[k])}
             First(k) == IsFresh(tags[k]) /\ \A j \in 1 .. (k - 1) : ~IsFresh(tags[j])
             k == CHOOSE k \in 1 .. Len(tags) : First(k)
  <2>1. F \in SUBSET (1 .. Len(tags)) /\ Len(tags) \in Nat /\ F # {}
    BY <1>2
  <2>2. \E m \in 1 .. Len(tags) : First(m)
    <3> HIDE DEF F
    <3>1. IsFiniteSet(F) /\ Cardinality(F) \in Nat /\ Cardinality(F) # 0
      BY <2>1, RanksAreTaken, FS_EmptySet
    <3>2. PICK m \in F : Cardinality({j \in F : j < m}) = 1 - 1
      <4>1. 1 \in 1 .. Cardinality(F)
        BY <3>1
      <4>2. \A n \in 1 .. Cardinality(F) : \E m \in F : Cardinality({j \in F : j < m}) = n - 1
        BY <2>1, RanksAreTaken
      <4> QED BY <4>1, <4>2
    <3>3. IsFiniteSet({j \in F : j < m})
      BY <3>1, FS_Subset
    <3>4. {j \in F : j < m} = {}
      BY <3>2, <3>3, FS_EmptySet
    <3>5. m \in 1 .. Len(tags) /\ IsFresh(tags[m])
      BY DEF F
    <3>6. ASSUME NEW j \in 1 .. (m - 1), IsFresh(tags[j])
          PROVE  FALSE
      <4>1. j \in 1 .. Len(tags) /\ j < m
        BY <2>1, <3>5
      <4>2. j \in F
        BY <3>6, <4>1 DEF F
      <4> QED BY <3>4, <4>1, <4>2
    <3> QED BY <3>5, <3>6
  <2>3. k \in 1 .. Len(tags) /\ First(k)
    BY <2>2
  <2>4. TakeTag(tags) = [tag |-> tags[k], left |-> SubSeq(tags, k + 1, Len(tags))]
    BY <1>2 DEF TakeTag
  <2> HIDE DEF k
  <2>5. k \in DOMAIN tags /\ IsFresh(tags[k])
    BY <2>3
  <2> DEFINE take == TakeTag(tags)
             rest == SubSeq(tags, k + 1, Len(tags))
  <2> HIDE DEF rest, F, First
  <2>6. TakeTag(tags) = [tag |-> tags[k], left |-> rest]
    BY <2>4 DEF rest
  <2>7. take.tag = tags[k] /\ take.left = rest
    BY <2>6
  <2> HIDE DEF take
  <2>8. \E i \in DOMAIN tags :
          take.tag = tags[i] /\ IsFresh(tags[i]) /\ take.left = SubSeq(tags, i + 1, Len(tags))
    BY <2>5, <2>7 DEF rest
  <2> QED BY <2>8 DEF take
<1> QED BY <1>1, <1>2

LEMMA TakingKeepsStock ==
  ASSUME NEW tags \in Seq(Tags), NEW u, Stock(tags, u)
  PROVE  LET take == TakeTag(tags)
         IN  /\ take.left \in Seq(Tags) /\ Stock(take.left, u)
             /\ \/ take.tag = NoTag
                \/ /\ Brought(take.tag) /\ IsFresh(take.tag) /\ ~Used(take.tag) /\ take.tag[1] \notin u
                   /\ take.tag \in Tags
                   /\ \A j \in DOMAIN take.left : take.left[j] # take.tag
<1> DEFINE take == TakeTag(tags)
<1>1. CASE take.tag = NoTag /\ take.left = <<>>
  <2>1. <<>> \in Seq(Tags) /\ DOMAIN <<>> = {}
    OBVIOUS
  <2> HIDE DEF take
  <2>2. Stock(take.left, u) /\ take.left \in Seq(Tags)
    BY <1>1, <2>1 DEF Stock, Distinct
  <2> QED BY <1>1, <2>2 DEF take
<1>2. ASSUME NEW k \in DOMAIN tags, take.tag = tags[k], IsFresh(tags[k]),
             take.left = SubSeq(tags, k + 1, Len(tags))
      PROVE  /\ take.left \in Seq(Tags) /\ Stock(take.left, u)
             /\ Brought(take.tag) /\ IsFresh(take.tag) /\ ~Used(take.tag) /\ take.tag[1] \notin u
             /\ take.tag \in Tags
             /\ \A j \in DOMAIN take.left : take.left[j] # take.tag
  <2> HIDE DEF take
  <2>1. /\ take.left \in Seq(Tags) /\ k \in Nat
        /\ \A j \in DOMAIN take.left :
             j \in Nat /\ 0 < j /\ k + j \in DOMAIN tags /\ take.left[j] = tags[k + j]
    BY <1>2
  <2>2. \A i, j \in DOMAIN tags : tags[i] = tags[j] => i = j
    BY DEF Stock, Distinct
  <2>3. \A j \in DOMAIN take.left : take.left[j] # take.tag
    <3> SUFFICES ASSUME NEW j \in DOMAIN take.left, tags[k + j] = tags[k]
                 PROVE  FALSE
      BY <1>2, <2>1
    <3>1. k + j = k
      BY <2>1, <2>2
    <3> QED BY <2>1, <3>1
  <2>4. Distinct(take.left)
    <3> SUFFICES ASSUME NEW i \in DOMAIN take.left, NEW j \in DOMAIN take.left,
                        take.left[i] = take.left[j]
                 PROVE  i = j
      BY DEF Distinct
    <3>1. k + i = k + j
      BY <2>1, <2>2
    <3> QED BY <2>1, <3>1
  <2>5. Stock(take.left, u)
    BY <2>1, <2>4 DEF Stock
  <2> QED BY <1>2, <2>1, <2>3, <2>5 DEF Stock
<1> QED BY <1>1, <1>2, Taking

LEMMA NewSessionIsGood == Good(NewSession) /\ NewSession.updateID = NoId /\ NewSession.unconfirmed = {}
<1>1. /\ NewSession.status = "Updated" /\ NewSession.updateID = NoId /\ NewSession.tags = <<>>
      /\ NewSession.unconfirmed = {} /\ NewSession.offered = 0
  BY DEF NewSession
<1>2. <<>> \in Seq(Tags) /\ DOMAIN <<>> = {}
  OBVIOUS
<1>3. NewSession \in Sessions
  BY <1>2 DEF NewSession, Sessions
<1> QED BY <1>1, <1>2, <1>3 DEF Good, Stock, Distinct, Unused, Offers

LEMMA ResubmittedFields ==
  ASSUME NEW s \in Sessions
  PROVE  LET t == Resubmitted(s)
         IN  /\ t \in Sessions /\ t.offered = s.offered /\ t.updateID = s.updateID
             /\ t.unconfirmed = s.unconfirmed
             /\ t.status = s.status \/ t.status = "Updated"
BY DEF Resubmitted, Sessions

LEMMA MessageFields ==
  ASSUME NaturalLimits, Typed, NEW s \in Sessions, NEW id, NEW hasTunnel \in BOOLEAN
  PROVE  LET m == Message(s, id, hasTunnel)
         IN  /\ m.tag = TakeTag(s.tags).tag /\ m.at = clock
             /\ m.newTags = {} \/ m.newTags = TagsOf(id)
             /\ m.leaseSet = IF Resubmitted(s).status = "Updated" THEN version ELSE 0
             /\ m.status \in BOOLEAN
             /\ m.status => m.leaseSet # 0 \/ m.newTags # {}
             /\ DOMAIN m = {"tag", "at", "newTags", "status", "leaseSet"}
             /\ m = [tag |-> m.tag, at |-> m.at, newTags |-> m.newTags, status |-> m.status,
                     leaseSet |-> m.leaseSet]
<1> DEFINE left == TakeTag(s.tags).left
           update == Resubmitted(s).status = "Updated"
           m == Message(s, id, hasTunnel)
<1>1. /\ m.tag = TakeTag(s.tags).tag /\ m.at = clock
      /\ m.newTags = IF NeedsTags(left) THEN TagsOf(id) ELSE {}
      /\ m.leaseSet = IF update THEN version ELSE 0
      /\ m.status = (hasTunnel /\ (NeedsTags(left) \/ update))
      /\ m = [tag |-> m.tag, at |-> m.at, newTags |-> m.newTags, status |-> m.status,
              leaseSet |-> m.leaseSet]
  BY DEF Message, TagsOf
<1>2. ASSUME NeedsTags(left) PROVE TagsOf(id) # {}
  <2>1. 1 \in 1 .. NumTags
    BY <1>2 DEF NeedsTags, NaturalLimits
  <2> QED BY <2>1 DEF TagsOf
<1>3. version # 0
  BY DEF Typed
<1>4. m.status \in BOOLEAN
  BY <1>1
<1>5. DOMAIN m = {"tag", "at", "newTags", "status", "leaseSet"}
  BY <1>1
<1> HIDE DEF m, left, update
<1>6. m.status => m.leaseSet # 0 \/ m.newTags # {}
  BY <1>1, <1>2, <1>3
<1>7. m.newTags = {} \/ m.newTags = TagsOf(id)
  BY <1>1
<1> QED BY <1>1, <1>4, <1>5, <1>6, <1>7 DEF m, update

LEMMA AfterWrapFields ==
  ASSUME Typed, NEW s \in Sessions, NEW id \in MessageIds, NEW m, m.leaseSet \in Nat,
         TakeTag(s.tags).left \in Seq(Tags)
  PROVE  LET t == AfterWrap(s, m, id)
         IN  /\ t \in Sessions /\ t.tags = TakeTag(s.tags).left
             /\ t.unconfirmed = IF m.newTags # {} /\ m.status THEN s.unconfirmed \cup {id} ELSE s.unconfirmed
             /\ t.updateID = IF m.leaseSet # 0 THEN id ELSE s.updateID
             /\ t.offered = IF m.leaseSet # 0 THEN m.leaseSet ELSE s.offered
             /\ t.status = IF m.leaseSet # 0 THEN "Submitted" ELSE Resubmitted(s).status
<1> DEFINE r == Resubmitted(s)
           x == TakeTag(s.tags).left
           u == IF m.newTags # {} /\ m.status THEN s.unconfirmed \cup {id} ELSE s.unconfirmed
           v == [r EXCEPT !.tags = x, !.unconfirmed = u]
<1>1. r \in Sessions /\ r.offered = s.offered /\ r.updateID = s.updateID /\ r.unconfirmed = s.unconfirmed
  BY ResubmittedFields
<1>2. u \in SUBSET MessageIds /\ x \in Seq(Tags)
  BY DEF Sessions
<1>3. AfterWrap(s, m, id) =
        IF m.leaseSet # 0
          THEN [v EXCEPT !.status = "Submitted", !.updateID = id, !.submitted = clock,
                         !.offered = m.leaseSet]
          ELSE v
  <2>1. (IF m.newTags # {} /\ m.status THEN r.unconfirmed \cup {id} ELSE r.unconfirmed) = u
    BY <1>1
  <2> QED BY <2>1 DEF AfterWrap
<1>4. clock \in Nat
  BY DEF Typed
<1> HIDE DEF r, x, u
<1>5. /\ v \in Sessions /\ v.tags = x /\ v.unconfirmed = u /\ v.updateID = r.updateID
      /\ v.offered = r.offered /\ v.status = r.status
  BY <1>1, <1>2 DEF Sessions
<1> HIDE DEF v
<1>6. LET w == [v EXCEPT !.status = "Submitted", !.updateID = id, !.submitted = clock,
                         !.offered = m.leaseSet]
      IN  /\ w \in Sessions /\ w.tags = x /\ w.unconfirmed = u /\ w.updateID = id
          /\ w.offered = m.leaseSet /\ w.status = "Submitted"
  BY <1>4, <1>5 DEF Sessions
<1>7. CASE m.leaseSet # 0
  BY <1>3, <1>6, <1>7 DEF x, u, r
<1>8. CASE m.leaseSet = 0
  BY <1>1, <1>3, <1>5, <1>8 DEF x, u, r
<1> QED BY <1>7, <1>8

LEMMA SessionIsNotNone == \A s \in Sessions : s # NoSession
BY DEF Sessions, NoSession

\* The session that the next message is wrapped in.
LEMMA NextSession ==
  ASSUME IInv
  PROVE  LET s == IF session = NoSession THEN NewSession ELSE session
         IN  /\ Good(s) /\ s \in Sessions /\ s.tags \in Seq(Tags)
             /\ awaited \subseteq s.unconfirmed \cup {s.updateID}
<1>1. CASE session = NoSession
  BY <1>1, NewSessionIsGood DEF IInv, StatusIsAwaited, Good, Sessions
<1>2. CASE session # NoSession
  BY <1>2 DEF IInv, SessionIsGood, StatusIsAwaited, Good, Sessions
<1> QED BY <1>1, <1>2

LEMMA WrapSingleMessageKeeps ==
  ASSUME NaturalLimits, IInv, NEW hasTunnel \in BOOLEAN, WrapSingleMessage(hasTunnel)
  PROVE  IInv'
<1> DEFINE id == Len(sent) + 1
           s == IF session = NoSession THEN NewSession ELSE session
           m == Message(s, id, hasTunnel)
           t == AfterWrap(s, m, id)
           take == TakeTag(s.tags)
<1>0. Typed /\ Messages /\ UsedAreBrought /\ TagsAreOneTime /\ SessionIsGood /\ Held /\ StatusIsAwaited
  BY DEF IInv
<1>1. /\ id <= MaxMessages /\ sent' = Append(sent, m) /\ session' = t
      /\ awaited' = (awaited \cup (IF m.status THEN {id} ELSE {}))
                    \ (IF m.leaseSet # 0 THEN {s.updateID} ELSE {})
      /\ UNCHANGED <<clock, version, statuses, inTags, known, arrived>>
  BY DEF WrapSingleMessage
<1>2. Good(s) /\ s \in Sessions /\ s.tags \in Seq(Tags) /\ awaited \subseteq s.unconfirmed \cup {s.updateID}
  BY NextSession
<1>3. id \in MessageIds /\ id \in Nat /\ id \notin DOMAIN sent /\ DOMAIN sent = 1 .. Len(sent) /\ sent \in Seq(GarlicMsgs)
  BY <1>0, <1>1 DEF Typed, MessageIds, NaturalLimits
<1>4. /\ take.left \in Seq(Tags) /\ Stock(take.left, s.unconfirmed)
      /\ \/ take.tag = NoTag
         \/ /\ Brought(take.tag) /\ IsFresh(take.tag) /\ ~Used(take.tag)
            /\ take.tag[1] \notin s.unconfirmed /\ take.tag \in Tags
            /\ \A j \in DOMAIN take.left : take.left[j] # take.tag
  BY <1>2, TakingKeepsStock DEF Good
<1>5. /\ m.tag = take.tag /\ m.at = clock
      /\ m.newTags = {} \/ m.newTags = TagsOf(id)
      /\ m.leaseSet = IF Resubmitted(s).status = "Updated" THEN version ELSE 0
      /\ m.status \in BOOLEAN /\ (m.status => m.leaseSet # 0 \/ m.newTags # {})
      /\ m = [tag |-> m.tag, at |-> m.at, newTags |-> m.newTags, status |-> m.status,
              leaseSet |-> m.leaseSet]
  BY <1>0, <1>2, MessageFields
<1>6. m.leaseSet \in Nat
  BY <1>0, <1>5 DEF Typed
<1>7. /\ t \in Sessions /\ t.tags = take.left
      /\ t.unconfirmed = IF m.newTags # {} /\ m.status THEN s.unconfirmed \cup {id} ELSE s.unconfirmed
      /\ t.updateID = IF m.leaseSet # 0 THEN id ELSE s.updateID
      /\ t.offered = IF m.leaseSet # 0 THEN m.leaseSet ELSE s.offered
      /\ t.status = IF m.leaseSet # 0 THEN "Submitted" ELSE Resubmitted(s).status
  <2> HIDE DEF s, m, id
  <2>1. TakeTag(s.tags).left \in Seq(Tags)
    BY <1>4
  <2>2. LET v == AfterWrap(s, m, id)
        IN  /\ v \in Sessions /\ v.tags = TakeTag(s.tags).left
            /\ v.unconfirmed = IF m.newTags # {} /\ m.status THEN s.unconfirmed \cup {id} ELSE s.unconfirmed
            /\ v.updateID = IF m.leaseSet # 0 THEN id ELSE s.updateID
            /\ v.offered = IF m.leaseSet # 0 THEN m.leaseSet ELSE s.offered
            /\ v.status = IF m.leaseSet # 0 THEN "Submitted" ELSE Resubmitted(s).status
    BY <1>0, <1>2, <1>3, <1>6, <2>1, AfterWrapFields
  <2> QED BY <2>2
<1>8. /\ Resubmitted(s).status = "Updated" => m.leaseSet # 0
      /\ m.leaseSet = 0 => t.status = s.status /\ t.status # "Updated"
  BY <1>0, <1>2, <1>5, <1>7, ResubmittedFields DEF Typed
<1> HIDE DEF s, m, t, take
<1>9. m \in GarlicMsgs
  <2>1. TagsOf(id) \in SUBSET Tags
    BY <1>3 DEF TagsOf, Tags
  <2>2. m.tag \in Tags \cup {NoTag} /\ m.newTags \in SUBSET Tags /\ m.at \in Nat
    BY <1>0, <1>4, <1>5, <2>1 DEF Typed
  <2> QED BY <1>5, <1>6, <2>2 DEF GarlicMsgs
<1>10. /\ sent' \in Seq(GarlicMsgs) /\ DOMAIN sent' = DOMAIN sent \cup {id}
       /\ sent'[id] = m /\ \A i \in DOMAIN sent : sent'[i] = sent[i]
  <2> HIDE DEF id
  <2>1. sent' = Append(sent, m) /\ id = Len(sent) + 1
    BY <1>1 DEF id
  <2> QED BY <1>3, <1>9, <2>1
<1> HIDE DEF id
<1>11. Typed'
  <2>1. session' = NoSession \/ session' \in Sessions
    BY <1>1, <1>7
  <2> QED BY <1>0, <1>1, <1>10, <2>1 DEF Typed
<1>12. Messages'
  <2>1. \A i \in DOMAIN sent' : sent'[i].at <= clock /\ sent'[i].newTags \in {{}, TagsOf(i)}
    BY <1>0, <1>5, <1>10 DEF Messages, Typed
  <2>2. \A i \in statuses : sent'[i] = sent[i]
    BY <1>0, <1>10 DEF Typed
  <2> QED BY <1>0, <1>1, <2>1, <2>2 DEF Messages
\* What is brought stays so, and only the tag of m is used in addition.
<1>13. ASSUME NEW g, Brought(g)
       PROVE  /\ g \in Tags /\ g[1] \in statuses' /\ g \in sent'[g[1]].newTags
              /\ sent'[g[1]] = sent[g[1]] /\ g[1] \in DOMAIN sent
  BY <1>0, <1>1, <1>10, <1>13 DEF Brought, Typed
<1>14. UsedAreBrought'
  <2> SUFFICES ASSUME NEW i \in DOMAIN sent', sent'[i].tag # NoTag
               PROVE  /\ Brought(sent[i].tag)'
                      /\ sent'[i].at < Created(sent[i].tag)' + OutExpiry
    BY DEF UsedAreBrought
  <2>1. CASE i \in DOMAIN sent
    <3>1. Brought(sent[i].tag) /\ sent[i].at < Created(sent[i].tag) + OutExpiry /\ sent'[i] = sent[i]
      BY <1>0, <1>10, <2>1 DEF UsedAreBrought
    <3>2. sent'[sent[i].tag[1]] = sent[sent[i].tag[1]]
      BY <1>13, <3>1
    <3> QED BY <1>13, <3>1, <3>2 DEF Brought, Created
  <2>2. CASE i = id
    <3>1. Brought(m.tag) /\ IsFresh(m.tag) /\ sent'[i] = m /\ m.at = clock
      BY <1>4, <1>5, <1>10, <2>2
    <3>2. sent'[m.tag[1]] = sent[m.tag[1]]
      BY <1>13, <3>1
    <3> QED BY <1>13, <3>1, <3>2 DEF Brought, Created, IsFresh
  <2> QED BY <1>10, <2>1, <2>2
<1>15. TagsAreOneTime'
  <2> SUFFICES ASSUME NEW i \in DOMAIN sent', NEW j \in DOMAIN sent',
                      sent'[i].tag = sent'[j].tag, sent'[i].tag # NoTag
               PROVE  i = j
    <3>1. DOMAIN sent' = 1 .. Len(sent')
      BY <1>10
    <3> QED BY <3>1 DEF TagsAreOneTime
  <2>1. \A k \in DOMAIN sent : sent'[id].tag # NoTag => sent'[k].tag # sent'[id].tag
    BY <1>4, <1>5, <1>10 DEF Used
  <2>2. CASE i \in DOMAIN sent /\ j \in DOMAIN sent
    BY <1>0, <1>3, <1>10, <2>2 DEF TagsAreOneTime
  <2> QED BY <1>10, <2>1, <2>2
\* The session.
<1>16. ASSUME NEW u \in t.unconfirmed
       PROVE  /\ u \in DOMAIN sent' /\ sent'[u].newTags = TagsOf(u)
              /\ \A i \in DOMAIN sent' : sent'[i].tag[1] # u
  <2>1. CASE u \in s.unconfirmed
    <3>1. u \in DOMAIN sent /\ sent[u].newTags = TagsOf(u) /\ \A i \in DOMAIN sent : sent[i].tag[1] # u
      BY <1>2, <2>1 DEF Good, Unused
    <3>2. m.tag[1] # u
      <4>1. NoTag[1] = 0 /\ u # 0
        BY <1>3, <3>1 DEF NoTag
      <4> QED BY <1>4, <1>5, <2>1, <4>1
    <3> QED BY <1>10, <3>1, <3>2
  <2>2. CASE u = id /\ m.newTags # {}
    <3>1. \A i \in DOMAIN sent : sent[i].tag[1] # id
      <4> SUFFICES ASSUME NEW i \in DOMAIN sent PROVE sent[i].tag[1] # id
        OBVIOUS
      <4>1. CASE sent[i].tag = NoTag
        <5>1. sent[i].tag[1] = 0 /\ id # 0
          BY <1>3, <4>1 DEF NoTag, MessageIds
        <5> QED BY <5>1
      <4>2. CASE sent[i].tag # NoTag
        <5>1. sent[i].tag[1] \in DOMAIN sent
          BY <1>0, <1>13, <4>2 DEF UsedAreBrought
        <5> QED BY <1>3, <5>1
      <4> QED BY <4>1, <4>2
    <3>2. m.tag[1] # id
      <4>1. CASE m.tag = NoTag
        <5>1. m.tag[1] = 0 /\ id # 0
          BY <1>3, <4>1 DEF NoTag, MessageIds
        <5> QED BY <5>1
      <4>2. CASE m.tag # NoTag
        <5>1. m.tag[1] \in DOMAIN sent
          BY <1>4, <1>5, <1>13, <4>2
        <5> QED BY <1>3, <5>1
      <4> QED BY <4>1, <4>2
    <3> QED BY <1>5, <1>10, <2>2, <3>1, <3>2
  <2> QED BY <1>7, <2>1, <2>2
<1>17. ASSUME NEW k \in DOMAIN t.tags
       PROVE  /\ Brought(t.tags[k]) /\ t.tags[k][1] \notin t.unconfirmed
              /\ \A i \in DOMAIN sent' : sent'[i].tag # t.tags[k]
  <2>1. Brought(t.tags[k]) /\ t.tags[k][1] \notin s.unconfirmed /\ ~Used(t.tags[k])
    BY <1>4, <1>7 DEF Stock
  <2>2. t.tags[k] # NoTag
    <3>1. t.tags[k][1] \in DOMAIN sent
      BY <1>13, <2>1
    <3>2. NoTag[1] \notin DOMAIN sent
      BY <1>3 DEF NoTag
    <3> QED BY <3>1, <3>2
  <2>3. t.tags[k][1] # id
    BY <1>3, <1>13, <2>1
  <2>4. m.tag # t.tags[k]
    BY <1>4, <1>5, <1>7, <2>2
  <2> QED BY <1>7, <1>10, <2>1, <2>3, <2>4 DEF Used
<1>18. /\ t.updateID # NoId => t.updateID \in DOMAIN sent' /\ sent'[t.updateID].leaseSet = t.offered
       /\ t.status = "UpToDate" => known >= t.offered
  <2>1. Offers(s)
    BY <1>2 DEF Good
  <2> QED BY <1>7, <1>8, <1>10, <2>1 DEF Offers
<1>19. SessionIsGood'
  <2>1. Distinct(t.tags)
    BY <1>4, <1>7 DEF Stock
  <2>2. Stock(session.tags, session.unconfirmed)'
    BY <1>1, <1>13, <1>17, <2>1 DEF Stock, Distinct, Brought, Used
  <2>3. Unused(session.unconfirmed)'
    BY <1>1, <1>16 DEF Unused
  <2>4. Offers(session)'
    BY <1>1, <1>18 DEF Offers
  <2> QED BY <1>1, <1>7, <2>2, <2>3, <2>4 DEF SessionIsGood, Good
<1>20. Held'
  <2>1. \A id0 \in statuses : id0 \in DOMAIN sent /\ sent'[id0] = sent[id0]
    BY <1>0, <1>10 DEF Typed
  <2>2. \A g : Consumed(g) => Consumed(g)'
    BY <1>0, <1>1, <1>10 DEF Consumed, Typed
  <2>3. \A g : HasTag(g)' <=> HasTag(g)
    BY <1>1 DEF HasTag
  <2>4. \A x \in inTags : x.tag[1] \in DOMAIN sent' /\ sent'[x.tag[1]].at <= x.created
    BY <1>0, <1>10 DEF Held
  <2>5. \A id0 \in statuses : \A g \in sent'[id0].newTags :
          HasTag(g)' \/ Consumed(g)' \/ clock >= sent'[id0].at + InExpiry
    BY <1>0, <2>1, <2>2, <2>3 DEF Held
  <2> QED BY <1>1, <2>4, <2>5 DEF Held
<1>21. StatusIsAwaited'
  <2>1. session' # NoSession
    BY <1>1, <1>7, SessionIsNotNone
  <2>2. awaited' \subseteq t.unconfirmed \cup {t.updateID}
    <3> SUFFICES ASSUME NEW a \in awaited'
                 PROVE  a \in t.unconfirmed \cup {t.updateID}
      OBVIOUS
    <3>1. CASE a \in awaited /\ (m.leaseSet # 0 => a # s.updateID)
      BY <1>2, <1>7, <3>1
    <3>2. CASE a = id /\ m.status
      BY <1>5, <1>7, <3>2
    <3> QED BY <1>1, <3>1, <3>2
  <2> QED BY <1>1, <2>1, <2>2 DEF StatusIsAwaited
<1> QED BY <1>11, <1>12, <1>14, <1>15, <1>19, <1>20, <1>21 DEF IInv

----------------------------------------------------------------------------
(* The steps of the session that send nothing.                                *)

\* Whatever the sender does with a session, if it is good afterwards and awaits what is
\* awaited, the invariant stays.
LEMMA SessionStep ==
  ASSUME IInv, UNCHANGED <<clock, sent, statuses, inTags, known, arrived>>,
         version' \in Nat \ {0},
         session' = NoSession \/ Good(session'), StatusIsAwaited'
  PROVE  IInv'
<1>1. Typed'
  BY DEF IInv, Typed, Good
<1>2. Messages' /\ UsedAreBrought' /\ TagsAreOneTime'
  BY DEF IInv, Messages, UsedAreBrought, Brought, Created, TagsAreOneTime
<1>3. SessionIsGood'
  BY DEF SessionIsGood, Good, Stock, Distinct, Brought, Used, Unused, Offers
<1>4. Held'
  BY DEF IInv, Held, HasTag, Consumed
<1> QED BY <1>1, <1>2, <1>3, <1>4 DEF IInv

\* What CleanedUp forgets is taken out of the awaited ones.
LEMMA CleanedUpAwaits ==
  ASSUME NEW s \in Sessions, NEW ids, ids \subseteq s.unconfirmed \cup {s.updateID}
  PROVE  StillAwaited(s, ids) \subseteq CleanedUp(s).unconfirmed \cup {CleanedUp(s).updateID}
<1> DEFINE t == CleanedUp(s)
<1>1. /\ t.unconfirmed = s.unconfirmed \ OutdatedTags(s)
      /\ t.updateID = IF OutdatedUpdate(s) = {} THEN s.updateID ELSE NoId
  BY CleanedUpFields
<1>2. OutdatedUpdate(s) = {} \/ OutdatedUpdate(s) = {s.updateID}
  BY DEF OutdatedUpdate
<1> HIDE DEF t
<1>3. StillAwaited(s, ids) \subseteq t.unconfirmed \cup {t.updateID}
  BY <1>1, <1>2 DEF StillAwaited
<1> QED BY <1>3 DEF t

\* A LeaseSet that a status confirms is one that the receiver has got.
LEMMA ConfirmedIsGood ==
  ASSUME IInv, NEW s, Good(s), s.updateID \in statuses, s.updateID # NoId
  PROVE  LET t == [s EXCEPT !.status = "UpToDate", !.updateID = NoId]
         IN  Good(t) /\ t.unconfirmed = s.unconfirmed /\ t.updateID = NoId
<1> DEFINE t == [s EXCEPT !.status = "UpToDate", !.updateID = NoId]
<1>1. s \in Sessions
  BY DEF Good
<1>2. /\ t \in Sessions /\ t.tags = s.tags /\ t.unconfirmed = s.unconfirmed
      /\ t.offered = s.offered /\ t.updateID = NoId /\ t.status = "UpToDate"
  BY <1>1 DEF Sessions
<1>3. s.offered <= known
  BY DEF IInv, Messages, Good, Offers
<1>4. s.offered \in Nat /\ known \in Nat
  BY <1>1 DEF Sessions, IInv, Typed
<1> HIDE DEF t
<1>5. Good(t)
  BY <1>2, <1>3, <1>4 DEF Good, Offers
<1> QED BY <1>2, <1>5 DEF t

LEMMA HandleDeliveryStatusMessageKeeps ==
  ASSUME NaturalLimits, IInv, NEW id, HandleDeliveryStatusMessage(id)
  PROVE  IInv'
<1> DEFINE s == TagsConfirmed(session, id)
<1>1. id \in statuses /\ UNCHANGED <<clock, version, sent, statuses, inTags, known, arrived>>
  BY DEF HandleDeliveryStatusMessage
<1>2. version' \in Nat \ {0}
  BY <1>1 DEF IInv, Typed
<1>3. CASE id \notin awaited
  <2>1. UNCHANGED <<session, awaited>>
    BY <1>3 DEF HandleDeliveryStatusMessage
  <2>2. session' = NoSession \/ Good(session')
    BY <2>1 DEF IInv, SessionIsGood
  <2>3. StatusIsAwaited'
    BY <2>1 DEF IInv, StatusIsAwaited
  <2> QED BY <1>1, <1>2, <2>2, <2>3, SessionStep
<1>4. CASE id \in awaited
  <2>1. MessageConfirmed(id)
    BY <1>4 DEF HandleDeliveryStatusMessage
  <2>2. session # NoSession /\ Good(session) /\ awaited \subseteq session.unconfirmed \cup {session.updateID}
    BY <1>4 DEF IInv, SessionIsGood, StatusIsAwaited
  <2>3. Good(s)
    BY <1>1, <2>2, TagsConfirmedGood
  <2>4. session \in Sessions
    BY <2>2 DEF Good
  <2>5. s.updateID = session.updateID /\ s.unconfirmed = session.unconfirmed \ {id} /\ s \in Sessions
    BY <2>3, <2>4, TagsConfirmedFields DEF Good
  <2>6. awaited \ {id} \subseteq s.unconfirmed \cup {s.updateID}
    BY <2>2, <2>5
  <2>7. CASE Confirms(s, id)
    <3>1. /\ session' = [s EXCEPT !.status = "UpToDate", !.updateID = NoId]
          /\ awaited' = awaited \ {id}
      BY <2>1, <2>7 DEF MessageConfirmed
    <3>2. s.updateID = id /\ id # NoId
      <4>1. DOMAIN sent = 1 .. Len(sent) /\ id \in DOMAIN sent
        BY <1>1 DEF IInv, Typed
      <4> QED BY <2>7, <4>1 DEF Confirms, NoId
    <3> HIDE DEF s
    <3>3. Good(session') /\ session'.unconfirmed = s.unconfirmed /\ session'.updateID = NoId
      BY <1>1, <2>3, <3>1, <3>2, ConfirmedIsGood
    <3>4. awaited' \subseteq session'.unconfirmed \cup {session'.updateID}
      BY <2>6, <3>1, <3>2, <3>3
    <3>5. session' # NoSession
      BY <3>3, SessionIsNotNone DEF Good
    <3>6. StatusIsAwaited'
      BY <3>4, <3>5 DEF StatusIsAwaited
    <3> QED BY <1>1, <1>2, <3>3, <3>6, SessionStep
  <2>8. CASE ~Confirms(s, id)
    <3>1. session' = CleanedUp(s) /\ awaited' = StillAwaited(s, awaited \ {id})
      BY <2>1, <2>8 DEF MessageConfirmed
    <3> HIDE DEF s
    <3>2. Good(session')
      BY <2>3, <3>1, CleanedUpGood
    <3>3. awaited' \subseteq session'.unconfirmed \cup {session'.updateID}
      <4>1. StillAwaited(s, awaited \ {id}) \subseteq CleanedUp(s).unconfirmed \cup {CleanedUp(s).updateID}
        BY <2>5, <2>6, CleanedUpAwaits
      <4> QED BY <3>1, <4>1
    <3>4. session' # NoSession
      BY <3>2, SessionIsNotNone DEF Good
    <3>5. StatusIsAwaited'
      BY <3>3, <3>4 DEF StatusIsAwaited
    <3> QED BY <1>1, <1>2, <3>2, <3>5, SessionStep
  <2> QED BY <2>7, <2>8
<1> QED BY <1>3, <1>4

LEMMA CleanupSessionsKeeps ==
  ASSUME IInv, CleanupSessions
  PROVE  IInv'
<1>1. session # NoSession /\ UNCHANGED <<clock, version, sent, statuses, inTags, known, arrived>>
  BY DEF CleanupSessions
<1>2. version' \in Nat \ {0}
  BY <1>1 DEF IInv, Typed
<1>3. CASE session' = NoSession /\ awaited' = {}
  <2>1. StatusIsAwaited'
    BY <1>3 DEF StatusIsAwaited
  <2> QED BY <1>1, <1>2, <1>3, <2>1, SessionStep
<1>4. CASE session' = CleanedUp(session) /\ awaited' = StillAwaited(session, awaited)
  <2>1. Good(session) /\ session \in Sessions
    BY <1>1 DEF IInv, SessionIsGood, Good
  <2>2. Good(session')
    BY <1>4, <2>1, CleanedUpGood
  <2>3. awaited \subseteq session.unconfirmed \cup {session.updateID}
    BY <1>1 DEF IInv, StatusIsAwaited
  <2>4. StillAwaited(session, awaited) \subseteq CleanedUp(session).unconfirmed \cup {CleanedUp(session).updateID}
    BY <2>1, <2>3, CleanedUpAwaits
  <2>5. session' # NoSession
    BY <2>2, SessionIsNotNone DEF Good
  <2>6. StatusIsAwaited'
    BY <1>4, <2>4, <2>5 DEF StatusIsAwaited
  <2> QED BY <1>1, <1>2, <2>2, <2>6, SessionStep
<1> QED BY <1>3, <1>4 DEF CleanupSessions

LEMMA OtherSessionStepsKeep ==
  ASSUME IInv, SetLeaseSet \/ SetLeaseSetUpdated \/ RestartSender
  PROVE  IInv'
<1>1. UNCHANGED <<clock, sent, statuses, inTags, known, arrived>>
  BY DEF SetLeaseSet, SetLeaseSetUpdated, RestartSender
<1>2. version' \in Nat \ {0}
  BY DEF IInv, Typed, SetLeaseSet, SetLeaseSetUpdated, RestartSender
<1>3. CASE UNCHANGED <<session, awaited>>
  <2>1. StatusIsAwaited' /\ (session' = NoSession \/ Good(session'))
    BY <1>3 DEF IInv, SessionIsGood, StatusIsAwaited
  <2> QED BY <1>1, <1>2, <2>1, SessionStep
<1>4. CASE session # NoSession /\ session' = [session EXCEPT !.status = "Updated"] /\ awaited' = awaited
  <2>1. Good(session) /\ session \in Sessions
    BY <1>4 DEF IInv, SessionIsGood, Good
  <2>2. /\ session' \in Sessions /\ session'.tags = session.tags
        /\ session'.unconfirmed = session.unconfirmed /\ session'.updateID = session.updateID
        /\ session'.offered = session.offered /\ session'.status = "Updated"
    BY <1>4, <2>1 DEF Sessions
  <2>3. Good(session')
    BY <2>1, <2>2 DEF Good, Offers
  <2>4. session' # NoSession
    BY <2>2, SessionIsNotNone
  <2>5. StatusIsAwaited'
    BY <1>4, <2>2, <2>4 DEF IInv, StatusIsAwaited
  <2> QED BY <1>1, <1>2, <2>3, <2>5, SessionStep
<1>5. CASE session' = NoSession /\ awaited' = {}
  <2>1. StatusIsAwaited'
    BY <1>5 DEF StatusIsAwaited
  <2> QED BY <1>1, <1>2, <1>5, <2>1, SessionStep
<1> QED BY <1>3, <1>4, <1>5 DEF SetLeaseSet, SetLeaseSetUpdated, RestartSender

----------------------------------------------------------------------------
(* The steps of the receiver, and of the clock.                               *)

\* A tag names the message that brings it.
LEMMA TagNamesMessage ==
  ASSUME IInv, NEW id \in DOMAIN sent
  PROVE  /\ sent[id].newTags \subseteq Tags /\ \A g \in sent[id].newTags : g[1] = id
         /\ sent[id].at \in Nat /\ sent[id].at <= clock /\ sent[id].leaseSet \in Nat
         /\ sent[id].status \in BOOLEAN
<1>1. sent[id] \in GarlicMsgs /\ sent[id].at <= clock /\ sent[id].newTags \in {{}, TagsOf(id)}
  BY DEF IInv, Typed, Messages
<1>2. \A g \in TagsOf(id) : g[1] = id
  BY DEF TagsOf
<1> QED BY <1>1, <1>2 DEF GarlicMsgs

\* The receiver only learns, and the sender does not see it: what remains to be shown of
\* such a step is what the receiver holds.
LEMMA ReceiverStep ==
  ASSUME IInv, UNCHANGED <<version, session, awaited, sent>>,
         clock' \in Nat, clock <= clock', known' \in Nat, known <= known',
         statuses \subseteq statuses', statuses' \subseteq DOMAIN sent,
         \A i \in statuses' : sent[i].leaseSet <= known',
         arrived' \subseteq DOMAIN sent,
         inTags' \subseteq [tag : Tags, created : Nat], Held'
  PROVE  IInv'
<1>0. Typed /\ Messages /\ UsedAreBrought /\ TagsAreOneTime /\ SessionIsGood /\ StatusIsAwaited
  BY DEF IInv
<1>1. Typed'
  BY <1>0 DEF Typed
<1>2. Messages'
  <2>1. \A i \in DOMAIN sent : sent[i].at \in Nat
    BY TagNamesMessage
  <2>2. \A i \in DOMAIN sent : sent[i].at <= clock'
    BY <1>0, <2>1 DEF Messages, Typed
  <2> QED BY <1>0, <2>2 DEF Messages
<1>3. \A g : Brought(g) => Brought(g)'
  BY DEF Brought
<1>4. UsedAreBrought' /\ TagsAreOneTime' /\ StatusIsAwaited'
  BY <1>0, <1>3 DEF UsedAreBrought, Created, TagsAreOneTime, StatusIsAwaited
<1>5. SessionIsGood'
  <2> SUFFICES ASSUME session # NoSession PROVE Good(session)'
    BY DEF SessionIsGood
  <2>1. Good(session) /\ session \in Sessions
    BY <1>0 DEF SessionIsGood, Good
  <2>2. Stock(session.tags, session.unconfirmed)'
    BY <1>3, <2>1 DEF Good, Stock, Distinct, Used
  <2>3. Unused(session.unconfirmed)'
    BY <2>1 DEF Good, Unused
  <2>4. session.offered \in Nat /\ known \in Nat
    BY <1>0, <2>1 DEF Sessions, Typed
  <2>5. Offers(session)'
    BY <2>1, <2>4 DEF Good, Offers
  <2> QED BY <2>1, <2>2, <2>3, <2>5 DEF Good
<1> QED BY <1>1, <1>2, <1>4, <1>5 DEF IInv

LEMMA HandleGarlicMessageKeeps ==
  ASSUME IInv, NEW id \in DOMAIN sent, HandleGarlicMessage(id)
  PROVE  IInv'
<1>0. Typed /\ Messages /\ Held
  BY DEF IInv
<1>1. UNCHANGED <<clock, version, session, awaited, sent>> /\ arrived' = arrived \cup {id}
  BY DEF HandleGarlicMessage
<1>2. /\ sent[id].newTags \subseteq Tags /\ \A g \in sent[id].newTags : g[1] = id
      /\ sent[id].at \in Nat /\ sent[id].at <= clock /\ sent[id].leaseSet \in Nat
  BY TagNamesMessage
<1>3. \A g : Consumed(g) => Consumed(g)'
  BY <1>1 DEF Consumed
<1>4. clock \in Nat /\ known \in Nat /\ statuses \subseteq DOMAIN sent /\ arrived' \subseteq DOMAIN sent
  BY <1>0, <1>1 DEF Typed
<1>5. CASE UNCHANGED <<inTags, known, statuses>>
  <2>1. Held'
    BY <1>0, <1>1, <1>3, <1>5 DEF Held, HasTag
  <2>2. clock' \in Nat /\ clock <= clock' /\ known' \in Nat /\ known <= known'
    BY <1>1, <1>4, <1>5
  <2>3. statuses' \subseteq DOMAIN sent /\ \A i \in statuses' : sent[i].leaseSet <= known'
    BY <1>0, <1>4, <1>5 DEF Messages
  <2>4. inTags' \subseteq [tag : Tags, created : Nat]
    BY <1>0, <1>5 DEF Typed
  <2> QED BY <1>1, <1>4, <1>5, <2>1, <2>2, <2>3, <2>4, ReceiverStep
<1>6. CASE /\ inTags' = AfterTags(sent[id])
           /\ known' = IF sent[id].leaseSet > known THEN sent[id].leaseSet ELSE known
           /\ statuses' = IF sent[id].status THEN statuses \cup {id} ELSE statuses
  <2> DEFINE left == {t \in inTags : t.tag # sent[id].tag}
  <2>1. inTags' = left \cup {[tag |-> tag, created |-> clock] :
                               tag \in {g \in sent[id].newTags : \A t \in left : t.tag # g}}
    BY <1>6 DEF AfterTags
  <2>2. known' \in Nat /\ known <= known' /\ sent[id].leaseSet <= known'
    BY <1>2, <1>4, <1>6
  <2>3. statuses \subseteq statuses' /\ statuses' \subseteq DOMAIN sent /\ statuses' \subseteq statuses \cup {id}
    BY <1>4, <1>6
  <2>4. \A i \in statuses' : sent[i].leaseSet <= known'
    <3> SUFFICES ASSUME NEW i \in statuses' PROVE sent[i].leaseSet <= known'
      OBVIOUS
    <3>1. CASE i \in statuses
      <4>1. sent[i].leaseSet \in Nat /\ sent[i].leaseSet <= known
        BY <1>0, <1>4, <3>1, TagNamesMessage DEF Messages
      <4> QED BY <1>4, <2>2, <4>1
    <3>2. CASE i = id
      BY <2>2, <3>2
    <3> QED BY <2>3, <3>1, <3>2
  <2>5. \A t \in inTags : t \in [tag : Tags, created : Nat]
    BY <1>0 DEF Typed
  <2>6. \A t \in inTags' : t \in left \/ (t.tag \in sent[id].newTags /\ t.created = clock
                                          /\ t \in [tag : Tags, created : Nat])
    <3> SUFFICES ASSUME NEW g \in sent[id].newTags
                 PROVE  LET t == [tag |-> g, created |-> clock]
                        IN  t.tag = g /\ t.created = clock /\ t \in [tag : Tags, created : Nat]
      BY <2>1
    <3> QED BY <1>2, <1>4
  <2>7. \A t \in inTags : HasTag(t.tag)' \/ t.tag = sent[id].tag
    BY <2>1 DEF HasTag
  <2>8. \A g \in sent[id].newTags : HasTag(g)'
    <3> SUFFICES ASSUME NEW g \in sent[id].newTags PROVE HasTag(g)'
      OBVIOUS
    <3>1. CASE \E t \in left : t.tag = g
      BY <2>1, <3>1 DEF HasTag
    <3>2. CASE \A t \in left : t.tag # g
      <4>1. [tag |-> g, created |-> clock] \in inTags' /\ [tag |-> g, created |-> clock].tag = g
        BY <2>1, <3>2
      <4> QED BY <4>1 DEF HasTag
    <3> QED BY <3>1, <3>2
  <2> HIDE DEF left
  <2>9. Held'
    <3>1. ASSUME NEW i \in statuses', NEW g \in sent[i].newTags
          PROVE  HasTag(g)' \/ Consumed(g)' \/ clock >= sent[i].at + InExpiry
      <4>1. CASE i = id
        BY <2>8, <3>1, <4>1
      <4>2. CASE i \in statuses /\ HasTag(g)
        <5>1. HasTag(g)' \/ g = sent[id].tag
          BY <2>7, <4>2 DEF HasTag
        <5>2. g = sent[id].tag => Consumed(g)'
          BY <1>1 DEF Consumed
        <5> QED BY <5>1, <5>2
      <4>3. CASE i \in statuses /\ ~HasTag(g)
        BY <1>0, <1>3, <3>1, <4>3 DEF Held
      <4> QED BY <2>3, <3>1, <4>1, <4>2, <4>3
    <3>2. ASSUME NEW t \in inTags'
          PROVE  t.tag[1] \in DOMAIN sent /\ sent[t.tag[1]].at <= t.created
      <4>1. CASE t \in left
        <5>1. t \in inTags
          BY <4>1 DEF left
        <5> QED BY <1>0, <5>1 DEF Held
      <4>2. CASE t.tag \in sent[id].newTags /\ t.created = clock
        BY <1>2, <4>2
      <4> QED BY <2>6, <3>2, <4>1, <4>2
    <3> QED BY <1>1, <3>1, <3>2 DEF Held
  <2>10. inTags' \subseteq [tag : Tags, created : Nat]
    BY <2>5, <2>6 DEF left
  <2> QED BY <1>1, <1>4, <2>2, <2>3, <2>4, <2>9, <2>10, ReceiverStep
<1> QED BY <1>5, <1>6 DEF HandleGarlicMessage

\* A tag that the receiver throws away, and does not use, has grown old.
LEMMA TagsGrowOld ==
  ASSUME IInv, NaturalLimits, UNCHANGED <<clock, sent, statuses, arrived>>,
         \A t \in inTags : HasTag(t.tag)' \/ clock >= t.created + InExpiry,
         \A t \in inTags' : t.tag[1] \in DOMAIN sent /\ sent[t.tag[1]].at <= t.created
  PROVE  Held'
<1>1. ASSUME NEW i \in statuses, NEW g \in sent[i].newTags, HasTag(g)
      PROVE  HasTag(g)' \/ clock >= sent[i].at + InExpiry
  <2>1. i \in DOMAIN sent /\ clock \in Nat /\ InExpiry \in Nat
    BY DEF IInv, Typed, NaturalLimits
  <2>2. g[1] = i /\ sent[i].at \in Nat
    BY <2>1, TagNamesMessage
  <2>3. PICK t \in inTags : t.tag = g
    BY <1>1 DEF HasTag
  <2>4. t.created \in Nat /\ sent[i].at <= t.created
    BY <2>2, <2>3 DEF IInv, Held, Typed
  <2>5. CASE clock >= t.created + InExpiry
    BY <2>1, <2>2, <2>4, <2>5
  <2> QED BY <2>3, <2>5
<1> QED BY <1>1 DEF IInv, Held, Consumed

LEMMA CleanupTagsKeeps ==
  ASSUME NaturalLimits, IInv, CleanupTags
  PROVE  IInv'
<1>1. /\ UNCHANGED <<clock, version, session, awaited, sent, statuses, known, arrived>>
      /\ inTags' = {t \in inTags : clock <= t.created + InExpiry}
  BY DEF CleanupTags
<1>2. \A t \in inTags : t.created \in Nat /\ t.tag[1] \in DOMAIN sent /\ sent[t.tag[1]].at <= t.created
  BY DEF IInv, Typed, Held
<1>3. clock \in Nat /\ known \in Nat /\ InExpiry \in Nat
  BY DEF IInv, Typed, NaturalLimits
<1>4. \A t \in inTags : HasTag(t.tag)' \/ clock >= t.created + InExpiry
  BY <1>1, <1>2, <1>3 DEF HasTag
<1>5. Held'
  BY <1>1, <1>2, <1>4, TagsGrowOld
<1>6. /\ statuses' \subseteq DOMAIN sent /\ arrived' \subseteq DOMAIN sent
      /\ \A i \in statuses' : sent[i].leaseSet <= known'
      /\ inTags' \subseteq [tag : Tags, created : Nat]
  BY <1>1 DEF IInv, Typed, Messages
<1> QED BY <1>1, <1>3, <1>5, <1>6, ReceiverStep

LEMMA RestartReceiverKeeps ==
  ASSUME NaturalLimits, IInv, RestartReceiver
  PROVE  IInv'
<1> DEFINE kept == {u \in inTags : clock < u.created + InExpiry}
<1>1. /\ UNCHANGED <<clock, version, session, awaited, sent, statuses, known, arrived>>
      /\ inTags' = {[t EXCEPT !.created = clock] : t \in kept}
  BY DEF RestartReceiver
<1>2. \A t \in inTags : t \in [tag : Tags, created : Nat] /\ t.tag[1] \in DOMAIN sent
  BY DEF IInv, Typed, Held
<1>3. clock \in Nat /\ known \in Nat /\ InExpiry \in Nat
  BY DEF IInv, Typed, NaturalLimits
<1>4. ASSUME NEW t \in inTags
      PROVE  LET u == [t EXCEPT !.created = clock]
             IN  u \in [tag : Tags, created : Nat] /\ u.tag = t.tag /\ u.created = clock
  BY <1>2, <1>3
<1>5. \A t \in inTags : HasTag(t.tag)' \/ clock >= t.created + InExpiry
  <2> SUFFICES ASSUME NEW t \in inTags, clock < t.created + InExpiry PROVE HasTag(t.tag)'
    BY <1>2, <1>3
  <2>1. [t EXCEPT !.created = clock] \in inTags'
    BY <1>1
  <2> QED BY <1>4, <2>1 DEF HasTag
<1>6. \A u \in inTags' : /\ u \in [tag : Tags, created : Nat]
                         /\ u.tag[1] \in DOMAIN sent /\ sent[u.tag[1]].at <= u.created
  <2> SUFFICES ASSUME NEW t \in inTags
               PROVE  LET u == [t EXCEPT !.created = clock]
                      IN  /\ u \in [tag : Tags, created : Nat]
                          /\ u.tag[1] \in DOMAIN sent /\ sent[u.tag[1]].at <= u.created
    BY <1>1
  <2>1. t.tag[1] \in DOMAIN sent
    BY <1>2
  <2>2. sent[t.tag[1]].at <= clock
    BY <2>1, TagNamesMessage
  <2> QED BY <1>4, <2>1, <2>2
<1> HIDE DEF kept
<1>7. Held'
  BY <1>1, <1>5, <1>6, TagsGrowOld
<1>8. /\ statuses' \subseteq DOMAIN sent /\ arrived' \subseteq DOMAIN sent
      /\ \A i \in statuses' : sent[i].leaseSet <= known'
      /\ inTags' \subseteq [tag : Tags, created : Nat]
  BY <1>1, <1>6 DEF IInv, Typed, Messages
<1> QED BY <1>1, <1>3, <1>7, <1>8, ReceiverStep

LEMMA TickKeeps ==
  ASSUME NaturalLimits, IInv, GarlicTick
  PROVE  IInv'
<1>1. clock' = clock + 1 /\ UNCHANGED <<version, session, awaited, sent, statuses, inTags, known, arrived>>
  BY DEF GarlicTick
<1>2. clock \in Nat /\ known \in Nat /\ InExpiry \in Nat
  BY DEF IInv, Typed, NaturalLimits
<1>3. \A i \in statuses : sent[i].at \in Nat
  BY TagNamesMessage DEF IInv, Typed
<1>4. Held'
  BY <1>1, <1>2, <1>3 DEF IInv, Held, HasTag, Consumed
<1>5. /\ statuses' \subseteq DOMAIN sent /\ arrived' \subseteq DOMAIN sent
      /\ \A i \in statuses' : sent[i].leaseSet <= known'
      /\ inTags' \subseteq [tag : Tags, created : Nat]
  BY <1>1 DEF IInv, Typed, Messages
<1>6. clock' \in Nat /\ clock <= clock' /\ known' \in Nat /\ known <= known'
  BY <1>1, <1>2
<1> QED BY <1>1, <1>4, <1>5, <1>6, ReceiverStep

----------------------------------------------------------------------------
(* The theorem.                                                              *)

LEMMA InitIInv == GarlicInit => IInv
<1> SUFFICES ASSUME GarlicInit PROVE IInv
  OBVIOUS
<1>1. sent = <<>> /\ <<>> \in Seq(GarlicMsgs) /\ DOMAIN sent = {} /\ Len(sent) = 0
  BY DEF GarlicInit
<1>2. Typed
  BY <1>1 DEF GarlicInit, Typed
<1>3. Messages /\ UsedAreBrought /\ TagsAreOneTime /\ Held
  BY <1>1 DEF GarlicInit, Messages, UsedAreBrought, TagsAreOneTime, Held
<1>4. SessionIsGood /\ StatusIsAwaited
  BY DEF GarlicInit, SessionIsGood, StatusIsAwaited
<1> QED BY <1>2, <1>3, <1>4 DEF IInv

LEMMA NextIInv == ASSUME NaturalLimits PROVE IInv /\ [GarlicNext]_garlicVars => IInv'
<1> SUFFICES ASSUME IInv, [GarlicNext]_garlicVars PROVE IInv'
  OBVIOUS
<1>1. DOMAIN sent = 1 .. Len(sent)
  BY DEF IInv, Typed
<1>2. CASE \E hasTunnel \in BOOLEAN : WrapSingleMessage(hasTunnel)
  BY <1>2, WrapSingleMessageKeeps
<1>3. CASE \E id \in 1 .. Len(sent) : HandleGarlicMessage(id) \/ HandleDeliveryStatusMessage(id)
  BY <1>1, <1>3, HandleGarlicMessageKeeps, HandleDeliveryStatusMessageKeeps
<1>4. CASE CleanupSessions \/ CleanupTags \/ RestartReceiver \/ GarlicTick
  BY <1>4, CleanupSessionsKeeps, CleanupTagsKeeps, RestartReceiverKeeps, TickKeeps
<1>5. CASE SetLeaseSet \/ SetLeaseSetUpdated \/ RestartSender
  BY <1>5, OtherSessionStepsKeep
<1>6. CASE UNCHANGED garlicVars
  <2>1. UNCHANGED <<clock, version, session, awaited, sent, statuses, inTags, known, arrived>>
    BY <1>6 DEF garlicVars
  <2>2. StatusIsAwaited' /\ (session' = NoSession \/ Good(session')) /\ version' \in Nat \ {0}
    BY <2>1 DEF IInv, StatusIsAwaited, SessionIsGood, Typed
  <2> QED BY <2>1, <2>2, SessionStep
<1> QED BY <1>2, <1>3, <1>4, <1>5, <1>6 DEF GarlicNext

\* A message that has not arrived has not used up its tag, which is not old yet.
LEMMA TagIsThere ==
  ASSUME NaturalLimits, IInv
  PROVE  DecryptableInTime
<1> SUFFICES ASSUME NEW i \in 1 .. Len(sent), sent[i].tag # NoTag, i \notin arrived,
                    clock <= sent[i].at + (InExpiry - OutExpiry)
             PROVE  HasTag(sent[i].tag)
  BY DEF DecryptableInTime
<1> DEFINE g == sent[i].tag
           id == g[1]
<1>1. DOMAIN sent = 1 .. Len(sent)
  BY DEF IInv, Typed
<1>2. Brought(g) /\ sent[i].at < sent[id].at + OutExpiry
  BY <1>1 DEF IInv, UsedAreBrought, Created
<1>3. id \in statuses /\ id \in DOMAIN sent /\ g \in sent[id].newTags
  BY <1>2 DEF Brought, IInv, Typed
<1>4. sent[i].at \in Nat /\ sent[id].at \in Nat
  BY <1>1, <1>3, TagNamesMessage
<1>5. ~Consumed(g)
  <2> SUFFICES ASSUME NEW j \in arrived, sent[j].tag = sent[i].tag PROVE FALSE
    BY DEF Consumed
  <2>1. j \in 1 .. Len(sent) /\ j # i
    BY <1>1 DEF IInv, Typed
  <2> QED BY <2>1 DEF IInv, TagsAreOneTime
<1> HIDE DEF g, id
<1>6. clock < sent[id].at + InExpiry
  <2>1. clock \in Nat /\ InExpiry \in Nat /\ OutExpiry \in Nat
    BY DEF IInv, Typed, NaturalLimits
  <2> QED BY SMTT(30), <1>2, <1>4, <2>1
<1>7. HasTag(g)
  BY <1>3, <1>4, <1>5, <1>6 DEF IInv, Held, Typed, NaturalLimits
<1> QED BY <1>7 DEF g

LEMMA IInvImplies == ASSUME NaturalLimits PROVE IInv => TagsDecrypt
<1> SUFFICES ASSUME IInv PROVE TagsDecrypt
  OBVIOUS
<1>1. ConfirmedIsKnown
  BY DEF IInv, SessionIsGood, Good, Offers, ConfirmedIsKnown
<1> QED BY <1>1, TagIsThere DEF IInv, TagsDecrypt

\* Whatever is lost, repeated, reordered, cleaned up or restarted: no tag encrypts two
\* messages, a message that is not late finds its tag at the receiver, the sender waits for
\* every status that it has a session listed for, and a session that takes its LeaseSet for
\* confirmed is right (GarlicRoutingSession and GarlicDestination).
THEOREM TagsAreSound == ASSUME NaturalLimits PROVE GarlicSpec => []TagsDecrypt
<1>1. GarlicInit => IInv
  BY InitIInv
<1>2. IInv /\ [GarlicNext]_garlicVars => IInv'
  BY NextIInv
<1>3. IInv => TagsDecrypt
  BY IInvImplies
<1> QED BY <1>1, <1>2, <1>3, PTL DEF GarlicSpec

=============================================================================
