---------------------------- MODULE TunnelsProofs ----------------------------
(***************************************************************************)
(* Proofs about the tunnels of a pool (Tunnels.tla), for any number of       *)
(* tunnels, any timeouts and any interleaving of the tunnel thread with the  *)
(* thread that stops and starts the destination.                            *)
(*                                                                         *)
(* The inductive invariant says more than the properties at two points.      *)
(* Between ReplyAccepts and TunnelCreated the new tunnel is alive but in no  *)
(* pool, so that DetachTunnels misses it; and a pool that was stopped holds   *)
(* at most that one tunnel, so that no pair of tunnels is tested in it, and  *)
(* no hole is left in m_Tests when the destination starts again.             *)
(***************************************************************************)
EXTENDS Tunnels, FiniteSetTheorems, SequenceTheorems, TLAPS

\* Limits and times are natural numbers, and the clock starts at 1.
NaturalConstants ==
  /\ NumTunnels \in Nat /\ CreationTimeout \in Nat /\ MaxTunnels \in Nat
  /\ Expiration \in Nat /\ Recreation \in Nat /\ Threshold \in Nat
  /\ MaxTime \in Nat \ {0}

Parts == {"messages", "created", "in", "out", "create", "test"}

TunnelRecords ==
  [kind : Kinds, state : TunnelStates, created : Nat, attached : BOOLEAN, recreated : BOOLEAN,
   pending : BOOLEAN, listed : {0, 1}]

Pools ==
  [active : BOOLEAN, in : SUBSET Nat, out : SUBSET Nat, tests : SUBSET [in : Nat, out : Nat]]

Typed ==
  /\ now \in 1 .. MaxTime /\ lastTs \in 0 .. now
  /\ phase \in [part : Parts, tunnel : Nat]
  /\ owner \in {"running", "detachIn", "detachOut", "stopped"}
  /\ tunnel \in Seq(TunnelRecords) /\ Len(tunnel) <= MaxTunnels
  /\ misses \in Seq(Nat) /\ Len(misses) = Len(tunnel)
  /\ pool \in Pools

\* What refers to tunnels refers to those that were requested, of the right kind.
Refers ==
  /\ \A i \in pool["in"] \cup leaseSet : i \in Known /\ tunnel[i].kind = "in"
  /\ \A i \in pool["out"] : i \in Known /\ tunnel[i].kind = "out"
  /\ \A t \in pool.tests : t["in"] \in {NoTunnel} \cup Known /\ t["out"] \in {NoTunnel} \cup Known

LiveStates == {"Established", "TestFailed", "Expiring"}

LiveTunnel(r) == r.listed = 1 /\ r.attached /\ r.state \in LiveStates

MembersLive == \A i \in pool["in"] \cup pool["out"] : LiveTunnel(tunnel[i])

\* A tunnel whose reply is awaited is in no list.
PendingUnlisted == \A i \in Known : tunnel[i].state = "Pending" => tunnel[i].listed = 0

\* AddInboundTunnel has done its part and TunnelCreated is to come.
CreatedIsNew ==
  phase.part = "created" =>
    /\ phase.tunnel \in Known /\ LiveTunnel(tunnel[phase.tunnel])
    /\ phase.tunnel \notin pool["in"] /\ phase.tunnel \notin pool["out"]

MissesCounted ==
  \A i \in Known :
    /\ tunnel[i].state = "Failed" => misses[i] >= 2
    /\ tunnel[i].state = "TestFailed" => misses[i] >= 1

NoneFailed ==
  \A t \in pool.tests :
    /\ t["in"] # NoTunnel => tunnel[t["in"]].state # "Failed"
    /\ t["out"] # NoTunnel => tunnel[t["out"]].state # "Failed"

\* Only between ManageOutboundTunnels and ManageTunnelPools has a test no outbound tunnel.
NoHoles ==
  owner = "running" /\ phase.part \notin {"create", "test"} =>
    \A t \in pool.tests : t["out"] # NoTunnel

Stopping ==
  /\ pool.active <=> owner = "running"
  /\ owner = "detachOut" /\ phase.part = "created" => pool["in"] = {}
  /\ owner = "stopped" =>
       /\ pool.tests = {} /\ (pool["in"] = {} \/ pool["out"] = {})
       /\ phase.part = "created" => pool["in"] = {} /\ pool["out"] = {}

IInv ==
  /\ Typed /\ Refers /\ MembersLive /\ PendingUnlisted /\ CreatedIsNew
  /\ MissesCounted /\ NoneFailed /\ NoHoles /\ Stopping

----------------------------------------------------------------------------
(* Steps on the tunnel thread that answer messages.                          *)

\* States of the tunnels change one by one, and nothing else.
LEMMA TunnelRecordOf ==
  ASSUME Typed, NEW i \in Known
  PROVE  tunnel[i] \in TunnelRecords /\ misses[i] \in Nat
BY DEF Typed, Known

LEMMA ReplyDeclinesKeeps ==
  ASSUME NaturalConstants, IInv, NEW i \in Known, ReplyDeclines(i)
  PROVE  IInv'
<1> DEFINE r == [tunnel[i] EXCEPT !.state = "BuildFailed"]
<1>1. tunnel[i] \in TunnelRecords /\ tunnel[i].state = "Pending" /\ phase = Idle
  BY TunnelRecordOf DEF IInv, ReplyDeclines, AwaitsReply
<1>2. r \in TunnelRecords /\ r.kind = tunnel[i].kind /\ r.state = "BuildFailed"
  BY <1>1 DEF TunnelRecords, TunnelStates
<1>3. tunnel' = [tunnel EXCEPT ![i] = r]
  BY DEF ReplyDeclines
<1> HIDE DEF r
<1>4. /\ tunnel' \in Seq(TunnelRecords) /\ Len(tunnel') = Len(tunnel)
      /\ tunnel'[i] = r /\ \A j \in Known : j # i => tunnel'[j] = tunnel[j]
  BY <1>2, <1>3, ExceptSeq DEF IInv, Typed, Known
<1>5. UNCHANGED <<now, lastTs, phase, owner, pool, leaseSet, misses>>
  BY DEF ReplyDeclines
<1>6. i \notin pool["in"] /\ i \notin pool["out"]
  BY <1>1 DEF IInv, MembersLive, LiveTunnel, LiveStates
<1>7. Known' = Known
  BY <1>4 DEF Known
<1>8. Typed' /\ Refers'
  BY <1>2, <1>4, <1>5, <1>7 DEF IInv, Typed, Refers
<1>9. MembersLive' /\ PendingUnlisted'
  BY <1>2, <1>4, <1>5, <1>6, <1>7 DEF IInv, MembersLive, PendingUnlisted, Refers
<1>10. CreatedIsNew' /\ NoHoles' /\ Stopping'
  BY <1>1, <1>5 DEF IInv, CreatedIsNew, NoHoles, Stopping, Idle, Doing
<1>11. MissesCounted' /\ NoneFailed'
  BY <1>2, <1>4, <1>5, <1>7 DEF IInv, MissesCounted, NoneFailed, Refers
<1> QED BY <1>8, <1>9, <1>10, <1>11 DEF IInv

LEMMA ReplyAcceptsKeeps ==
  ASSUME NaturalConstants, IInv, NEW i \in Known, ReplyAccepts(i)
  PROVE  IInv'
<1> DEFINE r == [tunnel[i] EXCEPT !.state = "Established", !.listed = @ + 1,
                                  !.attached = @ /\ pool.active]
<1>1. tunnel[i] \in TunnelRecords /\ tunnel[i].state = "Pending" /\ phase = Idle
  BY TunnelRecordOf DEF IInv, ReplyAccepts, AwaitsReply
<1>2. tunnel[i].listed = 0 /\ pool.active \in BOOLEAN
  BY <1>1 DEF IInv, PendingUnlisted, Typed, Pools
<1>3. /\ r \in TunnelRecords /\ r.kind = tunnel[i].kind /\ r.state = "Established"
      /\ r.listed = 1 /\ (tunnel[i].attached /\ pool.active => r.attached)
  <2>1. r = [tunnel[i] EXCEPT !.state = "Established", !.listed = 1,
                              !.attached = @ /\ pool.active]
    BY <1>1, <1>2 DEF TunnelRecords
  <2> HIDE DEF r
  <2> QED BY <1>1, <1>2, <2>1 DEF TunnelRecords, TunnelStates
<1>4. tunnel' = [tunnel EXCEPT ![i] = r]
  <2>1. tunnel \in [1 .. Len(tunnel) -> TunnelRecords]
    BY LenProperties DEF IInv, Typed
  <2> QED BY <1>1, <2>1 DEF ReplyAccepts, Known, TunnelRecords
<1> HIDE DEF r
<1>5. /\ tunnel' \in Seq(TunnelRecords) /\ Len(tunnel') = Len(tunnel)
      /\ tunnel'[i] = r /\ \A j \in Known : j # i => tunnel'[j] = tunnel[j]
  BY <1>3, <1>4, ExceptSeq DEF IInv, Typed, Known
<1>6. /\ UNCHANGED <<now, lastTs, owner, pool, leaseSet, misses>>
      /\ phase' = IF tunnel[i].attached /\ pool.active THEN [part |-> "created", tunnel |-> i]
                                                       ELSE Idle
  BY DEF ReplyAccepts
<1>7. i \notin pool["in"] /\ i \notin pool["out"]
  BY <1>1 DEF IInv, MembersLive, LiveTunnel, LiveStates
<1>8. Known' = Known
  BY <1>5 DEF Known
<1>9. phase' \in [part : Parts, tunnel : Nat] /\ Idle.part = "messages" /\ i \in Nat
  BY <1>6 DEF Parts, Idle, Doing, NoTunnel, Known
<1>10. Typed' /\ Refers'
  BY ZenonT(60), <1>3, <1>5, <1>6, <1>8, <1>9 DEF IInv, Typed, Refers
<1>11. MembersLive' /\ PendingUnlisted'
  BY <1>3, <1>5, <1>6, <1>7, <1>8 DEF IInv, MembersLive, PendingUnlisted, Refers
<1>12. CreatedIsNew'
  <2>1. CASE tunnel[i].attached /\ pool.active
    <3>1. phase'.tunnel = i
      BY <1>6, <2>1
    <3> QED BY <1>3, <1>5, <1>6, <1>7, <1>8, <2>1, <3>1
          DEF CreatedIsNew, LiveTunnel, LiveStates
  <2>2. CASE ~(tunnel[i].attached /\ pool.active)
    BY <1>6, <1>9, <2>2 DEF CreatedIsNew
  <2> QED BY <2>1, <2>2
<1>13. NoHoles'
  BY <1>1, <1>6, <1>9 DEF IInv, NoHoles
<1>14. Stopping'
  <2>1. CASE tunnel[i].attached /\ pool.active
    BY <1>6, <2>1 DEF IInv, Stopping
  <2>2. CASE ~(tunnel[i].attached /\ pool.active)
    BY <1>6, <1>9, <2>2 DEF IInv, Stopping
  <2> QED BY <2>1, <2>2
<1>15. MissesCounted' /\ NoneFailed'
  BY <1>3, <1>5, <1>6, <1>8 DEF IInv, MissesCounted, NoneFailed, Refers
<1> QED BY <1>10, <1>11, <1>12, <1>13, <1>14, <1>15 DEF IInv

LEMMA TooLateKeeps ==
  ASSUME NaturalConstants, IInv, TooLate
  PROVE  IInv'
<1>1. UNCHANGED <<now, lastTs, owner, tunnel, pool, leaseSet, misses>> /\ phase' = Idle
  BY DEF TooLate
<1>2. Idle.part = "messages" /\ Idle \in [part : Parts, tunnel : Nat] /\ phase.part = "created"
  BY DEF TooLate, Idle, Doing, Parts, NoTunnel
<1>3. Typed' /\ Refers' /\ MembersLive' /\ PendingUnlisted'
  BY <1>1, <1>2 DEF IInv, Typed, Refers, MembersLive, PendingUnlisted, Known
<1>4. CreatedIsNew' /\ NoHoles' /\ Stopping'
  BY <1>1, <1>2 DEF IInv, CreatedIsNew, NoHoles, Stopping
<1>5. MissesCounted' /\ NoneFailed'
  BY <1>1 DEF IInv, MissesCounted, NoneFailed, Known
<1> QED BY <1>3, <1>4, <1>5 DEF IInv

LEMMA TunnelCreatedKeeps ==
  ASSUME NaturalConstants, IInv, TunnelCreated
  PROVE  IInv'
<1> DEFINE i == phase.tunnel
<1>1. /\ i \in Known /\ LiveTunnel(tunnel[i]) /\ i \notin pool["in"] /\ i \notin pool["out"]
      /\ tunnel[i].kind \in Kinds /\ i \in Nat /\ phase.part = "created"
  BY TunnelRecordOf DEF IInv, TunnelCreated, CreatedIsNew, TunnelRecords, Known
<1>2. Idle.part = "messages" /\ Idle \in [part : Parts, tunnel : Nat]
  BY DEF Idle, Doing, Parts, NoTunnel
<1>3. UNCHANGED <<now, lastTs, owner, tunnel, misses>> /\ phase' = Idle
  BY DEF TunnelCreated
<1>4. /\ pool' \in Pools /\ pool'.active = pool.active /\ pool'.tests = pool.tests
      /\ pool'["in"] = IF tunnel[i].kind = "in" THEN pool["in"] \cup {i} ELSE pool["in"]
      /\ pool'["out"] = IF tunnel[i].kind = "out" THEN pool["out"] \cup {i} ELSE pool["out"]
  <2>1. pool \in Pools /\ pool' = [pool EXCEPT ![tunnel[i].kind] = pool[tunnel[i].kind] \cup {i}]
    BY DEF TunnelCreated, IInv, Typed
  <2>2. CASE tunnel[i].kind = "in"
    BY <1>1, <2>1, <2>2 DEF Pools
  <2>3. CASE tunnel[i].kind = "out"
    BY <1>1, <2>1, <2>3 DEF Pools
  <2> QED BY <1>1, <2>2, <2>3 DEF Kinds
<1>5. \/ leaseSet' = leaseSet
      \/ tunnel[i].kind = "in" /\ leaseSet' \subseteq pool["in"] \cup {i}
  BY DEF TunnelCreated, LeaseTunnels
<1>6. Typed' /\ Refers'
  BY <1>1, <1>2, <1>3, <1>4, <1>5 DEF IInv, Typed, Refers, Known
<1>7. MembersLive' /\ PendingUnlisted' /\ MissesCounted' /\ NoneFailed'
  BY <1>1, <1>3, <1>4 DEF IInv, MembersLive, PendingUnlisted, MissesCounted, NoneFailed, Known
<1>8. CreatedIsNew' /\ NoHoles' /\ Stopping'
  BY <1>1, <1>2, <1>3, <1>4 DEF IInv, CreatedIsNew, NoHoles, Stopping
<1> QED BY <1>6, <1>7, <1>8 DEF IInv

LEMMA HandleTunnelDataMsgKeeps ==
  ASSUME NaturalConstants, IInv, NEW i \in Known, HandleTunnelDataMsg(i)
  PROVE  IInv'
<1> DEFINE r == [tunnel[i] EXCEPT !.state = "Established"]
<1>1. tunnel[i] \in TunnelRecords /\ tunnel[i].state = "Failed" /\ phase = Idle
  BY TunnelRecordOf DEF IInv, HandleTunnelDataMsg
<1>2. r \in TunnelRecords /\ r.kind = tunnel[i].kind /\ r.state = "Established"
  BY <1>1 DEF TunnelRecords, TunnelStates
<1>3. tunnel' = [tunnel EXCEPT ![i] = r] /\ misses' = [misses EXCEPT ![i] = 0]
  BY DEF HandleTunnelDataMsg
<1> HIDE DEF r
<1>4. /\ tunnel' \in Seq(TunnelRecords) /\ Len(tunnel') = Len(tunnel)
      /\ tunnel'[i] = r /\ \A j \in Known : j # i => tunnel'[j] = tunnel[j]
  BY <1>2, <1>3, ExceptSeq DEF IInv, Typed, Known
<1>5. /\ misses' \in Seq(Nat) /\ Len(misses') = Len(misses)
      /\ \A j \in Known : j # i => misses'[j] = misses[j]
  BY <1>3, ExceptSeq DEF IInv, Typed, Known
<1>6. UNCHANGED <<now, lastTs, phase, owner, pool, leaseSet>>
  BY DEF HandleTunnelDataMsg
<1>7. i \notin pool["in"] /\ i \notin pool["out"]
  BY <1>1 DEF IInv, MembersLive, LiveTunnel, LiveStates
<1>8. Known' = Known
  BY <1>4 DEF Known
<1>9. Typed' /\ Refers'
  BY <1>2, <1>4, <1>5, <1>6, <1>8 DEF IInv, Typed, Refers
<1>10. MembersLive' /\ PendingUnlisted'
  BY <1>2, <1>4, <1>6, <1>7, <1>8 DEF IInv, MembersLive, PendingUnlisted, Refers
<1>11. CreatedIsNew' /\ NoHoles' /\ Stopping'
  BY <1>1, <1>6 DEF IInv, CreatedIsNew, NoHoles, Stopping, Idle, Doing
<1>12. MissesCounted' /\ NoneFailed'
  BY <1>2, <1>4, <1>5, <1>6, <1>8 DEF IInv, MissesCounted, NoneFailed, Refers
<1> QED BY <1>9, <1>10, <1>11, <1>12 DEF IInv

\* An answer clears the misses of tunnels that have not failed.
LEMMA ProcessDeliveryStatusKeeps ==
  ASSUME NaturalConstants, IInv, NEW t \in pool.tests, ProcessDeliveryStatus(t)
  PROVE  IInv'
<1> DEFINE r(i) == [tunnel[i] EXCEPT !.state = Restored(t, i)]
<1>1. /\ t["in"] \in Known /\ t["out"] \in Known /\ phase = Idle
      /\ tunnel[t["in"]].state # "Failed" /\ tunnel[t["out"]].state # "Failed"
  BY DEF IInv, Refers, NoneFailed, ProcessDeliveryStatus, CanAnswer
<1>2. ASSUME NEW i \in Known
      PROVE  /\ r(i) \in TunnelRecords /\ r(i).kind = tunnel[i].kind
             /\ r(i).listed = tunnel[i].listed /\ r(i).attached = tunnel[i].attached
             /\ r(i).state = Restored(t, i)
  <2>1. tunnel[i] \in TunnelRecords
    BY TunnelRecordOf DEF IInv
  <2>2. Restored(t, i) \in TunnelStates
    BY <2>1 DEF Restored, TunnelRecords, TunnelStates
  <2> QED BY <2>1, <2>2 DEF TunnelRecords
<1>3. ASSUME NEW i \in Known
      PROVE  /\ \/ Restored(t, i) = tunnel[i].state
                \/ tunnel[i].state = "TestFailed" /\ Restored(t, i) = "Established"
             /\ i \in {t["in"], t["out"]} => Restored(t, i) # "TestFailed"
  BY DEF Restored
<1>4. /\ tunnel' = [i \in Known |-> r(i)]
      /\ misses' = [i \in Known |-> IF i \in {t["in"], t["out"]} THEN 0 ELSE misses[i]]
  BY DEF ProcessDeliveryStatus
<1> HIDE DEF r
<1>5. /\ tunnel' \in Seq(TunnelRecords) /\ Len(tunnel') = Len(tunnel)
      /\ \A i \in Known : tunnel'[i] = r(i)
  BY <1>2, <1>4, LenProperties DEF IInv, Typed, Known
<1>6. /\ misses' \in Seq(Nat) /\ Len(misses') = Len(misses)
      /\ \A i \in Known : misses'[i] = IF i \in {t["in"], t["out"]} THEN 0 ELSE misses[i]
  BY <1>4, LenProperties, TunnelRecordOf DEF IInv, Typed, Known
<1>7. /\ UNCHANGED <<now, lastTs, phase, owner, leaseSet>>
      /\ pool' = [pool EXCEPT !.tests = @ \ {t}]
  BY DEF ProcessDeliveryStatus
<1>8. /\ pool' \in Pools /\ pool'.active = pool.active /\ pool'["in"] = pool["in"]
      /\ pool'["out"] = pool["out"] /\ pool'.tests \subseteq pool.tests
  BY <1>7 DEF IInv, Typed, Pools
<1>9. Known' = Known
  BY <1>5 DEF Known
<1>10. Typed' /\ Refers'
  BY SMTT(30), <1>2, <1>5, <1>6, <1>7, <1>8, <1>9 DEF IInv, Typed, Refers
<1>11. MembersLive' /\ PendingUnlisted'
  BY <1>2, <1>3, <1>5, <1>8, <1>9
     DEF IInv, MembersLive, PendingUnlisted, Refers, LiveTunnel, LiveStates
<1>12. CreatedIsNew' /\ NoHoles' /\ Stopping'
  BY <1>1, <1>7, <1>8 DEF IInv, CreatedIsNew, NoHoles, Stopping, Idle, Doing
<1>13. MissesCounted'
  <2> SUFFICES ASSUME NEW i \in Known
               PROVE  /\ tunnel'[i].state = "Failed" => misses'[i] >= 2
                      /\ tunnel'[i].state = "TestFailed" => misses'[i] >= 1
    BY <1>9 DEF MissesCounted
  <2>1. tunnel'[i].state = Restored(t, i)
    BY <1>2, <1>5
  <2>2. CASE i \in {t["in"], t["out"]}
    BY <1>1, <1>3, <2>1, <2>2
  <2>3. CASE i \notin {t["in"], t["out"]}
    BY <1>3, <1>6, <2>1, <2>3 DEF IInv, MissesCounted
  <2> QED BY <2>2, <2>3
<1>14. NoneFailed'
  BY <1>2, <1>3, <1>5, <1>8 DEF IInv, NoneFailed, Refers
<1> QED BY <1>10, <1>11, <1>12, <1>13, <1>14 DEF IInv

----------------------------------------------------------------------------
(* The parts of ManageTunnels.                                               *)

LEMMA ManagePendingTunnelsKeeps ==
  ASSUME NaturalConstants, IInv, ManagePendingTunnels
  PROVE  IInv'
<1> DEFINE r(i) == [tunnel[i] EXCEPT !.pending = StaysPending(i)]
<1>1. ASSUME NEW i \in Known
      PROVE  /\ r(i) \in TunnelRecords /\ r(i).kind = tunnel[i].kind
             /\ r(i).listed = tunnel[i].listed /\ r(i).attached = tunnel[i].attached
             /\ r(i).state = tunnel[i].state
  <2>1. tunnel[i] \in TunnelRecords
    BY TunnelRecordOf DEF IInv
  <2>2. StaysPending(i) \in BOOLEAN
    BY DEF StaysPending
  <2> QED BY <2>1, <2>2 DEF TunnelRecords
<1>2. tunnel' = [i \in Known |-> r(i)]
  BY DEF ManagePendingTunnels
<1> HIDE DEF r
<1>3. /\ tunnel' \in Seq(TunnelRecords) /\ Len(tunnel') = Len(tunnel)
      /\ \A i \in Known : tunnel'[i] = r(i)
  BY <1>1, <1>2, LenProperties DEF IInv, Typed, Known
<1>4. /\ UNCHANGED <<now, owner, pool, leaseSet, misses>> /\ lastTs' = now
      /\ phase = Idle /\ phase' = Doing("in")
  BY DEF ManagePendingTunnels, After
<1>5. /\ Doing("in") \in [part : Parts, tunnel : Nat] /\ Doing("in").part = "in"
      /\ Idle.part = "messages"
  BY DEF Doing, Idle, Parts, NoTunnel
<1>6. Known' = Known
  BY <1>3 DEF Known
<1>7. Typed' /\ Refers'
  BY <1>1, <1>3, <1>4, <1>5, <1>6 DEF IInv, Typed, Refers
<1>8. MembersLive' /\ PendingUnlisted' /\ MissesCounted' /\ NoneFailed'
  BY <1>1, <1>3, <1>4, <1>6
     DEF IInv, MembersLive, PendingUnlisted, MissesCounted, NoneFailed, Refers, LiveTunnel
<1>9. CreatedIsNew' /\ NoHoles' /\ Stopping'
  BY <1>4, <1>5 DEF IInv, CreatedIsNew, NoHoles, Stopping
<1> QED BY <1>7, <1>8, <1>9 DEF IInv

LEMMA KnownIsFinite ==
  ASSUME Typed, NEW S, S \subseteq Known
  PROVE  IsFiniteSet(S) /\ Cardinality(S) \in Nat
<1>1. Len(tunnel) \in Int /\ IsFiniteSet(Known)
  BY FS_Interval, LenProperties DEF Typed, Known
<1> QED BY <1>1, FS_Subset, FS_CardinalityType

LEMMA NewTunnelsFacts ==
  ASSUME Typed, NEW kind \in Kinds, NEW n \in Nat
  PROVE  /\ NewTunnels(kind, n) \in Seq(TunnelRecords) /\ Len(NewTunnels(kind, n)) = n
         /\ \A k \in 1 .. n : /\ NewTunnels(kind, n)[k].state = "Pending"
                              /\ NewTunnels(kind, n)[k].listed = 0
<1>1. NewTunnel(kind) \in TunnelRecords
  BY DEF Typed, NewTunnel, TunnelRecords, TunnelStates
<1>2. NewTunnel(kind).state = "Pending" /\ NewTunnel(kind).listed = 0
  BY DEF NewTunnel
<1> QED BY <1>1, <1>2 DEF NewTunnels

\* Requests are appended, and nothing else is said of tunnels.
LEMMA Requested ==
  ASSUME Typed, NEW old \in Seq(TunnelRecords), Len(old) = Len(tunnel),
         NEW new \in Seq(TunnelRecords), Len(tunnel) + Len(new) <= MaxTunnels,
         \A k \in 1 .. Len(new) : new[k].state = "Pending" /\ new[k].listed = 0,
         NEW more \in Seq(Nat), Len(more) = Len(new),
         tunnel' = old \o new, misses' = misses \o more
  PROVE  /\ tunnel' \in Seq(TunnelRecords) /\ misses' \in Seq(Nat)
         /\ Len(tunnel') <= MaxTunnels /\ Len(misses') = Len(tunnel')
         /\ Known \subseteq Known' /\ \A i \in Known : tunnel'[i] = old[i] /\ misses'[i] = misses[i]
         /\ \A i \in Known' \ Known : tunnel'[i].state = "Pending" /\ tunnel'[i].listed = 0
<1>1. /\ tunnel \in Seq(TunnelRecords) /\ misses \in Seq(Nat) /\ Len(misses) = Len(tunnel)
      /\ Len(tunnel) \in Nat /\ Len(new) \in Nat
  BY LenProperties DEF Typed
<1>2. /\ tunnel' \in Seq(TunnelRecords) /\ Len(tunnel') = Len(old) + Len(new)
      /\ \A i \in 1 .. Len(old) + Len(new) :
           tunnel'[i] = IF i <= Len(old) THEN old[i] ELSE new[i - Len(old)]
  BY ConcatProperties
<1>3. /\ misses' \in Seq(Nat) /\ Len(misses') = Len(misses) + Len(more)
      /\ \A i \in 1 .. Len(misses) + Len(more) :
           misses'[i] = IF i <= Len(misses) THEN misses[i] ELSE more[i - Len(misses)]
  <2>1. misses' = misses \o more
    OBVIOUS
  <2> QED BY ONLY <1>1, <2>1, more \in Seq(Nat), ConcatProperties
<1>4. Known = 1 .. Len(tunnel) /\ Known' = 1 .. (Len(tunnel) + Len(new))
  BY <1>2 DEF Known
<1>5. Known \subseteq Known' /\ \A i \in Known : tunnel'[i] = old[i] /\ misses'[i] = misses[i]
  BY <1>1, <1>2, <1>3, <1>4
<1>6. ASSUME NEW i \in Known' \ Known
      PROVE  tunnel'[i].state = "Pending" /\ tunnel'[i].listed = 0
  <2>1. i \in 1 .. Len(old) + Len(new) /\ i > Len(old) /\ i - Len(old) \in 1 .. Len(new)
    BY <1>1, <1>4
  <2>2. tunnel'[i] = new[i - Len(old)]
    BY <1>2, <2>1
  <2> QED BY <2>1, <2>2
<1> QED BY <1>1, <1>2, <1>3, <1>5, <1>6

LEMMA ZerosFacts ==
  ASSUME NEW n \in Nat
  PROVE  [k \in 1 .. n |-> 0] \in Seq(Nat) /\ Len([k \in 1 .. n |-> 0]) = n
OBVIOUS

\* CreateTunnels leaves the tunnels there are as they are.
LEMMA CreateTunnelsFacts ==
  ASSUME NaturalConstants, IInv, CreateTunnels
  PROVE  /\ tunnel' \in Seq(TunnelRecords) /\ misses' \in Seq(Nat)
         /\ Len(tunnel') <= MaxTunnels /\ Len(misses') = Len(tunnel') /\ Known \subseteq Known'
         /\ \A i \in Known : tunnel'[i] = tunnel[i] /\ misses'[i] = misses[i]
         /\ \A i \in Known' \ Known : tunnel'[i].state = "Pending" /\ tunnel'[i].listed = 0
<1>1. PICK m \in Wanted("out"), n \in Wanted("in") :
        /\ Len(tunnel) + m + n <= MaxTunnels
        /\ tunnel' = tunnel \o NewTunnels("out", m) \o NewTunnels("in", n)
        /\ misses' = misses \o [k \in 1 .. (m + n) |-> 0]
  BY DEF CreateTunnels
<1>2. m \in Nat /\ n \in Nat /\ m + n \in Nat
  BY DEF Wanted
<1>3. Typed /\ tunnel \in Seq(TunnelRecords) /\ Len(tunnel) \in Nat
  BY LenProperties DEF IInv, Typed
<1> DEFINE a == NewTunnels("out", m)
           b == NewTunnels("in", n)
           more == [k \in 1 .. (m + n) |-> 0]
<1>4. /\ a \in Seq(TunnelRecords) /\ Len(a) = m
      /\ \A k \in 1 .. m : a[k].state = "Pending" /\ a[k].listed = 0
  BY <1>2, <1>3, NewTunnelsFacts DEF Kinds
<1>5. /\ b \in Seq(TunnelRecords) /\ Len(b) = n
      /\ \A k \in 1 .. n : b[k].state = "Pending" /\ b[k].listed = 0
  BY <1>2, <1>3, NewTunnelsFacts DEF Kinds
<1>6. more \in Seq(Nat) /\ Len(more) = m + n
  BY <1>2, ZerosFacts
<1>7. tunnel' = (tunnel \o a) \o b /\ misses' = misses \o more
  BY <1>1
<1> HIDE DEF a, b, more
<1>8. (tunnel \o a) \o b = tunnel \o (a \o b)
  BY <1>3, <1>4, <1>5, ConcatAssociative
<1>9. /\ a \o b \in Seq(TunnelRecords) /\ Len(a \o b) = m + n
      /\ \A k \in 1 .. (m + n) : (a \o b)[k] = IF k <= m THEN a[k] ELSE b[k - m]
  BY <1>4, <1>5, ConcatProperties
<1>10. \A k \in 1 .. (m + n) : (a \o b)[k].state = "Pending" /\ (a \o b)[k].listed = 0
  <2> TAKE k \in 1 .. (m + n)
  <2>1. CASE k <= m
    BY <1>2, <1>4, <1>9, <2>1
  <2>2. CASE ~(k <= m)
    <3>1. k - m \in 1 .. n
      BY <1>2, <2>2
    <3> QED BY <1>5, <1>9, <2>2, <3>1
  <2> QED BY <2>1, <2>2
<1>11. Len(tunnel) + Len(a \o b) <= MaxTunnels
  BY <1>1, <1>2, <1>3, <1>9
<1>12. tunnel' = tunnel \o (a \o b)
  BY <1>7, <1>8
<1> HIDE DEF Known
<1> QED BY <1>3, <1>6, <1>7, <1>9, <1>10, <1>11, <1>12, Requested

LEMMA CreateTunnelsKeeps ==
  ASSUME NaturalConstants, IInv, CreateTunnels
  PROVE  IInv'
<1>1. /\ tunnel' \in Seq(TunnelRecords) /\ misses' \in Seq(Nat)
      /\ Len(tunnel') <= MaxTunnels /\ Len(misses') = Len(tunnel') /\ Known \subseteq Known'
      /\ \A i \in Known : tunnel'[i] = tunnel[i] /\ misses'[i] = misses[i]
      /\ \A i \in Known' \ Known : tunnel'[i].state = "Pending" /\ tunnel'[i].listed = 0
  BY CreateTunnelsFacts
<1>2. /\ UNCHANGED <<now, lastTs, owner, pool, leaseSet>>
      /\ phase = Doing("create") /\ phase' = Doing("test")
  BY DEF CreateTunnels, After
<1>3. /\ Doing("test") \in [part : Parts, tunnel : Nat] /\ Doing("test").part = "test"
      /\ Doing("create").part = "create"
  BY DEF Doing, Parts, NoTunnel
<1>4. Typed' /\ Refers'
  BY <1>1, <1>2, <1>3 DEF IInv, Typed, Refers
<1>5. MembersLive' /\ PendingUnlisted' /\ MissesCounted' /\ NoneFailed'
  BY <1>1, <1>2
     DEF IInv, MembersLive, PendingUnlisted, MissesCounted, NoneFailed, Refers, LiveTunnel
<1>6. CreatedIsNew' /\ NoHoles' /\ Stopping'
  BY <1>2, <1>3 DEF IInv, CreatedIsNew, NoHoles, Stopping
<1> QED BY <1>4, <1>5, <1>6 DEF IInv

LEMMA SkipPoolKeeps ==
  ASSUME NaturalConstants, IInv, SkipPool
  PROVE  IInv'
<1>1. /\ UNCHANGED <<now, lastTs, owner, tunnel, pool, leaseSet, misses>>
      /\ phase' = Idle /\ ~pool.active
  BY DEF SkipPool, After, Idle
<1>2. Idle.part = "messages" /\ Idle \in [part : Parts, tunnel : Nat]
  BY DEF Idle, Doing, Parts, NoTunnel
<1>3. Typed' /\ Refers' /\ MembersLive' /\ PendingUnlisted'
  BY <1>1, <1>2 DEF IInv, Typed, Refers, MembersLive, PendingUnlisted, Known
<1>4. CreatedIsNew' /\ NoHoles' /\ Stopping'
  BY <1>1, <1>2 DEF IInv, CreatedIsNew, NoHoles, Stopping
<1>5. MissesCounted' /\ NoneFailed'
  BY <1>1 DEF IInv, MissesCounted, NoneFailed, Known
<1> QED BY <1>3, <1>4, <1>5 DEF IInv

\* Time takes tunnels out of the lists and lets established ones expire, and that is all.
LEMMA ManagedFacts ==
  ASSUME Typed, NEW kind \in Kinds, NEW i \in Known
  PROVE  /\ Managed(kind, i) \in TunnelRecords /\ Managed(kind, i).kind = tunnel[i].kind
         /\ \/ Managed(kind, i).state = tunnel[i].state
            \/ tunnel[i].state = "Established" /\ Managed(kind, i).state = "Expiring"
         /\ i \notin Expired(kind) => /\ Managed(kind, i).listed = tunnel[i].listed
                                      /\ Managed(kind, i).attached = tunnel[i].attached
         /\ tunnel[i].listed = 0 => Managed(kind, i).listed = 0
<1>1. tunnel[i] \in TunnelRecords
  BY TunnelRecordOf
<1>2. CASE i \in Expired(kind)
  <2>1. tunnel[i].listed = 1
    BY <1>1, <1>2 DEF Expired, Listed, TunnelRecords
  <2>2. Managed(kind, i) = [tunnel[i] EXCEPT !.listed = 0, !.attached = FALSE]
    BY <1>2, <2>1 DEF Managed
  <2> QED BY <1>1, <1>2, <2>1, <2>2 DEF TunnelRecords
<1>3. CASE i \notin Expired(kind)
  <2> DEFINE again == i \in Remade(kind)
             state == IF i \in Listed(kind) /\ IsEstablished(i) /\ now + Threshold > End(i)
                        THEN "Expiring" ELSE tunnel[i].state
  <2>1. Managed(kind, i) = [tunnel[i] EXCEPT !.recreated = @ \/ again, !.state = state]
    BY <1>3 DEF Managed
  <2>2. \/ state = tunnel[i].state
        \/ tunnel[i].state = "Established" /\ state = "Expiring"
    BY DEF IsEstablished
  <2>3. state \in TunnelStates
    BY <1>1, <2>2 DEF TunnelRecords, TunnelStates
  <2> HIDE DEF state, again
  <2>4. Managed(kind, i) \in TunnelRecords
    BY <1>1, <2>1, <2>3 DEF TunnelRecords
  <2> QED BY <1>1, <1>3, <2>1, <2>2, <2>4 DEF TunnelRecords
<1> QED BY <1>2, <1>3

LEMMA WithoutExpiredFacts ==
  ASSUME Typed, NEW kind \in Kinds
  PROVE  LET p == WithoutExpired(kind)
             gone == Left(Expired(kind))
         IN /\ p \in Pools /\ p.active = pool.active
            /\ p["in"] = IF kind = "in" THEN pool["in"] \ gone ELSE pool["in"]
            /\ p["out"] = IF kind = "out" THEN pool["out"] \ gone ELSE pool["out"]
            /\ \A t \in p.tests : \E u \in pool.tests :
                 /\ t["in"] = u["in"] \/ t["in"] = NoTunnel
                 /\ t["out"] = u["out"] \/ (kind = "out" /\ t["out"] = NoTunnel)
<1> DEFINE p == WithoutExpired(kind)
           gone == Left(Expired(kind))
<1> DEFINE Without(t) == [t EXCEPT ![kind] = IF @ \in gone THEN NoTunnel ELSE @]
<1>1. pool \in Pools
  BY DEF Typed
<1>2. p = [pool EXCEPT ![kind] = @ \ gone, !.tests = {Without(t) : t \in pool.tests}]
  BY DEF WithoutExpired
<1>3. ASSUME NEW t \in pool.tests
      PROVE  /\ Without(t) \in [in : Nat, out : Nat]
             /\ Without(t)["in"] = t["in"] \/ Without(t)["in"] = NoTunnel
             /\ \/ Without(t)["out"] = t["out"]
                \/ kind = "out" /\ Without(t)["out"] = NoTunnel
  <2>1. t \in [in : Nat, out : Nat]
    BY <1>1 DEF Pools
  <2>2. CASE kind = "in"
    BY <2>1, <2>2 DEF NoTunnel
  <2>3. CASE kind = "out"
    BY <2>1, <2>3 DEF NoTunnel
  <2> QED BY <2>2, <2>3 DEF Kinds
<1> DEFINE tests == {Without(t) : t \in pool.tests}
<1>4. tests \in SUBSET [in : Nat, out : Nat]
  BY <1>3
<1>5. \A t \in tests : \E u \in pool.tests :
        /\ t["in"] = u["in"] \/ t["in"] = NoTunnel
        /\ \/ t["out"] = u["out"]
           \/ kind = "out" /\ t["out"] = NoTunnel
  BY <1>3
<1>6. p = [pool EXCEPT ![kind] = @ \ gone, !.tests = tests]
  BY <1>2
<1> HIDE DEF tests, p, gone
<1>7. /\ p \in Pools /\ p.active = pool.active /\ p.tests = tests
      /\ p["in"] = IF kind = "in" THEN pool["in"] \ gone ELSE pool["in"]
      /\ p["out"] = IF kind = "out" THEN pool["out"] \ gone ELSE pool["out"]
  <2>1. CASE kind = "in"
    BY <1>1, <1>4, <1>6, <2>1 DEF Pools
  <2>2. CASE kind = "out"
    BY <1>1, <1>4, <1>6, <2>2 DEF Pools
  <2> QED BY <2>1, <2>2 DEF Kinds
<1>8. \A t \in p.tests : \E u \in pool.tests :
        /\ t["in"] = u["in"] \/ t["in"] = NoTunnel
        /\ t["out"] = u["out"] \/ (kind = "out" /\ t["out"] = NoTunnel)
  BY <1>5, <1>7
<1> QED BY <1>7, <1>8 DEF p, gone

LEMMA ManageTunnelsFacts ==
  ASSUME NaturalConstants, IInv, NEW kind \in Kinds, ManageTunnels(kind)
  PROVE  /\ tunnel' \in Seq(TunnelRecords) /\ misses' \in Seq(Nat)
         /\ Len(tunnel') <= MaxTunnels /\ Len(misses') = Len(tunnel') /\ Known \subseteq Known'
         /\ \A i \in Known : tunnel'[i] = Managed(kind, i) /\ misses'[i] = misses[i]
         /\ \A i \in Known' \ Known : tunnel'[i].state = "Pending" /\ tunnel'[i].listed = 0
<1> DEFINE old == [i \in Known |-> Managed(kind, i)]
<1>1. PICK n \in Remakes(kind) :
        /\ tunnel' = old \o NewTunnels(kind, n)
        /\ misses' = misses \o [k \in 1 .. n |-> 0]
  BY DEF ManageTunnels
<1>2. Typed /\ tunnel \in Seq(TunnelRecords) /\ Len(tunnel) \in Nat
  BY LenProperties DEF IInv, Typed
<1>3. n \in Nat /\ Len(tunnel) + n <= MaxTunnels
  <2>1. Remade(kind) \subseteq Known
    BY DEF Remade, Listed
  <2>2. Cardinality(Remade(kind)) \in Nat /\ MaxTunnels - Len(tunnel) \in Nat
    BY <1>2, <2>1, KnownIsFinite DEF Typed, NaturalConstants
  <2> QED BY <1>2, <2>2 DEF Remakes, Lesser, NaturalConstants
<1>4. /\ old \in Seq(TunnelRecords) /\ Len(old) = Len(tunnel)
      /\ \A i \in Known : old[i] = Managed(kind, i)
  BY <1>2, ManagedFacts DEF Known
<1> DEFINE new  == NewTunnels(kind, n)
           more == [k \in 1 .. n |-> 0]
<1>5. /\ new \in Seq(TunnelRecords) /\ Len(new) = n
      /\ \A k \in 1 .. n : new[k].state = "Pending" /\ new[k].listed = 0
  BY <1>2, <1>3, NewTunnelsFacts
<1>6. more \in Seq(Nat) /\ Len(more) = n
  BY <1>3, ZerosFacts
<1>7. tunnel' = old \o new /\ misses' = misses \o more
  BY <1>1
<1> HIDE DEF old, new, more
<1> HIDE DEF Known
<1> QED BY <1>2, <1>3, <1>4, <1>5, <1>6, <1>7, Requested

LEMMA ManageTunnelsKeeps ==
  ASSUME NaturalConstants, IInv, NEW kind \in Kinds, ManageTunnels(kind)
  PROVE  IInv'
<1> DEFINE gone == Left(Expired(kind))
<1>1. Typed
  BY DEF IInv
<1>2. /\ tunnel' \in Seq(TunnelRecords) /\ misses' \in Seq(Nat)
      /\ Len(tunnel') <= MaxTunnels /\ Len(misses') = Len(tunnel') /\ Known \subseteq Known'
      /\ \A i \in Known : tunnel'[i] = Managed(kind, i) /\ misses'[i] = misses[i]
      /\ \A i \in Known' \ Known : tunnel'[i].state = "Pending" /\ tunnel'[i].listed = 0
  BY ManageTunnelsFacts
<1>3. /\ UNCHANGED <<now, lastTs, owner, leaseSet>> /\ pool' = WithoutExpired(kind)
      /\ phase.part = kind /\ phase' = Doing(IF kind = "in" THEN "out" ELSE "create")
  BY DEF ManageTunnels, After, Kinds, Doing
<1>4. /\ phase' \in [part : Parts, tunnel : Nat]
      /\ phase'.part = IF kind = "in" THEN "out" ELSE "create"
  BY <1>3 DEF Doing, Parts, NoTunnel
<1>5. /\ pool' \in Pools /\ pool'.active = pool.active
      /\ pool'["in"] = IF kind = "in" THEN pool["in"] \ gone ELSE pool["in"]
      /\ pool'["out"] = IF kind = "out" THEN pool["out"] \ gone ELSE pool["out"]
      /\ \A t \in pool'.tests : \E u \in pool.tests :
           /\ t["in"] = u["in"] \/ t["in"] = NoTunnel
           /\ t["out"] = u["out"] \/ (kind = "out" /\ t["out"] = NoTunnel)
  BY <1>1, <1>3, WithoutExpiredFacts
<1>6. \A i \in pool'["in"] \cup pool'["out"] : i \notin Expired(kind)
  <2> SUFFICES ASSUME NEW i \in pool'["in"] \cup pool'["out"], i \in Expired(kind)
               PROVE  FALSE
    OBVIOUS
  <2>1. i \in pool["in"] \cup pool["out"] /\ tunnel[i].kind = kind
    BY <1>5 DEF Expired, Listed
  <2>2. tunnel[i].attached /\ i \in gone
    BY <2>1 DEF IInv, MembersLive, LiveTunnel, Left
  <2> QED BY <1>5, <2>1, <2>2 DEF IInv, Refers, Kinds
<1> HIDE DEF gone
<1>7. \A i \in Known :
         /\ tunnel'[i] \in TunnelRecords /\ tunnel'[i].kind = tunnel[i].kind
         /\ \/ tunnel'[i].state = tunnel[i].state
            \/ tunnel[i].state = "Established" /\ tunnel'[i].state = "Expiring"
         /\ i \notin Expired(kind) => /\ tunnel'[i].listed = tunnel[i].listed
                                      /\ tunnel'[i].attached = tunnel[i].attached
         /\ tunnel[i].listed = 0 => tunnel'[i].listed = 0
  BY <1>1, <1>2, ManagedFacts
<1>8. Typed'
  BY <1>2, <1>3, <1>4, <1>5 DEF IInv, Typed
<1>9. Refers'
  <2>1. \A t \in pool'.tests :
          t["in"] \in {NoTunnel} \cup Known' /\ t["out"] \in {NoTunnel} \cup Known'
    BY <1>2, <1>5 DEF IInv, Refers
  <2>2. \A i \in pool'["in"] \cup leaseSet' : i \in Known' /\ tunnel'[i].kind = "in"
    <3>1. pool'["in"] \subseteq pool["in"] /\ leaseSet' = leaseSet
      BY <1>3, <1>5
    <3>2. \A i \in pool["in"] \cup leaseSet : i \in Known /\ tunnel[i].kind = "in"
      BY DEF IInv, Refers
    <3> QED BY <1>2, <1>7, <3>1, <3>2
  <2>3. \A i \in pool'["out"] : i \in Known' /\ tunnel'[i].kind = "out"
    BY SMTT(30), <1>2, <1>5, <1>7 DEF IInv, Refers
  <2> QED BY <2>1, <2>2, <2>3 DEF Refers
<1>10. MembersLive'
  BY <1>5, <1>6, <1>7 DEF IInv, MembersLive, Refers, LiveTunnel, LiveStates
<1>11. PendingUnlisted' /\ MissesCounted'
  BY <1>2, <1>7 DEF IInv, PendingUnlisted, MissesCounted
<1>12. NoneFailed'
  <2> SUFFICES ASSUME NEW t \in pool'.tests
               PROVE  /\ t["in"] # NoTunnel => tunnel'[t["in"]].state # "Failed"
                      /\ t["out"] # NoTunnel => tunnel'[t["out"]].state # "Failed"
    BY DEF NoneFailed
  <2>1. PICK u \in pool.tests : /\ t["in"] = u["in"] \/ t["in"] = NoTunnel
                                /\ t["out"] = u["out"] \/ (kind = "out" /\ t["out"] = NoTunnel)
    BY <1>5
  <2> QED BY <1>7, <2>1 DEF IInv, NoneFailed, Refers
<1>13. CreatedIsNew' /\ NoHoles'
  BY <1>3, <1>4, <1>5 DEF IInv, CreatedIsNew, NoHoles, Kinds
<1>14. Stopping'
  BY <1>3, <1>4, <1>5 DEF IInv, Stopping
<1> QED BY <1>8, <1>9, <1>10, <1>11, <1>12, <1>13, <1>14 DEF IInv

\* Tests are of tunnels of the pool, and there are none without a tunnel of each kind.
LEMMA PairsFacts ==
  ASSUME Typed, NEW S, S \subseteq Known, NEW T, T \subseteq Known,
         NEW f \in Orders(S), NEW g \in Orders(T)
  PROVE  /\ Pairs(f, g) \subseteq [in : Nat, out : Nat]
         /\ \A t \in Pairs(f, g) : t["out"] \in S /\ t["in"] \in T
         /\ S = {} \/ T = {} => Pairs(f, g) = {}
<1>1. /\ Cardinality(S) \in Nat /\ f \in [1 .. Cardinality(S) -> S]
      /\ Cardinality(T) \in Nat /\ g \in [1 .. Cardinality(T) -> T]
  BY KnownIsFinite DEF Orders
<1>2. Cardinality(DOMAIN f) = Cardinality(S) /\ Cardinality(DOMAIN g) = Cardinality(T)
  <2>1. \A n \in Nat : Cardinality(1 .. n) = n
    BY FS_Interval
  <2> QED BY <1>1, <2>1
<1> DEFINE n == Lesser(Cardinality(S), Cardinality(T))
<1>3. n \in Nat /\ n <= Cardinality(S) /\ n <= Cardinality(T)
  BY <1>1 DEF Lesser
<1>4. Pairs(f, g) = {[out |-> f[k], in |-> g[k]] : k \in 1 .. n}
  BY <1>2 DEF Pairs
<1> HIDE DEF n
<1>5. \A k \in 1 .. n : f[k] \in S /\ g[k] \in T
  BY <1>1, <1>3
<1>6. S \subseteq Nat /\ T \subseteq Nat
  BY DEF Known
<1>7. Pairs(f, g) \subseteq [in : Nat, out : Nat]
  <2>1. \A k \in 1 .. n : f[k] \in Nat /\ g[k] \in Nat
    BY <1>5, <1>6
  <2>2. \A k \in 1 .. n : [out |-> f[k], in |-> g[k]] \in [in : Nat, out : Nat]
    BY <2>1
  <2> QED BY ONLY <1>4, <2>2
<1>8. \A t \in Pairs(f, g) : t["out"] \in S /\ t["in"] \in T
  BY <1>4, <1>5
<1> QED BY <1>7, <1>8

LEMMA TestTunnelsKeeps ==
  ASSUME NaturalConstants, IInv, TestTunnels
  PROVE  IInv'
<1> DEFINE r(i) == [tunnel[i] EXCEPT !.state = Tested[i]]
           outs == Remaining("out")
           ins == Remaining("in")
<1>1. PICK f \in Orders(outs), g \in Orders(ins) :
        pool' = [pool EXCEPT !["in"] = ins, !["out"] = outs, !.tests = Pairs(f, g)]
  BY DEF TestTunnels
<1>2. Typed /\ ins \subseteq Known /\ outs \subseteq Known
  BY DEF IInv, Refers, Remaining
<1>3. /\ Pairs(f, g) \subseteq [in : Nat, out : Nat]
      /\ \A t \in Pairs(f, g) : t["out"] \in outs /\ t["in"] \in ins
      /\ outs = {} \/ ins = {} => Pairs(f, g) = {}
  BY <1>2, PairsFacts
<1>4. /\ pool' \in Pools /\ pool'.active = pool.active /\ pool'.tests = Pairs(f, g)
      /\ pool'["in"] = ins /\ pool'["out"] = outs
  <2>1. pool \in Pools /\ ins \subseteq Nat /\ outs \subseteq Nat
    BY <1>2 DEF Typed, Known
  <2> HIDE DEF ins, outs
  <2> QED BY <1>1, <1>3, <2>1 DEF Pools
<1>5. ASSUME NEW i \in Known
      PROVE  /\ r(i) \in TunnelRecords /\ r(i).kind = tunnel[i].kind
             /\ r(i).listed = tunnel[i].listed /\ r(i).attached = tunnel[i].attached
             /\ r(i).state = IF i \in Missed THEN AfterMiss(tunnel[i].state) ELSE tunnel[i].state
  <2>1. tunnel[i] \in TunnelRecords
    BY <1>2, TunnelRecordOf
  <2>2. Tested[i] = IF i \in Missed THEN AfterMiss(tunnel[i].state) ELSE tunnel[i].state
    BY DEF Tested
  <2>3. Tested[i] \in TunnelStates
    BY <2>1, <2>2 DEF AfterMiss, TunnelRecords, TunnelStates
  <2> QED BY <2>1, <2>2, <2>3 DEF TunnelRecords
<1>6. /\ tunnel' = [i \in Known |-> r(i)]
      /\ misses' = [i \in Known |-> IF i \in Missed THEN misses[i] + 1 ELSE misses[i]]
  BY DEF TestTunnels
<1>7. \A i \in ins \cup outs : Tested[i] # "Failed"
  <2> SUFFICES ASSUME NEW i \in ins \cup outs, Tested[i] = "Failed" PROVE FALSE
    OBVIOUS
  <2>1. i \in Known /\ i # NoTunnel /\ i \notin Failing
    BY <1>2 DEF Remaining, Known, NoTunnel
  <2>2. i \notin Missed
    BY <2>1 DEF Failing
  <2>3. tunnel[i].state = "Failed"
    BY <2>1, <2>2 DEF Tested
  <2> QED BY <2>3 DEF IInv, MembersLive, LiveTunnel, LiveStates, Remaining
<1> HIDE DEF r
<1>8. /\ tunnel' \in Seq(TunnelRecords) /\ Len(tunnel') = Len(tunnel)
      /\ \A i \in Known : tunnel'[i] = r(i)
  BY <1>2, <1>5, <1>6, LenProperties DEF Typed, Known
<1>9. /\ misses' \in Seq(Nat) /\ Len(misses') = Len(misses)
      /\ \A i \in Known : misses'[i] = IF i \in Missed THEN misses[i] + 1 ELSE misses[i]
  BY <1>2, <1>6, LenProperties, TunnelRecordOf DEF Typed, Known
<1>10. /\ UNCHANGED <<now, lastTs, owner>> /\ phase = Doing("test") /\ phase' = Idle
       /\ leaseSet' \in NewLeaseSets(ins)
  BY DEF TestTunnels, After, Idle
<1>11. leaseSet' = leaseSet \/ leaseSet' \subseteq ins
  BY <1>10 DEF NewLeaseSets, LeaseTunnels
<1>12. /\ Idle.part = "messages" /\ Idle \in [part : Parts, tunnel : Nat]
       /\ Doing("test").part = "test"
  BY DEF Idle, Doing, Parts, NoTunnel
<1>13. Known' = Known
  BY <1>8 DEF Known
<1>14. ins \subseteq pool["in"] /\ outs \subseteq pool["out"]
  BY DEF Remaining
<1>15. Tested = [i \in Known |-> IF i \in Missed THEN AfterMiss(tunnel[i].state)
                                                 ELSE tunnel[i].state]
  BY DEF Tested
<1> HIDE DEF ins, outs
<1>16. Typed' /\ Refers'
  <2>1. Typed'
    BY <1>2, <1>4, <1>8, <1>9, <1>10, <1>12 DEF Typed
  <2>2. \A i \in pool'["in"] \cup leaseSet' : i \in Known' /\ tunnel'[i].kind = "in"
    BY <1>4, <1>5, <1>8, <1>11, <1>13, <1>14 DEF IInv, Refers
  <2>3. \A i \in pool'["out"] : i \in Known' /\ tunnel'[i].kind = "out"
    BY <1>4, <1>5, <1>8, <1>13, <1>14 DEF IInv, Refers
  <2>4. \A t \in pool'.tests :
          t["in"] \in {NoTunnel} \cup Known' /\ t["out"] \in {NoTunnel} \cup Known'
    BY <1>2, <1>3, <1>4, <1>13
  <2> QED BY <2>1, <2>2, <2>3, <2>4 DEF Refers
<1>17. MembersLive' /\ NoneFailed'
  <2>1. ASSUME NEW i \in ins \cup outs
        PROVE  LiveTunnel(tunnel'[i]) /\ i \in Known
    <3>1. i \in Known /\ LiveTunnel(tunnel[i])
      BY <1>2, <1>14 DEF IInv, MembersLive
    <3>2. tunnel'[i].state # "Failed"
      BY <1>5, <1>7, <1>8, <1>15, <3>1
    <3> QED BY <1>5, <1>8, <3>1, <3>2 DEF LiveTunnel, LiveStates, AfterMiss
  <2>2. MembersLive'
    BY <1>4, <2>1 DEF MembersLive
  <2>3. NoneFailed'
    BY <1>3, <1>4, <2>1 DEF NoneFailed, LiveTunnel, LiveStates
  <2> QED BY <2>2, <2>3
<1>18. PendingUnlisted'
  BY <1>5, <1>8, <1>13 DEF IInv, PendingUnlisted, AfterMiss
<1>19. MissesCounted'
  <2> SUFFICES ASSUME NEW i \in Known
               PROVE  /\ tunnel'[i].state = "Failed" => misses'[i] >= 2
                      /\ tunnel'[i].state = "TestFailed" => misses'[i] >= 1
    BY <1>13 DEF MissesCounted
  <2>1. misses[i] \in Nat
    BY <1>2, TunnelRecordOf
  <2>2. /\ tunnel[i].state = "Failed" => misses[i] >= 2
        /\ tunnel[i].state = "TestFailed" => misses[i] >= 1
    BY DEF IInv, MissesCounted
  <2>3. /\ tunnel'[i].state = IF i \in Missed THEN AfterMiss(tunnel[i].state) ELSE tunnel[i].state
        /\ misses'[i] = IF i \in Missed THEN misses[i] + 1 ELSE misses[i]
    BY <1>5, <1>8, <1>9
  <2> QED BY <2>1, <2>2, <2>3 DEF AfterMiss
<1>20. CreatedIsNew' /\ NoHoles'
  <2>1. NoTunnel \notin outs
    BY <1>2 DEF Known, NoTunnel
  <2> QED BY <1>3, <1>4, <1>10, <1>12, <2>1 DEF CreatedIsNew, NoHoles
<1>21. Stopping'
  BY <1>3, <1>4, <1>10, <1>12, <1>14 DEF IInv, Stopping
<1> QED BY <1>16, <1>17, <1>18, <1>19, <1>20, <1>21 DEF IInv

----------------------------------------------------------------------------
(* Steps of the destination's owner, and the clock.                          *)

LEMMA StopKeeps ==
  ASSUME NaturalConstants, IInv, Stop
  PROVE  IInv'
<1>1. /\ UNCHANGED <<now, lastTs, phase, tunnel, leaseSet, misses>>
      /\ owner = "running" /\ owner' = "detachIn" /\ pool' = [pool EXCEPT !.active = FALSE]
  BY DEF Stop
<1>2. /\ pool' \in Pools /\ ~pool'.active /\ pool'["in"] = pool["in"]
      /\ pool'["out"] = pool["out"] /\ pool'.tests = pool.tests
  BY <1>1 DEF IInv, Typed, Pools
<1>3. Typed' /\ Refers' /\ MembersLive' /\ PendingUnlisted'
  BY <1>1, <1>2 DEF IInv, Typed, Refers, MembersLive, PendingUnlisted, Known
<1>4. CreatedIsNew' /\ NoHoles' /\ Stopping'
  BY <1>1, <1>2 DEF IInv, CreatedIsNew, NoHoles, Stopping, Known
<1>5. MissesCounted' /\ NoneFailed'
  BY <1>1, <1>2 DEF IInv, MissesCounted, NoneFailed, Known
<1> QED BY <1>3, <1>4, <1>5 DEF IInv

LEMMA StartKeeps ==
  ASSUME NaturalConstants, IInv, Start
  PROVE  IInv'
<1>1. /\ UNCHANGED <<now, lastTs, phase, tunnel, leaseSet, misses>>
      /\ owner = "stopped" /\ owner' = "running" /\ pool' = [pool EXCEPT !.active = TRUE]
  BY DEF Start
<1>2. /\ pool' \in Pools /\ pool'.active /\ pool'["in"] = pool["in"]
      /\ pool'["out"] = pool["out"] /\ pool'.tests = {}
  BY <1>1 DEF IInv, Typed, Pools, Stopping
<1>3. Typed' /\ Refers' /\ MembersLive' /\ PendingUnlisted'
  BY <1>1, <1>2 DEF IInv, Typed, Refers, MembersLive, PendingUnlisted, Known
<1>4. CreatedIsNew' /\ NoHoles' /\ Stopping'
  BY <1>1, <1>2 DEF IInv, CreatedIsNew, NoHoles, Stopping, Known
<1>5. MissesCounted' /\ NoneFailed'
  BY <1>1, <1>2 DEF IInv, MissesCounted, NoneFailed, Known
<1> QED BY <1>3, <1>4, <1>5 DEF IInv

\* The members of one part of the pool are detached; the others stay as they are.
LEMMA DetachedFacts ==
  ASSUME IInv, NEW kind \in Kinds
  PROVE  LET d == Detached(kind)
         IN /\ d \in Seq(TunnelRecords) /\ Len(d) = Len(tunnel)
            /\ \A i \in Known :
                 /\ d[i].kind = tunnel[i].kind /\ d[i].state = tunnel[i].state
                 /\ d[i].listed = tunnel[i].listed
                 /\ i \notin pool[kind] => d[i].attached = tunnel[i].attached
<1> DEFINE r(i) == [tunnel[i] EXCEPT !.attached = @ /\ i \notin pool[kind]]
           d == Detached(kind)
<1>1. ASSUME NEW i \in Known
      PROVE  /\ r(i) \in TunnelRecords
             /\ r(i).kind = tunnel[i].kind /\ r(i).state = tunnel[i].state
             /\ r(i).listed = tunnel[i].listed
             /\ i \notin pool[kind] => r(i).attached = tunnel[i].attached
  <2>1. tunnel[i] \in TunnelRecords
    BY TunnelRecordOf DEF IInv
  <2>2. CASE i \in pool[kind]
    <3>1. r(i) = [tunnel[i] EXCEPT !.attached = FALSE]
      BY <2>2
    <3> QED BY <2>1, <2>2, <3>1 DEF TunnelRecords
  <2>3. CASE i \notin pool[kind]
    <3>1. r(i) = tunnel[i]
      BY <2>1, <2>3 DEF TunnelRecords
    <3> QED BY <2>1, <3>1
  <2> QED BY <2>2, <2>3
<1>2. d = [i \in Known |-> r(i)]
  BY DEF Detached
<1> HIDE DEF r
<1>3. d \in Seq(TunnelRecords) /\ Len(d) = Len(tunnel) /\ \A i \in Known : d[i] = r(i)
  BY <1>1, <1>2, LenProperties DEF IInv, Typed, Known
<1> HIDE DEF d
<1>4. /\ d \in Seq(TunnelRecords) /\ Len(d) = Len(tunnel)
      /\ \A i \in Known :
           /\ d[i].kind = tunnel[i].kind /\ d[i].state = tunnel[i].state
           /\ d[i].listed = tunnel[i].listed
           /\ i \notin pool[kind] => d[i].attached = tunnel[i].attached
  BY <1>1, <1>3
<1> QED BY <1>4 DEF d

LEMMA DetachInboundKeeps ==
  ASSUME NaturalConstants, IInv, DetachInbound
  PROVE  IInv'
<1>1. /\ UNCHANGED <<now, lastTs, phase, leaseSet, misses>>
      /\ owner = "detachIn" /\ owner' = "detachOut" /\ pool' = [pool EXCEPT !["in"] = {}]
      /\ tunnel' = Detached("in")
  BY DEF DetachInbound
<1>2. /\ pool' \in Pools /\ pool'.active = pool.active /\ pool'["in"] = {}
      /\ pool'["out"] = pool["out"] /\ pool'.tests = pool.tests
  BY <1>1 DEF IInv, Typed, Pools
<1>3. /\ tunnel' \in Seq(TunnelRecords) /\ Len(tunnel') = Len(tunnel)
      /\ \A i \in Known :
           /\ tunnel'[i].kind = tunnel[i].kind /\ tunnel'[i].state = tunnel[i].state
           /\ tunnel'[i].listed = tunnel[i].listed
           /\ i \notin pool["in"] => tunnel'[i].attached = tunnel[i].attached
  BY <1>1, DetachedFacts DEF Kinds
<1>4. Known' = Known
  BY <1>3 DEF Known
<1>5. \A i \in pool["out"] : i \notin pool["in"] /\ i \in Known
  BY DEF IInv, Refers
<1>6. Typed' /\ Refers'
  BY <1>1, <1>2, <1>3, <1>4 DEF IInv, Typed, Refers
<1>7. MembersLive' /\ PendingUnlisted'
  BY <1>2, <1>3, <1>4, <1>5 DEF IInv, MembersLive, PendingUnlisted, LiveTunnel
<1>8. CreatedIsNew' /\ NoHoles' /\ Stopping'
  BY <1>1, <1>2, <1>3, <1>4 DEF IInv, CreatedIsNew, NoHoles, Stopping, LiveTunnel
<1>9. MissesCounted' /\ NoneFailed'
  BY <1>1, <1>2, <1>3, <1>4 DEF IInv, MissesCounted, NoneFailed, Refers
<1> QED BY <1>6, <1>7, <1>8, <1>9 DEF IInv

LEMMA DetachOutboundKeeps ==
  ASSUME NaturalConstants, IInv, DetachOutbound
  PROVE  IInv'
<1>1. /\ UNCHANGED <<now, lastTs, phase, leaseSet, misses>>
      /\ owner = "detachOut" /\ owner' = "stopped"
      /\ pool' = [pool EXCEPT !["out"] = {}, !.tests = {}] /\ tunnel' = Detached("out")
  BY DEF DetachOutbound
<1>2. /\ pool' \in Pools /\ pool'.active = pool.active /\ pool'["in"] = pool["in"]
      /\ pool'["out"] = {} /\ pool'.tests = {}
  BY <1>1 DEF IInv, Typed, Pools
<1>3. /\ tunnel' \in Seq(TunnelRecords) /\ Len(tunnel') = Len(tunnel)
      /\ \A i \in Known :
           /\ tunnel'[i].kind = tunnel[i].kind /\ tunnel'[i].state = tunnel[i].state
           /\ tunnel'[i].listed = tunnel[i].listed
           /\ i \notin pool["out"] => tunnel'[i].attached = tunnel[i].attached
  BY <1>1, DetachedFacts DEF Kinds
<1>4. Known' = Known
  BY <1>3 DEF Known
<1>5. \A i \in pool["in"] : i \notin pool["out"] /\ i \in Known
  BY DEF IInv, Refers
<1>6. Typed' /\ Refers'
  BY <1>1, <1>2, <1>3, <1>4 DEF IInv, Typed, Refers
<1>7. MembersLive' /\ PendingUnlisted'
  BY <1>2, <1>3, <1>4, <1>5 DEF IInv, MembersLive, PendingUnlisted, LiveTunnel
<1>8. CreatedIsNew' /\ NoHoles' /\ Stopping'
  BY <1>1, <1>2, <1>3, <1>4 DEF IInv, CreatedIsNew, NoHoles, Stopping, LiveTunnel
<1>9. MissesCounted' /\ NoneFailed'
  BY <1>1, <1>2, <1>3, <1>4 DEF IInv, MissesCounted, NoneFailed
<1> QED BY <1>6, <1>7, <1>8, <1>9 DEF IInv

LEMMA TickKeeps ==
  ASSUME NaturalConstants, IInv, TunnelsTick
  PROVE  IInv'
<1>1. /\ UNCHANGED <<lastTs, phase, owner, tunnel, pool, leaseSet, misses>>
      /\ now < MaxTime /\ now' = now + 1
  BY DEF TunnelsTick
<1>2. Typed' /\ Refers' /\ MembersLive' /\ PendingUnlisted'
  BY <1>1 DEF IInv, Typed, Refers, MembersLive, PendingUnlisted, Known, NaturalConstants
<1>3. CreatedIsNew' /\ NoHoles' /\ Stopping'
  BY <1>1 DEF IInv, CreatedIsNew, NoHoles, Stopping, Known
<1>4. MissesCounted' /\ NoneFailed'
  BY <1>1 DEF IInv, MissesCounted, NoneFailed, Known
<1> QED BY <1>2, <1>3, <1>4 DEF IInv

LEMMA NextKeepsIInv ==
  ASSUME NaturalConstants, IInv, [TunnelsNext]_tunnelsVars
  PROVE  IInv'
<1>1. CASE UNCHANGED tunnelsVars
  BY <1>1 DEF tunnelsVars, IInv, Typed, Refers, MembersLive, PendingUnlisted, CreatedIsNew,
              MissesCounted, NoneFailed, NoHoles, Stopping, Known
<1>2. ASSUME NEW i \in Known, ReplyAccepts(i) \/ ReplyDeclines(i) \/ HandleTunnelDataMsg(i)
      PROVE  IInv'
  BY <1>2, ReplyAcceptsKeeps, ReplyDeclinesKeeps, HandleTunnelDataMsgKeeps
<1>3. ASSUME NEW t \in pool.tests, ProcessDeliveryStatus(t) PROVE IInv'
  BY <1>3, ProcessDeliveryStatusKeeps
<1>4. ASSUME NEW kind \in Kinds, ManageTunnels(kind) PROVE IInv'
  BY <1>4, ManageTunnelsKeeps
<1>5. CASE TunnelsNext
  BY <1>2, <1>3, <1>4, <1>5, TunnelCreatedKeeps, TooLateKeeps, ManagePendingTunnelsKeeps,
     CreateTunnelsKeeps, SkipPoolKeeps, TestTunnelsKeeps, StopKeeps, DetachInboundKeeps,
     DetachOutboundKeeps, StartKeeps, TickKeeps DEF TunnelsNext
<1> QED BY <1>1, <1>5

LEMMA InitIInv == NaturalConstants /\ TunnelsInit => IInv
<1> SUFFICES ASSUME NaturalConstants, TunnelsInit PROVE IInv
  OBVIOUS
<1>1. /\ now = 1 /\ lastTs = 0 /\ phase = Idle /\ owner = "running" /\ leaseSet = {}
      /\ tunnel = << >> /\ misses = << >>
      /\ pool \in Pools /\ pool.active /\ pool["in"] = {} /\ pool["out"] = {} /\ pool.tests = {}
  BY DEF TunnelsInit, Pools
<1>2. Len(tunnel) = 0 /\ Known = {} /\ Idle.part = "messages"
  BY <1>1 DEF Known, Idle, Doing
<1>3. Typed
  BY <1>1, <1>2 DEF Typed, NaturalConstants, Idle, Doing, NoTunnel, Parts
<1> QED BY <1>1, <1>2, <1>3
        DEF IInv, Refers, MembersLive, PendingUnlisted, CreatedIsNew, MissesCounted, NoneFailed,
            NoHoles, Stopping

----------------------------------------------------------------------------
(* The theorems.                                                             *)

\* Whatever the owner of the destination and late replies do, every tunnel is in one of its
\* states and listed at most once, and what the pool and the LeaseSet name was requested.
THEOREM TypeCorrect ==
  ASSUME NaturalConstants
  PROVE  TunnelsSpec => []TunnelsTypeOK
<1>1. IInv => TunnelsTypeOK
  <2> SUFFICES ASSUME IInv PROVE TunnelsTypeOK
    OBVIOUS
  <2>1. \A i \in Known : tunnel[i].state \in TunnelStates /\ tunnel[i].listed \in 0 .. 1
    BY TunnelRecordOf DEF IInv, TunnelRecords
  <2>2. \A kind \in Kinds : pool[kind] \subseteq {i \in Known : tunnel[i].kind = kind}
    BY DEF IInv, Refers, Kinds
  <2> QED BY <2>1, <2>2 DEF IInv, Typed, Refers, TunnelsTypeOK, NaturalConstants
<1> QED BY <1>1, InitIInv, NextKeepsIInv, PTL DEF TunnelsSpec

\* Between two messages the members of a pool are alive, no tunnel fails before it has missed
\* two tests in a row, and an answer to a test finds both tunnels of it.
THEOREM PoolsAreSound ==
  ASSUME NaturalConstants
  PROVE  TunnelsSpec => []PoolIsSound
<1>1. IInv => PoolIsSound
  <2> SUFFICES ASSUME IInv PROVE PoolIsSound
    OBVIOUS
  <2>1. MembersAreAlive
    BY DEF IInv, MembersLive, LiveTunnel, LiveStates, MembersAreAlive, Members
  <2>2. TwoMissesToFail
    BY DEF IInv, MissesCounted, TwoMissesToFail
  <2>3. AnswerFindsTunnels
    BY DEF IInv, NoHoles, AnswerFindsTunnels, CanAnswer, Idle, Doing
  <2> QED BY <2>1, <2>2, <2>3 DEF PoolIsSound
<1> QED BY <1>1, InitIInv, NextKeepsIInv, PTL DEF TunnelsSpec

\* Of all steps only TestTunnels makes a tunnel fail.
LEMMA OnlyTestsFail ==
  ASSUME NaturalConstants, IInv, TunnelsNext, NEW i \in Known,
         tunnel[i].state # "Failed", tunnel'[i].state = "Failed"
  PROVE  TestTunnels
<1>1. tunnel \in [Known -> TunnelRecords] /\ tunnel[i] \in TunnelRecords
  BY LenProperties DEF IInv, Typed, Known
<1>2. ASSUME NEW j \in Known, ReplyAccepts(j) \/ ReplyDeclines(j) \/ HandleTunnelDataMsg(j)
      PROVE  FALSE
  <2>1. CASE i = j
    BY <1>1, <1>2, <2>1 DEF ReplyAccepts, ReplyDeclines, HandleTunnelDataMsg, TunnelRecords
  <2>2. CASE i # j
    BY <1>1, <1>2, <2>2 DEF ReplyAccepts, ReplyDeclines, HandleTunnelDataMsg
  <2> QED BY <2>1, <2>2
<1>3. ASSUME NEW t \in pool.tests, ProcessDeliveryStatus(t) PROVE FALSE
  <2>1. tunnel'[i] = [tunnel[i] EXCEPT !.state = Restored(t, i)]
    BY <1>3 DEF ProcessDeliveryStatus
  <2> QED BY <1>1, <2>1 DEF Restored, TunnelRecords
<1>4. CASE ManagePendingTunnels
  <2>1. tunnel'[i] = [tunnel[i] EXCEPT !.pending = StaysPending(i)]
    BY <1>4 DEF ManagePendingTunnels
  <2> QED BY <1>1, <2>1 DEF TunnelRecords
<1>5. ASSUME NEW kind \in Kinds, ManageTunnels(kind) PROVE FALSE
  BY <1>5, ManageTunnelsFacts, ManagedFacts DEF IInv
<1>6. CASE CreateTunnels
  BY <1>6, CreateTunnelsFacts
<1>7. CASE DetachInbound \/ DetachOutbound
  BY <1>7, DetachedFacts DEF DetachInbound, DetachOutbound, Kinds
<1> QED BY <1>2, <1>3, <1>4, <1>5, <1>6, <1>7
        DEF TunnelsNext, TunnelCreated, TooLate, SkipPool, Stop, Start, TunnelsTick

\* A tunnel that fails while its destination runs is not in the LeaseSet that TestTunnels
\* leaves: the one made anew, or the old one when only outbound tunnels failed.
THEOREM FailedIsNotInLeaseSet ==
  ASSUME NaturalConstants
  PROVE  TunnelsSpec => FailureLeavesLeaseSet
<1> DEFINE Leaves ==
      HasDestination =>
        \A i \in Known : ~(tunnel[i].state # "Failed" /\ tunnel'[i].state = "Failed" /\ i \in leaseSet')
<1>1. IInv /\ [TunnelsNext]_tunnelsVars => [Leaves]_tunnelsVars
  <2> SUFFICES ASSUME IInv, TunnelsNext, HasDestination, NEW i \in Known,
                      tunnel[i].state # "Failed", tunnel'[i].state = "Failed", i \in leaseSet'
               PROVE  FALSE
    OBVIOUS
  <2>1. TestTunnels
    BY OnlyTestsFail
  <2>2. tunnel'[i] = [tunnel[i] EXCEPT !.state = Tested[i]] /\ tunnel[i] \in TunnelRecords
    BY <2>1, TunnelRecordOf DEF TestTunnels, IInv
  <2>3. Tested[i] = "Failed"
    BY <2>2 DEF TunnelRecords
  <2>4. i \in Failing
    BY <2>3 DEF Failing, Tested, Known, NoTunnel
  <2>5. leaseSet' \in NewLeaseSets(Remaining("in"))
    BY <2>1 DEF TestTunnels
  <2>6. CASE \A j \in Failing : tunnel[j].kind # "in"
    <3>1. leaseSet' = leaseSet
      BY <2>5, <2>6 DEF NewLeaseSets
    <3> QED BY <2>4, <2>6, <3>1 DEF IInv, Refers
  <2>7. CASE ~ \A j \in Failing : tunnel[j].kind # "in"
    <3>1. leaseSet' \subseteq Remaining("in")
      BY <2>5, <2>7 DEF NewLeaseSets, LeaseTunnels
    <3> QED BY <2>4, <3>1 DEF Remaining
  <2> QED BY <2>6, <2>7
<1> QED BY <1>1, InitIInv, NextKeepsIInv, PTL DEF TunnelsSpec, FailureLeavesLeaseSet

=============================================================================
