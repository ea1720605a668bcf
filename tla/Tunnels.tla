------------------------------ MODULE Tunnels ------------------------------
(***************************************************************************)
(* The life of the tunnels of one destination: they are requested, built,   *)
(* put in the destination's pool, tested in pairs, made again before they   *)
(* expire and forgotten (libdotnet/Tunnel.cpp, libdotnet/TunnelPool.cpp).   *)
(*                                                                         *)
(* All of it runs on the thread of Tunnels::Run, which handles messages or  *)
(* goes through the parts of ManageTunnels, while the destination's owner   *)
(* stops and starts the pool from another thread: steps end where that      *)
(* thread can come in between.  Build replies and test answers come late,   *)
(* again, or never.  Tunnels are numbered in the order of their creation;   *)
(* time is counted in the intervals of ManageTunnels.  The router's own     *)
(* tunnels only help to build others: whether there is one is left open.    *)
(*                                                                         *)
(* Operators whose names end in _Broken are variants with a plausible bug.  *)
(***************************************************************************)
EXTENDS Integers, Sequences, FiniteSets

CONSTANTS
  NumTunnels,       \* m_NumInboundTunnels and m_NumOutboundTunnels
  CreationTimeout,  \* TUNNEL_CREATION_TIMEOUT
  Expiration,       \* TUNNEL_EXPIRATION_TIMEOUT
  Recreation,       \* TUNNEL_RECREATION_THRESHOLD
  Threshold,        \* TUNNEL_EXPIRATION_THRESHOLD
  MaxTunnels,       \* bound on the tunnels that are requested
  MaxTime           \* bound on the clock

\* All are natural numbers, and Threshold <= Recreation <= Expiration.

VARIABLES
  now,
  lastTs,    \* when ManageTunnels ran last
  phase,     \* what the thread of Tunnels::Run does next
  owner,     \* how far Stop has got: "running", "detachIn", "detachOut", "stopped"
  tunnel,    \* all tunnels that were ever requested
  pool,      \* m_IsActive, m_InboundTunnels, m_OutboundTunnels, m_Tests
  leaseSet,  \* tunnels in the destination's LeaseSet
  misses     \* history: the tests each tunnel has missed in a row

tunnelsVars == <<now, lastTs, phase, owner, tunnel, pool, leaseSet, misses>>

Kinds  == {"in", "out"}
TunnelIds    == 1 .. MaxTunnels
NoTunnel == 0

Doing(part) == [part |-> part, tunnel |-> NoTunnel]
Idle == Doing("messages")   \* waits for messages

\* The order of the parts of ManageTunnels.
After_Broken ==   \* the pools come first
  [pending |-> "create", create |-> "test", test |-> "in", in |-> "out", out |-> "messages"]

After ==
  [pending |-> "in", in |-> "out", out |-> "create", create |-> "test", test |-> "messages"]

HasDestination == owner = "running"   \* m_LocalDestination

----------------------------------------------------------------------------
(* Tunnels.                                                                  *)

\* CreateTunnel: a new tunnel is among the pending ones, and Build has sent its request.
NewTunnel(kind) ==
  [ kind      |-> kind,
    state     |-> "Pending",
    created   |-> now,
    attached  |-> TRUE,    \* m_Pool is the pool
    recreated |-> FALSE,
    pending   |-> TRUE,    \* in m_PendingInboundTunnels or m_PendingOutboundTunnels
    listed    |-> 0 ]      \* times in m_InboundTunnels or m_OutboundTunnels of Tunnels

NewTunnels(kind, n) == [k \in 1 .. n |-> NewTunnel(kind)]

Known == 1 .. Len(tunnel)
Lesser(m, n) == IF m < n THEN m ELSE n
IsEstablished(i) == tunnel[i].state = "Established"
Members(kind) == pool[kind]
Usable(kind) == {i \in Members(kind) : IsEstablished(i)}

\* GetInboundTunnels: the latest ones, two more than the pool should have.
LeaseTunnels(members, state) ==
  LET usable == {i \in members : state[i] = "Established"}
  IN  {i \in usable : Cardinality({j \in usable : j > i}) < NumTunnels + 2}

States == [i \in Known |-> tunnel[i].state]

----------------------------------------------------------------------------
(* Build replies.                                                            *)

\* GetPendingTunnel, HandleTunnelBuildResponse: a reply counts once.
AwaitsReply_Broken(i) == tunnel[i].pending /\ tunnel[i].state # "BuildFailed"

AwaitsReply(i) == tunnel[i].pending /\ tunnel[i].state = "Pending"

ReplyDeclines(i) ==
  /\ phase = Idle /\ AwaitsReply(i)
  /\ tunnel' = [tunnel EXCEPT ![i].state = "BuildFailed"]
  /\ UNCHANGED <<now, lastTs, phase, owner, pool, leaseSet, misses>>

\* AddInboundTunnel or AddOutboundTunnel, up to the check that the pool is active.
ReplyAccepts(i) ==
  /\ phase = Idle /\ AwaitsReply(i)
  /\ tunnel' = [tunnel EXCEPT ![i].state = "Established", ![i].listed = @ + 1,
                              ![i].attached = @ /\ pool.active]
  /\ phase' = IF tunnel[i].attached /\ pool.active
                THEN [part |-> "created", tunnel |-> i] ELSE Idle
  /\ UNCHANGED <<now, lastTs, owner, pool, leaseSet, misses>>

\* TunnelCreated looks again whether the pool is active; it may be stopped after that, too.
TooLate ==
  /\ phase.part = "created" /\ ~pool.active /\ phase' = Idle
  /\ UNCHANGED <<now, lastTs, owner, tunnel, pool, leaseSet, misses>>

TunnelCreated ==
  LET i == phase.tunnel
      members == pool[tunnel[i].kind] \cup {i}
  IN  /\ phase.part = "created" /\ phase' = Idle
      /\ pool' = [pool EXCEPT ![tunnel[i].kind] = members]
      /\ leaseSet' = IF tunnel[i].kind = "in" /\ HasDestination
                       THEN LeaseTunnels(members, States) ELSE leaseSet
      /\ UNCHANGED <<now, lastTs, owner, tunnel, misses>>

----------------------------------------------------------------------------
(* ManageTunnels, part by part.                                              *)

\* A request without an answer, and one that has been decided, are forgotten.
StaysPending(i) ==
  tunnel[i].pending /\ tunnel[i].state = "Pending" /\ now <= tunnel[i].created + CreationTimeout

ManagePendingTunnels ==
  /\ phase = Idle /\ lastTs < now
  /\ lastTs' = now /\ phase' = Doing(After["pending"])
  /\ tunnel' = [i \in Known |-> [tunnel[i] EXCEPT !.pending = StaysPending(i)]]
  /\ UNCHANGED <<now, owner, pool, leaseSet, misses>>

End(i) == tunnel[i].created + Expiration
Listed(kind) == {i \in Known : tunnel[i].kind = kind /\ tunnel[i].listed > 0}
Expired(kind) == {i \in Listed(kind) : now > End(i)}
Remade(kind) ==
  {i \in Listed(kind) \ Expired(kind) :
     IsEstablished(i) /\ ~tunnel[i].recreated /\ now + Recreation > End(i) /\ tunnel[i].attached}

\* What becomes of tunnel i.
Managed(kind, i) ==
  IF i \in Expired(kind) THEN [tunnel[i] EXCEPT !.listed = @ - 1, !.attached = FALSE]
  ELSE [tunnel[i] EXCEPT
          !.recreated = @ \/ i \in Remade(kind),
          !.state = IF i \in Listed(kind) /\ IsEstablished(i) /\ now + Threshold > End(i)
                      THEN "Expiring" ELSE @]

\* TunnelExpired, for those that still belong to the pool.
Left(tunnels) == {i \in tunnels : tunnel[i].attached}

WithoutExpired_Broken(kind) == pool   \* the pool is not told

WithoutExpired(kind) ==
  LET gone == Left(Expired(kind)) IN
  [pool EXCEPT ![kind] = @ \ gone,
               !.tests = {[t EXCEPT ![kind] = IF @ \in gone THEN NoTunnel ELSE @] : t \in @}]

\* RecreateOutboundTunnel needs an inbound tunnel for the reply, the pool's or another.
\* Requests beyond the bound are left out: to the pool they are requests without a reply.
Remakes(kind) ==
  LET all == Lesser(Cardinality(Remade(kind)), MaxTunnels - Len(tunnel))
  IN  IF kind = "in" \/ Usable("in") # {} THEN {all} ELSE {0, all}

ManageTunnels(kind) ==
  /\ phase = Doing(kind)
  /\ phase' = Doing(After[kind])
  /\ \E n \in Remakes(kind) :
       /\ tunnel' = [i \in Known |-> Managed(kind, i)] \o NewTunnels(kind, n)
       /\ misses' = misses \o [k \in 1 .. n |-> 0]
  /\ pool' = WithoutExpired(kind)
  /\ UNCHANGED <<now, lastTs, owner, leaseSet>>

\* CreateTunnels: as many requests as established tunnels are missing, if there are peers.
Wanted(kind) == {0} \cup 1 .. (NumTunnels - Cardinality(Usable(kind)))

CreateTunnels ==
  /\ phase = Doing("create") /\ pool.active
  /\ phase' = Doing(After["create"])
  /\ \E m \in Wanted("out"), n \in Wanted("in") :
       /\ Len(tunnel) + m + n <= MaxTunnels
       /\ tunnel' = tunnel \o NewTunnels("out", m) \o NewTunnels("in", n)
       /\ misses' = misses \o [k \in 1 .. (m + n) |-> 0]
  /\ UNCHANGED <<now, lastTs, owner, pool, leaseSet>>

SkipPool ==
  /\ phase = Doing("create") /\ ~pool.active
  /\ phase' = Doing(After["test"])
  /\ UNCHANGED <<now, lastTs, owner, tunnel, pool, leaseSet, misses>>

----------------------------------------------------------------------------
(* Tests.                                                                    *)

Missed == {t["in"] : t \in pool.tests} \cup {t["out"] : t \in pool.tests}

AfterMiss(state) == IF state = "TestFailed" THEN "Failed" ELSE "TestFailed"

Tested == [i \in Known |-> IF i \in Missed THEN AfterMiss(tunnel[i].state) ELSE tunnel[i].state]
Failing == {i \in Missed \ {NoTunnel} : Tested[i] = "Failed"}

\* The pool is in the order of creation times, and among equal ones in any order.
Orders(S) ==
  {f \in [1 .. Cardinality(S) -> S] :
     \A j, k \in 1 .. Cardinality(S) : j < k =>
       f[j] # f[k] /\ tunnel[f[j]].created >= tunnel[f[k]].created}

\* The first outbound tunnel with the first inbound one, and so on.
Pairs(f, g) ==
  {[out |-> f[k], in |-> g[k]] : k \in 1 .. Lesser(Cardinality(DOMAIN f), Cardinality(DOMAIN g))}

Remaining(kind) == pool[kind] \ Failing

\* While tests are gone through, the LeaseSet is made anew for each inbound tunnel that
\* fails: tunnels whose first miss comes later may still be in it.
NewLeaseSets_Broken(kept) == {leaseSet}   \* the LeaseSet stays

NewLeaseSets(kept) ==
  IF ~HasDestination \/ \A i \in Failing : tunnel[i].kind # "in" THEN {leaseSet}
  ELSE {LeaseTunnels(kept, [i \in Known |-> IF i \in later THEN States[i] ELSE Tested[i]])
          : later \in SUBSET {i \in Missed \ {NoTunnel} : Tested[i] = "TestFailed"}}

TestTunnels ==
  /\ phase = Doing("test") /\ phase' = Doing(After["test"])
  /\ tunnel' = [i \in Known |-> [tunnel[i] EXCEPT !.state = Tested[i]]]
  /\ misses' = [i \in Known |-> IF i \in Missed THEN misses[i] + 1 ELSE misses[i]]
  /\ leaseSet' \in NewLeaseSets(Remaining("in"))
  /\ \E f \in Orders(Remaining("out")), g \in Orders(Remaining("in")) :
       pool' = [pool EXCEPT !["in"] = Remaining("in"), !["out"] = Remaining("out"),
                            !.tests = Pairs(f, g)]
  /\ UNCHANGED <<now, lastTs, owner>>

\* ProcessDeliveryStatus.  The answer comes through the inbound tunnel of the test, which
\* must still have its pool.
CanAnswer(t) ==
  /\ phase = Idle /\ t["in"] # NoTunnel
  /\ tunnel[t["in"]].listed > 0 /\ tunnel[t["in"]].attached

Restored_Broken(t, i) ==   \* only the outbound tunnel
  IF i = t["out"] /\ tunnel[i].state = "TestFailed" THEN "Established" ELSE tunnel[i].state

Restored(t, i) ==
  IF i \in {t["in"], t["out"]} /\ tunnel[i].state = "TestFailed"
    THEN "Established" ELSE tunnel[i].state

ProcessDeliveryStatus(t) ==
  /\ CanAnswer(t) /\ t["out"] # NoTunnel   \* test.first is dereferenced
  /\ tunnel' = [i \in Known |-> [tunnel[i] EXCEPT !.state = Restored(t, i)]]
  /\ misses' = [i \in Known |-> IF i \in {t["in"], t["out"]} THEN 0 ELSE misses[i]]
  /\ pool' = [pool EXCEPT !.tests = @ \ {t}]
  /\ UNCHANGED <<now, lastTs, phase, owner, leaseSet>>

\* A message that comes through a failed tunnel shows that it is alive.
HandleTunnelDataMsg(i) ==
  /\ phase = Idle /\ i \in Listed("in") /\ tunnel[i].state = "Failed"
  /\ tunnel' = [tunnel EXCEPT ![i].state = "Established"]
  /\ misses' = [misses EXCEPT ![i] = 0]
  /\ UNCHANGED <<now, lastTs, phase, owner, pool, leaseSet>>

----------------------------------------------------------------------------
(* The destination, on its owner's thread: SetLocalDestination and SetActive, *)
(* then DetachTunnels, whose two parts have a mutex each.                     *)

Stop ==
  /\ owner = "running" /\ owner' = "detachIn"
  /\ pool' = [pool EXCEPT !.active = FALSE]
  /\ UNCHANGED <<now, lastTs, phase, tunnel, leaseSet, misses>>

Detached(kind) ==
  [i \in Known |-> [tunnel[i] EXCEPT !.attached = @ /\ i \notin pool[kind]]]

DetachInbound ==
  /\ owner = "detachIn" /\ owner' = "detachOut"
  /\ tunnel' = Detached("in")
  /\ pool' = [pool EXCEPT !["in"] = {}]
  /\ UNCHANGED <<now, lastTs, phase, leaseSet, misses>>

DetachOutbound ==
  /\ owner = "detachOut" /\ owner' = "stopped"
  /\ tunnel' = Detached("out")
  /\ pool' = [pool EXCEPT !["out"] = {}, !.tests = {}]
  /\ UNCHANGED <<now, lastTs, phase, leaseSet, misses>>

Start ==
  /\ owner = "stopped" /\ owner' = "running"
  /\ pool' = [pool EXCEPT !.active = TRUE]
  /\ UNCHANGED <<now, lastTs, phase, tunnel, leaseSet, misses>>

TunnelsTick ==
  /\ phase = Idle /\ now < MaxTime /\ now' = now + 1
  /\ UNCHANGED <<lastTs, phase, owner, tunnel, pool, leaseSet, misses>>

----------------------------------------------------------------------------

TunnelsInit ==
  /\ now = 1 /\ lastTs = 0 /\ phase = Idle /\ owner = "running"
  /\ tunnel = << >> /\ misses = << >> /\ leaseSet = {}
  /\ pool = [active |-> TRUE, in |-> {}, out |-> {}, tests |-> {}]

TunnelsNext ==
  \/ \E i \in Known : ReplyAccepts(i) \/ ReplyDeclines(i) \/ HandleTunnelDataMsg(i)
  \/ \E t \in pool.tests : ProcessDeliveryStatus(t)
  \/ TunnelCreated \/ TooLate
  \/ ManagePendingTunnels
  \/ \E kind \in Kinds : ManageTunnels(kind)
  \/ CreateTunnels \/ SkipPool \/ TestTunnels
  \/ Stop \/ DetachInbound \/ DetachOutbound \/ Start
  \/ TunnelsTick

TunnelsSpec == TunnelsInit /\ [][TunnelsNext]_tunnelsVars

----------------------------------------------------------------------------
(* Properties.                                                               *)

TunnelStates == {"Pending", "BuildFailed", "Established", "TestFailed", "Failed", "Expiring"}

\* Every tunnel is in one of its states, and its pool holds tunnels that were requested.
\* m_InboundTunnels and m_OutboundTunnels of Tunnels list it at most once, however often its
\* build reply arrives (GetPendingTunnel).
TunnelsTypeOK ==
  /\ lastTs <= now /\ now \in 1 .. MaxTime
  /\ owner \in {"running", "detachIn", "detachOut", "stopped"}
  /\ \A i \in Known : tunnel[i].state \in TunnelStates /\ tunnel[i].listed \in 0 .. 1
  /\ \A kind \in Kinds : pool[kind] \subseteq {i \in Known : tunnel[i].kind = kind}
  /\ Len(misses) = Len(tunnel) /\ leaseSet \subseteq Known

\* What a pool offers to its destination is not expired and has not failed: between two
\* messages every member is listed by Tunnels, belongs to the pool and is not Failed, although
\* tunnels join by late replies, leave at their end or after two misses, and are detached on
\* another thread.
MembersAreAlive ==
  phase = Idle =>
    \A i \in Members("in") \cup Members("out") :
      tunnel[i].listed > 0 /\ tunnel[i].attached /\ tunnel[i].state # "Failed"

\* A tunnel fails only when it missed two tests in a row ("if test failed again with another
\* tunnel we consider it failed"): an answer in between, even a late one, clears both tunnels
\* of its test.
TwoMissesToFail == \A i \in Known : tunnel[i].state = "Failed" => misses[i] >= 2

\* An answer finds both tunnels of its test: TunnelExpired leaves a hole in m_Tests when the
\* outbound one ends first, and ProcessDeliveryStatus dereferences it; ManageTunnels drops
\* such tests before the next message, as long as the pool is active.
AnswerFindsTunnels ==
  owner = "running" => \A t \in pool.tests : CanAnswer(t) => t["out"] # NoTunnel

PoolIsSound == MembersAreAlive /\ TwoMissesToFail /\ AnswerFindsTunnels

\* A tunnel that fails while the destination runs leaves its LeaseSet at once, whichever of
\* the tests that were missed together is gone through first.
FailureLeavesLeaseSet ==
  [][HasDestination =>
       \A i \in Known : ~(tunnel[i].state # "Failed" /\ tunnel'[i].state = "Failed" /\ i \in leaseSet')]_tunnelsVars
=============================================================================
