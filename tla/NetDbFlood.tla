----------------------------- MODULE NetDbFlood -----------------------------
(***************************************************************************)
(* Floodfills that store, flood and look up what routers and destinations    *)
(* publish: the handlers of NetDb for DatabaseStore and DatabaseLookup       *)
(* messages (libdotnet/NetDb.cpp), run by several floodfills at once.        *)
(*                                                                         *)
(* One key is published, of a router or of a destination.  Messages between  *)
(* floodfills may be delayed, reordered and lost.                            *)
(***************************************************************************)
EXTENDS Integers, SequencesExt, FiniteSetsExt

CONSTANTS
  Nodes,       \* floodfills, numbers: in the order of their distance from the key
  Kinds,       \* store types under which the key is published
  MaxTime,     \* bound on the clock
  MaxPublished \* bound on the publications

KindsOfCode == {"RouterInfo", "LeaseSet", "LeaseSet2"}

VARIABLES
  stored,      \* what each node has under the key: m_LeaseSets or m_RouterInfos
  net,         \* messages on their way
  published,   \* what has been published
  lost,        \* history: some message was lost, or what was stored has expired
  now

vars == <<stored, net, published, lost, now>>

Nothing == [kind |-> "none", time |-> 0]

\* time: the publication, or the expiration that goes with it.  hops counts how often it has
\* been flooded (history).
Store(to, entry, hasToken, hops, isDirect) ==
  [to |-> to, entry |-> entry, token |-> hasToken, hops |-> hops, direct |-> isDirect]

----------------------------------------------------------------------------
(* Storing.                                                                  *)

\* AddLeaseSet: compared with another LeaseSet only.
UpdatesLeaseSet(old, new) == old.kind = "LeaseSet" => old.time < new.time

UpdatesLeaseSet_Broken(old, new) == TRUE   \* what is there is not looked at

\* AddLeaseSet2.
UpdatesLeaseSet2(old, new) == old.kind = new.kind => new.time > old.time

\* AddRouterInfo, see module NetDb.
UpdatesRouterInfo(old, new) == old # Nothing => new.time > old.time

IsUpdate(old, new) ==
  CASE new.kind = "RouterInfo" -> UpdatesRouterInfo(old, new)
    [] new.kind = "LeaseSet"   -> UpdatesLeaseSet(old, new)
    [] OTHER                   -> UpdatesLeaseSet2(old, new)

----------------------------------------------------------------------------
(* Flooding.                                                                 *)

Closest(set, num) == {n \in set : Cardinality({m \in set : m < n}) < num}

FloodMsg_Broken(to, entry, m) == Store(to, entry, m.token, m.hops + 1, TRUE)   \* it keeps the token

\* Flood: to three others.  A flooded message has no reply token.
FloodMsg(to, entry, m) == Store(to, entry, FALSE, m.hops + 1, TRUE)

Flood(n, m) == {FloodMsg(to, m.entry, m) : to \in Closest(Nodes \ {n}, 3)}

\* HandleDatabaseStoreMsg.  A lease set that comes out of a tunnel is not stored.
HandleDatabaseStore(m) ==
  LET n == m.to
      updated == /\ m.entry.kind # "RouterInfo" => m.direct
                 /\ IsUpdate(stored[n], m.entry)
  IN  /\ m \in net
      /\ stored' = IF updated THEN [stored EXCEPT ![n] = m.entry] ELSE stored
      /\ net' = (net \ {m}) \cup (IF m.token /\ updated THEN Flood(n, m) ELSE {})
      /\ UNCHANGED <<published, lost, now>>

\* HandleNTCP2RouterInfoMsg: the flag of the frame stands for the token.
HandleNTCP2RouterInfo(n) ==
  \E entry \in published :
    LET m == Store(n, entry, TRUE, 0, TRUE)
    IN  /\ entry.kind = "RouterInfo" /\ IsUpdate(stored[n], entry)
        /\ stored' = [stored EXCEPT ![n] = entry]
        /\ net' = net \cup Flood(n, m)
        /\ UNCHANGED <<published, lost, now>>

----------------------------------------------------------------------------
(* The owner of the key and the network.                                     *)

\* Every publication is newer than the one before.
Publish ==
  \E n \in Nodes, kind \in Kinds, isDirect \in BOOLEAN :
    LET entry == [kind |-> kind, time |-> Cardinality(published) + 1]
    IN  /\ Cardinality(published) < MaxPublished
        /\ published' = published \cup {entry}
        /\ net' = net \cup {Store(n, entry, TRUE, 0, isDirect)}
        /\ lost' = (lost \/ ~isDirect)
        /\ UNCHANGED <<stored, now>>

Lose(m) ==
  /\ m \in net /\ net' = net \ {m} /\ lost' = TRUE
  /\ UNCHANGED <<stored, published, now>>

----------------------------------------------------------------------------
(* Time and lookups.                                                         *)

\* A lease set lives for Lifetime; ManageLeaseSets drops it earlier than IsExpired.
Lifetime == 2
ExpirationTime(entry) == entry.time + Lifetime
IsExpired(entry) == now > ExpirationTime(entry)

ManageLeaseSets(n) ==
  /\ stored[n].kind \in {"LeaseSet", "LeaseSet2"} /\ now >= ExpirationTime(stored[n])
  /\ stored' = [stored EXCEPT ![n] = Nothing] /\ lost' = TRUE
  /\ UNCHANGED <<net, published, now>>

Tick ==
  /\ now < MaxTime /\ now' = now + 1
  /\ UNCHANGED <<stored, net, published, lost>>

\* GetClosestFloodfills: the num closest that are closer than we are, without the excluded.
ClosestFloodfills(n, num, excluded) == Closest({m \in Nodes : m < n}, num) \ excluded

\* HandleDatabaseLookupMsg: what is stored and has not expired, or who is closer.
Reply(n, excluded) ==
  IF stored[n] # Nothing /\ (stored[n].kind # "RouterInfo" => ~IsExpired(stored[n]))
    THEN [entry |-> stored[n], closer |-> {}]
    ELSE [entry |-> Nothing, closer |-> ClosestFloodfills(n, 3, excluded)]

----------------------------------------------------------------------------
Init ==
  /\ stored = [n \in Nodes |-> Nothing] /\ net = {} /\ published = {}
  /\ lost = FALSE /\ now = 0

Next ==
  \/ Publish \/ Tick
  \/ \E m \in net : HandleDatabaseStore(m) \/ Lose(m)
  \/ \E n \in Nodes : HandleNTCP2RouterInfo(n) \/ ManageLeaseSets(n)

Spec == Init /\ [][Next]_vars

----------------------------------------------------------------------------
(* Flooding ends: a node that has been flooded does not flood, and so a         *)
(* publication costs a message per floodfill and not per pair of them, whatever *)
(* order the copies come in.                                                   *)
FloodIsOneHop == \A m \in net : m.hops <= 1

(* When everything has arrived, in whatever order, all floodfills have the     *)
(* latest publication, also when two have been stored at different floodfills  *)
(* and their floods have crossed: under one store type, if nothing was lost.   *)
CrossedFloodsAgree ==
  (net = {} /\ ~lost /\ published # {}) =>
     \A n \in Nodes : \A entry \in published : stored[n].time >= entry.time

(* Following the replies of floodfills, one comes closer to the key with every *)
(* lookup, or to what is stored.                                               *)
RepliesComeCloser ==
  \A n \in Nodes, excluded \in SUBSET Nodes :
    \A m \in Reply(n, excluded).closer : m < n /\ m \notin excluded
=============================================================================
