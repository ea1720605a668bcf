----------------------------- MODULE RemoteLeases -----------------------------
(***************************************************************************)
(* The lease through which a stream reaches its peer: LeaseSet objects        *)
(* (libdotnet/LeaseSet.cpp) that a destination updates in place when a store    *)
(* arrives, the streams that hold one of them and one of its leases, and the    *)
(* routing path that the streams to one peer share (Garlic.cpp).               *)
(*                                                                         *)
(* The clock counts LEASE_ENDDATE_THRESHOLD, 51 s.  Stores of whatever the       *)
(* peer has made arrive late, again or never.  Encrypted lease sets are left out,  *)
(* and those that the network database has when the router is a floodfill.      *)
(***************************************************************************)
EXTENDS Integers, Sequences, FiniteSetsExt

CONSTANTS
  Tunnels,    \* the peer's inbound tunnels: numbers from 1
  End,        \* when the lease of each ends
  Gateway,    \* its gateway
  Kinds,      \* of lease sets: "ls1", "ls2"
  Streams,    \* to the one peer
  MaxTime, MaxMade, MaxObjects   \* bounds

VARIABLES
  kind,   \* of the peer's lease sets
  now,
  made,   \* the lease sets that the peer has made: [tunnels, time: drift of the end dates]
  dest,   \* the destination: its objects, its table, its streams
  sent    \* the lease to which the last step has sent

vars == <<kind, now, made, dest, sent>>

None == 0
Garbage == 0      \* what an LS2 holds that was read as an LS1
Never == MaxTime + 2
EndOf(t) == IF t = Garbage THEN Never ELSE End[t]

\* valid: endDate is not 0.
Lease(o, t) == [object |-> o, tunnel |-> t, valid |-> TRUE]
NoLease == [object |-> None, tunnel |-> Garbage, valid |-> FALSE]

----------------------------------------------------------------------------
(* Lease sets.                                                              *)

\* ExtractTimestamp.  LocalLeaseSet adds a millisecond to the end dates for each 330 that the tunnel is old,
\* so that a set with the same earliest tunnel is newer unless it is made at once.
Timestamp(v) ==
  LET ends == {End[t] : t \in made[v].tunnels}
  IN  IF kind = "ls1" THEN (MaxMade + 1) * Min(ends) + made[v].time ELSE Max(ends)
IsNewer(v, w) == Timestamp(v) > Timestamp(w)

Kept(v) == {t \in made[v].tunnels : now < End[t] + 1}
ExpirationTime(v) ==
  IF kind # "ls1" THEN Max({End[t] : t \in made[v].tunnels})
  ELSE IF Kept(v) = {} THEN 0 ELSE Max({End[t] : t \in Kept(v)}) + 1
IsValid(v) == kind # "ls1" \/ Kept(v) # {}
NewObject(v) == [version |-> v, leases |-> Kept(v), expires |-> ExpirationTime(v), valid |-> TRUE]

\* UpdateLeasesEnd: "somebody might still hold it".
Zeroed_Broken(l, o, leases) == l   \* only erased
Zeroed(l, o, leases) ==
  IF l.object = o /\ l.tunnel \notin leases THEN [l EXCEPT !.valid = FALSE] ELSE l
WithLeases(d, o, leases, expires) ==
  [d EXCEPT !.object[o].leases = leases, !.object[o].expires = expires,
            !.path.lease = Zeroed(@, o, leases),
            !.stream = [s \in Streams |-> [@[s] EXCEPT !.lease = Zeroed(@, o, leases)]]]

\* An LS1 whose leases are all over keeps the old ones, but no time of expiration, and is never valid again.
AllOver(d, o) == [d EXCEPT !.object[o].expires = 0, !.object[o].valid = FALSE]

\* ReadFromBuffer of what Update has copied; that of an LS2 sets anew whether it is valid.
Update(d, o, v) ==
  LET read == [d EXCEPT !.object[o].version = v, !.object[o].valid = @ \/ kind # "ls1"]
  IN  IF IsValid(v) THEN WithLeases(read, o, Kept(v), ExpirationTime(v)) ELSE AllOver(read, o)

\* PopulateLeases, which reads an LS2 as an LS1: mostly there is no sensible number of leases
\* at that place, sometimes there is, and then what it takes for leases may be over or not.
PopulateLeases(d, o) ==
  LET spoiled == [d EXCEPT !.object[o].valid = FALSE]
  IN  IF kind = "ls1" THEN {Update(d, o, d.object[o].version)}
      ELSE {spoiled, AllOver(d, o), WithLeases(spoiled, o, {Garbage}, Never)}

IsExpired(d, o) == d.object[o].leases = {} \/ now > d.object[o].expires
ExpiresSoon(d, o) == now >= d.object[o].expires
NonExpired(d, o, threshold) == {t \in d.object[o].leases : now < EndOf(t) + threshold}

----------------------------------------------------------------------------
(* The destination's table of remote lease sets.                            *)

NumObjects(d) == Cardinality({o \in 1..MaxObjects : d.object[o].version # 0})
Add(d, v) ==
  LET o == NumObjects(d) + 1
  IN  [d EXCEPT !.object[o] = NewObject(v), !.table = o]

\* HandleDatabaseStoreMessage.
Stored(d, v) ==
  IF d.table = None THEN IF IsValid(v) THEN Add(d, v) ELSE d
  ELSE IF ~IsNewer(v, d.object[d.table].version) THEN d
  ELSE LET u == Update(d, d.table, v) IN IF u.object[u.table].valid THEN u ELSE [u EXCEPT !.table = None]

\* The stream is there, with the set that it was created with if any.
WithSet(d, s, set) == [d EXCEPT !.stream[s].at = "open", !.stream[s].set = set]
\* The callbacks of those who wait to create one.
Answered(d, set) ==
  [d EXCEPT !.asked = {},
            !.stream = [s \in Streams |-> IF d.stream[s].at # "asked" THEN @[s]
                                          ELSE IF set = None THEN [@[s] EXCEPT !.at = "none"]
                                          ELSE WithSet(d, s, set).stream[s]]]

\* The request ends.  Among its callbacks is that of FindLeaseSet if that has asked.
Completed(d) ==
  LET told == Answered(d, d.table)
  IN  IF "soon" \in d.asked /\ d.table # None /\ ~IsExpired(d, d.table)
      THEN PopulateLeases(told, d.table) ELSE {told}

HandleDatabaseStoreMessage(v) ==
  /\ dest.table = None => NumObjects(dest) < MaxObjects
  /\ dest' \in Completed(Stored(dest, v))
  /\ sent' = NoLease /\ UNCHANGED <<kind, now, made>>

\* It is told that there is none.
RequestFails ==
  /\ dest.asked # {} /\ dest' = Answered(dest, None)
  /\ sent' = NoLease /\ UNCHANGED <<kind, now, made>>

\* FindLeaseSet for stream s.
Found(d, s) ==
  IF d.table = None THEN [d EXCEPT !.stream[s].set = None]
  ELSE IF IsExpired(d, d.table) THEN [d EXCEPT !.stream[s].set = None, !.table = None]
  ELSE [d EXCEPT !.stream[s].set = d.table,
                 !.asked = IF ExpiresSoon(d, d.table) THEN @ \cup {"hash", "soon"} ELSE @]

CleanupRemoteLeaseSets ==
  /\ dest.table # None /\ IsExpired(dest, dest.table)
  /\ dest' = [dest EXCEPT !.table = None]
  /\ sent' = NoLease /\ UNCHANGED <<kind, now, made>>

----------------------------------------------------------------------------
(* A stream.  These operators give the states to which the code may come.    *)

\* "make sure we don't select previous": of another tunnel if there is one, and one with the same
\* gateway when the old lease is over.
Picked(old, leases, expired) ==
  LET near == {t \in leases : t # Garbage /\ Gateway[t] = Gateway[old.tunnel] /\ t # old.tunnel}
      other == leases \ {old.tunnel}
  IN  IF expired /\ old.object # None /\ old.tunnel # Garbage /\ near # {} THEN near
      ELSE IF old.object # None /\ other # {} THEN other ELSE leases

RequestDestination(d) == [d EXCEPT !.asked = @ \cup {"hash"}]

FoundIfExpired(d, s) ==
  LET set == d.stream[s].set
      f == Found(d, s)
  IN  IF set # None /\ ~IsExpired(d, set) THEN d
      ELSE IF f.stream[s].set = None THEN RequestDestination(f) ELSE f

UpdateCurrentRemoteLease(d, s, expired) ==
  LET f == FoundIfExpired(d, s)
      set == f.stream[s].set
      before == NonExpired(f, set, -1)
      leases == IF before # {} THEN before ELSE NonExpired(f, set, 1)
      a == IF before # {} THEN f ELSE RequestDestination(f)
  IN  IF set = None THEN {[f EXCEPT !.stream[s].lease = NoLease]}
      ELSE IF leases = {} THEN {[a EXCEPT !.stream[s].set = None, !.stream[s].lease = NoLease]}
      ELSE {[a EXCEPT !.stream[s].lease = Lease(set, t)] :
              t \in Picked(f.stream[s].lease, leases, expired /\ before # {})}

SetSharedRoutingPath(d, l) == [d EXCEPT !.path = [lease |-> l, old |-> FALSE]]

\* GetSharedRoutingPath: none, or one that was used too often or whose tunnel is no more.
WithPath(d, s) ==
  LET l == d.path.lease
  IN  IF d.stream[s].tunnel \/ l = NoLease THEN {d}
      ELSE {SetSharedRoutingPath(d, NoLease)} \cup
           (IF l.valid /\ now <= EndOf(l.tunnel)
            THEN {[d EXCEPT !.stream[s].lease = l, !.stream[s].tunnel = TRUE]} ELSE {})

\* A lease that is there, is listed, and is not about to end.
IsGood(l) == l # NoLease /\ l.valid /\ now < EndOf(l.tunnel) - 1

\* SendPackets, once there is an outbound tunnel: what it sends to, if to anything.
SentTo(d, s) ==
  LET l == d.stream[s].lease
  IN  IF l # NoLease /\ l.valid /\ now < EndOf(l.tunnel) + 1
      THEN [dest |-> [d EXCEPT !.stream[s].first = IF @ = "unsent" THEN "sent" ELSE @], sent |-> l]
      ELSE [dest |-> SetSharedRoutingPath(d, NoLease), sent |-> NoLease]

SendPackets(d, s) ==
  LET known == IF d.stream[s].set = None THEN UpdateCurrentRemoteLease(d, s, FALSE) ELSE {d}
      ready == UNION {WithPath(k, s) : k \in {k \in known : k.stream[s].set # None}}
      chosen == UNION {IF IsGood(r.stream[s].lease) THEN {r} ELSE UpdateCurrentRemoteLease(r, s, TRUE) :
                         r \in {[r EXCEPT !.stream[s].tunnel = TRUE] : r \in ready}}
  IN  {[dest |-> k, sent |-> NoLease] : k \in {k \in known : k.stream[s].set = None}}
      \cup {[dest |-> [r EXCEPT !.stream[s].tunnel = FALSE], sent |-> NoLease] : r \in ready}  \* none in the pool
      \cup {SentTo(c, s) : c \in chosen}

Sends(d, s) ==
  /\ dest.stream[s].at = "open"
  /\ \E r \in SendPackets(d, s) : dest' = r.dest /\ sent' = r.sent
  /\ UNCHANGED <<kind, now, made>>

Send(s) == Sends(dest, s)

\* HandleResendTimer: the second and the fourth attempt, and the third.
ResendByAnotherLease(s) ==
  \E d \in UpdateCurrentRemoteLease(SetSharedRoutingPath(dest, NoLease), s, FALSE) : Sends(d, s)
ResendByAnotherTunnel(s) ==
  \E tunnel \in BOOLEAN : Sends([SetSharedRoutingPath(dest, NoLease) EXCEPT !.stream[s].tunnel = tunnel], s)

\* SendUpdatedLeaseSet and HandleAckSendTimer, when the own lease set was not confirmed.
Forget(d, s) == [d EXCEPT !.stream[s].lease = NoLease, !.stream[s].tunnel = FALSE]
SendUpdatedLeaseSet(s) == Sends(Forget(SetSharedRoutingPath(dest, NoLease), s), s)
SendAck(s) == Sends(Forget(dest, s), s)

\* ProcessAck of the first packet shares the path, if the stream has one at the time.
FirstIsConfirmed(s) ==
  /\ dest.stream[s].first = "sent"
  /\ LET shared == SetSharedRoutingPath(dest, IF dest.stream[s].tunnel THEN dest.stream[s].lease ELSE NoLease)
     IN  dest' = [shared EXCEPT !.stream[s].first = "confirmed"]
  /\ sent' = NoLease /\ UNCHANGED <<kind, now, made>>

\* The peer has opened it: who it is is known, but not where.
Accept(s) ==
  /\ dest.stream[s].at = "none"
  /\ dest' = WithSet(dest, s, None)
  /\ sent' = NoLease /\ UNCHANGED <<kind, now, made>>

CreateStream(s) ==
  /\ dest.stream[s].at = "none"
  /\ LET f == Found(dest, s)
     IN  dest' = IF f.stream[s].set = None THEN [RequestDestination(f) EXCEPT !.stream[s].at = "asked"]
                 ELSE WithSet(f, s, f.stream[s].set)
  /\ sent' = NoLease /\ UNCHANGED <<kind, now, made>>

----------------------------------------------------------------------------
(* The peer and the clock.                                                  *)

\* LocalLeaseSet and LocalLeaseSet2 of the tunnels that work at the time.
Make(tunnels) ==
  /\ Len(made) < MaxMade /\ tunnels # {}
  /\ \E time \in IF made = <<>> THEN {0} ELSE LET last == made[Len(made)].time IN {last, last + 1} :
       made' = Append(made, [tunnels |-> tunnels, time |-> time])
  /\ sent' = NoLease /\ UNCHANGED <<kind, now, dest>>

\* A path expires after 30 s: it may live to see one tick.
Tick ==
  /\ now < MaxTime /\ now' = now + 1
  /\ dest' = [dest EXCEPT !.path = IF @.old \/ @.lease = NoLease THEN [lease |-> NoLease, old |-> FALSE]
                                   ELSE [@ EXCEPT !.old = TRUE]]
  /\ sent' = NoLease /\ UNCHANGED <<kind, made>>

----------------------------------------------------------------------------
Init ==
  /\ kind \in Kinds /\ now = 0 /\ made = <<>> /\ sent = NoLease
  /\ dest = [object |-> [o \in 1..MaxObjects |-> [version |-> 0, leases |-> {}, expires |-> 0, valid |-> FALSE]],
             table |-> None, asked |-> {}, path |-> [lease |-> NoLease, old |-> FALSE],
             stream |-> [s \in Streams |-> [at |-> "none", set |-> None, lease |-> NoLease, tunnel |-> FALSE,
                                            first |-> "unsent"]]]

Next ==
  \/ \E tunnels \in SUBSET {t \in Tunnels : now < End[t]} : Make(tunnels)
  \/ \E v \in DOMAIN made : HandleDatabaseStoreMessage(v)
  \/ RequestFails \/ CleanupRemoteLeaseSets \/ Tick
  \/ \E s \in Streams : \/ Send(s) \/ ResendByAnotherLease(s) \/ ResendByAnotherTunnel(s)
                        \/ SendUpdatedLeaseSet(s) \/ SendAck(s) \/ FirstIsConfirmed(s)
                        \/ Accept(s) \/ CreateStream(s)

Spec == Init /\ [][Next]_vars

----------------------------------------------------------------------------
(* A stream sends only to tunnels that the set from which it has its lease      *)
(* lists, whatever the set was updated with since, and whether the lease was     *)
(* chosen by the stream or came with the path of another (unless the set is an    *)
(* LS2 that was read as an LS1).                                             *)
SendsToListed == sent # NoLease => sent.tunnel \in dest.object[sent.object].leases

(* The set that a stream holds is the one that stores update, until it expires or  *)
(* turns out invalid: nobody sticks to an object that the table has replaced.   *)
UpdatesReachStreams ==
  \A s \in Streams : LET set == dest.stream[s].set
                     IN  set # None /\ ~IsExpired(dest, set) /\ dest.object[set].valid => set = dest.table
=============================================================================
