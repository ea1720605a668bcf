--------------------------- MODULE LeaseSetRequests ---------------------------
(***************************************************************************)
(* How a destination finds the lease set of another (LeaseSetDestination in  *)
(* libdotnet/Destination.cpp): the one that it knows, or a request, one at a  *)
(* time, that asks one floodfill after another until one answers or time is   *)
(* up.  Lease sets of different destinations have nothing in common.          *)
(*                                                                         *)
(* RequestDestination posts to the destination's thread, where all else runs  *)
(* except FindLeaseSet, which any thread calls.  The handler of a timer that   *)
(* has expired runs whatever happens to its request meanwhile, and acts on     *)
(* the request that the table then has.  Messages are lost and late.          *)
(***************************************************************************)
EXTENDS Integers, Sequences, FiniteSetsExt

CONSTANTS
  Encryptions,   \* whether the lease set is an encrypted one, found under its blinded key
  Floodfills,    \* numbers, the closest first
  MaxFloodfills, \* MAX_NUM_FLOODFILLS_PER_REQUEST
  MaxRequests,   \* bound on the requests, which are numbered
  MaxVersion     \* bound on the lease sets there are

VARIABLES
  table,      \* m_LeaseSetRequests: the request, if there is one
  due,        \* how many handlers of expired timers have not run yet
  posted,     \* the requests that have been posted, in order
  remote,     \* the entry of m_RemoteLeaseSets
  finding,    \* FindLeaseSet has found nothing there and goes to the netdb
  net,        \* what is on its way
  world,      \* what the floodfills and the netdb have
  told,       \* history: what each callback has been told, in order
  dropped     \* history: callbacks whose request was erased without telling them

requests == <<table, due, posted>>
sets == <<remote, finding>>
outside == <<net, world>>
vars == <<table, due, posted, remote, finding, net, world, told, dropped>>

NotFound == 0
NoLeaseSet == [version |-> NotFound, expires |-> "past"]
LeaseSet(v) == [version |-> v, expires |-> "late"]   \* then "soon", then "past"

\* age: 0 in the first MAX_LEASESET_REQUEST_TIMEOUT seconds, 1 when they are over, 2 later.
\* blinded: requestedBlindedKey is set.
Request(p) == [callbacks |-> {p.id}, age |-> 0, excluded |-> {}, armed |-> FALSE, blinded |-> p.blinded]

Tell(ids, v) == told' = [i \in 1..MaxRequests |-> IF i \in ids THEN Append(told[i], v) ELSE told[i]]
TellNone == UNCHANGED <<told, dropped>>

Closest(excluded) == IF Floodfills \ excluded = {} THEN {} ELSE {Min(Floodfills \ excluded)}

\* SendLeaseSetRequest, which fails if there is no tunnel.
Asked_Broken(r, f) == [r EXCEPT !.excluded = @ \cup {f}]   \* the timer is cancelled only
Asked(r, f) == [r EXCEPT !.excluded = @ \cup {f}, !.armed = TRUE]
Send(r, f) == table' = {Asked(r, f)} /\ net' = net \cup {[type |-> "lookup", at |-> f]}

\* The request leaves the table; its timer goes with it.  Handlers of expired ones do not.
Complete(r, v) == table' = {} /\ Tell(r.callbacks, v) /\ UNCHANGED dropped

----------------------------------------------------------------------------
(* Requests.                                                                *)

NextId == 1 + Cardinality({i \in 1..MaxRequests : world.asked[i]})
Post(blinded) ==
  /\ posted' = Append(posted, [id |-> NextId, blinded |-> blinded])
  /\ world' = [world EXCEPT !.asked[NextId] = TRUE]

\* RequestDestination and RequestDestinationWithEncryptedLeaseSet.
RequestDestination ==
  /\ NextId <= MaxRequests /\ world.running /\ Post(world.encrypted)
  /\ UNCHANGED <<table, due, net, told, dropped>> /\ UNCHANGED sets

\* The send has failed: nothing stays in the table.
NotSent_Broken(p) == table' = {Request(p)} /\ Tell({p.id}, NotFound)   \* the request does
NotSent(p) == table' = {} /\ Tell({p.id}, NotFound)

RequestLeaseSet ==
  /\ posted # <<>> /\ world.running /\ posted' = Tail(posted)
  /\ LET p == Head(posted)
     IN  \/ \* no floodfill
            /\ Tell({p.id}, NotFound) /\ UNCHANGED <<table, net, dropped>>
         \/ /\ table = {}
            /\ \/ Send(Request(p), Min(Floodfills)) /\ TellNone
               \/ NotSent(p) /\ UNCHANGED <<net, dropped>>
         \/ \E r \in table :
              /\ r.age = 2 /\ table' = {} /\ Tell({p.id}, NotFound)
              /\ dropped' = dropped \cup r.callbacks /\ UNCHANGED net
         \/ \E r \in table :
              /\ r.age # 2 /\ table' = {[r EXCEPT !.callbacks = @ \cup {p.id}]}
              /\ TellNone /\ UNCHANGED net
  /\ UNCHANGED <<due, world>> /\ UNCHANGED sets

TimerExpires ==
  /\ due' = due + 1
  /\ \E r \in table : r.armed /\ table' = {[r EXCEPT !.armed = FALSE]}
  /\ UNCHANGED <<posted, told, dropped>> /\ UNCHANGED sets /\ UNCHANGED outside

HandleRequestTimeoutTimer ==
  /\ due > 0 /\ world.running /\ due' = due - 1
  /\ \/ table = {} /\ UNCHANGED <<table, net>> /\ TellNone
     \/ \E r \in table :
          \/ r.age = 0 /\ (\E f \in Closest(r.excluded) : Send(r, f)) /\ TellNone
          \/ Complete(r, NotFound) /\ UNCHANGED net   \* too old, nobody left to ask, or no tunnel
  /\ UNCHANGED <<posted, world>> /\ UNCHANGED sets

CancelDestinationRequest ==
  /\ world.running
  /\ \E r \in table :
       \/ Complete(r, NotFound)
       \/ table' = {} /\ dropped' = dropped \cup r.callbacks /\ UNCHANGED told   \* not notify
  /\ UNCHANGED <<due, posted>> /\ UNCHANGED sets /\ UNCHANGED outside

HandleDatabaseSearchReplyMessage(m) ==
  /\ m \in net /\ m.type = "reply" /\ world.running
  /\ \/ table = {} /\ net' = net \ {m} /\ UNCHANGED table /\ TellNone
     \/ \E r \in table :
          \/ /\ Cardinality(r.excluded) < MaxFloodfills
             /\ \E f \in Closest(r.excluded) :
                  /\ table' = {Asked(r, f)}
                  /\ net' = (net \ {m}) \cup {[type |-> "lookup", at |-> f]}
             /\ TellNone
          \/ Complete(r, NotFound) /\ net' = net \ {m}
  /\ UNCHANGED <<due, posted, world>> /\ UNCHANGED sets

----------------------------------------------------------------------------
(* Lease sets.                                                              *)

\* What HandleDatabaseStoreMessage makes of a store: the entry, and the result of the request.
Stored(v) ==
  IF remote.version >= v THEN [entry |-> remote, result |-> remote.version]
  ELSE [entry |-> LeaseSet(v), result |-> v]
StoredEncrypted(v) ==
  IF \E r \in table : r.blinded THEN [entry |-> LeaseSet(v), result |-> v]
  ELSE [entry |-> remote, result |-> NotFound]

HandleDatabaseStoreMessage(m) ==
  LET s == IF world.encrypted THEN StoredEncrypted(m.version) ELSE Stored(m.version)
  IN  /\ m \in net /\ m.type = "store" /\ world.running /\ net' = net \ {m}
      /\ remote' = s.entry
      /\ \/ table = {} /\ UNCHANGED table /\ TellNone
         \/ \E r \in table : Complete(r, s.result)
      /\ UNCHANGED <<due, posted, finding, world>>

\* FindLeaseSet, on any thread.  One that expires soon is asked for again, by its hash alone.
FindLeaseSet ==
  \/ /\ remote.version # 0 /\ remote.expires = "soon" /\ NextId <= MaxRequests /\ world.running
     /\ Post(FALSE)
     /\ UNCHANGED <<table, due, net, told, dropped>> /\ UNCHANGED sets
  \/ /\ remote.version # 0 /\ remote.expires = "past" /\ remote' = NoLeaseSet
     /\ UNCHANGED <<finding, told, dropped>> /\ UNCHANGED requests /\ UNCHANGED outside
  \/ /\ remote.version = 0 /\ ~finding /\ world.netdb # 0 /\ finding' = TRUE
     /\ UNCHANGED <<remote, told, dropped>> /\ UNCHANGED requests /\ UNCHANGED outside

FindLeaseSetInNetDb ==
  /\ finding /\ finding' = FALSE /\ remote' = LeaseSet(world.netdb)
  /\ UNCHANGED <<told, dropped>> /\ UNCHANGED requests /\ UNCHANGED outside

CleanupRemoteLeaseSets ==
  /\ remote.version # 0 /\ remote.expires = "past" /\ remote' = NoLeaseSet /\ world.running
  /\ UNCHANGED <<finding, told, dropped>> /\ UNCHANGED requests /\ UNCHANGED outside

----------------------------------------------------------------------------
(* Time and the network.                                                    *)

RequestAges ==
  /\ \E r \in table : r.age < 2 /\ table' = {[r EXCEPT !.age = @ + 1]}
  /\ UNCHANGED <<due, posted, told, dropped>> /\ UNCHANGED sets /\ UNCHANGED outside

LeaseSetAges ==
  /\ remote.version # 0 /\ remote.expires # "past"
  /\ remote' = [remote EXCEPT !.expires = IF @ = "late" THEN "soon" ELSE "past"]
  /\ UNCHANGED <<finding, told, dropped>> /\ UNCHANGED requests /\ UNCHANGED outside

Answer(m) ==
  /\ m \in net /\ m.type = "lookup"
  /\ net' = (net \ {m}) \cup
       {IF world.at[m.at] = 0 THEN [type |-> "reply", from |-> m.at]
        ELSE [type |-> "store", from |-> m.at, version |-> world.at[m.at]]}
  /\ UNCHANGED <<world, told, dropped>> /\ UNCHANGED requests /\ UNCHANGED sets

Lose(m) ==
  /\ m \in net /\ net' = net \ {m}
  /\ UNCHANGED <<world, told, dropped>> /\ UNCHANGED requests /\ UNCHANGED sets

\* Stop, and ~LeaseSetDestination, which completes the requests.  What is posted is lost.
Stop ==
  /\ world.running /\ world' = [world EXCEPT !.running = FALSE]
  /\ Tell(UNION {r.callbacks : r \in table}, NotFound)
  /\ dropped' = dropped \cup {posted[n].id : n \in DOMAIN posted}
  /\ table' = {} /\ due' = 0 /\ posted' = <<>>
  /\ UNCHANGED net /\ UNCHANGED sets

----------------------------------------------------------------------------
Init ==
  /\ table = {} /\ due = 0 /\ posted = <<>> /\ remote = NoLeaseSet /\ finding = FALSE /\ net = {}
  /\ world \in [encrypted : Encryptions, running : {TRUE}, asked : {[i \in 1..MaxRequests |-> FALSE]},
                at : [Floodfills -> 0..MaxVersion], netdb : {0, 1}]
  /\ world.encrypted => world.netdb = 0
  /\ told = [i \in 1..MaxRequests |-> <<>>] /\ dropped = {}

Next ==
  \/ RequestDestination \/ RequestLeaseSet \/ TimerExpires \/ HandleRequestTimeoutTimer
  \/ CancelDestinationRequest \/ FindLeaseSet \/ FindLeaseSetInNetDb \/ CleanupRemoteLeaseSets
  \/ RequestAges \/ LeaseSetAges \/ Stop
  \/ \E m \in net : \/ HandleDatabaseSearchReplyMessage(m) \/ HandleDatabaseStoreMessage(m)
                    \/ Answer(m) \/ Lose(m)

\* The destination's thread runs what is posted and what is due; the network owes nothing.
Fairness ==
  /\ WF_vars(RequestLeaseSet) /\ WF_vars(TimerExpires) /\ WF_vars(HandleRequestTimeoutTimer)

Spec == Init /\ [][Next]_vars /\ Fairness

----------------------------------------------------------------------------
(* Nobody is told twice how a request has ended, whichever of the answer, a     *)
(* late answer, the timer, the cancellation and the destructor come.           *)
ToldOnce == \A i \in 1..MaxRequests : Len(told[i]) <= 1

(* Whoever asks for a lease set is told something in the end, although every    *)
(* message may be lost, unless the request is cancelled quietly, thrown out by  *)
(* a later one because it is old, or lost with a destination that stops.        *)
EveryRequestEnds ==
  \A i \in 1..MaxRequests : world.asked[i] ~> (told[i] # <<>> \/ i \in dropped)

(* "leaseSet = nullptr means not found" (Destination.h:75): a callback that is  *)
(* told so while a store of the lease set is handled.                          *)
NullMeansNotFound ==
  [][\A m \in net : HandleDatabaseStoreMessage(m) =>
       \A i \in 1..MaxRequests : told'[i] # told[i] => told'[i][Len(told'[i])] # NotFound]_vars
=============================================================================
