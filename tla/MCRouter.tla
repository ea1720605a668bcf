------------------------------- MODULE MCRouter -------------------------------
(***************************************************************************)
(* What a router keeps up with its neighbours: the sessions of the three     *)
(* transports, and what is asked of floodfills and published at them.  The   *)
(* initial state of a run chooses one component and no step changes the      *)
(* choice.  A fair action of a component is not enabled in its initial state, *)
(* so the fairness of those that were not chosen says nothing.               *)
(*                                                                         *)
(* Sessions, which begin and end:                                           *)
(*   "ntcp": sessions with a router, connected directly, with and without a  *)
(*     limit on the sessions, or through a proxy;                            *)
(*   "ntcp2": two sessions of the NTCP2 server with a router;                *)
(*   "ssu": a session of two routers that may both begin it.                 *)
(* Requests, which are answered:                                            *)
(*   "netdb": requests of routers and of exploration;                        *)
(*   "publish": publications of a lease set, confirmed by every floodfill    *)
(*     or only by some;                                                     *)
(*   "leaseset": requests of a lease set, plain or encrypted.               *)
(***************************************************************************)
EXTENDS Integers, Sequences

VARIABLES
  instance,
  nSession, nServer, nTold, nOrphans,
  tSession, tListed, tPending, tForgotten, tTold,
  sSessions, sListed, sBatch, sPosted, sKeys, sNet,
  dRequest, dTable, dMaking, dLookups, dTold, dObsolete,
  pVersion, pPosted, pPublish, pVerifying, pStored,
  lTable, lDue, lPosted, lRemote, lFinding, lNet, lWorld, lTold, lDropped

nVars == <<nSession, nServer, nTold, nOrphans>>
tVars == <<tSession, tListed, tPending, tForgotten, tTold>>
sVars == <<sSessions, sListed, sBatch, sPosted, sKeys, sNet>>
dVars == <<dRequest, dTable, dMaking, dLookups, dTold, dObsolete>>
pVars == <<pVersion, pPosted, pPublish, pVerifying, pStored>>
lVars == <<lTable, lDue, lPosted, lRemote, lFinding, lNet, lWorld, lTold, lDropped>>

----------------------------------------------------------------------------
N == INSTANCE NTCP WITH
  MaxSessions <- 2, Limits <- BOOLEAN, Proxies <- {"none", "socks", "http"}, SocksRequest <- 10,
  session <- nSession, server <- nServer, told <- nTold, orphans <- nOrphans

T == INSTANCE NTCP2Server WITH
  MaxSessions <- 2,
  session <- tSession, listed <- tListed, pending <- tPending, forgotten <- tForgotten, told <- tTold

S == INSTANCE SSU WITH
  MaxSessions <- 1, MaxKeys <- 3, MaxBatch <- 2,
  sessions <- sSessions, listed <- sListed, batch <- sBatch, posted <- sPosted, keys <- sKeys, net <- sNet

\* Times are counted in the steps of ManageRequests.
D == INSTANCE NetDbRequests WITH
  Destinations <- {1, 2}, Floodfills <- {1, 2}, MaxPeers <- 7, Patience <- 0, Lifetime <- 2, MaxRequests <- 2,
  request <- dRequest, table <- dTable, making <- dMaking, lookups <- dLookups, told <- dTold,
  obsolete <- dObsolete

P == INSTANCE LeaseSetPublish WITH
  Floodfills <- {1, 2}, MaxVersion <- 2, MaxSent <- 3, CryptoTypes <- BOOLEAN,
  version <- pVersion, posted <- pPosted, publish <- pPublish, verifying <- pVerifying, stored <- pStored

L == INSTANCE LeaseSetRequests WITH
  Encryptions <- BOOLEAN, Floodfills <- {1, 2}, MaxFloodfills <- 2, MaxRequests <- 2, MaxVersion <- 1,
  table <- lTable, due <- lDue, posted <- lPosted, remote <- lRemote, finding <- lFinding, net <- lNet,
  world <- lWorld, told <- lTold, dropped <- lDropped

----------------------------------------------------------------------------
\* Bound: two sessions that are connected directly, one otherwise.
MaxNtcp == IF nServer.proxy = "none" /\ ~nServer.limited THEN 2 ELSE 1

\* What differs in the initial states of a component is fixed where it was not chosen.
MCInit ==
  /\ N!Init /\ T!Init /\ S!Init /\ D!Init /\ P!Init /\ L!Init
  /\ nServer.limited => nServer.proxy = "none"   \* a limit is one on incoming sessions
  /\ instance # "ntcp" => nServer.proxy = "none" /\ ~nServer.limited
  /\ instance # "publish" => pPublish.elgamal
  /\ instance # "leaseset" =>
       ~lWorld.encrypted /\ lWorld.netdb = 0 /\ \A f \in DOMAIN lWorld.at : lWorld.at[f] = 0

SessionsNext ==
  /\ \/ instance = "ntcp" /\ N!Next /\ Len(nSession') <= MaxNtcp /\ UNCHANGED <<tVars, sVars>>
     \/ instance = "ntcp2" /\ T!Next /\ UNCHANGED <<nVars, sVars>>
     \/ instance = "ssu" /\ S!Next /\ UNCHANGED <<nVars, tVars>>
  /\ UNCHANGED <<instance, dVars, pVars, lVars>>

SessionsInit == instance \in {"ntcp", "ntcp2", "ssu"} /\ MCInit

SessionsSpec ==
  /\ SessionsInit
  /\ [][SessionsNext]_<<instance, nVars, tVars, sVars, dVars, pVars, lVars>>
  /\ N!Fairness /\ T!Fairness /\ S!Fairness

RequestsNext ==
  /\ \/ instance = "netdb" /\ D!Next /\ UNCHANGED <<pVars, lVars>>
     \/ instance = "publish" /\ P!Next /\ UNCHANGED <<dVars, lVars>>
     \/ instance = "leaseset" /\ L!Next /\ UNCHANGED <<dVars, pVars>>
  /\ UNCHANGED <<instance, nVars, tVars, sVars>>

RequestsInit == instance \in {"netdb", "publish", "leaseset"} /\ MCInit

RequestsSpec ==
  /\ RequestsInit
  /\ [][RequestsNext]_<<instance, nVars, tVars, sVars, dVars, pVars, lVars>>
  /\ D!Fairness /\ P!Fairness /\ L!Fairness

----------------------------------------------------------------------------
\* A session of NTCP is established or terminated in the end.
HandshakesEnd == N!HandshakesEnd

\* A session of NTCP2 that does not go on is terminated and forgotten.
SessionsEnd == T!SessionsEnd


\* A session of SSU is established and kept in use, or closed.
SessionsSettle == S!SessionsSettle

\* Who asks for a destination is called once at most; something wakes a destination that has
\* a LeaseSet to publish, and the token it waits for has a timer.
RequestsAreKept == D!ToldOnce /\ L!ToldOnce /\ P!PublishingGoesOn /\ P!TokenIsTimed

\* And is called in the end.
RequestsEnd == D!EveryRequestEnds /\ L!EveryRequestEnds

\* The LeaseSet that a destination made last is published in the end.
LastIsPublished == P!LastIsSent
=============================================================================
