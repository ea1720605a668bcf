----------------------------- MODULE MCExchanges -----------------------------
(***************************************************************************)
(* What parties hand to each other arrives in order, whole and at the right  *)
(* one: eleven components in one run.  The initial state chooses one of     *)
(* them and no step changes the choice.                                     *)
(*   "transports": messages to a peer, before and after there are sessions;  *)
(*   "ntcp2": the handshake, then frames in both directions;                 *)
(*   "ntcp": frames of NTCP, read in pieces;                                 *)
(*   "ssu": a message of three fragments, resent and acknowledged;           *)
(*   "rounds", "tests": peer tests, two rounds with one Bob and one round     *)
(*     with two;                                                            *)
(*   "netdb": the tables, the files and restarts of the network database;    *)
(*   "LeaseSet", "LeaseSet2", "RouterInfo": stores of that kind between       *)
(*     three floodfills;                                                    *)
(*   "names", "updates": an address book with a subscription, two lookups and  *)
(*     one start, or one lookup and three starts;                             *)
(*   "sam": three sockets, a session and its streams;                        *)
(*   "udp": two applications over one server tunnel;                         *)
(*   "leases": a stream to a peer that makes two lease sets.               *)
(***************************************************************************)
EXTENDS Transports, UDPTunnel, SSUData

CONSTANT NoObject   \* no stream, no session of the SAM bridge

VARIABLES
  instance,
  nState, nSecret, nSender, nReceiver, nWire, nPosted, nDelivered, nRejected,
  fMessages, fPosted, fSender, fStream, fReceiver,
  rOpen, rRole, rNet, rDue, rRounds, rStatus, rFloodfill, rPublished, rIntroducers, rRelated,
  rIntroTimer, rReached,
  bKnown, bFloodfills, bStale, bFile, bDoing, bNow, bStarts,
  zStored, zNet, zPublished, zLost, zNow,
  aRunning, aBook, aTimer, aThread, aETag, aDisk, aLookups, aVersion, aStarts, aSpoiled,
  sSocket, sOpen, sSession, sCreated, sForgotten,
  lKind, lNow, lMade, lDest, lSent

nVars == <<nState, nSecret, nSender, nReceiver, nWire, nPosted, nDelivered, nRejected>>
fVars == <<fMessages, fPosted, fSender, fStream, fReceiver>>
rVars == <<rOpen, rRole, rNet, rDue, rRounds, rStatus, rFloodfill, rPublished, rIntroducers, rRelated,
           rIntroTimer, rReached>>
bVars == <<bKnown, bFloodfills, bStale, bFile, bDoing, bNow, bStarts>>
zVars == <<zStored, zNet, zPublished, zLost, zNow>>
aVars == <<aRunning, aBook, aTimer, aThread, aETag, aDisk, aLookups, aVersion, aStarts, aSpoiled>>
sVars == <<sSocket, sOpen, sSession, sCreated, sForgotten>>
lVars == <<lKind, lNow, lMade, lDest, lSent>>

----------------------------------------------------------------------------
\* Lengths that fit a frame, that leave none of it for padding, and that do not fit.
N == INSTANCE NTCP2 WITH
  FrameMax <- 65519, Lengths <- {100, 33000, 65520}, Rooms <- {0, 271}, Posters <- {"alice"}, MaxPosted <- 2,
  state <- nState, secret <- nSecret, sender <- nSender, receiver <- nReceiver, wire <- nWire,
  posted <- nPosted, delivered <- nDelivered, rejected <- nRejected

\* The buffer of the code takes 1028 bytes; here one in which the same cuts come up.
F == INSTANCE NTCPFrames WITH
  Lengths <- {26, 27, 50}, Reads <- {5, 16, 36}, BufferSize <- 36, MaxLength <- 50, MaxQueue <- 1,
  MaxMessages <- 3,
  messages <- fMessages, posted <- fPosted, sender <- fSender, stream <- fStream, receiver <- fReceiver

\* One message of three fragments.
ThreeFragments == <<3>>

Rounds == INSTANCE Reachability WITH
  Bobs <- {"b1"}, Relays <- {"i1"}, MaxIntroducers <- 1, MaxRounds <- 2,
  open <- rOpen, role <- rRole, net <- rNet, due <- rDue, rounds <- rRounds, status <- rStatus,
  floodfill <- rFloodfill, published <- rPublished, introducers <- rIntroducers, related <- rRelated,
  introTimer <- rIntroTimer, reached <- rReached

Tests == INSTANCE Reachability WITH
  Bobs <- {"b1", "b2"}, Relays <- {"i1"}, MaxIntroducers <- 1, MaxRounds <- 1,
  open <- rOpen, role <- rRole, net <- rNet, due <- rDue, rounds <- rRounds, status <- rStatus,
  floodfill <- rFloodfill, published <- rPublished, introducers <- rIntroducers, related <- rRelated,
  introTimer <- rIntroTimer, reached <- rReached

\* A floodfill, a router behind a firewall, and one without an address that can be used.
SomeInfos ==
  {[floodfill |-> TRUE, reachable |-> TRUE, introducers |-> FALSE, usable |-> TRUE],
   [floodfill |-> FALSE, reachable |-> FALSE, introducers |-> TRUE, usable |-> TRUE],
   [floodfill |-> TRUE, reachable |-> FALSE, introducers |-> FALSE, usable |-> FALSE]}

B == INSTANCE NetDb WITH
  Routers <- {1, 2}, Moments <- {0, 3}, Infos <- SomeInfos, MinRouters <- 1, IntroduceeTime <- 2, MinTime <- 1, MaxTime <- 3,
  Threshold <- 1, MaxStarts <- 2,
  known <- bKnown, floodfills <- bFloodfills, stale <- bStale, file <- bFile, doing <- bDoing,
  now <- bNow, starts <- bStarts

Flood(kind) == INSTANCE NetDbFlood WITH
  Nodes <- {1, 2, 3}, Kinds <- {kind}, MaxTime <- 2, MaxPublished <- 2,
  stored <- zStored, net <- zNet, published <- zPublished, lost <- zLost, now <- zNow

\* Two versions after hosts.txt, of which the second moves a domain and adds a name below it; the owner of
\* the first knows another name.
Lookups == INSTANCE AddressBook WITH
  Names <- {"d", "s", "t"}, Domain <- [d |-> "-", s |-> "d", t |-> "d"], NoDomain <- "-",
  Hosts <- [v \in 0 .. 2 |-> IF v < 2 THEN [d |-> 1, s |-> 0, t |-> 0] ELSE [d |-> 2, s |-> 5, t |-> 0]],
  HostsFile <- FALSE, Subscriptions <- {"u"}, Default <- "def",
  Owners <- [i \in {1, 2} |-> [d |-> 0, s |-> 4, t |-> IF i = 1 THEN 6 ELSE 0]],
  MaxLookups <- 2, MaxStarts <- 1,
  running <- aRunning, book <- aBook, timer <- aTimer, thread <- aThread, etag <- aETag, disk <- aDisk,
  lookups <- aLookups, version <- aVersion, starts <- aStarts, spoiled <- aSpoiled

Updates == INSTANCE AddressBook WITH
  Names <- {"d", "s"}, Domain <- [d |-> "-", s |-> "d"], NoDomain <- "-",
  Hosts <- [v \in 0 .. 2 |-> IF v < 2 THEN [d |-> 1, s |-> 0] ELSE [d |-> 2, s |-> 5]],
  HostsFile <- FALSE, Subscriptions <- {"u"}, Default <- "def", Owners <- [i \in {1, 2} |-> [d |-> 0, s |-> 4]],
  MaxLookups <- 1, MaxStarts <- 3,
  running <- aRunning, book <- aBook, timer <- aTimer, thread <- aThread, etag <- aETag, disk <- aDisk,
  lookups <- aLookups, version <- aVersion, starts <- aStarts, spoiled <- aSpoiled

S == INSTANCE SAM WITH
  Sockets <- 1 .. 3, Ids <- {"x"}, None <- NoObject, Orderly <- TRUE, MaxStreams <- 2,
  MaxSessions <- 1, MaxLeft <- 1,
  socket <- sSocket, open <- sOpen, session <- sSession, created <- sCreated, forgotten <- sForgotten

\* Each destination has one application: what two of them share is the server tunnel.
Conversations == {<<"a", 1>>, <<"b", 2>>}

\* Time is counted in LEASE_ENDDATE_THRESHOLD.
L == INSTANCE RemoteLeases WITH
  Tunnels <- {1, 2}, End <- <<2, 3>>, Gateway <- <<1, 1>>, Kinds <- {"ls1", "ls2"}, Streams <- {1},
  MaxTime <- 4, MaxMade <- 2, MaxObjects <- 2,
  kind <- lKind, now <- lNow, made <- lMade, dest <- lDest, sent <- lSent

----------------------------------------------------------------------------
Kinds == {"LeaseSet", "LeaseSet2", "RouterInfo"}

MCInit ==
  /\ instance \in Kinds \cup
       {"transports", "ntcp2", "ntcp", "ssu", "rounds", "tests", "netdb", "names", "updates", "sam", "udp",
        "leases"}
  /\ Init /\ N!Init /\ F!Init /\ DataInit /\ B!Init /\ Flood("LeaseSet")!Init /\ S!Init /\ UDPInit /\ L!Init
  /\ IF instance = "tests" THEN Tests!Init ELSE Rounds!Init
  /\ IF instance = "updates" THEN Updates!Init ELSE Lookups!Init
  /\ instance # "transports" => allowed.peer /\ allowed.transports = {}
  /\ instance \notin {"rounds", "tests"} => rOpen
  /\ instance # "leases" => lKind = "ls1"

MCNext ==
  \/ /\ instance = "transports" /\ Next
     /\ UNCHANGED <<instance, nVars, fVars, dataVars, rVars, bVars, zVars, aVars, sVars, udpVars, lVars>>
  \/ /\ instance = "ntcp2" /\ N!Next
     /\ UNCHANGED <<instance, vars, fVars, dataVars, rVars, bVars, zVars, aVars, sVars, udpVars, lVars>>
  \/ /\ instance = "ntcp" /\ F!Next
     /\ UNCHANGED <<instance, vars, nVars, dataVars, rVars, bVars, zVars, aVars, sVars, udpVars, lVars>>
  \/ /\ instance = "ssu" /\ DataNext
     /\ UNCHANGED <<instance, vars, nVars, fVars, rVars, bVars, zVars, aVars, sVars, udpVars, lVars>>
  \/ /\ \/ instance = "rounds" /\ Rounds!Next
        \/ instance = "tests" /\ Tests!Next
     /\ UNCHANGED <<instance, vars, nVars, fVars, dataVars, bVars, zVars, aVars, sVars, udpVars, lVars>>
  \/ /\ instance = "netdb" /\ B!Next
     /\ UNCHANGED <<instance, vars, nVars, fVars, dataVars, rVars, zVars, aVars, sVars, udpVars, lVars>>
  \/ /\ \E kind \in Kinds : instance = kind /\ Flood(kind)!Next
     /\ UNCHANGED <<instance, vars, nVars, fVars, dataVars, rVars, bVars, aVars, sVars, udpVars, lVars>>
  \/ /\ \/ instance = "names" /\ Lookups!Next
        \/ instance = "updates" /\ Updates!Next
     /\ UNCHANGED <<instance, vars, nVars, fVars, dataVars, rVars, bVars, zVars, sVars, udpVars, lVars>>
  \/ /\ instance = "sam" /\ S!Next
     /\ UNCHANGED <<instance, vars, nVars, fVars, dataVars, rVars, bVars, zVars, aVars, udpVars, lVars>>
  \/ /\ instance = "udp" /\ UDPNext
     /\ UNCHANGED <<instance, vars, nVars, fVars, dataVars, rVars, bVars, zVars, aVars, sVars, lVars>>
  \/ /\ instance = "leases" /\ L!Next
     /\ UNCHANGED <<instance, vars, nVars, fVars, dataVars, rVars, bVars, zVars, aVars, sVars, udpVars>>

MCSpec ==
  MCInit /\ [][MCNext]_<<instance, vars, nVars, fVars, dataVars, rVars, bVars, zVars, aVars, sVars, udpVars, lVars>>


\* A router that was reached does not stay firewalled, and what it publishes fits its status.
StatusFits == Rounds!ReachedIsOk /\ Rounds!PublishedFits

\* The newest RouterInfo that came in is the one that is kept, in memory and over restarts; a store
\* is passed on for one hop, and floodfills end up with the same entry although their floods cross.
LatestIsKept ==
  /\ B!LatestIsKept
  /\ Flood("LeaseSet")!FloodIsOneHop /\ Flood("LeaseSet")!CrossedFloodsAgree

\* A stream sends to a lease that its set still lists, and its set is the one that is updated.
LeasesAreListed == L!SendsToListed /\ L!UpdatesReachStreams


\* A socket that waits for a stream is called when one comes, and a session lives no longer than
\* its socket.
SamSocketsServe == S!AcceptorsAreServed /\ S!SessionHasSocket
=============================================================================
