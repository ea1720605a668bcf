---------------------------- MODULE MCRouting ------------------------------
(***************************************************************************)
(* Tunnels and the garlic messages that travel in them, in one run: the      *)
(* initial state chooses an instance and no step changes the choice.         *)
(*   "cuts": TunnelGateway alone with the payload of the code, and messages *)
(*     for which every way of cutting comes up;                             *)
(*   "path": TunnelPath with a payload of 16 bytes, and messages of two and *)
(*     more fragments that share tunnel data messages;                      *)
(*   "build", "longer": the messages that build tunnels, for one in each      *)
(*     direction, or for one of three hops, of which two may be one router;   *)
(*   "life": the tunnels of a destination that asks for one in each          *)
(*     direction;                                                          *)
(*   "tags", "leaseset": a garlic session that sends three messages, or two   *)
(*     messages while the LeaseSet changes.  There is one tag for each        *)
(*     message that brings some; the timeouts keep the order of the code's: 4 *)
(*     s for a LeaseSet's confirmation, 10 s for that of tags, which expire    *)
(*     after 720 s at the sender and 960 s at the receiver.                   *)
(***************************************************************************)
EXTENDS TunnelGateway, Tunnels, Garlic

CONSTANT MaxRepeats

VARIABLES
  instance,
  pathBuffer, pathPut, pathOutbox, pathEndpoint, pathArrived, pathRepeats, pathExpired,
  bTunnel, bTransit, bNetwork, bRepeats, bNow

\* Messages are numbered; a table gives the length and the instructions of each.
Lengths(table)  == [m \in 1 .. Len(table) |-> table[m][1]]
Headers(table)  == [m \in 1 .. Len(table) |-> table[m][2]]

\* Instructions for local, router and tunnel delivery; a message shorter than a block, one
\* that leaves no room for the next one's instructions, one of exactly a block, two that
\* are cut in several ways, and one of nearly DNNP_MAX_MESSAGE_SIZE, whose last fragment
\* is number 63 behind the first.
RealTable   == << <<40, 1>>, <<965, 33>>, <<1000, 1>>, <<1957, 37>>, <<2995, 1>>, <<62706, 1>> >>
RealMessages == 1 .. Len(RealTable)
RealLengths  == Lengths(RealTable)
RealHeaders  == Headers(RealTable)

\* Three messages of which the last is too long to be put together.
LongTable   == << <<20, 1>>, <<5, 5>>, <<40, 1>> >>
LongMessages == 1 .. Len(LongTable)

Path == INSTANCE TunnelPath WITH
  Payload <- 16, Messages <- LongMessages, Length <- Lengths(LongTable),
  Instructions <- Headers(LongTable), MaxMessage <- 40,
  buffer <- pathBuffer, put <- pathPut, outbox <- pathOutbox, endpoint <- pathEndpoint,
  arrived <- pathArrived, repeats <- pathRepeats, expired <- pathExpired

\* Garlic again, for a LeaseSet that changes.
Changing == INSTANCE Garlic WITH MaxMessages <- 2, MaxLeaseSets <- 2

\* Timeouts of no rounds: a tick makes what is pending and what is established too old.
Short == INSTANCE TunnelBuild WITH
  Inbound <- {"i"}, Outbound <- {"o"}, ZeroHops <- "z", Creator <- "c", Routers <- {"r1", "r2"},
  Paths <- [t \in {"i", "o"} |-> IF t = "i" THEN {<<"r1">>} ELSE {<<"r2">>, <<"r1", "r1">>}],
  NumRecords <- 2, CreationTimeout <- 0, Expiration <- 0, MaxTime <- 1, MaxRepeats <- 1,
  tunnel <- bTunnel, transit <- bTransit, network <- bNetwork, repeats <- bRepeats, now <- bNow

Longer == INSTANCE TunnelBuild WITH
  Inbound <- {"i"}, Outbound <- {}, ZeroHops <- "z", Creator <- "c", Routers <- {"r1", "r2", "r3"},
  Paths <- [t \in {"i"} |-> {<<"r1", "r2", "r1">>, <<"r1", "r2", "r3">>}],
  NumRecords <- 4, CreationTimeout <- 0, Expiration <- 0, MaxTime <- 1, MaxRepeats <- 1,
  tunnel <- bTunnel, transit <- bTransit, network <- bNetwork, repeats <- bRepeats, now <- bNow

bVars == <<bTunnel, bTransit, bNetwork, bRepeats, bNow>>
pathVars == <<pathBuffer, pathPut, pathOutbox, pathEndpoint, pathArrived, pathRepeats, pathExpired>>

MCInit ==
  /\ instance \in {"cuts", "path", "build", "longer", "life", "tags", "leaseset"}
  /\ Init /\ Path!Init /\ TunnelsInit /\ GarlicInit
  /\ IF instance = "longer" THEN Longer!Init ELSE Short!Init

MCNext ==
  \/ instance = "cuts" /\ Next /\ UNCHANGED <<instance, pathVars, tunnelsVars, garlicVars, bVars>>
  \/ instance = "path" /\ Path!Next /\ UNCHANGED <<instance, vars, tunnelsVars, garlicVars, bVars>>
  \/ /\ \/ instance = "build" /\ Short!Next
        \/ instance = "longer" /\ Longer!Next
     /\ UNCHANGED <<instance, vars, pathVars, tunnelsVars, garlicVars>>
  \/ instance = "life" /\ TunnelsNext /\ UNCHANGED <<instance, vars, pathVars, garlicVars, bVars>>
  \/ /\ \/ instance = "tags" /\ GarlicNext
        \/ instance = "leaseset" /\ Changing!GarlicNext
     /\ UNCHANGED <<instance, vars, pathVars, tunnelsVars, bVars>>

MCSpec == MCInit /\ [][MCNext]_<<instance, vars, pathVars, tunnelsVars, garlicVars, bVars>>

\* A message that an endpoint hands on is one that was put in the tunnel, whole, and is
\* handed on once; and one all of whose tunnel data messages have arrived is handed on,
\* whatever their order and however often they come.
MessagesArriveWhole == Path!DeliveredIsWhole /\ Path!DeliveredOnce /\ Path!ArrivedIsDelivered

=============================================================================
