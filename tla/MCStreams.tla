------------------------------ MODULE MCStreams ------------------------------
(***************************************************************************)
(* Streams and what comes before them at a destination, in runs of up to two *)
(* instances: the initial state chooses one of Instances, and no step changes *)
(* the choice.                                                              *)
(*   "stream": the two ends of one stream;                                  *)
(*   "accept": peers whose SYNs may come again behind one another's, sockets *)
(*     that accept once, and a short backlog.                               *)
(* Nothing is fair in an initial state, so the fairness of the instance that *)
(* was not chosen says nothing.                                             *)
(***************************************************************************)
EXTENDS Streaming, TLC

CONSTANTS
  Instances,
  socket1, socket2, server, peer1, peer2,
  Requests, MaxBacklog, MaxStreams, MaxSaved, MaxTimers, MaxAccepts   \* of the destination

VARIABLES
  instance,
  aStreams, aAcceptor, aLast, aPending, aTimer, aSaved, aSavedTimers, aReady, aRunning, aAsked, aCalls

aVars == <<aStreams, aAcceptor, aLast, aPending, aTimer, aSaved, aSavedTimers, aReady, aRunning,
           aAsked, aCalls>>

\* How many units each application writes, and which ends may close or push a LeaseSet.
Writes(out, in) == [e \in Ends |-> IF e = "outgoing" THEN out ELSE in]
OneTwo    == Writes(1, 2)
OneOut    == Writes(1, 0)
TwoOut    == Writes(2, 0)
FiveOut   == Writes(5, 0)

NoEnd    == {}
Outgoing == {"outgoing"}
Incoming == {"incoming"}

Streams == {"stream"}
Both    == {"stream", "accept"}

OneRequest  == {socket1}
TwoRequests == {socket1, socket2}
TwoRemotes  == {peer1, peer2}

\* Peers and requests are interchangeable; a stream knows neither.
Symmetry == Permutations(TwoRequests) \cup Permutations(TwoRemotes)

A == INSTANCE StreamingDestination WITH
  Remotes <- TwoRemotes, Server <- server, MaxReady <- MaxAccepts,
  streams <- aStreams, acceptor <- aAcceptor, last <- aLast, pending <- aPending, timer <- aTimer,
  saved <- aSaved, savedTimers <- aSavedTimers, ready <- aReady, running <- aRunning,
  asked <- aAsked, calls <- aCalls

MCInit == instance \in Instances /\ Init /\ A!Init

MCNext ==
  \/ instance = "stream" /\ Next /\ UNCHANGED <<instance, aVars>>
  \/ instance = "accept" /\ A!Next /\ UNCHANGED <<instance, stream>>

MCSpec == MCInit /\ [][MCNext]_<<instance, stream, aVars>>

MCFairSpec == MCSpec /\ Fairness /\ A!Fairness

\* Sent packets are acknowledged or given up, and a closing stream leaves its destination.
StreamsEnd == UnackedSettles /\ ClosingEnds

\* Packets that came before their SYN are in the stream before its next packet.
SavedBeforeStream == A!SavedBeforeStream


\* A stream is handed on once at most, waits only while nobody accepts and not for ever; an
\* acceptor that accepts once is called once; a repeated SYN makes no second stream unless
\* another peer's came in between.
StreamsAreHandedOn ==
  /\ A!HandedOnce /\ A!AcceptsOnce /\ A!WaitsForAcceptor /\ A!BacklogIsTimed
  /\ A!RepeatedSynIsDropped
=============================================================================
