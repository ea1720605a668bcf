------------------------------ MODULE Reachability ------------------------------
(***************************************************************************)
(* Whether a router can be reached, and what it publishes about that: the     *)
(* peer tests of SSU with their three parts (SSUSession.cpp, SSU.cpp), the    *)
(* status that they set and the caps and addresses that follow from it        *)
(* (RouterContext.cpp), the rounds of tests that the transports start          *)
(* (Transports.cpp), and the introducers of a router that is firewalled.      *)
(*                                                                         *)
(* Alice tests with the routers of Bobs, with whom she has sessions; Charlie    *)
(* has sessions with them and none with Alice, so that what he sends her comes  *)
(* in only if she is open to all.  A nonce is the Bob and the number of the round. *)
(***************************************************************************)
EXTENDS Integers, FiniteSets

CONSTANTS
  Bobs,
  Relays,          \* routers with whom there may be a session with a relay tag
  MaxIntroducers,  \* SSU_MAX_NUM_INTRODUCERS
  MaxRounds        \* bound: rounds of tests

VARIABLES
  open,        \* whether packets of strangers come in; not known to the code
  role,        \* m_PeerTests of each router, by test: "Unknown" if there is no entry
  net,         \* packets of the tests on their way
  due,         \* tests for which SendPeerTest has been posted
  rounds,      \* how many rounds have begun
  status,      \* m_Status
  floodfill,   \* m_IsFloodfill
  published,   \* our RouterInfo: caps, whether there is an NTCP address, introducers
  introducers, \* m_Introducers
  related,     \* sessions with a relay tag that are young enough
  introTimer,  \* whether HandleIntroducersUpdateTimer is scheduled
  reached      \* history: Charlie has reached Alice since the status was last Testing

testing == <<role, net, due>>
context == <<status, published>>
intro == <<introducers, related, introTimer>>
vars == <<open, role, net, due, rounds, status, floodfill, published, introducers, related, introTimer, reached>>

Participants == Bobs \cup {"alice", "charlie"}
Nonces == Bobs \X (1..MaxRounds)
Bob(nonce) == nonce[1]
Packet(from, to, nonce, port) == [from |-> from, to |-> to, nonce |-> nonce, port |-> port]
Role(r, nonce) == role[r][nonce]

----------------------------------------------------------------------------
(* RouterContext.                                                           *)

Reachable(pub) ==
  [reachable |-> TRUE, floodfill |-> floodfill \/ pub.floodfill, introducer |-> TRUE, ntcp |-> TRUE, introducers |-> {}]

\* PublishNTCPAddress(false) is where the NTCP address goes.
Unreachable_Broken(pub) ==   \* the address of NTCP stays
  [reachable |-> FALSE, floodfill |-> FALSE, introducer |-> FALSE, ntcp |-> pub.ntcp, introducers |-> {}]
Unreachable(pub) ==
  [reachable |-> FALSE, floodfill |-> FALSE, introducer |-> FALSE, ntcp |-> FALSE, introducers |-> {}]

SetStatus(s) ==
  /\ status' = s
  /\ published' = IF s = status \/ s = "Testing" THEN published
                  ELSE IF s = "OK" THEN Reachable(published) ELSE Unreachable(published)

\* SetFloodfill, called when the daemon starts.
SetFloodfill(f) ==
  /\ rounds = 0 /\ floodfill' = f
  /\ published' = [published EXCEPT !.floodfill = f]
  /\ UNCHANGED <<open, role, net, due, rounds, status, introducers, related, introTimer, reached>>

----------------------------------------------------------------------------
(* Rounds of tests: DetectExternalIP, by HandlePeerCleanupTimer while the       *)
(* status is Testing, and PeerTest, by HandlePeerTestTimer and the web console.  *)

StartRound ==
  /\ rounds < MaxRounds /\ rounds' = rounds + 1
  /\ \E bs \in SUBSET Bobs \ {{}} : due' = due \cup {<<b, rounds'>> : b \in bs}
  /\ SetStatus("Testing") /\ reached' = FALSE
  /\ UNCHANGED <<open, role, net, floodfill>> /\ UNCHANGED intro

\* SendPeerTest, without arguments.
SendPeerTest(nonce) ==
  /\ nonce \in due /\ due' = due \ {nonce}
  /\ role' = [role EXCEPT !["alice"][nonce] = "Alice1"]
  /\ net' = net \cup {Packet("alice", Bob(nonce), nonce, FALSE)}
  /\ UNCHANGED <<open, rounds, floodfill, reached>> /\ UNCHANGED context /\ UNCHANGED intro

\* HandlePeerTestsCleanupTimer.  SSU_PEER_TEST_TIMEOUT is longer than a packet lasts.
CleanUp(r, nonce) ==
  /\ Role(r, nonce) # "Unknown" /\ \A p \in net : p.nonce # nonce
  /\ role' = [role EXCEPT ![r][nonce] = "Unknown"]
  /\ UNCHANGED <<open, net, due, rounds, floodfill, reached>> /\ UNCHANGED context /\ UNCHANGED intro

----------------------------------------------------------------------------
(* ProcessPeerTest, by the role in the test that the packet belongs to.        *)

Takes(p, sent) == p \in net /\ net' = (net \ {p}) \cup sent /\ UNCHANGED <<open, due, rounds, floodfill>>
Becomes(r, nonce, x) == role' = [role EXCEPT ![r][nonce] = x]

\* Test not found: with a port it is from Bob, without from Alice.
NewTest(p) ==
  /\ Role(p.to, p.nonce) = "Unknown" /\ p.to # "alice"
  /\ IF p.port
       THEN /\ Becomes(p.to, p.nonce, "Charlie")
            /\ Takes(p, {Packet(p.to, p.from, p.nonce, TRUE), Packet(p.to, "alice", p.nonce, TRUE)})
       ELSE Becomes(p.to, p.nonce, "Bob") /\ Takes(p, {Packet(p.to, "charlie", p.nonce, TRUE)})
  /\ UNCHANGED reached /\ UNCHANGED context /\ UNCHANGED intro

BackToAlice(p) ==
  /\ Role(p.to, p.nonce) = "Bob" /\ Becomes(p.to, p.nonce, "Unknown")
  /\ Takes(p, {Packet(p.to, "alice", p.nonce, TRUE)})
  /\ UNCHANGED reached /\ UNCHANGED context /\ UNCHANGED intro

FromAliceToCharlie(p) ==
  /\ Role(p.to, p.nonce) = "Charlie" /\ Becomes(p.to, p.nonce, "Unknown")
  /\ Takes(p, {Packet(p.to, "alice", p.nonce, TRUE)})
  /\ UNCHANGED reached /\ UNCHANGED context /\ UNCHANGED intro

Firewalled_Broken == "Firewalled"   \* the status is not looked at
Firewalled == IF status = "Testing" THEN "Firewalled" ELSE status

\* Through the session with Bob.
FromBob(p) ==
  /\ p.to = "alice" /\ p.from = Bob(p.nonce) /\ Role("alice", p.nonce) \in {"Alice1", "Alice2"}
  /\ SetStatus(IF Role("alice", p.nonce) = "Alice1" THEN Firewalled ELSE status)
  /\ Takes(p, {}) /\ UNCHANGED <<role, reached>> /\ UNCHANGED intro

\* Through any other session: the first is answered, the second ends the test.
FromCharlie(p) ==
  /\ p.to = "alice" /\ p.from = "charlie" /\ open
  /\ \/ /\ Role("alice", p.nonce) = "Alice1" /\ Becomes("alice", p.nonce, "Alice2")
        /\ Takes(p, {Packet("alice", "charlie", p.nonce, TRUE)})
     \/ /\ Role("alice", p.nonce) = "Alice2" /\ Becomes("alice", p.nonce, "Unknown") /\ Takes(p, {})
  /\ SetStatus("OK") /\ reached' = TRUE
  /\ UNCHANGED intro

\* Alice has no such test any more: a packet from Charlie's endpoint is unexpected, the session is new.
Unexpected(p) ==
  /\ p.to = "alice" /\ p.from = "charlie" /\ open /\ Role("alice", p.nonce) = "Unknown"
  /\ Takes(p, {}) /\ UNCHANGED <<role, reached>> /\ UNCHANGED context /\ UNCHANGED intro

Lose(p) ==
  /\ Takes(p, {}) /\ UNCHANGED <<role, reached>> /\ UNCHANGED context /\ UNCHANGED intro

----------------------------------------------------------------------------
(* Introducers.                                                             *)

\* Sessions come, go and get too old.
Relate(i) ==
  /\ related' = (related \ {i}) \cup ({i} \ related)
  /\ UNCHANGED <<open, rounds, floodfill, reached, introducers, introTimer>>
  /\ UNCHANGED testing /\ UNCHANGED context

\* FindIntroducers finds one; a RouterInfo that has its tag already does not take it.
NewIntroducers(kept, pub) ==
  IF Cardinality(kept) >= MaxIntroducers THEN {{}}
  ELSE {{}} \cup {{i} : i \in related \ pub.introducers}

HandleIntroducersUpdateTimer ==
  /\ introTimer
  /\ UNCHANGED <<open, rounds, floodfill, reached, related, status>> /\ UNCHANGED testing
  /\ \/ status = "Testing" /\ UNCHANGED <<introTimer, introducers, published>>
     \/ status = "OK" /\ introTimer' = FALSE /\ UNCHANGED <<introducers, published>>
     \/ /\ status = "Firewalled" /\ UNCHANGED introTimer
        /\ \E pub \in {[published EXCEPT !.introducers = @ \ (introducers \ related)]} :
             \E found \in NewIntroducers(introducers \cap related, pub) :
               /\ introducers' = (introducers \cap related) \cup found
               /\ published' = [pub EXCEPT !.introducers = @ \cup found]

----------------------------------------------------------------------------
Init ==
  /\ open \in BOOLEAN
  /\ role = [r \in Participants |-> [nonce \in Nonces |-> "Unknown"]] /\ net = {} /\ due = {} /\ rounds = 0
  /\ status = "OK" /\ floodfill = FALSE
  /\ published = [reachable |-> TRUE, floodfill |-> FALSE, introducer |-> TRUE, ntcp |-> TRUE, introducers |-> {}]
  /\ introducers = {} /\ related = {} /\ introTimer = TRUE /\ reached = FALSE

Next ==
  \/ \E f \in BOOLEAN : SetFloodfill(f)
  \/ StartRound \/ HandleIntroducersUpdateTimer
  \/ \E nonce \in Nonces : SendPeerTest(nonce) \/ \E r \in Participants : CleanUp(r, nonce)
  \/ \E p \in net : NewTest(p) \/ BackToAlice(p) \/ FromAliceToCharlie(p) \/ FromBob(p) \/ FromCharlie(p)
                    \/ Unexpected(p) \/ Lose(p)
  \/ \E i \in Relays : Relate(i)

Spec == Init /\ [][Next]_vars

----------------------------------------------------------------------------
(* A router that a stranger has reached in this round of tests is OK, whatever  *)
(* the order in which the answers of several tests come in, and one that no     *)
(* stranger reached is not, once a round has begun: until all answers are in, or *)
(* lost, it is Testing or Firewalled.                                        *)
ReachedIsOk == rounds > 0 => (status = "OK" <=> reached)

(* What is published fits the status: a firewalled router has no NTCP address    *)
(* and is neither floodfill nor introducer, one that is OK has no introducers    *)
(* and all that it can do; while it is being tested one of both is published.    *)
PublishedFits ==
  /\ status = "Firewalled" => ~published.reachable
  /\ status = "OK" => published.reachable
  /\ IF published.reachable THEN published.introducers = {} /\ published.ntcp /\ (floodfill => published.floodfill)
     ELSE ~published.floodfill /\ ~published.introducer /\ ~published.ntcp

(* "introducers we are connected to" (SSU.h:124) are what the RouterInfo says.   *)
IntroducersArePublished == status = "Firewalled" => introducers = published.introducers

(* A router that does not look for introducers any more does not need them       *)
(* (SSU.cpp:628).                                                           *)
NeedsNoIntroducers == ~introTimer => status # "Firewalled"
=============================================================================
