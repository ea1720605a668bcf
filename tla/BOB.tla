-------------------------------- MODULE BOB --------------------------------
(***************************************************************************)
(* The BOB command channel (libdotnet_client/BOB.cpp): sessions of clients   *)
(* name destinations, give them keys and start and stop their tunnels.       *)
(* Sessions share the destinations through m_Destinations.                  *)
(*                                                                         *)
(* Every handler runs on the channel's thread, except the callback of a      *)
(* lookup, which runs on the destination's.                                 *)
(***************************************************************************)
EXTENDS Integers, FiniteSets

CONSTANTS
  Clients,    \* command sessions
  Names,      \* nicknames
  NoName,     \* the empty nickname, which names a destination like any other
  MaxDests,   \* bound on the destinations started
  MaxReads    \* bound on the reads under way at once

VARIABLES
  sess,    \* the BOBCommandSession of every client
  dest,    \* every BOBDestination made so far
  named    \* m_Destinations: 0 or the number of a destination

vars == <<sess, dest, named>>

\* reading: reads under way (Receive).  sending: answers under way (Send).  asking: lookups under
\* way.  ports: m_InPort, m_OutPort with m_Address.  current: m_CurrentDestination, 0 for none.
\* owes (history): a command has not been answered.  deaf (history): half a command has come.
Absent == [state |-> "absent", reading |-> 0, sending |-> 0, asking |-> 0, nick |-> NoName,
           ports |-> {}, keys |-> FALSE, quiet |-> FALSE, active |-> FALSE, current |-> 0,
           owes |-> FALSE, deaf |-> FALSE]

\* The tunnels of a destination: those that are made, and whether they are started.
NewDest == [live |-> TRUE, tunnels |-> {}, started |-> FALSE]
NoDest == [live |-> FALSE, tunnels |-> {}, started |-> FALSE]
Dests == 1 .. MaxDests

Nicknames == Names \cup {NoName}

Set(c, st) == sess' = [sess EXCEPT ![c] = st]

\* A command: the line has been taken from a read.
Take(c) == [sess[c] EXCEPT !.reading = @ - 1, !.owes = TRUE]
Command(c) == sess[c].state = "open" /\ sess[c].reading > 0

Answer(st) == [st EXCEPT !.sending = @ + 1]

\* Terminate: what is under way ends with an error that nobody minds.
Closed(st) == [st EXCEPT !.state = "closed", !.reading = 0, !.sending = 0, !.owes = FALSE]

----------------------------------------------------------------------------
(* The channel.                                                              *)

HandleAccept(c) ==
  /\ sess[c].state = "absent"
  /\ Set(c, Answer([sess[c] EXCEPT !.state = "open", !.owes = TRUE]))   \* SendVersion
  /\ UNCHANGED <<dest, named>>

\* Half a command, for which no second half is ever read.
HandleReceivedHalf(c) ==
  /\ Command(c) /\ Set(c, [sess[c] EXCEPT !.reading = @ - 1, !.deaf = TRUE])
  /\ UNCHANGED <<dest, named>>

\* HandleSent: the next command is read, unless this was the answer to quit.
HandleSent(c) ==
  /\ sess[c].sending > 0
  /\ LET st == [sess[c] EXCEPT !.sending = @ - 1, !.owes = FALSE]
     IN  Set(c, IF st.state = "quitting" THEN Closed(st) ELSE [st EXCEPT !.reading = @ + 1])
  /\ UNCHANGED <<dest, named>>

\* A read or a write fails; zap; a line longer than the buffer.
Terminate(c) ==
  /\ sess[c].state \in {"open", "quitting"} /\ sess[c].reading + sess[c].sending > 0
  /\ Set(c, Closed(sess[c]))
  /\ UNCHANGED <<dest, named>>

----------------------------------------------------------------------------
(* Commands that change nothing but the session.                             *)

QuitCommandHandler(c) ==
  /\ Command(c) /\ Set(c, Answer([Take(c) EXCEPT !.state = "quitting"]))
  /\ UNCHANGED <<dest, named>>

SetNickCommandHandler(c, name) ==
  /\ Command(c) /\ Set(c, Answer([Take(c) EXCEPT !.nick = name]))
  /\ UNCHANGED <<dest, named>>

\* An unknown name leaves the session without a destination.
GetNickCommandHandler(c, name) ==
  /\ Command(c)
  /\ LET st == [Take(c) EXCEPT !.current = named[name]]
     IN  Set(c, Answer(IF named[name] # 0 THEN [st EXCEPT !.nick = name, !.keys = TRUE] ELSE st))
  /\ UNCHANGED <<dest, named>>

NewkeysCommandHandler(c) ==
  /\ Command(c) /\ Set(c, Answer([Take(c) EXCEPT !.keys = TRUE]))
  /\ UNCHANGED <<dest, named>>

PortCommandHandler(c, which) ==
  /\ Command(c) /\ Set(c, Answer([Take(c) EXCEPT !.ports = @ \cup {which}]))
  /\ UNCHANGED <<dest, named>>

QuietCommandHandler(c) ==
  /\ Command(c)
  /\ Set(c, Answer([Take(c) EXCEPT !.quiet = @ \/ (sess[c].nick # NoName /\ ~sess[c].active)]))
  /\ UNCHANGED <<dest, named>>

\* getkeys, getdest, option, status, an unknown command, an error of the others.
AnsweredCommand(c) ==
  /\ Command(c) /\ Set(c, Answer(Take(c)))
  /\ UNCHANGED <<dest, named>>

\* Every name is an answer of its own, all of them in one buffer, and each has a command read.
ListCommandHandler(c) ==
  LET n == Cardinality({name \in Nicknames : named[name] # 0}) + 1 IN
  /\ Command(c) /\ sess[c].reading + n <= MaxReads
  /\ Set(c, [Take(c) EXCEPT !.sending = @ + n])
  /\ UNCHANGED <<dest, named>>

----------------------------------------------------------------------------
(* Lookups: answered at once, or when the lease set has been requested.      *)

LookupCommandHandler(c) ==
  /\ Command(c)
  /\ sess[c].current # 0 => dest[sess[c].current].live
  /\ Set(c, [Take(c) EXCEPT !.asking = @ + 1])
  /\ UNCHANGED <<dest, named>>

LookupComplete(c) ==
  /\ sess[c].asking > 0
  /\ LET st == [sess[c] EXCEPT !.asking = @ - 1]
     IN  Set(c, IF st.state = "closed" THEN st ELSE Answer(st))
  /\ UNCHANGED <<dest, named>>

----------------------------------------------------------------------------
(* Destinations.  A destination that was deleted while a session still has   *)
(* it as its current one is a dangling pointer: nothing is said of what      *)
(* comes of using it.                                                       *)

Usable(c) == sess[c].current # 0 => dest[sess[c].current].live

Free == {d \in Dests : ~dest[d].live /\ \A c \in Clients : sess[c].current # d}

\* CreateInboundTunnel and CreateOutboundTunnel leave a tunnel that is there alone.
StartCommandHandler(c) ==
  /\ Command(c)
  /\ \/ sess[c].active /\ Set(c, Answer(Take(c))) /\ UNCHANGED <<dest, named>>
     \/ /\ ~sess[c].active /\ sess[c].current # 0 /\ Usable(c)
        /\ dest' = [dest EXCEPT ![sess[c].current].tunnels = @ \cup sess[c].ports,
                                ![sess[c].current].started = TRUE]
        /\ Set(c, Answer([Take(c) EXCEPT !.active = TRUE])) /\ UNCHANGED named
     \/ /\ ~sess[c].active /\ sess[c].current = 0 /\ sess[c].keys
        /\ \E d \in Free :
             /\ dest' = [dest EXCEPT ![d] = [NewDest EXCEPT !.tunnels = sess[c].ports, !.started = TRUE]]
             /\ named' = [named EXCEPT ![sess[c].nick] = d]
             /\ Set(c, Answer([Take(c) EXCEPT !.active = TRUE, !.current = d]))

\* StopTunnels of the destination with the session's nickname, whichever its current one is.
Stopped(d) == dest' = [dest EXCEPT ![d].tunnels = {}, ![d].started = FALSE]
Nicked(c) == named[sess[c].nick]
StopCommandHandler(c) ==
  /\ Command(c)
  /\ \/ ~sess[c].active /\ UNCHANGED dest
     \/ sess[c].active /\ Nicked(c) # 0 /\ Stopped(Nicked(c))
     \/ sess[c].active /\ Nicked(c) = 0 /\ UNCHANGED dest
  /\ Set(c, Answer([Take(c) EXCEPT !.active = FALSE]))
  /\ UNCHANGED named

\* DeleteDestination.  The session keeps its current destination, and goes on being active.
ClearCommandHandler(c) ==
  /\ Command(c)
  /\ IF Nicked(c) = 0 THEN UNCHANGED <<dest, named>>
     ELSE /\ dest' = [dest EXCEPT ![Nicked(c)] = NoDest]
          /\ named' = [named EXCEPT ![sess[c].nick] = 0]
  /\ Set(c, Answer([Take(c) EXCEPT !.nick = NoName]))

----------------------------------------------------------------------------
Init ==
  /\ sess = [c \in Clients |-> Absent]
  /\ dest = [d \in Dests |-> NoDest]
  /\ named = [name \in Nicknames |-> 0]

Next ==
  \E c \in Clients :
    \/ HandleAccept(c) \/ HandleReceivedHalf(c) \/ HandleSent(c) \/ Terminate(c)
    \/ QuitCommandHandler(c) \/ NewkeysCommandHandler(c) \/ QuietCommandHandler(c)
    \/ AnsweredCommand(c) \/ ListCommandHandler(c)
    \/ LookupCommandHandler(c) \/ LookupComplete(c)
    \/ StartCommandHandler(c) \/ StopCommandHandler(c) \/ ClearCommandHandler(c)
    \/ \E name \in Nicknames : SetNickCommandHandler(c, name) \/ GetNickCommandHandler(c, name)
    \/ \E which \in {"in", "out"} : PortCommandHandler(c, which)

\* What is written is sent or fails, and a lease set request ends.
Fairness == \A c \in Clients : WF_vars(HandleSent(c)) /\ WF_vars(LookupComplete(c))

Spec == Init /\ [][Next]_vars /\ Fairness

----------------------------------------------------------------------------
\* Every command that HandleReceived has found in its buffer is answered, until the session is closed.
Owes(c) == sess[c].owes

\* The current destination of a session that is open exists.  It does not hold: clear deletes
\* the destination and leaves m_CurrentDestination of every session that uses it.
CurrentIsAlive ==
  \A c \in Clients :
    sess[c].state = "open" /\ sess[c].current # 0 => dest[sess[c].current].live

\* A session that is open reads the next command, or is about to.  It does not hold: half a
\* command, as TCP may well deliver it, is the last that is read.
ReadsOn ==
  \A c \in Clients :
    sess[c].state = "open" => sess[c].reading + sess[c].sending + sess[c].asking > 0
=============================================================================
