---------------------------- MODULE ClientContext ----------------------------
(***************************************************************************)
(* ClientContext (ClientContext.cpp): the tunnels and proxies of the             *)
(* configuration, the destinations they use, and ReloadConfig.  A tunnel holds    *)
(* its destination by a reference count (Acquire and Release), and its acceptor    *)
(* lives on the io_service of the destination it was started with.              *)
(*                                                                         *)
(* A destination is an object, numbered as it is created: an identity that was     *)
(* deleted and is used again gets another one.  Transient keys are new each time. *)
(* ReloadConfig runs on a thread of the daemon and is two steps, between which a   *)
(* SAM session may come and go; the constructors and destructors of tunnels are     *)
(* part of the step that calls them.                                          *)
(***************************************************************************)
EXTENDS Integers, Sequences, SequencesExt, FiniteSetsExt

CONSTANTS
  Configs,     \* what the configuration files may say: sequences of sections
  Corrupt,     \* files of keys that cannot be loaded
  Ports,       \* the ports of server tunnels
  HttpKeys,    \* httpproxy.keys, or "off"
  SocksKeys,   \* socksproxy.keys, or "off"
  Samples,     \* SAM sessions
  MaxReloads   \* bound: reloads

VARIABLES
  step,      \* "new", "idle", "deleting" (within ReloadConfig) or "stopped"
  context,   \* the members of ClientContext
  config,    \* what was read last
  sessions,  \* SAM sessions: their state and their destination
  reloads

vars == <<step, context, config, sessions, reloads>>

NoOne == 0
None == [dest |-> 0, service |-> 0]
Empty == [x \in {} |-> 0]

----------------------------------------------------------------------------
(* Destinations.                                                            *)

\* Of each, m_Destinations lists it or not; m_StreamingDestinationsByPorts has who was created for a port and
\* whether it was given an acceptor; default is whose acceptor m_StreamingDestination has, receiver whose
\* receiver the datagram destination has.
NewDestination(keys) ==
  [ident |-> keys, running |-> TRUE, listed |-> TRUE, refs |-> 0,
   ports |-> [p \in Ports |-> [tunnel |-> NoOne, accepts |-> FALSE]], default |-> NoOne, receiver |-> NoOne]

Acquire(c, d) == [c EXCEPT !.dests[d].refs = @ + 1]
Release(c, d) == [c EXCEPT !.dests[d].refs = @ - 1]
Stopped(dest) == [dest EXCEPT !.running = FALSE, !.listed = FALSE]

\* LoadPrivateKeys, FindLocalDestination and CreateNewLocalDestination.
Loads(keys) == keys # "" /\ keys \notin Corrupt
Found(c, keys) == {d \in DOMAIN c.dests : c.dests[d].listed /\ c.dests[d].ident = keys /\ keys # "transient"}
Obtain(c, keys) ==
  IF Found(c, keys) # {} THEN [context |-> c, dest |-> CHOOSE d \in Found(c, keys) : TRUE]
  ELSE [context |-> [c EXCEPT !.dests = Append(@, NewDestination(keys))], dest |-> Len(c.dests) + 1]
Created(c, keys) == Obtain(c, keys).context

CreateNewSharedLocalDestination(c) ==
  LET new == Obtain(c, "transient") IN Acquire([new.context EXCEPT !.shared = new.dest], new.dest)

----------------------------------------------------------------------------
(* ReadTunnels: one section after the other.  For what is there already a second   *)
(* tunnel is made, gives its destination to the first, and is destroyed.          *)

SetLocalDestination(c, at, d) ==
  Acquire(Release([c EXCEPT !.clients[at].dest = d], c.clients[at].dest), d)

Client(c, s) ==
  LET o == IF Loads(s.keys) THEN Obtain(c, s.keys)
           ELSE IF s.type = "proxy" THEN [context |-> c, dest |-> c.shared] ELSE Obtain(c, "transient")
      made == Acquire(o.context, o.dest)
  IN  IF s.at \notin DOMAIN c.clients
      THEN [made EXCEPT !.clients = [e \in DOMAIN @ \cup {s.at} |->
              IF e = s.at THEN [dest |-> o.dest, service |-> o.dest, updated |-> TRUE] ELSE @[e]]]
      ELSE LET given == IF c.clients[s.at].dest = o.dest THEN made ELSE SetLocalDestination(made, s.at, o.dest)
           IN  Release([given EXCEPT !.clients[s.at].updated = TRUE], o.dest)

\* The constructor of a server tunnel takes the port; Start gives it, and a destination without one, an acceptor.
PortOf(s) == IF s.at > 0 THEN s.at ELSE s.port
Server(c, s) ==
  LET o    == Obtain(c, s.keys)
      at   == <<o.dest, s.at>>
      new  == at \notin DOMAIN c.servers
      id   == o.context.tunnels + 1
      made == [o.context EXCEPT !.tunnels = id,
                                !.dests[o.dest].ports[PortOf(s)] = [tunnel |-> id, accepts |-> new],
                                !.dests[o.dest].default = IF new /\ @ = NoOne THEN id ELSE @]
  IN  IF new
      THEN Acquire([made EXCEPT !.servers = [k \in DOMAIN @ \cup {at} |->
              IF k = at THEN [dest |-> o.dest, tunnel |-> id, port |-> PortOf(s), updated |-> TRUE] ELSE @[k]]], o.dest)
      ELSE [made EXCEPT !.servers[at].updated = TRUE]

\* m_ClientForwards and m_ServerForwards, by <<0, endpoint>> and <<destination, port>>.
\* A second UDP tunnel at an endpoint cannot bind: its constructor throws.
UDPClient(c, s) ==
  LET o  == IF Loads(s.keys) THEN Obtain(c, s.keys) ELSE [context |-> c, dest |-> c.shared]
      at == <<0, s.at>>
      id == o.context.tunnels + 1
  IN  IF at \in DOMAIN c.forwards THEN o.context
      ELSE [o.context EXCEPT !.tunnels = id, !.dests[o.dest].receiver = id,
                             !.forwards = [e \in DOMAIN @ \cup {at} |->
                                             IF e = at THEN [dest |-> o.dest, tunnel |-> id] ELSE @[e]]]

\* The destructor of a second server takes the receiver away.
UDPServer(c, s) ==
  LET o  == Obtain(c, s.keys)
      at == <<o.dest, s.at>>
      id == o.context.tunnels + 1
  IN  IF at \in DOMAIN c.forwards THEN [o.context EXCEPT !.dests[o.dest].receiver = NoOne]
      ELSE [o.context EXCEPT !.tunnels = id, !.dests[o.dest].receiver = id,
                             !.forwards = [e \in DOMAIN @ \cup {at} |->
                                             IF e = at THEN [dest |-> o.dest, tunnel |-> id] ELSE @[e]]]

\* A server without its keys is left out.
ReadSection(c, s) ==
  CASE s.type \in {"client", "proxy"} -> Client(c, s)
    [] s.type = "udpclient" -> UDPClient(c, s)
    [] ~Loads(s.keys)       -> c
    [] s.type = "server"    -> Server(c, s)
    [] s.type = "udpserver" -> UDPServer(c, s)
ReadTunnels(c, sections) == FoldLeft(ReadSection, c, sections)

\* VisitTunnels, twice: UDP tunnels are not visited.
ResetUpdated(c) ==
  [c EXCEPT !.clients = [e \in DOMAIN @ |-> [@[e] EXCEPT !.updated = FALSE]],
            !.servers = [k \in DOMAIN @ |-> [@[k] EXCEPT !.updated = FALSE]]]
\* Who is not updated is stopped and destroyed; a server leaves its acceptors where they are.
DeleteNotUpdated(c) ==
  LET oldClients == {e \in DOMAIN c.clients : ~c.clients[e].updated}
      oldServers == {k \in DOMAIN c.servers : ~c.servers[k].updated}
      released   == FoldSet(LAMBDA k, acc : Release(acc, c.servers[k].dest),
                            FoldSet(LAMBDA e, acc : Release(acc, c.clients[e].dest), c, oldClients), oldServers)
  IN  [released EXCEPT !.clients = [e \in DOMAIN @ \ oldClients |-> @[e]],
                       !.servers = [k \in DOMAIN @ \ oldServers |-> @[k]]]

\* ReadHttpProxy and ReadSocksProxy: with keys the destination is acquired here and by the proxy.
ReadProxy(c, which, keys) ==
  IF keys = "off" THEN [c EXCEPT ![which] = None]
  ELSE LET o  == IF Loads(keys) THEN Obtain(c, keys) ELSE [context |-> c, dest |-> c.shared]
           c1 == IF Loads(keys) THEN Acquire(o.context, o.dest) ELSE o.context
       IN  Acquire([c1 EXCEPT ![which] = [dest |-> o.dest, service |-> o.dest]], o.dest)
ReadProxies(c) == ReadProxy(ReadProxy(c, "http", HttpKeys), "socks", SocksKeys)

----------------------------------------------------------------------------
NoContext ==
  [dests |-> <<>>, shared |-> 0, clients |-> Empty, servers |-> Empty, forwards |-> Empty,
   http |-> None, socks |-> None, cleanup |-> 0, tunnels |-> 0]

\* The timer of CleanupUDP stays on the io_service of the first shared destination.
ScheduleCleanupUDP(c) ==
  IF \E f \in DOMAIN c.forwards : f[1] # 0 THEN [c EXCEPT !.cleanup = c.shared] ELSE c

Start ==
  /\ step = "new"
  /\ \E sections \in Configs :
       /\ config' = sections
       /\ LET proxies == ReadProxies(CreateNewSharedLocalDestination(context))
          IN  context' = ScheduleCleanupUDP(ReadTunnels(proxies, sections))
  /\ step' = "idle"
  /\ UNCHANGED <<sessions, reloads>>

\* ReloadConfig until it takes m_DestinationsMutex.  The proxies are stopped and left, with what they acquired.
ReloadConfig ==
  /\ step = "idle" /\ reloads < MaxReloads
  /\ \E sections \in Configs :
       /\ config' = sections
       /\ LET read   == DeleteNotUpdated(ReadTunnels(ResetUpdated(context), sections))
              shared == CreateNewSharedLocalDestination(Release(read, read.shared))
          IN  context' = ReadProxies(shared)
  /\ step' = "deleting" /\ reloads' = reloads + 1
  /\ UNCHANGED sessions

DeleteUnused ==
  /\ step = "deleting"
  /\ context' = [context EXCEPT !.dests = [d \in DOMAIN @ |-> IF @[d].listed /\ @[d].refs <= 0 THEN Stopped(@[d]) ELSE @[d]]]
  /\ step' = "idle"
  /\ UNCHANGED <<config, sessions, reloads>>

Proxies(c) == {p \in {"http", "socks"} : c[p] # None}
Users(c, d) ==
  Cardinality({e \in DOMAIN c.clients : c.clients[e].dest = d}) + Cardinality({k \in DOMAIN c.servers : c.servers[k].dest = d})
  + Cardinality({p \in Proxies(c) : c[p].dest = d})

\* Tunnels and proxies are destroyed, with the reference that each has.
Stop ==
  /\ step = "idle"
  /\ LET left(d) == [context.dests[d] EXCEPT !.refs = @ - Users(context, d)]
     IN  context' = [NoContext EXCEPT !.dests = [d \in DOMAIN context.dests |-> Stopped(left(d))],
                                      !.tunnels = context.tunnels]
  /\ step' = "stopped"
  /\ UNCHANGED <<config, sessions, reloads>>

----------------------------------------------------------------------------
(* A SAM session, on the thread of the bridge: SAMBridge::CreateSession creates its *)
(* destination and then acquires it; the session that is closed deletes it.        *)

CreateSession(s) ==
  /\ step \in {"idle", "deleting"} /\ sessions[s].at = "none"
  /\ context' = Created(context, "transient")
  /\ sessions' = [sessions EXCEPT ![s] = [at |-> "created", dest |-> Len(context'.dests)]]
  /\ UNCHANGED <<step, config, reloads>>

AcquireSession(s) ==
  /\ step # "stopped" /\ sessions[s].at = "created"
  /\ context' = Acquire(context, sessions[s].dest)
  /\ sessions' = [sessions EXCEPT ![s].at = "open"]
  /\ UNCHANGED <<step, config, reloads>>

\* CloseSession, and DeleteLocalDestination by the destructor of the session.
CloseSession(s) ==
  /\ step # "stopped" /\ sessions[s].at = "open"
  /\ context' = [Release(context, sessions[s].dest) EXCEPT !.dests[sessions[s].dest] = Stopped(@)]
  /\ sessions' = [sessions EXCEPT ![s].at = "closed"]
  /\ UNCHANGED <<step, config, reloads>>

Init ==
  /\ step = "new" /\ context = NoContext /\ config = <<>> /\ reloads = 0
  /\ sessions = [s \in Samples |-> [at |-> "none", dest |-> 0]]

Next ==
  \/ Start \/ ReloadConfig \/ DeleteUnused \/ Stop
  \/ \E s \in Samples : CreateSession(s) \/ AcquireSession(s) \/ CloseSession(s)
Spec == Init /\ [][Next]_vars

----------------------------------------------------------------------------
Running(d) == context.dests[d].running /\ context.dests[d].listed
Sections(types) == {i \in DOMAIN config : config[i].type \in types}
LastFor(at) == config[CHOOSE i \in Sections({"client", "proxy"}) :
                        config[i].at = at /\ \A j \in Sections({"client", "proxy"}) : config[j].at = at => j <= i]

(* Whatever is reloaded, the TCP tunnels, the proxies and the context keep            *)
(* destinations that run: as many references as one has users hold it, and deletion *)
(* never takes it from them.                                                  *)
UsersRun ==
  step \in {"idle", "deleting"} =>
    /\ \A e \in DOMAIN context.clients : Running(context.clients[e].dest)
    /\ \A k \in DOMAIN context.servers : Running(context.servers[k].dest)
    /\ \A p \in Proxies(context) : Running(context[p].dest) /\ Running(context[p].service)
    /\ Running(context.shared)
    /\ \A d \in DOMAIN context.dests :
         context.dests[d].refs >= Users(context, d) + (IF context.shared = d THEN 1 ELSE 0)

(* After a reload there are the tunnels of the configuration and no others, and a    *)
(* client tunnel has the destination its last section asks for.                 *)
TablesFollowConfig ==
  step \in {"idle", "deleting"} =>
    /\ DOMAIN context.clients = {config[i].at : i \in Sections({"client", "proxy"})}
    /\ {<<context.dests[k[1]].ident, k[2]>> : k \in DOMAIN context.servers}
         = {<<config[i].keys, config[i].at>> : i \in {i \in Sections({"server"}) : Loads(config[i].keys)}}
    /\ \A e \in DOMAIN context.clients :
         Loads(LastFor(e).keys) => context.dests[context.clients[e].dest].ident = LastFor(e).keys

(* "delete not updated tunnels (not in config anymore)" (ClientContext.cpp:196): a    *)
(* tunnel that is in the configuration goes on: the service its acceptor lives on     *)
(* runs, and the port of its destination is its own.                            *)
ConfiguredTunnelsServe ==
  step = "idle" =>
    /\ \A e \in DOMAIN context.clients : Running(context.clients[e].service)
    /\ \A k \in DOMAIN context.servers :
         context.dests[k[1]].ports[context.servers[k].port] = [tunnel |-> context.servers[k].tunnel, accepts |-> TRUE]

\* These do not hold either.  "delete unused destinations" (ClientContext.cpp:221), but UDP tunnels acquire none:
DeletedIsUnused == step = "idle" => \A f \in DOMAIN context.forwards : Running(context.forwards[f].dest)
\* the timer that expires the sessions of UDP servers goes with a shared destination that a reload deletes:
CleanupRuns == step = "idle" /\ context.cleanup # 0 => Running(context.cleanup)
\* the proxies that a reload leaves keep theirs:
UnusedIsDeleted ==
  step = "idle" /\ reloads > 0 => \A d \in DOMAIN context.dests :
    Running(d) => \/ d = context.shared \/ \E p \in Proxies(context) : context[p].dest = d
                  \/ \E e \in DOMAIN context.clients : context.clients[e].dest = d
                  \/ \E k \in DOMAIN context.servers : context.servers[k].dest = d
                  \/ \E s \in Samples : sessions[s].dest = d
\* a session may have lost its destination before it acquires it;
SessionsRun == \A s \in Samples : sessions[s].at = "open" /\ step # "stopped" => Running(sessions[s].dest)
\* and a destination keeps the acceptor of a tunnel that is gone.
AcceptorsAreAlive ==
  step = "idle" => \A d \in DOMAIN context.dests :
    Running(d) /\ context.dests[d].default # NoOne =>
      \E k \in DOMAIN context.servers : context.servers[k].tunnel = context.dests[d].default

TypeOK ==
  /\ step \in {"new", "idle", "deleting", "stopped"} /\ reloads \in 0 .. MaxReloads
  /\ \A d \in DOMAIN context.dests : context.dests[d].refs \in Int /\ context.dests[d].running \in BOOLEAN
  /\ \A s \in Samples : sessions[s].at \in {"none", "created", "open", "closed"}
=============================================================================
