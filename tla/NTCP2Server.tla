----------------------------- MODULE NTCP2Server -----------------------------
(***************************************************************************)
(* The sessions that NTCP2Server has with one router, in both directions    *)
(* (NTCP2Server and the life of NTCP2Session in libdotnet/NTCP2.cpp): from  *)
(* the connection over the handshake, which module NTCP2 details, to        *)
(* Terminate, and what Transports is told about them.                       *)
(*                                                                         *)
(* Handlers run one after the other on the server's thread.  Terminate      *)
(* closes the socket: operations in progress end with an error, but the     *)
(* handler of one that is complete still runs as if nothing had happened.   *)
(***************************************************************************)
EXTENDS Integers, Sequences, FiniteSets

CONSTANT MaxSessions   \* bound on the sessions

VARIABLES
  session,   \* every session with the router, in the order of creation
  listed,    \* the session that m_NTCP2Sessions has for the router
  pending,   \* m_PendingIncomingSessions
  forgotten, \* history: sessions that lost their place in m_NTCP2Sessions to another's end
  told       \* history: for each session, what Transports was told

vars == <<session, listed, pending, forgotten, told>>

None == 0
Sessions == DOMAIN session

\* quiet: no activity for its termination timeout.  Whose identity an incoming session has is
\* only known after the handshake.
NewSession(isOutgoing, phase) ==
  [ outgoing |-> isOutgoing, known |-> isOutgoing, phase |-> phase,
    established |-> FALSE, terminated |-> FALSE, closing |-> FALSE, quiet |-> FALSE ]

----------------------------------------------------------------------------
(* Terminate removes whatever m_NTCP2Sessions has for the router.            *)

\* The state of the server after the sessions of ending have terminated.
Terminated(ending, st) ==
  LET alive == {s \in ending : ~st.session[s].terminated}
      removes == \E s \in alive : st.session[s].known
  IN  [ session   |-> [s \in DOMAIN st.session |->
                         IF s \in alive
                           THEN [st.session[s] EXCEPT !.terminated = TRUE, !.established = FALSE]
                           ELSE st.session[s]],
        listed    |-> IF removes THEN None ELSE st.listed,
        pending   |-> st.pending,
        forgotten |-> st.forgotten \cup IF removes THEN {st.listed} \ (ending \cup {None}) ELSE {},
        told      |-> [s \in DOMAIN st.told |->
                         IF s \in alive /\ st.session[s].known
                           THEN Append(st.told[s], "disconnected") ELSE st.told[s]] ]

State == [session |-> session, listed |-> listed, pending |-> pending, forgotten |-> forgotten, told |-> told]

Become(st) ==
  /\ session' = st.session /\ listed' = st.listed /\ pending' = st.pending
  /\ forgotten' = st.forgotten /\ told' = st.told

Terminate(s) == ~session[s].terminated /\ Become(Terminated({s}, State))

\* AddNTCP2Session: there is one already, or it takes the place.
Added(s, st) ==
  IF st.listed # None THEN Terminated({s}, st) ELSE [st EXCEPT !.listed = s]

Established(s, st) ==
  [st EXCEPT !.session[s].established = TRUE, !.session[s].phase = "ready",
             !.told[s] = Append(@, "connected")]

----------------------------------------------------------------------------
(* Outgoing sessions.                                                        *)

Starts(isOutgoing, phase, waiting) ==
  /\ Len(session) < MaxSessions
  /\ session' = Append(session, NewSession(isOutgoing, phase))
  /\ told' = Append(told, <<>>)
  /\ pending' = IF waiting THEN pending \cup {Len(session) + 1} ELSE pending
  /\ UNCHANGED <<listed, forgotten>>

\* Connect posts its work to the server.
Connect == Starts(TRUE, "posted", FALSE)

PostedConnect(s) ==
  /\ session[s].phase = "posted"
  /\ Become(Added(s, [State EXCEPT !.session[s].phase = "connecting"]))

MoveOn(s, from, to) ==
  /\ session[s].phase = from /\ ~session[s].terminated
  /\ session' = [session EXCEPT ![s].phase = to]
  /\ UNCHANGED <<listed, pending, forgotten, told>>

HandleConnect(s) == MoveOn(s, "connecting", "handshake")

\* Connected in vain, or not within the time of the timer that Connect has set.
ConnectFails(s) == session[s].phase = "connecting" /\ Terminate(s)

SendSessionConfirmed(s) == session[s].outgoing /\ MoveOn(s, "handshake", "confirms")

\* The error code is not looked at: it runs for a session that has terminated, too.
HandleSessionConfirmedSent(s) ==
  session[s].phase = "confirms" /\ Become(Established(s, State))

----------------------------------------------------------------------------
(* Incoming sessions.                                                        *)

HandleAccept == Starts(FALSE, "handshake", TRUE)

ReadSessionConfirmed(s) == ~session[s].outgoing /\ MoveOn(s, "handshake", "read")

\* What it says is refused, or the session is ready, whatever AddNTCP2Session returns.
HandleSessionConfirmedReceived(s) ==
  LET known == [State EXCEPT !.session[s].known = TRUE]
  IN  /\ session[s].phase = "read"
      /\ \/ Become(Terminated({s}, [State EXCEPT !.session[s].phase = "refused"]))
         \/ Become(Established(s, Added(s, known)))

----------------------------------------------------------------------------
(* The end of sessions.                                                      *)

\* A read fails, in the handshake or after it, or the other end terminates.
ReadFails(s) == session[s].phase \in {"handshake", "confirms", "ready"} /\ Terminate(s)

\* No activity for the session's termination timeout.
BecomeQuiet(s) ==
  /\ ~session[s].quiet /\ session' = [session EXCEPT ![s].quiet = TRUE]
  /\ UNCHANGED <<listed, pending, forgotten, told>>

\* Terminate has been posted behind a termination frame.
TerminateByTimeout(s) == session[s].closing /\ Terminate(s)

StillPending(s) == ~session[s].established /\ ~session[s].terminated

TimedOut_Broken(s) == FALSE   \* a quiet session is dropped from the list and not ended

TimedOut(s) == s \in pending /\ StillPending(s) /\ session[s].quiet

Checked ==
  IF listed = None \/ ~session[listed].quiet THEN State
  ELSE [State EXCEPT !.session[listed].closing = TRUE]

HandleTerminationTimer ==
  Become([Terminated({s \in Sessions : TimedOut(s)}, Checked) EXCEPT
            !.pending = {s \in pending : StillPending(s) /\ ~session[s].quiet}])

----------------------------------------------------------------------------
Init ==
  /\ session = <<>> /\ listed = None /\ pending = {}
  /\ forgotten = {} /\ told = <<>>

Next ==
  \/ Connect \/ HandleAccept \/ HandleTerminationTimer
  \/ \E s \in Sessions :
       \/ PostedConnect(s) \/ HandleConnect(s) \/ ConnectFails(s)
       \/ SendSessionConfirmed(s) \/ HandleSessionConfirmedSent(s)
       \/ ReadSessionConfirmed(s) \/ HandleSessionConfirmedReceived(s)
       \/ ReadFails(s) \/ BecomeQuiet(s) \/ TerminateByTimeout(s)

\* What the server's thread does on its own.
Fairness ==
  /\ WF_vars(HandleTerminationTimer)
  /\ \A s \in 1 .. MaxSessions :
       /\ WF_vars(s \in Sessions /\ PostedConnect(s))
       /\ WF_vars(s \in Sessions /\ TerminateByTimeout(s))

Spec == Init /\ [][Next]_vars /\ Fairness

----------------------------------------------------------------------------
(* A session on which nothing happens any more ends, in whatever part of the  *)
(* handshake it has got stuck (HandleTerminationTimer), unless the end of     *)
(* another session with the same router has removed it from m_NTCP2Sessions.  *)
Stuck(s) == s \in Sessions /\ session[s].quiet /\ ~session[s].terminated /\ s \notin forgotten
SessionsEnd == \A s \in 1 .. MaxSessions : Stuck(s) ~> ~Stuck(s)

(* A session that Transports is told is connected is "ready to communicate"   *)
(* (NTCP2.cpp:700): it is not one that has terminated.                        *)
ReadyIsOpen ==
  \A s \in Sessions : ~(session[s].established /\ session[s].terminated)
=============================================================================
