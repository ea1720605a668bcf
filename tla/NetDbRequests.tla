---------------------------- MODULE NetDbRequests ----------------------------
(***************************************************************************)
(* The requests for RouterInfos that NetDb has under way                     *)
(* (libdotnet/NetDbRequests.cpp and their use in libdotnet/NetDb.cpp): who   *)
(* is asked, what becomes of the answers, and what the one who wants a       *)
(* router is told.                                                           *)
(*                                                                         *)
(* The NetDb thread answers, manages and explores.  Another thread, that of  *)
(* the transports, requests as well: it makes the request known before it    *)
(* has asked anybody.                                                        *)
(***************************************************************************)
EXTENDS Integers, SequencesExt, FiniteSetsExt

CONSTANTS
  Destinations,   \* of routers and of exploration
  Floodfills,     \* numbers, the closest first
  MaxPeers,       \* 7: a request is not sent to more
  Patience,       \* 5 seconds
  Lifetime,       \* 60 seconds
  MaxRequests     \* bound on the RequestedDestination objects

VARIABLES
  request,    \* every RequestedDestination, in the order of creation
  table,      \* m_RequestedDestinations: the number of the request for a destination
  making,     \* the request that another thread has made known and has not sent
  lookups,    \* <<destination, floodfill>>: what has been asked and not been answered
  told,       \* history: for each request, what its callback has been called with
  obsolete    \* history: the ages of requests that ManageRequests has called worthless

vars == <<request, table, making, lookups, told, obsolete>>

None == 0
Never == Lifetime + 1   \* the age of a request whose m_CreationTime is still 0
Nothing == <<>>
Requested == DOMAIN table

NewRequest(d, isExploratory, hasCallback) ==
  [destination |-> d, exploratory |-> isExploratory, excluded |-> {}, age |-> Never, callback |-> hasCallback]

State == [request |-> request, table |-> table, making |-> making, lookups |-> lookups,
          told |-> told, obsolete |-> obsolete]

----------------------------------------------------------------------------
(* The life of a RequestedDestination.                                       *)

Called_Broken(st, i, result) ==   \* the callback is not reset
  IF st.request[i].callback THEN [st EXCEPT !.told[i] = Append(@, result)] ELSE st

\* Success and Fail.
Called(st, i, result) ==
  IF st.request[i].callback
    THEN [st EXCEPT !.told[i] = Append(@, result), !.request[i].callback = FALSE]
    ELSE st

IsHeld(st, i) == i = st.making \/ \E d \in DOMAIN st.table : st.table[d] = i

\* The destructor: a request that nobody holds any more fails, unless it has been answered.
Destroyed(st) == {i \in DOMAIN st.request : st.request[i].callback /\ ~IsHeld(st, i)}

Become(next) ==
  \E st \in {next} :
    /\ request' = [i \in DOMAIN st.request |->
                     IF i \in Destroyed(st) THEN [st.request[i] EXCEPT !.callback = FALSE] ELSE st.request[i]]
    /\ told' = [i \in DOMAIN st.told |->
                  IF i \in Destroyed(st) THEN Append(st.told[i], "failed") ELSE st.told[i]]
    /\ table' = st.table /\ making' = st.making /\ lookups' = st.lookups /\ obsolete' = st.obsolete

Without(f, d) == [k \in DOMAIN f \ {d} |-> f[k]]

\* CreateRequest: it is known, or there is one already and it is destroyed again.
Created(st, d, isExploratory, hasCallback) ==
  LET made == [st EXCEPT !.request = Append(@, NewRequest(d, isExploratory, hasCallback)),
                         !.told = Append(@, <<>>)]
  IN  IF d \in DOMAIN st.table THEN made ELSE [made EXCEPT !.table = (d :> Len(made.request)) @@ @]

\* NetDbRequests::RequestComplete.
Completed(st, d, result) ==
  IF d \in DOMAIN st.table
    THEN Called([st EXCEPT !.table = Without(@, d)], st.table[d], result)
    ELSE st

\* CreateRequestMessage, of either kind.
Excluding(r, f) == [r EXCEPT !.excluded = @ \cup {f}, !.age = 0]
Excluding_Broken(r, f) == [r EXCEPT !.age = 0]   \* who has been asked is not remembered

Sent(st, i, f) ==
  [st EXCEPT !.request[i] = Excluding(@, f), !.lookups = @ \cup {<<st.request[i].destination, f>>}]

Candidates(r) == Floodfills \ r.excluded
ClosestFloodfill(r) == Min(Candidates(r))

\* What RequestDestination does behind CreateRequest.
Asked(st, i) ==
  IF Candidates(st.request[i]) # {}
    THEN Sent(st, i, ClosestFloodfill(st.request[i]))
    ELSE Completed(st, st.request[i].destination, "failed")

----------------------------------------------------------------------------
(* Other threads.                                                            *)

Fits(n) == Len(request) + n <= MaxRequests

RequestDestination(d) ==
  /\ Fits(1) /\ making = None
  /\ LET st == Created(State, d, FALSE, TRUE)
     IN  Become(IF d \in Requested THEN st ELSE [st EXCEPT !.making = Len(st.request)])

SendRequest ==
  making # None /\ Become([Asked(State, making) EXCEPT !.making = None])

----------------------------------------------------------------------------
(* The NetDb thread.                                                         *)

\* RequestDestination, or RequestDestinationFrom while one floodfill is asked for everything,
\* for a router that a reply names.
RequestFrom(st, d, f) ==
  LET made == Created(st, d, TRUE, FALSE)
  IN  IF d \in DOMAIN st.table THEN made
      ELSE [made EXCEPT !.request[Len(made.request)].age = 0, !.lookups = @ \cup {<<d, f>>}]

RequestRouter(st, d) ==
  LET made == Created(st, d, FALSE, FALSE)
  IN  IF d \in DOMAIN st.table THEN made ELSE Asked(made, Len(made.request))

WithRouters(st, named) ==
  IF named = None THEN {st}
  ELSE {RequestRouter(st, named), RequestFrom(st, named, Min(Floodfills))}

Answered(d, f) == [State EXCEPT !.lookups = @ \ {<<d, f>>}]

\* AddRouterInfo, for whatever reason the RouterInfo has come.
HandleDatabaseStore(d) == Become(Completed(State, d, "found"))

\* Another floodfill is asked if there are tunnels both ways.
NextAsked(st, i, tunnels) ==
  LET r == st.request[i]
  IN  IF ~r.exploratory /\ tunnels /\ Cardinality(r.excluded) < MaxPeers /\ Candidates(r) # {}
        THEN Sent(st, i, ClosestFloodfill(r))
        ELSE Completed(st, r.destination, "failed")

HandleDatabaseSearchReply(d, f) ==
  /\ <<d, f>> \in lookups
  /\ \E named \in {None} \cup Destinations, tunnels \in BOOLEAN :
       LET st == Answered(d, f)
           next == IF d \notin Requested THEN st
                   ELSE IF named = None THEN Completed(st, d, "failed")
                   ELSE NextAsked(st, table[d], tunnels)
       IN  /\ named # None => Fits(1)
           /\ \E end \in WithRouters(next, named) : Become(end)

\* A request is left alone, sent to the next floodfill or done.
IsObsolete(r) == r.age >= Lifetime
IsRepeated(r, tunnels) ==
  tunnels /\ ~r.exploratory /\ Cardinality(r.excluded) < MaxPeers /\ Candidates(r) # {}

ManageRequests ==
  \E tunnels \in BOOLEAN :
    LET of(d) == request[table[d]]
        late == {d \in Requested : of(d).age > Patience}
        worthless == {d \in late : IsObsolete(of(d))}
        again == {d \in late \ worthless : IsRepeated(of(d), tunnels)}
        repeated == {table[d] : d \in again}
    IN  Become([State EXCEPT
          !.table = [d \in Requested \ (late \ again) |-> table[d]],
          !.request = [i \in DOMAIN request |->
             IF i \in repeated THEN Excluding(request[i], ClosestFloodfill(request[i])) ELSE request[i]],
          !.lookups = @ \cup {<<d, ClosestFloodfill(of(d))>> : d \in again},
          !.obsolete = @ \cup {of(d).age : d \in worthless}])

\* One round of the loop of Explore.  Lookups are queued for the tunnels as long as no
\* floodfill is connected; what is queued by then is not sent.
Explored(st, d, isConnected) ==
  LET made == [st EXCEPT !.base = Created(@, d, TRUE, FALSE)]
      i == Len(made.base.request)
      r == made.base.request[i]
      direct == ~st.through \/ isConnected
      f == ClosestFloodfill(r)
  IN  IF st.over THEN st
      ELSE IF d \in DOMAIN st.base.table THEN [made EXCEPT !.over = TRUE]
      ELSE IF Candidates(r) = {} THEN [made EXCEPT !.base = Completed(@, d, "failed")]
      ELSE IF direct THEN [made EXCEPT !.through = FALSE, !.base = Sent(@, i, f)]
      ELSE [made EXCEPT !.base.request[i] = Excluding(@, f), !.queued = @ \cup {<<d, f>>}]

Explore ==
  \E hashes \in [1 .. 2 -> Destinations], tunnels \in BOOLEAN, isConnected \in BOOLEAN :
    LET first == Explored([base |-> State, through |-> tunnels, queued |-> {}, over |-> FALSE],
                          hashes[1], FALSE)
        end == Explored(first, hashes[2], isConnected)
    IN  /\ Fits(2)
        /\ Become([end.base EXCEPT !.lookups = @ \cup (IF end.through /\ ~end.over THEN end.queued ELSE {})])

Ages(i) == IsHeld(State, i) /\ request[i].age < Lifetime

Tick ==
  /\ request' = [i \in DOMAIN request |->
                   IF Ages(i) THEN [request[i] EXCEPT !.age = @ + 1] ELSE request[i]]
  /\ UNCHANGED <<table, making, lookups, told, obsolete>>

----------------------------------------------------------------------------
Init ==
  /\ request = <<>> /\ table = Nothing /\ making = None
  /\ lookups = {} /\ told = <<>> /\ obsolete = {}

Next ==
  \/ SendRequest \/ ManageRequests \/ Explore \/ Tick
  \/ \E d \in Destinations :
       \/ RequestDestination(d) \/ HandleDatabaseStore(d)
       \/ \E f \in Floodfills : HandleDatabaseSearchReply(d, f)

\* Nobody needs to answer; the NetDb thread manages its requests every 15 seconds.
Fairness == WF_vars(ManageRequests) /\ WF_vars(SendRequest) /\ WF_vars(Tick)

Spec == Init /\ [][Next]_vars /\ Fairness

----------------------------------------------------------------------------
(* Who asks for a router is told once: by the answer, by the failure or by the *)
(* end of the request, but not by two of them (Success, Fail and the           *)
(* destructor), in whatever order answers, threads and timeouts meet.          *)
ToldOnce == \A i \in DOMAIN told : Len(told[i]) <= 1

(* Who asks for a router is told in the end, although no floodfill may answer: *)
(* a request runs out of floodfills, of attempts or of time (ManageRequests).  *)
Waits(i) == i \in DOMAIN request /\ request[i].callback
EveryRequestEnds == \A i \in 1 .. MaxRequests : Waits(i) ~> ~Waits(i)

(* "request is worthless after 1 minute" (NetDbRequests.cpp:120): what is      *)
(* deleted as obsolete has waited for a minute.                                *)
WorthlessIsOld == Never \notin obsolete
=============================================================================
