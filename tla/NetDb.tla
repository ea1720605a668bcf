-------------------------------- MODULE NetDb --------------------------------
(***************************************************************************)
(* The routers that NetDb knows (libdotnet/NetDb.cpp, with the RouterInfo   *)
(* that libdotnet/RouterInfo.cpp keeps for each): the table, the list of    *)
(* floodfills beside it, and the files that outlive the process.            *)
(*                                                                         *)
(* The NetDb thread handles what arrives and once a minute saves and cleans *)
(* up, in three passes under different locks.  Threads of the transports    *)
(* mark routers unreachable between any two of them.                        *)
(***************************************************************************)
EXTENDS Integers, SequencesExt, FiniteSetsExt

CONSTANTS
  Routers,         \* numbers: the order of m_RouterInfos
  Moments,         \* the times at which the clock is looked at
  Infos,           \* what routers publish of themselves, but for the time
  MinRouters,      \* NETDB_MIN_ROUTERS
  IntroduceeTime, MinTime, MaxTime,   \* NETDB_..._EXPIRATION_TIMEOUT
  Threshold,       \* reseed.threshold
  MaxStarts        \* bound on the starts of the process

VARIABLES
  known,      \* m_RouterInfos
  floodfills, \* m_Floodfills, the objects of m_RouterInfos
  stale,      \* m_Floodfills, objects no longer in m_RouterInfos, with their m_IsUnreachable
  file,       \* the files of m_Storage
  doing,      \* what the NetDb thread is at
  now,
  starts

vars == <<known, floodfills, stale, file, doing, now, starts>>

\* usable: it has an address of a supported transport, and introducers if it needs them.
\* hidden behind introducers: caps "U" (UsesIntroducer).
InfosOfCode == [floodfill : BOOLEAN, reachable : BOOLEAN, introducers : BOOLEAN, usable : BOOLEAN]

Published(info, time) == [info |-> info, time |-> time]

Nothing == <<>>   \* the empty function
Known == DOMAIN known
Drop(f, keys) == [r \in DOMAIN f \ keys |-> f[r]]

\* A RouterInfo object: what is published, m_IsUpdated and m_IsUnreachable.
Router(p, isUpdated, isUnreachable) ==
  [info |-> p.info, time |-> p.time, updated |-> isUpdated, unreachable |-> isUnreachable]

IsListable(p) == p.info.floodfill /\ p.info.reachable   \* "floodfill must be reachable"

----------------------------------------------------------------------------
(* What arrives.                                                             *)

Updated_Broken(object, p, verified) ==   \* the update is not marked for saving
  IF verified THEN Router(p, object.updated, ~p.info.usable) ELSE [object EXCEPT !.unreachable = TRUE]

\* RouterInfo::Update: a wrong signature changes nothing but the mark.
Updated(object, p, verified) ==
  IF verified THEN Router(p, TRUE, ~p.info.usable) ELSE [object EXCEPT !.unreachable = TRUE]

\* The list changes with the floodfill flag only.
Relisted(r, object) ==
  CASE known[r].info.floodfill /\ ~object.info.floodfill -> floodfills \ {r}
    [] ~known[r].info.floodfill /\ object.info.floodfill -> floodfills \cup {r}
    [] OTHER -> floodfills

UpdateRouter(r, p, verified) ==
  /\ r \in Known /\ p.time > known[r].time
  /\ known' = [known EXCEPT ![r] = Updated(@, p, verified)]
  /\ floodfills' = Relisted(r, Updated(known[r], p, verified))

InsertRouter(r, p) ==
  /\ r \notin Known /\ p.info.usable
  /\ known' = known @@ (r :> Router(p, TRUE, FALSE))
  /\ floodfills' = IF IsListable(p) THEN floodfills \cup {r} ELSE floodfills

AddRouterInfo ==
  /\ doing \in {"messages", "reseeding"}
  /\ \E r \in Routers, info \in Infos, time \in {t \in Moments : t <= now} :
       \/ InsertRouter(r, Published(info, time))
       \/ \E verified \in BOOLEAN : UpdateRouter(r, Published(info, time), verified)
  /\ UNCHANGED <<stale, file, doing, now, starts>>

\* A connection to the router has failed (the transports' threads).
SetUnreachable(r) ==
  /\ r \in Known /\ doing # "reseeding"
  /\ known' = [known EXCEPT ![r].unreachable = TRUE]
  /\ UNCHANGED <<floodfills, stale, file, doing, now, starts>>

----------------------------------------------------------------------------
(* SaveUpdated.                                                              *)

Total == Cardinality(Known)

\* The process starts at the first moment: in its first hour expiry takes the longest time.
ExpirationTimeout ==
  IF now > 1 THEN MinTime + ((MaxTime - MinTime) * MinRouters) \div Total ELSE MaxTime

\* One round of the loop: st is the files, the marks and whether routers still expire.
Saved(st, r) ==
  LET object == st.known[r]
      expired == IF object.info.introducers THEN now > object.time + IntroduceeTime
                 ELSE st.expiry /\ now > object.time + ExpirationTimeout
      unreachable == object.unreachable \/ expired
      deleted == st.deleted + 1
  IN  CASE object.updated ->
             [st EXCEPT !.known[r].updated = FALSE, !.known[r].unreachable = FALSE,
                        !.file = [q \in {r} |-> Published(object.info, object.time)] @@ @]
        [] ~object.updated /\ unreachable ->
             [st EXCEPT !.known[r].unreachable = TRUE, !.file = Drop(@, {r}), !.deleted = deleted,
                        !.expiry = @ /\ Total - deleted >= MinRouters]
        [] OTHER -> st

SaveFiles ==
  LET st == FoldLeft(Saved, [known |-> known, file |-> file, deleted |-> 0,
                             expiry |-> Total > MinRouters /\ now > 0],
                     SetToSortSeq(Known, <))
  IN  /\ doing = "messages"
      /\ known' = st.known /\ file' = st.file
      /\ doing' = IF st.deleted > 0 THEN "table" ELSE "messages"
      /\ UNCHANGED <<floodfills, stale, now, starts>>

Unreachable == {r \in Known : known[r].unreachable}

\* What m_RouterInfos drops of m_Floodfills.
Orphaned(dropped) == {<<r, known[r].unreachable>> : r \in floodfills \cap dropped}

CleanTable ==
  /\ doing = "table"
  /\ known' = Drop(known, Unreachable)
  /\ floodfills' = floodfills \ Unreachable
  /\ stale' = stale \cup Orphaned(Unreachable)
  /\ doing' = "list"
  /\ UNCHANGED <<file, now, starts>>

CleanList ==
  /\ doing = "list"
  /\ floodfills' = {r \in floodfills : known[r].info.floodfill /\ ~known[r].unreachable}
  /\ stale' = {object \in stale : ~object[2]}
  /\ doing' = "messages"
  /\ UNCHANGED <<known, file, now, starts>>

----------------------------------------------------------------------------
(* The process starts and ends.                                              *)

\* LoadRouterInfo.  m_LastLoad is in seconds and the timestamp in milliseconds: the router
\* that uses introducers is never too old.
IsLoaded(r) == file[r].info.usable

Load ==
  LET loaded == {r \in DOMAIN file : IsLoaded(r)}
  IN  /\ doing = "stopped" /\ starts < MaxStarts
      /\ known' = [r \in loaded |-> Router(file[r], FALSE, FALSE)]
      /\ floodfills' = {r \in loaded : IsListable(file[r])}
      /\ file' = Drop(file, DOMAIN file \ loaded)
      /\ doing' = IF Cardinality(loaded) < Threshold THEN "reseeding" ELSE "messages"
      /\ starts' = starts + 1
      /\ UNCHANGED <<stale, now>>

\* When more than half is outdated, ClearRouterInfos empties the table and leaves the list.
EndReseed ==
  /\ doing = "reseeding" /\ doing' = "messages"
  /\ \/ UNCHANGED <<known, floodfills, stale>>
     \/ known' = Nothing /\ floodfills' = {} /\ stale' = stale \cup Orphaned(Known)
  /\ UNCHANGED <<file, now, starts>>

\* Stop saves no router; nor does the end of the process at any other point.
Stop ==
  /\ doing # "stopped" /\ doing' = "stopped"
  /\ known' = Nothing /\ floodfills' = {} /\ stale' = {}
  /\ UNCHANGED <<file, now, starts>>

Tick ==
  /\ \E t \in Moments : t > now /\ now' = t /\ \A u \in Moments : u > now => u >= t
  /\ UNCHANGED <<known, floodfills, stale, file, doing, starts>>

----------------------------------------------------------------------------
Init ==
  /\ known = Nothing /\ floodfills = {} /\ stale = {} /\ file = Nothing
  /\ doing = "stopped" /\ now = 0 /\ starts = 0

Next ==
  \/ AddRouterInfo \/ (\E r \in Routers : SetUnreachable(r))
  \/ SaveFiles \/ CleanTable \/ CleanList
  \/ Load \/ EndReseed \/ Stop \/ Tick

Spec == Init /\ [][Next]_vars

----------------------------------------------------------------------------
(* Nothing is lost that need not be: the latest of what a router has published *)
(* is waiting to be saved or in its file, as long as the router is known and   *)
(* nobody has called it unreachable, whatever updates, marks and restarts there *)
(* have been (RouterInfo::Update, SaveUpdated, LoadRouterInfo).                *)
LatestIsKept ==
  \A r \in Known :
    known[r].updated \/ known[r].unreachable \/
      (r \in DOMAIN file /\ file[r] = Published(known[r].info, known[r].time))

(* "floodfill must be reachable" (NetDb.cpp:242, NetDb.cpp:425).               *)
FloodfillsAreReachable == \A r \in floodfills : known[r].info.reachable
=============================================================================
