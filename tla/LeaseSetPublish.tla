--------------------------- MODULE LeaseSetPublish ---------------------------
(***************************************************************************)
(* How a destination publishes its lease set (LeaseSetDestination in         *)
(* libdotnet/Destination.cpp): it sends it to the closest floodfill, waits   *)
(* for a confirmation, then asks the network for it and compares.            *)
(*                                                                         *)
(* All handlers run on the thread of the destination.  A timer that has      *)
(* expired may still wait for its handler to run; cancelling it then has no  *)
(* effect.  Messages are lost.                                              *)
(***************************************************************************)
EXTENDS Integers, FiniteSetsExt

CONSTANTS
  Floodfills,    \* numbers, the closest first
  MaxVersion,    \* bound on the lease sets
  MaxSent,       \* bound on the stores sent
  CryptoTypes    \* whether the crypto type is one that every floodfill confirms: ElGamal

VARIABLES
  version,    \* m_LeaseSet, 0 while there is none
  posted,     \* SetLeaseSet has posted Publish
  publish,    \* what Publish works on
  verifying,  \* the versions that lease set requests under way will be compared with
  stored      \* what floodfills have

vars == <<version, posted, publish, verifying, stored>>

\* elgamal: the crypto type does not change.  token: m_PublishReplyToken, the number of the store it belongs to.  recent: it is less than
\* PUBLISH_MIN_INTERVAL since m_LastSubmissionTime.  timer: "off", "armed" or "expired", for
\* the confirmation, the verification and the delay.  net: what is on its way.  last (history):
\* the version sent last.  gaveUp (history): Publish has returned for want of tunnels or
\* floodfills.
None == 0
Timers == {"confirmation", "verification", "delay"}

Candidates(st) == Floodfills \ st.excluded

Arm(st, t) == [st EXCEPT !.timer[t] = "armed"]
Off(st, t) == [st EXCEPT !.timer[t] = "off"]
Cancel(st, t) == IF st.timer[t] = "armed" THEN Off(st, t) ELSE st

----------------------------------------------------------------------------
(* Publish: the states that it may leave.                                    *)

\* No tunnel, or no floodfill.
GivenUp(st) ==
  {[st EXCEPT !.gaveUp = TRUE, !.excluded = IF Candidates(st) = {} THEN {} ELSE @]}

Sent(st) ==
  LET f == Min(Candidates(st))
      n == st.sent + 1
  IN  IF Candidates(st) = {} \/ n > MaxSent THEN {}
      ELSE {[Arm(st, "confirmation") EXCEPT
               !.excluded = @ \cup {f}, !.sent = n, !.last = version, !.token = n, !.recent = TRUE,
               !.net = @ \cup {[type |-> "store", id |-> n, at |-> f, version |-> version]}]}

TooFast_Broken(st) == {st}   \* it counts on the next update
TooFast(st) == {Arm(st, "delay")}

Published(st) ==
  CASE version = 0 \/ st.token # None -> {st}
    [] version # 0 /\ st.token = None /\ st.recent -> TooFast(st)
    [] OTHER -> GivenUp(st) \cup Sent(st)

----------------------------------------------------------------------------
(* Handlers.                                                                 *)

\* UpdateLeaseSet and SetLeaseSet, for a change of the inbound tunnels.
SetLeaseSet ==
  /\ version < MaxVersion /\ version' = version + 1 /\ posted' = TRUE
  /\ UNCHANGED <<publish, verifying, stored>>

PostedPublish ==
  /\ posted /\ posted' = FALSE
  /\ publish' \in Published(Cancel(publish, "verification"))
  /\ UNCHANGED <<version, verifying, stored>>

\* The confirmation of the store that is waited for, or a late one.
HandleDeliveryStatus(m) ==
  LET st == [publish EXCEPT !.net = @ \ {m}]
  IN  /\ m \in publish.net /\ m.type = "status"
      /\ publish' = IF m.id = publish.token
                      THEN Arm([st EXCEPT !.token = None, !.excluded = {}], "verification")
                      ELSE st
      /\ UNCHANGED <<version, posted, verifying, stored>>

\* Nothing has come: it is published again or, where floodfills may not confirm, verified.
HandlePublishConfirmationTimer ==
  LET st == [Off(publish, "confirmation") EXCEPT !.token = None]
  IN  /\ publish.timer["confirmation"] = "expired"
      /\ \/ publish.token = None /\ publish' = st
         \/ publish.token # None /\ publish.elgamal /\ publish' \in Published(st)
         \/ publish.token # None /\ ~publish.elgamal /\ publish' = Arm(st, "verification")
      /\ UNCHANGED <<version, posted, verifying, stored>>

HandlePublishDelayTimer ==
  /\ publish.timer["delay"] = "expired"
  /\ publish' \in Published(Off(publish, "delay"))
  /\ UNCHANGED <<version, posted, verifying, stored>>

\* RequestLeaseSet, see module LeaseSetRequests.
HandlePublishVerificationTimer ==
  /\ publish.timer["verification"] = "expired"
  /\ publish' = Off(publish, "verification")
  /\ verifying' = verifying \cup {version}
  /\ UNCHANGED <<version, posted, stored>>

\* Its callback: somebody has what was published, or it is published again.
HandleVerified(v) ==
  /\ v \in verifying /\ verifying' = verifying \ {v}
  /\ \/ (\E f \in Floodfills : stored[f] = v) /\ publish' = Arm(publish, "verification")
     \/ publish' \in Published(publish)
  /\ UNCHANGED <<version, posted, stored>>

Expire(t) ==
  /\ publish.timer[t] = "armed"
  /\ publish' = [publish EXCEPT !.timer[t] = "expired"]
  /\ UNCHANGED <<version, posted, verifying, stored>>

IntervalPasses ==
  /\ publish.recent /\ publish' = [publish EXCEPT !.recent = FALSE]
  /\ UNCHANGED <<version, posted, verifying, stored>>

----------------------------------------------------------------------------
(* The network.                                                              *)

Older(v, w) == v < w

StoreArrives(m) ==
  /\ m \in publish.net /\ m.type = "store"
  /\ stored' = IF Older(stored[m.at], m.version) THEN [stored EXCEPT ![m.at] = m.version] ELSE stored
  /\ \/ publish' = [publish EXCEPT !.net = (@ \ {m}) \cup {[type |-> "status", id |-> m.id]}]
     \/ ~publish.elgamal /\ publish' = [publish EXCEPT !.net = @ \ {m}]
  /\ UNCHANGED <<version, posted, verifying>>

Lose(m) ==
  /\ m \in publish.net /\ publish' = [publish EXCEPT !.net = @ \ {m}]
  /\ UNCHANGED <<version, posted, verifying, stored>>

----------------------------------------------------------------------------
Init ==
  /\ version = 0 /\ posted = FALSE /\ verifying = {}
  /\ publish \in [elgamal : CryptoTypes, token : {None}, recent : {FALSE}, excluded : {{}},
                  timer : {[t \in Timers |-> "off"]}, sent : {0}, last : {0}, net : {{}}, gaveUp : {FALSE}]
  /\ stored = [f \in Floodfills |-> 0]

Handlers ==
  \/ PostedPublish \/ IntervalPasses
  \/ HandlePublishConfirmationTimer \/ HandlePublishDelayTimer \/ HandlePublishVerificationTimer
  \/ (\E v \in verifying : HandleVerified(v))
  \/ \E t \in Timers : Expire(t)

Next ==
  \/ SetLeaseSet \/ Handlers
  \/ \E m \in publish.net : HandleDeliveryStatus(m) \/ StoreArrives(m) \/ Lose(m)

\* The destination's thread runs what is due; a request is answered or times out; the network
\* owes nothing.
Fairness ==
  /\ WF_vars(PostedPublish) /\ WF_vars(IntervalPasses)
  /\ WF_vars(HandlePublishConfirmationTimer) /\ WF_vars(HandlePublishDelayTimer)
  /\ WF_vars(HandlePublishVerificationTimer)
  /\ WF_vars(\E v \in verifying : HandleVerified(v))
  /\ \A t \in Timers : WF_vars(Expire(t))

Spec == Init /\ [][Next]_vars /\ Fairness

----------------------------------------------------------------------------
(* Publishing never falls asleep: a destination that has a lease set has always *)
(* something under way that will publish or verify it, a timer that will run    *)
(* out, a request or a posted call, unless Publish has found no tunnel or no    *)
(* floodfill.                                                                 *)
PublishingGoesOn ==
  (version # 0 /\ ~publish.gaveUp /\ publish.sent < MaxSent) =>
     posted \/ verifying # {} \/ \E t \in Timers : publish.timer[t] # "off"

(* A confirmation is waited for no longer than its timer: whoever holds the     *)
(* token is released (a pending token stops every other Publish).               *)
TokenIsTimed == publish.token # None => publish.timer["confirmation"] # "off"

(* A change of the lease set while a publication is pending is not forgotten:   *)
(* the last lease set is sent, if there are tunnels and floodfills, although    *)
(* the network loses every message.                                            *)
LastIsSent ==
  version = MaxVersion ~> publish.last = MaxVersion \/ publish.gaveUp \/ publish.sent = MaxSent
=============================================================================
