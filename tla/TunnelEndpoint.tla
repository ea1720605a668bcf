--------------------------- MODULE TunnelEndpoint ---------------------------
(***************************************************************************)
(* The endpoint of a tunnel (libdotnet/TunnelEndpoint.cpp): it puts the     *)
(* fragments of DNNP messages together again.  Tunnel data messages travel  *)
(* on their own, so fragments come in any order, and some never come.       *)
(*                                                                         *)
(* Bytes are not copied here: a message under assembly is the list of the   *)
(* numbers of the fragments concatenated so far and their total size.       *)
(***************************************************************************)
EXTENDS Naturals, Sequences, FiniteSets
LOCAL INSTANCE SequencesExt

CONSTANT MaxMessage   \* DNNP_MAX_MESSAGE_SIZE

VARIABLE endpoint

\* m_IncompleteMessages, m_OutOfSequenceFragments and the messages handed on so far.
EmptyEndpoint == [incomplete |-> << >>, saved |-> {}, delivered |-> << >>]

Ids(e) == DOMAIN e.incomplete

\* A complete message goes to the router, the next hop or the local destination.
HandleNextMessage(e, id, message) ==
  [e EXCEPT !.delivered = Append(@, [id |-> id, parts |-> message.parts, size |-> message.size])]

SetIncomplete(e, id, message) ==
  [e EXCEPT !.incomplete = [i \in DOMAIN @ \cup {id} |-> IF i = id THEN message ELSE @[i]]]

Erase(e, id) == [e EXCEPT !.incomplete = [i \in DOMAIN @ \ {id} |-> @[i]]]

\* Concat stops at the end of the buffer.
Concat(message, block) ==
  [next  |-> message.next + 1,
   parts |-> Append(message.parts, block.num),
   size  |-> IF message.size + block.size > MaxMessage THEN MaxMessage
                                                       ELSE message.size + block.size]

(* HandleOutOfSequenceFragments: saved fragments that continue the message.    *)

SavedFor(e, id, n) == {b \in e.saved : b.id = id /\ b.num = n}

\* How many of the saved fragments follow on fragment number n - 1 without a gap.
Continuation(e, id, n) ==
  LET numbers == {b.num : b \in {c \in e.saved : c.id = id}}
  IN  CHOOSE k \in 0 .. Cardinality(numbers) :
        /\ \A i \in 0 .. (k - 1) : n + i \in numbers /\
             \A b \in SavedFor(e, id, n + i) : b.last => i = k - 1
        /\ n + k \in numbers => k > 0 /\ \A b \in SavedFor(e, id, n + k - 1) : b.last

HandleOutOfSequence_Broken(e, id) == e   \* what was saved is not looked at

Run(e, id, first, k) ==
  [i \in 1 .. k |-> CHOOSE b \in e.saved : b.id = id /\ b.num = first + i - 1]

HandleOutOfSequence_Eager(e, id) ==   \* the message is handed on before it is complete
  LET message == e.incomplete[id]
      k       == Continuation(e, id, message.next)
      run     == Run(e, id, message.next, k)
      joined  == FoldLeft(Concat, message, run)
      t       == SetIncomplete([e EXCEPT !.saved = @ \ {run[i] : i \in 1 .. k}], id, joined)
  IN  IF k = 0 THEN e
      ELSE IF run[k].last THEN Erase(HandleNextMessage(t, id, joined), id)
                          ELSE HandleNextMessage(t, id, joined)

HandleOutOfSequence(e, id) ==
  LET message == e.incomplete[id]
      k       == Continuation(e, id, message.next)
      run     == Run(e, id, message.next, k)
      joined  == FoldLeft(Concat, message, run)
      t       == [e EXCEPT !.saved = @ \ {run[i] : i \in 1 .. k}]
  IN  IF k > 0 /\ run[k].last
        THEN Erase(HandleNextMessage(t, id, joined), id)
        ELSE SetIncomplete(t, id, joined)

\* A fragment that was saved before is a duplicate.
AddOutOfSequence(e, block) ==
  IF SavedFor(e, block.id, block.num) # {} THEN e ELSE [e EXCEPT !.saved = @ \cup {block}]

HandleFollowOnFragment_Broken(e, block) ==   \* any later fragment is taken for the next one
  IF block.id \notin Ids(e) \/ block.num < e.incomplete[block.id].next
    THEN AddOutOfSequence(e, block)
    ELSE LET joined == Concat(e.incomplete[block.id], block)
         IN  IF block.last
               THEN Erase(HandleNextMessage(e, block.id, joined), block.id)
               ELSE HandleOutOfSequence(SetIncomplete(e, block.id, joined), block.id)

HandleFollowOnFragment(e, block) ==
  IF block.id \notin Ids(e) \/ block.num # e.incomplete[block.id].next
    THEN AddOutOfSequence(e, block)
  ELSE IF e.incomplete[block.id].size + block.size >= MaxMessage
    THEN Erase(e, block.id)
  ELSE LET joined == Concat(e.incomplete[block.id], block)
       IN  IF block.last
             THEN Erase(HandleNextMessage(e, block.id, joined), block.id)
             ELSE HandleOutOfSequence(SetIncomplete(e, block.id, joined), block.id)

FirstPart(block) == [next |-> 1, parts |-> <<0>>, size |-> block.size]

\* A first fragment opens a message, unless one with its ID is open already.
HandleFirstFragment(e, block) ==
  IF block.last
    THEN HandleNextMessage(e, block.id, FirstPart(block))
  ELSE IF block.id \in Ids(e)
    THEN e
    ELSE HandleOutOfSequence(SetIncomplete(e, block.id, FirstPart(block)), block.id)

HandleFragment(e, block) ==
  IF block.num = 0 THEN HandleFirstFragment(e, block) ELSE HandleFollowOnFragment(e, block)

----------------------------------------------------------------------------

Init == endpoint = EmptyEndpoint

\* The fragments of one tunnel data message, in their order.
HandleDecryptedTunnelDataMsg(blocks) ==
  endpoint' = FoldLeft(HandleFragment, endpoint, blocks)

\* Entries that are older than DNNP_MESSAGE_EXPIRATION_TIMEOUT, of both kinds.
Cleanup(ids, blocks) ==
  /\ ids \subseteq Ids(endpoint) /\ blocks \subseteq endpoint.saved
  /\ endpoint' = [endpoint EXCEPT !.incomplete = [i \in DOMAIN @ \ ids |-> @[i]],
                                  !.saved = @ \ blocks]
=============================================================================
