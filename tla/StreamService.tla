--------------------------- MODULE StreamService ---------------------------
(* What a stream promises to the applications at its ends: each reader gets   *)
(* the units its peer has written in the order they were written, each once   *)
(* and none left out, and nothing else.  Units are numbered as they are        *)
(* written, so what a reader has got is always the first m of them.            *)
EXTENDS Naturals

CONSTANT Readers      \* the ends, as receivers

VARIABLES
  written,            \* [Readers -> Nat]: units written for a reader
  delivered           \* [Readers -> SUBSET Nat]: units the reader has got

Init ==
  /\ written = [r \in Readers |-> 0]
  /\ delivered = [r \in Readers |-> {}]

Write(r) ==
  /\ written' = [written EXCEPT ![r] = @ + 1]
  /\ UNCHANGED delivered

Deliver(r) ==
  /\ \E m \in 0 .. written[r] :
       /\ delivered[r] \subseteq 1 .. m
       /\ delivered' = [delivered EXCEPT ![r] = 1 .. m]
  /\ UNCHANGED written

Next == \E r \in Readers : Write(r) \/ Deliver(r)

Spec == Init /\ [][Next]_<<written, delivered>>
=============================================================================
