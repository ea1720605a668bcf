----------------------------- MODULE KeySupplier -----------------------------
(***************************************************************************)
(* DHKeysPairSupplier (Transports.cpp): a thread keeps a queue of pairs of keys   *)
(* for the handshakes; sessions take pairs and give back what they did not use.   *)
(*                                                                         *)
(* The thread holds m_AcquiredMutex for each pair it adds, and to wait.  It looks   *)
(* at the length of the queue without it, so that what it reads in the middle of  *)
(* a change may be any number.  Pairs are numbered as they are made.            *)
(***************************************************************************)
EXTENDS Integers, Sequences, SequencesExt

CONSTANTS
  QueueSize,   \* m_QueueSize
  Burst,       \* 10 in the code: so many pairs are a reason for a break
  Torn,        \* lengths that are read while somebody changes the queue
  MaxPairs     \* bound: pairs made

VARIABLES
  thread,    \* what Run does, "none" without Start: [at, num: pairs to make, total]
  running,   \* m_IsRunning
  stopping,  \* Stop waits for the thread
  queue,     \* m_Queue
  held,      \* the pairs that sessions have
  made       \* how many pairs were made

vars == <<thread, running, stopping, queue, held, made>>

At(where) == thread' = [thread EXCEPT !.at = where]
Notified == IF thread.at = "wait" THEN [thread EXCEPT !.at = "loop"] ELSE thread

----------------------------------------------------------------------------
\* while (m_IsRunning): each round counts anew.
Loop ==
  /\ thread.at = "loop"
  /\ thread' = [at |-> IF running THEN "look" ELSE "end", num |-> 0, total |-> 0]
  /\ UNCHANGED <<running, stopping, queue, held, made>>

Look ==
  /\ thread.at = "look"
  /\ \E size \in {Len(queue)} \cup Torn :
       IF size < QueueSize /\ thread.total < Burst
       THEN LET num == QueueSize - size IN thread' = [at |-> "make", num |-> num, total |-> thread.total + num]
       ELSE At(IF thread.total >= Burst THEN "sleep" ELSE "lock")
  /\ UNCHANGED <<running, stopping, queue, held, made>>

\* A round of the loop of CreateDHKeysPairs.
CreateDHKeysPairs ==
  /\ thread.at = "make" /\ made < MaxPairs
  /\ made' = made + 1 /\ queue' = Append(queue, made + 1)
  /\ thread' = [thread EXCEPT !.num = @ - 1, !.at = IF thread.num = 1 THEN "look" ELSE "make"]
  /\ UNCHANGED <<running, stopping, held>>

WakeUp ==
  /\ thread.at = "sleep"
  /\ At("loop")
  /\ UNCHANGED <<running, stopping, queue, held, made>>

\* The flag is looked at again with the lock.
Wait_Broken == thread.at = "lock" /\ At("wait") /\ UNCHANGED <<running, stopping, queue, held, made>>
Wait ==
  /\ thread.at = "lock"
  /\ At(IF running THEN "wait" ELSE "end")
  /\ UNCHANGED <<running, stopping, queue, held, made>>

\* A condition variable may wake without a reason.
WakeUpSpuriously ==
  /\ thread.at = "wait"
  /\ At("loop")
  /\ UNCHANGED <<running, stopping, queue, held, made>>

----------------------------------------------------------------------------
\* Who finds the queue empty makes a pair, and wakes nobody.
Acquire ==
  /\ \/ /\ queue # <<>>
        /\ held' = held \cup {Head(queue)} /\ queue' = Tail(queue) /\ thread' = Notified
        /\ UNCHANGED made
     \/ /\ queue = <<>> /\ made < MaxPairs
        /\ made' = made + 1 /\ held' = held \cup {made + 1}
        /\ UNCHANGED <<queue, thread>>
  /\ UNCHANGED <<running, stopping>>

Return ==
  /\ \E pair \in held :
       /\ held' = held \ {pair}
       /\ queue' = IF Len(queue) < 2 * QueueSize THEN Append(queue, pair) ELSE queue
  /\ UNCHANGED <<thread, running, stopping, made>>

\* The handshake is done, or has failed before there was a use for the pair.
Use ==
  /\ \E pair \in held : held' = held \ {pair}
  /\ UNCHANGED <<thread, running, stopping, queue, made>>

Start ==
  /\ thread.at = "none"
  /\ running' = TRUE /\ At("loop")
  /\ UNCHANGED <<stopping, queue, held, made>>

\* The destructor stops once more.
Stop ==
  /\ ~stopping
  /\ running' = FALSE /\ stopping' = (thread.at # "none") /\ thread' = Notified
  /\ UNCHANGED <<queue, held, made>>

Join ==
  /\ stopping /\ thread.at = "end"
  /\ stopping' = FALSE /\ At("none")
  /\ UNCHANGED <<running, queue, held, made>>

Init ==
  /\ thread = [at |-> "none", num |-> 0, total |-> 0]
  /\ running = FALSE /\ stopping = FALSE
  /\ queue = <<>> /\ held = {} /\ made = 0

Run == Loop \/ Look \/ CreateDHKeysPairs \/ WakeUp \/ Wait
Next == Run \/ WakeUpSpuriously \/ Acquire \/ Return \/ Use \/ Start \/ Stop \/ Join

\* The thread is scheduled; sessions need not come.
Fairness == WF_vars(Run) /\ WF_vars(Join)
Spec == Init /\ [][Next]_vars /\ Fairness

----------------------------------------------------------------------------
(* Stop ends, at whatever moment of Run it is called: the notification is not lost.  *)
Stopped == ~stopping \/ made = MaxPairs
StopEnds == stopping ~> Stopped

(* A pair is in the queue once or with one session.  The length of the queue has no    *)
(* bound: what is to be made is counted without the lock.                           *)
PairsAreUnique ==
  /\ \A i, j \in DOMAIN queue : queue[i] = queue[j] => i = j
  /\ ToSet(queue) \cap held = {}

\* This does not hold: the pairs may be taken between Look and Wait, and then nobody notifies the thread.
EmptyIsRefilled == queue = <<>> /\ running /\ made < MaxPairs ~> queue # <<>> \/ ~running \/ made = MaxPairs

TypeOK ==
  /\ thread.at \in {"none", "loop", "look", "make", "sleep", "lock", "wait", "end"}
  /\ thread.num \in Nat /\ made \in 0 .. MaxPairs /\ held \subseteq 1 .. made
=============================================================================
