-------------------------------- MODULE Fifo --------------------------------
(***************************************************************************)
(* What a channel promises (lib/cchan-0.1): an unbounded first-in          *)
(* first-out queue shared by any number of sending and receiving threads.  *)
(* Every message is handed to exactly one receiver, in the order in which  *)
(* messages were sent, and a receiver is told "nothing there" only at an   *)
(* instant at which the queue is empty.                                    *)
(*                                                                         *)
(* A message is identified by its position in the order of sends, so the   *)
(* queue is the interval taken+1 .. sent and needs no sequence.            *)
(***************************************************************************)
EXTENDS Integers

CONSTANT Reader        \* threads that receive

VARIABLES
    sent,              \* number of messages sent so far
    taken,             \* number of messages received so far
    busy,              \* busy[r]: r is inside a receiving call
    ret                \* ret[r]: what r's last call gave, 0 for nothing

vars == <<sent, taken, busy, ret>>

Init ==
    /\ sent = 0
    /\ taken = 0
    /\ busy = [r \in Reader |-> FALSE]
    /\ ret = [r \in Reader |-> 0]

Send ==
    /\ sent' = sent + 1
    /\ UNCHANGED <<taken, busy, ret>>

Call(r) ==
    /\ ~busy[r]
    /\ busy' = [busy EXCEPT ![r] = TRUE]
    /\ ret' = [ret EXCEPT ![r] = 0]
    /\ UNCHANGED <<sent, taken>>

\* The oldest message nobody has received yet goes to r.
Deliver(r) ==
    /\ busy[r]
    /\ taken < sent
    /\ taken' = taken + 1
    /\ ret' = [ret EXCEPT ![r] = taken + 1]
    /\ busy' = [busy EXCEPT ![r] = FALSE]
    /\ UNCHANGED sent

\* r's call returns empty-handed, the queue being empty.
Nothing(r) ==
    /\ busy[r]
    /\ taken = sent
    /\ busy' = [busy EXCEPT ![r] = FALSE]
    /\ UNCHANGED <<sent, taken, ret>>

Next ==
    \/ Send
    \/ \E r \in Reader : Call(r) \/ Deliver(r) \/ Nothing(r)

Spec == Init /\ [][Next]_vars
=============================================================================
