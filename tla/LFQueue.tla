-------------------------------- MODULE LFQueue --------------------------------
(***************************************************************************)
(* The lock-free queue of lib/lfqueue-1.2.2: a linked list with a dummy    *)
(* node at its head, changed by compare-and-swap only, and a second list   *)
(* on which the nodes that left it wait to be freed.                       *)
(*                                                                         *)
(* Grain.  One access to a shared word is one step, except where what it   *)
(* reads can no longer change.                                             *)
(*                                                                         *)
(* Data.  Nodes are named in the order in which they are linked, and       *)
(* carry that number as their value; malloc gives no address twice, so a   *)
(* pointer to freed memory is seen as such.  A step through one ends the   *)
(* behaviour: undefined says where.                                        *)
(*                                                                         *)
(* Time.  The seconds of gettimeofday.  No thread takes more than Delay of *)
(* them for one turn of a loop: nodes are freed by their age only.         *)
(***************************************************************************)
EXTENDS Integers, FiniteSets

CONSTANTS
    Producer, Consumer,\* threads that call lfqueue_enq, lfqueue_deq
    MaxEnq,            \* bound on the elements
    Grace,             \* age above which a node is freed (2 in the code)
    Delay,             \* what a turn of a loop may take
    MaxTick            \* bound on the seconds that pass

ASSUME ThreadAssumption ==
    /\ IsFiniteSet(Producer) /\ IsFiniteSet(Consumer)
    /\ Producer \cup Consumer # {}
ASSUME BoundAssumption ==
    /\ MaxEnq \in Nat /\ MaxTick \in Nat
    /\ Grace \in Nat /\ Delay \in 0 .. Grace

Thread == Producer \cup Consumer
Node == 0 .. MaxEnq + 1
Base == 0
FreeBase == MaxEnq + 1
NULL == -1
Link == Node \cup {NULL}

\* The base nodes are stamped 0, which was long ago.
Start == Grace + 1

VARIABLES
    head, tail,        \* of the queue
    next,              \* each node's next
    root_free,         \* the oldest node that waits to be freed
    move_free,         \* the youngest
    nextfree,          \* each node's nextfree
    deactivate_tm,     \* its time stamp
    size,              \* of the queue, as counted
    in_free_mode,      \* some thread is in __lfq_check_free
    pc,                \* where each thread is
    op,                \* what it calls: "enq" or "deq"
    mine,              \* its local tail, head or rtfree
    other,             \* its local node, next, or freed
    since,             \* when its turn of the loop began
    ret,               \* what lfqueue_deq is going to return
    sent, taken,       \* elements linked and unlinked
    freed,             \* nodes given to free
    now,
    undefined          \* where freed memory was used

queue   == <<head, tail, next>>
garbage == <<root_free, move_free, nextfree, deactivate_tm, in_free_mode, freed>>
locals  == <<mine, other, since>>
count   == <<sent, taken>>
clock   == <<now, undefined>>
vars    == <<queue, garbage, size, pc, op, locals, ret, count, clock>>

Init ==
    /\ head = Base /\ tail = Base
    /\ next = [n \in Node |-> NULL]
    /\ root_free = FreeBase /\ move_free = FreeBase
    /\ nextfree = [n \in Node |-> NULL]
    /\ deactivate_tm = [n \in Node |-> 0]
    /\ size = 0
    /\ in_free_mode = FALSE
    /\ pc = [t \in Thread |-> "idle"]
    /\ op = [t \in Thread |-> "deq"]
    /\ mine = [t \in Thread |-> NULL]
    /\ other = [t \in Thread |-> NULL]
    /\ since = [t \in Thread |-> Start]
    /\ ret = [t \in Thread |-> 0]
    /\ sent = 0 /\ taken = 0
    /\ freed = {}
    /\ now = Start
    /\ undefined = "no"

Goto(t, from, to) ==
    undefined = "no" /\ pc[t] = from /\ pc' = [pc EXCEPT ![t] = to]

Call(t, o, to) == Goto(t, "idle", to) /\ op' = [op EXCEPT ![t] = o]
Move(t, from, to) == Goto(t, from, to) /\ UNCHANGED op

\* Steps that may lead to two places.
MoveIf(t, from, test, then, else) == Move(t, from, IF test THEN then ELSE else)

\* The local variables of a thread.
Set(t, m, o) ==
    mine' = [mine EXCEPT ![t] = m] /\ other' = [other EXCEPT ![t] = o]
-----------------------------------------------------------------------------
(***************************************************************************)
(* lfqueue_enq and _enqueue.                                               *)
(***************************************************************************)

EnqCall(t) ==
    /\ sent + Cardinality({u \in Producer : pc[u] \in {"e_read", "e_link"}}) < MaxEnq
    /\ Call(t, "enq", "e_read")
    /\ UNCHANGED <<queue, garbage, size, locals, ret, count, clock>>

EnqRead(t) ==
    /\ Move(t, "e_read", "e_link")
    /\ Set(t, tail, NULL)
    /\ since' = [since EXCEPT ![t] = now]
    /\ UNCHANGED <<queue, garbage, size, ret, count, clock>>

\* The compare-and-swap of tail->next: linked behind the last node, or around
\* again.
EnqLink(t) ==
    /\ mine[t] \notin freed
    /\ MoveIf(t, "e_link", next[mine[t]] = NULL, "e_swing", "e_read")
    /\ IF next[mine[t]] = NULL
       THEN /\ sent' = sent + 1
            /\ next' = [next EXCEPT ![mine[t]] = sent + 1]
            /\ Set(t, mine[t], sent + 1)
       ELSE Set(t, NULL, NULL) /\ UNCHANGED <<next, sent>>
    /\ since' = [since EXCEPT ![t] = Start]
    /\ UNCHANGED <<head, tail, garbage, size, ret, taken, clock>>

\* Mutant: tail stays behind.
EnqSwingNot(t) ==
    /\ Move(t, "e_swing", "c_enter")
    /\ Set(t, NULL, NULL)
    /\ UNCHANGED <<queue, garbage, size, since, ret, count, clock>>

EnqSwing(t) ==
    /\ Move(t, "e_swing", "c_enter")
    /\ tail' = IF tail = mine[t] THEN other[t] ELSE tail
    /\ Set(t, NULL, NULL)
    /\ UNCHANGED <<head, next, garbage, size, since, ret, count, clock>>

SizeAdd(t) ==
    /\ op[t] = "enq"
    /\ Move(t, "count", "idle")
    /\ size' = size + 1
    /\ UNCHANGED <<queue, garbage, locals, ret, count, clock>>
-----------------------------------------------------------------------------
(***************************************************************************)
(* lfqueue_deq and _dequeue.                                               *)
(***************************************************************************)

DeqCall(t) ==
    /\ Call(t, "deq", "d_head")
    /\ ret' = [ret EXCEPT ![t] = 0]
    /\ UNCHANGED <<queue, garbage, size, locals, count, clock>>

DeqHead(t) ==
    /\ Move(t, "d_head", "d_check")
    /\ Set(t, head, NULL)
    /\ since' = [since EXCEPT ![t] = now]
    /\ UNCHANGED <<queue, garbage, size, ret, count, clock>>

Again(t) == Set(t, NULL, NULL) /\ since' = [since EXCEPT ![t] = Start]

DeqCheck(t) ==
    /\ MoveIf(t, "d_check", head = mine[t], "d_next", "d_head")
    /\ IF head = mine[t] THEN UNCHANGED locals ELSE Again(t)
    /\ UNCHANGED <<queue, garbage, size, ret, count, clock>>

DeqNext(t) ==
    /\ mine[t] \notin freed
    /\ Move(t, "d_next", "d_tail")
    /\ Set(t, mine[t], next[mine[t]])
    /\ UNCHANGED <<queue, garbage, size, since, ret, count, clock>>

\* No next node: NULL is returned, wherever tail is by now.
DeqEmpty(t) ==
    /\ other[t] = NULL
    /\ Move(t, "d_tail", "c_enter")
    /\ Again(t)
    /\ UNCHANGED <<queue, garbage, size, ret, count, clock>>

\* There is a next node: its value is read, unless tail is still to come.
DeqTail(t) ==
    /\ other[t] # NULL /\ (tail = mine[t] \/ other[t] \notin freed)
    /\ MoveIf(t, "d_tail", tail = mine[t], "d_head", "d_swing")
    /\ IF tail = mine[t] THEN Again(t) ELSE UNCHANGED locals
    /\ UNCHANGED <<queue, garbage, size, ret, count, clock>>

\* Mutant: a plain store instead of the compare-and-swap.
DeqSwingStore(t) ==
    /\ Move(t, "d_swing", "r_read")
    /\ head' = other[t]
    /\ taken' = taken + 1
    /\ ret' = [ret EXCEPT ![t] = other[t]]
    /\ Set(t, mine[t], NULL)
    /\ since' = [since EXCEPT ![t] = Start]
    /\ UNCHANGED <<tail, next, garbage, size, sent, clock>>

DeqSwing(t) ==
    /\ MoveIf(t, "d_swing", head = mine[t], "r_read", "d_head")
    /\ IF head = mine[t]
       THEN /\ head' = other[t]
            /\ taken' = taken + 1
            /\ ret' = [ret EXCEPT ![t] = other[t]]
            /\ Set(t, mine[t], NULL)
       ELSE Set(t, NULL, NULL) /\ UNCHANGED <<head, taken, ret>>
    /\ since' = [since EXCEPT ![t] = Start]
    /\ UNCHANGED <<tail, next, garbage, size, sent, clock>>

\* Mutant: a call that found nothing counts, too.
SizeSubAlways(t) ==
    /\ op[t] = "deq"
    /\ Move(t, "count", "idle")
    /\ size' = size - 1
    /\ UNCHANGED <<queue, garbage, locals, ret, count, clock>>

SizeSub(t) ==
    /\ op[t] = "deq"
    /\ Move(t, "count", "idle")
    /\ size' = IF ret[t] # 0 THEN size - 1 ELSE size
    /\ UNCHANGED <<queue, garbage, locals, ret, count, clock>>
-----------------------------------------------------------------------------
(***************************************************************************)
(* __lfq_recycle_free: mine is the node that left the queue.               *)
(***************************************************************************)

RecycleRead(t) ==
    /\ Move(t, "r_read", "r_link")
    /\ Set(t, mine[t], move_free)
    /\ UNCHANGED <<queue, garbage, size, since, ret, count, clock>>

RecycleLink(t) ==
    /\ other[t] \notin freed
    /\ MoveIf(t, "r_link", nextfree[other[t]] = NULL, "r_stamp", "r_read")
    /\ nextfree' = [nextfree EXCEPT ![other[t]] = IF @ = NULL THEN mine[t] ELSE @]
    /\ UNCHANGED <<queue, root_free, move_free, deactivate_tm, in_free_mode,
                   freed, size, locals, ret, count, clock>>

\* Mutant: the stamp is left at what it was.
RecycleStampNot(t) ==
    /\ Move(t, "r_stamp", "r_move")
    /\ UNCHANGED <<queue, garbage, size, locals, ret, count, clock>>

RecycleStamp(t) ==
    /\ Move(t, "r_stamp", "r_move")
    /\ deactivate_tm' = [deactivate_tm EXCEPT ![mine[t]] = now]
    /\ UNCHANGED <<queue, root_free, move_free, nextfree, in_free_mode, freed,
                   size, locals, ret, count, clock>>

RecycleMove(t) ==
    /\ Move(t, "r_move", "c_enter")
    /\ move_free' = IF move_free = other[t] THEN mine[t] ELSE move_free
    /\ Set(t, NULL, NULL)
    /\ UNCHANGED <<queue, root_free, nextfree, deactivate_tm, in_free_mode,
                   freed, size, since, ret, count, clock>>
-----------------------------------------------------------------------------
(***************************************************************************)
(* __lfq_check_free: mine is rtfree, since the time it began.              *)
(***************************************************************************)

\* One thread at a time; the others go on.
CheckEnter(t) ==
    /\ MoveIf(t, "c_enter", in_free_mode, "count", "c_time")
    /\ in_free_mode' = TRUE
    /\ UNCHANGED <<queue, root_free, move_free, nextfree, deactivate_tm, freed,
                   size, locals, ret, count, clock>>

CheckTime(t) ==
    /\ Move(t, "c_time", "c_scan")
    /\ Set(t, root_free, NULL)
    /\ since' = [since EXCEPT ![t] = now]
    /\ UNCHANGED <<queue, garbage, size, ret, count, clock>>

\* The scan frees nodes as long as they are old and not the youngest.
Scanned(t) ==
    mine[t] \notin {NULL, move_free} /\ since[t] - deactivate_tm[mine[t]] > Grace

CheckOne(t) ==
    /\ Scanned(t)
    /\ Move(t, "c_scan", "c_scan")
    /\ freed' = freed \cup {mine[t]}
    /\ Set(t, nextfree[mine[t]], NULL)
    /\ UNCHANGED <<queue, root_free, move_free, nextfree, deactivate_tm,
                   in_free_mode, size, since, ret, count, clock>>

CheckEnd(t) ==
    /\ ~Scanned(t)
    /\ Move(t, "c_scan", "c_leave")
    /\ since' = [since EXCEPT ![t] = Start]
    /\ UNCHANGED <<queue, garbage, size, mine, other, ret, count, clock>>

\* Mutant: root_free is not moved on.
CheckLeaveRoot(t) ==
    /\ Move(t, "c_leave", "count")
    /\ in_free_mode' = FALSE
    /\ Set(t, NULL, NULL)
    /\ UNCHANGED <<queue, root_free, move_free, nextfree, deactivate_tm, freed,
                   size, since, ret, count, clock>>

CheckLeave(t) ==
    /\ Move(t, "c_leave", "count")
    /\ root_free' = mine[t]
    /\ in_free_mode' = FALSE
    /\ Set(t, NULL, NULL)
    /\ UNCHANGED <<queue, move_free, nextfree, deactivate_tm, freed, size, since,
                   ret, count, clock>>
-----------------------------------------------------------------------------
(***************************************************************************)
(* Freed memory, and time.                                                 *)
(***************************************************************************)

\* What the next step of a thread reads or writes through.
Through(t) ==
    CASE pc[t] \in {"e_link", "d_next"} -> {mine[t]}
      [] pc[t] = "d_tail" /\ tail # mine[t] -> {other[t]}
      [] pc[t] = "r_link" -> {other[t]}
      [] OTHER -> {}

StaleUse(t) ==
    /\ undefined = "no"
    /\ Through(t) \cap freed # {}
    /\ undefined' = IF pc[t] = "r_link" THEN "free list" ELSE "queue"
    /\ UNCHANGED <<queue, garbage, size, pc, op, locals, ret, count, now>>

-----------------------------------------------------------------------------
(***************************************************************************)
(* lfqueue_destroy, once every thread is out of the queue.  Its calls of   *)
(* lfqueue_deq put all nodes but the last one on the free list; then the   *)
(* list and the last node are freed.                                       *)
(***************************************************************************)

\* The free list from n on: what nextfree leads to.
Chain(n) ==
    {m \in Node :
        \A S \in SUBSET Node :
            n \in S \cup {NULL} /\ (\A k \in S : nextfree[k] \in S \cup {NULL}) => m \in S}

Left == head .. sent - 1

Destroyed == freed \cup Chain(root_free) \cup Left \cup {sent}

Destroy ==
    /\ undefined = "no"
    /\ \A t \in Thread : pc[t] = "idle"
    /\ pc' = [t \in Thread |-> "gone"]
    /\ freed' = Destroyed
    /\ size' = 0
    /\ UNCHANGED <<queue, root_free, move_free, nextfree, deactivate_tm,
                   in_free_mode, op, locals, ret, count, clock>>
-----------------------------------------------------------------------------
InTurn == {"e_link", "d_check", "d_next", "d_tail", "d_swing"}

Tick ==
    /\ undefined = "no"
    /\ now < Start + MaxTick
    /\ \A t \in Thread : pc[t] \in InTurn => now - since[t] < Delay
    /\ now' = now + 1
    /\ UNCHANGED <<queue, garbage, size, pc, op, locals, ret, count, undefined>>
-----------------------------------------------------------------------------
Enqueue(t) == EnqRead(t) \/ EnqLink(t) \/ EnqSwing(t) \/ SizeAdd(t)

Dequeue(t) ==
    \/ DeqHead(t) \/ DeqCheck(t) \/ DeqNext(t) \/ DeqEmpty(t) \/ DeqTail(t)
    \/ DeqSwing(t) \/ SizeSub(t)

RecycleFree(t) ==
    RecycleRead(t) \/ RecycleLink(t) \/ RecycleStamp(t) \/ RecycleMove(t)

CheckFree(t) ==
    \/ CheckEnter(t) \/ CheckTime(t) \/ CheckOne(t) \/ CheckEnd(t)
    \/ CheckLeave(t)

\* The steps of a thread that is in a call.
Run(t) ==
    Enqueue(t) \/ Dequeue(t) \/ RecycleFree(t) \/ CheckFree(t) \/ StaleUse(t)

Next ==
    \/ \E t \in Producer : EnqCall(t)
    \/ \E t \in Consumer : DeqCall(t)
    \/ \E t \in Thread : Run(t)
    \/ Destroy
    \/ Tick

Spec == Init /\ [][Next]_vars

\* Every thread in a call is scheduled.
Fairness == \A t \in Thread : WF_vars(Run(t))

FairSpec == Spec /\ Fairness
-----------------------------------------------------------------------------
(***************************************************************************)
(* Properties.                                                             *)
(***************************************************************************)

Place == {"idle", "e_read", "e_link", "e_swing", "d_head", "d_check", "d_next",
          "d_tail", "d_swing", "r_read", "r_link", "r_stamp", "r_move",
          "c_enter", "c_time", "c_scan", "c_leave", "count", "gone"}

\* Types.  Elements are counted after they are linked, so that size may fall
\* below zero for a while, by one for each producer at most.
TypeOK ==
    /\ head \in 0 .. sent /\ tail \in 0 .. sent
    /\ next \in [Node -> Link]
    /\ root_free \in Node /\ move_free \in Node
    /\ nextfree \in [Node -> Link]
    /\ deactivate_tm \in [Node -> 0 .. Start + MaxTick]
    /\ size \in -Cardinality(Producer) .. MaxEnq
    /\ in_free_mode \in BOOLEAN
    /\ pc \in [Thread -> Place]
    /\ op \in [Thread -> {"enq", "deq"}]
    /\ mine \in [Thread -> Link] /\ other \in [Thread -> Link]
    /\ since \in [Thread -> Start .. Start + MaxTick]
    /\ ret \in [Thread -> 0 .. MaxEnq]
    /\ sent \in 0 .. MaxEnq /\ taken \in 0 .. sent
    /\ freed \subseteq Node
    /\ now \in Start .. Start + MaxTick
    /\ undefined \in {"no", "queue", "free list"}

\* The queue is an atomic FIFO queue (the library's claim of linearizability):
\* an element is in it once linked and out of it once head has moved, and a
\* call gives NULL only if the queue was empty while it ran.
Abstract == INSTANCE Fifo WITH
    Reader <- Consumer,
    ret <- [t \in Consumer |-> ret[t]],
    busy <- [t \in Consumer |->
                \/ pc[t] \in {"d_head", "d_check", "d_next"}
                \/ pc[t] \in {"d_tail", "d_swing"} /\ other[t] # NULL]
ImplementsFifo == Abstract!Spec

\* A thread that is no slower than Delay never follows a pointer of the queue
\* into freed memory: its age protects a node others may still hold.
QueueNodesLive == undefined # "queue"

\* No node is freed twice or lost (__lfq_recycle_free, __lfq_check_free): a
\* node that has left the queue is in the hands of the thread that took it
\* out, or waits on the list that starts at root_free or where the scan is, or
\* has been freed.  lfqueue_destroy leaves nothing allocated.
Scanners == {t \in Thread : pc[t] \in {"c_scan", "c_leave"}}
Waiting ==
    Chain(IF Scanners = {} THEN root_free ELSE mine[CHOOSE t \in Scanners : TRUE])
InHand == {mine[t] : t \in {u \in Thread : pc[u] \in {"r_read", "r_link"}}}
NodesAccounted ==
    IF \E t \in Thread : pc[t] = "gone" THEN freed = 0 .. sent \cup {FreeBase}
    ELSE undefined = "no" =>
        /\ freed \cup Waiting \cup InHand = 0 .. head - 1 \cup {FreeBase}
        /\ freed \cap Waiting = {}
        /\ InHand \cap (freed \cup Waiting) = {}
        /\ Cardinality(Scanners) <= 1

\* With no call in progress lfqueue_size is the number of elements
\* (testlockfreequeue.c: "myqueue left size should be zero").
SizeExactAtRest ==
    (\A t \in Thread : pc[t] = "idle") => size = sent - taken

\* The deferred free and the count, which the compare-and-swaps of the queue
\* do not order, keep up with it.
NodesAndSize == TypeOK /\ QueueNodesLive /\ NodesAccounted /\ SizeExactAtRest

\* Every call returns: the loops wait for other threads that have only to go
\* on.
CallsReturn ==
    \A t \in Thread : pc[t] # "idle" ~> pc[t] \in {"idle", "gone"} \/ undefined # "no"
=============================================================================
