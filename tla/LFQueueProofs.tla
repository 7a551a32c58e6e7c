----------------------------- MODULE LFQueueProofs -----------------------------
(***************************************************************************)
(* Proofs about the lock-free queue for any number of threads, of elements *)
(* and of seconds: no pointer of the queue is followed into freed memory   *)
(* (QueueNodesLive), no node is lost or freed twice, the count is exact at *)
(* rest, and the queue is an atomic FIFO queue.                            *)
(*                                                                         *)
(* What protects a node is that all a thread may reach in a turn of its    *)
(* loop was in the queue when the turn began (Protected): it is stamped    *)
(* later than that, and freed only when its stamp is older than a turn may *)
(* be.  A node that is not stamped yet lies behind move_free, where the    *)
(* scan does not go (ListEnd).                                             *)
(***************************************************************************)
EXTENDS LFQueue, FiniteSetTheorems, TLAPS

\* The types of TypeOK, but for the range of size.
TypeQueue ==
    /\ sent \in 0 .. MaxEnq
    /\ head \in 0 .. sent /\ tail \in 0 .. sent /\ taken \in 0 .. sent
    /\ next \in [Node -> Link]
TypeList ==
    /\ root_free \in Node /\ move_free \in Node
    /\ nextfree \in [Node -> Link]
    /\ freed \subseteq Node
    /\ in_free_mode \in BOOLEAN
TypeTime ==
    /\ deactivate_tm \in [Node -> 0 .. Start + MaxTick]
    /\ since \in [Thread -> Start .. Start + MaxTick]
    /\ now \in Start .. Start + MaxTick
TypePlace ==
    /\ pc \in [Thread -> Place]
    /\ op \in [Thread -> {"enq", "deq"}]
    /\ undefined \in {"no", "queue", "free list"}
TypeLocals ==
    /\ mine \in [Thread -> Link] /\ other \in [Thread -> Link]
    /\ ret \in [Thread -> 0 .. MaxEnq]

\* A thread is in a call that it may make.
Caller ==
    \A t \in Thread :
        /\ pc[t] \in {"e_read", "e_link", "e_swing"} => op[t] = "enq"
        /\ pc[t] \in {"d_head", "d_check", "d_next", "d_tail", "d_swing",
                      "r_read", "r_link", "r_stamp", "r_move"} => op[t] = "deq"
        /\ pc[t] \notin {"idle", "gone"} /\ op[t] = "enq" => t \in Producer
        /\ pc[t] \notin {"idle", "gone"} /\ op[t] = "deq" => t \in Consumer

\* lfqueue_destroy leaves no thread behind.
Gone == (\E t \in Thread : pc[t] = "gone") => \A t \in Thread : pc[t] = "gone"

\* The queue: nodes are linked in the order of their names; tail is the last
\* one, or the last but one while the thread that linked the last swings it.
Linked ==
    /\ \A n \in Node : next[n] = IF n < sent THEN n + 1 ELSE NULL
    /\ taken = head /\ head <= tail
    /\ tail < sent => \E t \in Thread : pc[t] = "e_swing"
    /\ \A t \in Thread : pc[t] = "e_swing" =>
          tail = sent - 1 /\ mine[t] = tail /\ other[t] = sent
    /\ \A t, u \in Thread : pc[t] = "e_swing" /\ pc[u] = "e_swing" => t = u

\* What a thread read of it was true then.
Read ==
    \A t \in Thread :
        /\ pc[t] = "e_link" => mine[t] \in 0 .. tail
        /\ pc[t] \in {"d_check", "d_next", "d_tail", "d_swing"} => mine[t] \in 0 .. head
        /\ pc[t] = "d_tail" => other[t] = NULL \/ (other[t] = mine[t] + 1 /\ other[t] <= sent)
        /\ pc[t] = "d_swing" => other[t] = mine[t] + 1 /\ mine[t] < tail
        /\ pc[t] \in {"d_head", "d_check", "d_next", "d_tail", "d_swing"} => ret[t] = 0

\* No turn is longer than Delay.
Timely ==
    \A t \in Thread : since[t] <= now /\ (pc[t] \in InTurn => now - since[t] <= Delay)

\* One thread at a time is in __lfq_check_free.
OneCleaner ==
    /\ \A t \in Thread : pc[t] \in {"c_time", "c_scan", "c_leave"} => in_free_mode
    /\ \A t, u \in Thread :
          /\ pc[t] \in {"c_time", "c_scan", "c_leave"}
          /\ pc[u] \in {"c_time", "c_scan", "c_leave"}
          => t = u

\* Where the free list begins, for the thread that scans it and the others.
Root == IF Scanners = {} THEN root_free ELSE mine[CHOOSE t \in Scanners : TRUE]

\* Where each node is: freed, on the free list, in a hand, in the queue or new.
Placed ==
    /\ Root \in Node /\ move_free \in Waiting
    /\ freed \cup Waiting \cup InHand = 0 .. head - 1 \cup {FreeBase}
    /\ freed \cap Waiting = {}
    /\ InHand \cap (freed \cup Waiting) = {}
    /\ \A t, u \in Thread :
          pc[t] \in {"r_read", "r_link"} /\ pc[u] \in {"r_read", "r_link"} /\ mine[t] = mine[u]
          => t = u

\* The free list has one end and no circle.
ListShape ==
    /\ \A n \in Waiting : n \notin Chain(nextfree[n])
    /\ \A m, n \in Waiting : nextfree[m] = NULL /\ nextfree[n] = NULL => m = n
    /\ \A n \in Node \ (Waiting \cup freed) : nextfree[n] = NULL

\* Its end is move_free, or one node behind it that is being put there.
Linker == {t \in Thread : pc[t] \in {"r_stamp", "r_move"}}
ListEnd ==
    /\ nextfree[move_free] # NULL => Linker # {}
    /\ \A t \in Linker :
          /\ mine[t] \in Waiting /\ nextfree[mine[t]] = NULL
          /\ other[t] = move_free /\ nextfree[move_free] = mine[t]
    /\ \A t, u \in Linker : t = u
    /\ \A t \in Thread : pc[t] = "r_link" =>
          other[t] \in Waiting \cup freed /\ \A u \in Linker : other[t] # mine[u]

\* All that a thread in its turn may reach left the queue after it began.
Unstamped == {mine[t] : t \in {u \in Thread : pc[u] = "r_stamp"}}
Protected ==
    \A t \in Thread : pc[t] \in InTurn =>
        \A n \in Node \ {FreeBase} :
            n >= mine[t] =>
                /\ n \notin freed
                /\ n \in Waiting \ Unstamped => deactivate_tm[n] >= since[t]

FreeList == ~(\E t \in Thread : pc[t] = "gone") => Placed /\ ListShape /\ ListEnd /\ Protected

\* Every node that was ever linked has been freed when the queue is destroyed.
AllFreed == (\E t \in Thread : pc[t] = "gone") => freed = 0 .. sent \cup {FreeBase}

\* Elements that are linked and not counted, that are gone and still counted,
\* and those that are going to be linked.
ToAdd == {t \in Thread : op[t] = "enq" /\ pc[t] \in {"e_swing", "c_enter", "c_time", "c_scan",
                                                     "c_leave", "count"}}
ToSub == {t \in Thread : op[t] = "deq" /\ ret[t] # 0
                           /\ pc[t] \in {"r_read", "r_link", "r_stamp", "r_move", "c_enter", "c_time",
                                         "c_scan", "c_leave", "count"}}
ToLink == {t \in Producer : pc[t] \in {"e_read", "e_link"}}
Counted ==
    /\ ~(\E t \in Thread : pc[t] = "gone") =>
          size = sent - taken - Cardinality(ToAdd) + Cardinality(ToSub)
    /\ (\E t \in Thread : pc[t] = "gone") => size = 0
    /\ Cardinality(ToSub) <= taken
    /\ sent + Cardinality(ToLink) <= MaxEnq

\* The inductive invariant.
IInv ==
    /\ TypeQueue /\ TypeList /\ TypeTime /\ TypePlace /\ TypeLocals
    /\ undefined # "queue" /\ size \in Int
    /\ Caller /\ Gone /\ Linked /\ Read /\ Timely /\ OneCleaner
    /\ FreeList /\ AllFreed /\ Counted
-----------------------------------------------------------------------------
\* A chain is one of nodes.
LEMMA ChainType == \A n \in Link : Chain(n) \subseteq Node
  BY DEF Chain

\* Unless the queue is destroyed, the free list is as it should be.
LEMMA Here ==
    ASSUME IInv, NEW t \in Thread, pc[t] # "gone"
    PROVE  Placed /\ ListShape /\ ListEnd /\ Protected /\ ~(\E u \in Thread : pc[u] = "gone")
  BY DEF IInv, Gone, FreeList

\* The free list begins where its scan is.
LEMMA RootScanned ==
    ASSUME IInv, NEW t \in Thread, pc[t] \in {"c_scan", "c_leave"}
    PROVE  Root = mine[t] /\ Scanners = {t} /\ mine[t] \in Node
<1>1. Scanners = {t}
  BY DEF IInv, OneCleaner, Scanners
<1>2. Root = mine[t]
  BY <1>1 DEF Root
<1>3. QED
  BY <1>1, <1>2, Here DEF Placed

\* Free memory is not in the queue.
LEMMA InQueueType == ASSUME IInv, NEW n \in 0 .. sent + 1, sent < MaxEnq \/ n <= sent
                     PROVE  n \in Node /\ n \in 0 .. MaxEnq /\ n \in Link
  BY BoundAssumption DEF IInv, TypeQueue, Node, Link

\* An element that is going to be linked still has a node.
LEMMA RoomToLink ==
    ASSUME IInv, NEW t \in Thread, pc[t] \in {"e_read", "e_link"}
    PROVE  sent < MaxEnq
<1>1. t \in ToLink
  BY DEF IInv, Caller, ToLink
<1>2. IsFiniteSet(ToLink)
  BY ThreadAssumption, FS_Subset DEF ToLink
<1>3. Cardinality(ToLink) # 0 /\ Cardinality(ToLink) \in Nat
  BY <1>1, <1>2, FS_EmptySet, FS_CardinalityType
<1>4. QED
  BY <1>3, BoundAssumption DEF IInv, Counted, TypeQueue

\* Types, of the queue.
LEMMA TypeQueueStep == IInv /\ [Next]_vars => TypeQueue'
<1> SUFFICES ASSUME IInv, [Next]_vars PROVE TypeQueue'
  OBVIOUS
<1> USE DEF IInv
<1>1. ASSUME UNCHANGED <<head, tail, next, sent, taken>> PROVE TypeQueue'
  BY <1>1 DEF TypeQueue
<1>2. ASSUME NEW t \in Thread, EnqCall(t) \/ EnqRead(t) \/ SizeAdd(t) \/ DeqCall(t) \/
             DeqHead(t) \/ DeqCheck(t) \/ DeqNext(t) \/ DeqEmpty(t) \/ DeqTail(t) \/ SizeSub(t) \/
             RecycleRead(t) \/ RecycleLink(t) \/ RecycleStamp(t) \/ RecycleMove(t) \/ CheckEnter(t)
             \/ CheckTime(t) \/ CheckOne(t) \/ CheckEnd(t) \/ CheckLeave(t) \/ StaleUse(t)
      PROVE  TypeQueue'
  BY <1>1, <1>2 DEF EnqCall, EnqRead, SizeAdd, DeqCall, DeqHead, DeqCheck, DeqNext, DeqEmpty,
     DeqTail, SizeSub, RecycleRead, RecycleLink, RecycleStamp, RecycleMove, CheckEnter, CheckTime,
     CheckOne, CheckEnd, CheckLeave, StaleUse, Call, MoveIf, Move, Goto, Set, Again, clock, count,
     garbage, locals, queue
<1>3. CASE Destroy \/ Tick
  BY <1>1, <1>3 DEF Destroy, Tick, clock, count, garbage, locals, queue
<1>4. ASSUME NEW t \in Thread, EnqLink(t)
      PROVE  TypeQueue'
  <2>1. sent < MaxEnq /\ sent + 1 \in Link
    BY <1>4, RoomToLink, InQueueType DEF EnqLink, MoveIf, Move, Goto, TypeQueue
  <2>2. next' \in [Node -> Link]
    BY <1>4, <2>1 DEF EnqLink, TypeQueue
  <2>3. QED
    BY <1>4, <2>1, <2>2, BoundAssumption DEF EnqLink, TypeQueue
<1>5. ASSUME NEW t \in Thread, EnqSwing(t)
      PROVE  TypeQueue'
  BY <1>5 DEF EnqSwing, Move, Goto, Set, garbage, count, clock, TypeQueue, TypeLocals, Linked,
     Link
<1>6. ASSUME NEW t \in Thread, DeqSwing(t)
      PROVE  TypeQueue'
  BY <1>6 DEF DeqSwing, MoveIf, Move, Goto, Set, garbage, clock, TypeQueue, TypeLocals, Read,
     Linked
<1>7. CASE UNCHANGED vars
  BY <1>7, <1>1 DEF vars, queue, garbage, locals, count, clock
<1>8. QED
  BY <1>2, <1>3, <1>4, <1>5, <1>6, <1>7 DEF Next, Run, Enqueue, Dequeue, RecycleFree, CheckFree,
     Thread

\* Types, of the free list.
LEMMA TypeListStep == IInv /\ [Next]_vars => TypeList'
<1> SUFFICES ASSUME IInv, [Next]_vars PROVE TypeList'
  OBVIOUS
<1> USE DEF IInv
<1>1. ASSUME UNCHANGED <<root_free, move_free, nextfree, freed, in_free_mode>> PROVE
       TypeList'
  BY <1>1 DEF TypeList
<1>2. ASSUME NEW t \in Thread, EnqCall(t) \/ EnqRead(t) \/ EnqLink(t) \/ EnqSwing(t) \/
             SizeAdd(t) \/ DeqCall(t) \/ DeqHead(t) \/ DeqCheck(t) \/ DeqNext(t) \/ DeqEmpty(t) \/
             DeqTail(t) \/ DeqSwing(t) \/ SizeSub(t) \/ RecycleRead(t) \/ RecycleStamp(t) \/
             CheckTime(t) \/ CheckEnd(t) \/ StaleUse(t)
      PROVE  TypeList'
  BY <1>1, <1>2 DEF EnqCall, EnqRead, EnqLink, EnqSwing, SizeAdd, DeqCall, DeqHead, DeqCheck,
     DeqNext, DeqEmpty, DeqTail, DeqSwing, SizeSub, RecycleRead, RecycleStamp, CheckTime, CheckEnd,
     StaleUse, Call, MoveIf, Move, Goto, Set, Again, clock, count, garbage, locals, queue
<1>3. CASE Tick
  BY <1>1, <1>3 DEF Tick, count, garbage, locals, queue
<1>4. ASSUME NEW t \in Thread, RecycleLink(t)
      PROVE  TypeList'
  BY <1>4 DEF RecycleLink, MoveIf, Move, Goto, queue, locals, count, clock, TypeList, TypeLocals,
     Link
<1>5. ASSUME NEW t \in Thread, RecycleMove(t)
      PROVE  TypeList'
  BY <1>5, Here, ChainType DEF RecycleMove, Move, Goto, Set, queue, count, clock, TypeList,
     Linker, ListEnd, Waiting, Chain
<1>6. ASSUME NEW t \in Thread, CheckEnter(t)
      PROVE  TypeList'
  BY <1>6 DEF CheckEnter, MoveIf, Move, Goto, queue, locals, count, clock, TypeList
<1>7. ASSUME NEW t \in Thread, CheckOne(t)
      PROVE  TypeList'
  BY <1>7, RootScanned DEF CheckOne, Scanned, Move, Goto, Set, queue, count, clock, TypeList
<1>8. ASSUME NEW t \in Thread, CheckLeave(t)
      PROVE  TypeList'
  BY <1>8, RootScanned DEF CheckLeave, Move, Goto, Set, queue, count, clock, TypeList
<1>9. CASE Destroy
  <2>1. 0 .. sent \subseteq Node
    BY BoundAssumption DEF TypeQueue, Node
  <2>2. Left \subseteq Node /\ sent \in Node
    BY <2>1, BoundAssumption DEF TypeQueue, Left
  <2>3. QED
    BY <1>9, <2>2, ChainType DEF Destroy, queue, TypeList, Destroyed, Link
<1>10. CASE UNCHANGED vars
  BY <1>10, <1>1 DEF vars, queue, garbage, locals, count, clock
<1>11. QED
  BY <1>2, <1>3, <1>4, <1>5, <1>6, <1>7, <1>8, <1>9, <1>10 DEF Next, Run, Enqueue, Dequeue,
     RecycleFree, CheckFree, Thread

\* Types, of the times.
LEMMA TypeTimeStep == IInv /\ [Next]_vars => TypeTime'
<1> SUFFICES ASSUME IInv, [Next]_vars PROVE TypeTime'
  OBVIOUS
<1> USE DEF IInv
<1>1. ASSUME UNCHANGED <<deactivate_tm, since, now>> PROVE TypeTime'
  BY <1>1 DEF TypeTime
<1>2. ASSUME NEW t \in Thread, EnqCall(t) \/ EnqSwing(t) \/ SizeAdd(t) \/ DeqCall(t) \/
             DeqNext(t) \/ SizeSub(t) \/ RecycleRead(t) \/ RecycleLink(t) \/ RecycleMove(t) \/
             CheckEnter(t) \/ CheckOne(t) \/ CheckLeave(t) \/ StaleUse(t)
      PROVE  TypeTime'
  BY <1>1, <1>2 DEF EnqCall, EnqSwing, SizeAdd, DeqCall, DeqNext, SizeSub, RecycleRead,
     RecycleLink, RecycleMove, CheckEnter, CheckOne, CheckLeave, StaleUse, Call, MoveIf, Move, Goto,
     Set, clock, count, garbage, locals, queue
<1>3. CASE Destroy
  BY <1>1, <1>3 DEF Destroy, clock, count, locals, queue
<1>4. ASSUME NEW t \in Thread, EnqRead(t)
      PROVE  TypeTime'
  BY <1>4, BoundAssumption DEF EnqRead, Move, Goto, Set, queue, garbage, count, clock, TypeTime,
     Start
<1>5. ASSUME NEW t \in Thread, EnqLink(t)
      PROVE  TypeTime'
  BY <1>5, BoundAssumption DEF EnqLink, MoveIf, Move, Goto, Set, garbage, clock, TypeTime, Start
<1>6. ASSUME NEW t \in Thread, DeqHead(t)
      PROVE  TypeTime'
  BY <1>6, BoundAssumption DEF DeqHead, Move, Goto, Set, queue, garbage, count, clock, TypeTime,
     Start
<1>7. ASSUME NEW t \in Thread, DeqCheck(t)
      PROVE  TypeTime'
  BY <1>7, BoundAssumption DEF DeqCheck, MoveIf, Move, Goto, Set, Again, queue, garbage, locals,
     count, clock, TypeTime, Start
<1>8. ASSUME NEW t \in Thread, DeqEmpty(t)
      PROVE  TypeTime'
  BY <1>8, BoundAssumption DEF DeqEmpty, Move, Goto, Set, Again, queue, garbage, count, clock,
     TypeTime, Start
<1>9. ASSUME NEW t \in Thread, DeqTail(t)
      PROVE  TypeTime'
  BY <1>9, BoundAssumption DEF DeqTail, MoveIf, Move, Goto, Set, Again, queue, garbage, locals,
     count, clock, TypeTime, Start
<1>10. ASSUME NEW t \in Thread, DeqSwing(t)
      PROVE  TypeTime'
  BY <1>10, BoundAssumption DEF DeqSwing, MoveIf, Move, Goto, Set, garbage, clock, TypeTime,
     Start
<1>11. ASSUME NEW t \in Thread, RecycleStamp(t)
      PROVE  TypeTime'
  <2>1. now \in 0 .. Start + MaxTick
    BY BoundAssumption DEF TypeTime, Start
  <2>2. QED
    BY <1>11, <2>1 DEF RecycleStamp, locals, clock, TypeTime
<1>12. ASSUME NEW t \in Thread, CheckTime(t)
      PROVE  TypeTime'
  BY <1>12, BoundAssumption DEF CheckTime, Move, Goto, Set, queue, garbage, count, clock,
     TypeTime, Start
<1>13. ASSUME NEW t \in Thread, CheckEnd(t)
      PROVE  TypeTime'
  BY <1>13, BoundAssumption DEF CheckEnd, Move, Goto, queue, garbage, count, clock, TypeTime,
     Start
<1>14. CASE Tick
  BY <1>14, BoundAssumption DEF Tick, queue, garbage, locals, count, TypeTime, Start
<1>15. CASE UNCHANGED vars
  BY <1>15, <1>1 DEF vars, queue, garbage, locals, count, clock
<1>16. QED
  BY <1>2, <1>3, <1>4, <1>5, <1>6, <1>7, <1>8, <1>9, <1>10, <1>11, <1>12, <1>13, <1>14, <1>15 DEF
     Next, Run, Enqueue, Dequeue, RecycleFree, CheckFree, Thread

\* Types, of the places.
LEMMA TypePlaceStep == IInv /\ [Next]_vars => TypePlace'
<1> SUFFICES ASSUME IInv, [Next]_vars PROVE TypePlace'
  OBVIOUS
<1> USE DEF IInv
<1>1. ASSUME NEW t \in Producer, EnqCall(t)
      PROVE  TypePlace'
  BY <1>1 DEF EnqCall, Call, Goto, queue, garbage, locals, count, clock, TypePlace, Place
<1>2. ASSUME NEW t \in Thread, EnqRead(t)
      PROVE  TypePlace'
  BY <1>2 DEF EnqRead, Move, Goto, Set, queue, garbage, count, clock, TypePlace, Place
<1>3. ASSUME NEW t \in Thread, EnqLink(t)
      PROVE  TypePlace'
  BY <1>3 DEF EnqLink, MoveIf, Move, Goto, Set, garbage, clock, TypePlace, Place
<1>4. ASSUME NEW t \in Thread, EnqSwing(t)
      PROVE  TypePlace'
  BY <1>4 DEF EnqSwing, Move, Goto, Set, garbage, count, clock, TypePlace, Place
<1>5. ASSUME NEW t \in Thread, SizeAdd(t)
      PROVE  TypePlace'
  BY <1>5 DEF SizeAdd, Move, Goto, queue, garbage, locals, count, clock, TypePlace, Place
<1>6. ASSUME NEW t \in Consumer, DeqCall(t)
      PROVE  TypePlace'
  BY <1>6 DEF DeqCall, Call, Goto, queue, garbage, locals, count, clock, TypePlace, Place
<1>7. ASSUME NEW t \in Thread, DeqHead(t)
      PROVE  TypePlace'
  BY <1>7 DEF DeqHead, Move, Goto, Set, queue, garbage, count, clock, TypePlace, Place
<1>8. ASSUME NEW t \in Thread, DeqCheck(t)
      PROVE  TypePlace'
  BY <1>8 DEF DeqCheck, MoveIf, Move, Goto, Set, Again, queue, garbage, locals, count, clock,
     TypePlace, Place
<1>9. ASSUME NEW t \in Thread, DeqNext(t)
      PROVE  TypePlace'
  BY <1>9 DEF DeqNext, Move, Goto, Set, queue, garbage, count, clock, TypePlace, Place
<1>10. ASSUME NEW t \in Thread, DeqEmpty(t)
      PROVE  TypePlace'
  BY <1>10 DEF DeqEmpty, Move, Goto, Set, Again, queue, garbage, count, clock, TypePlace, Place
<1>11. ASSUME NEW t \in Thread, DeqTail(t)
      PROVE  TypePlace'
  BY <1>11 DEF DeqTail, MoveIf, Move, Goto, Set, Again, queue, garbage, locals, count, clock,
     TypePlace, Place
<1>12. ASSUME NEW t \in Thread, DeqSwing(t)
      PROVE  TypePlace'
  BY <1>12 DEF DeqSwing, MoveIf, Move, Goto, Set, garbage, clock, TypePlace, Place
<1>13. ASSUME NEW t \in Thread, SizeSub(t)
      PROVE  TypePlace'
  BY <1>13 DEF SizeSub, Move, Goto, queue, garbage, locals, count, clock, TypePlace, Place
<1>14. ASSUME NEW t \in Thread, RecycleRead(t)
      PROVE  TypePlace'
  BY <1>14 DEF RecycleRead, Move, Goto, Set, queue, garbage, count, clock, TypePlace, Place
<1>15. ASSUME NEW t \in Thread, RecycleLink(t)
      PROVE  TypePlace'
  BY <1>15 DEF RecycleLink, MoveIf, Move, Goto, queue, locals, count, clock, TypePlace, Place
<1>16. ASSUME NEW t \in Thread, RecycleStamp(t)
      PROVE  TypePlace'
  BY <1>16 DEF RecycleStamp, Move, Goto, queue, locals, count, clock, TypePlace, Place
<1>17. ASSUME NEW t \in Thread, RecycleMove(t)
      PROVE  TypePlace'
  BY <1>17 DEF RecycleMove, Move, Goto, Set, queue, count, clock, TypePlace, Place
<1>18. ASSUME NEW t \in Thread, CheckEnter(t)
      PROVE  TypePlace'
  BY <1>18 DEF CheckEnter, MoveIf, Move, Goto, queue, locals, count, clock, TypePlace, Place
<1>19. ASSUME NEW t \in Thread, CheckTime(t)
      PROVE  TypePlace'
  BY <1>19 DEF CheckTime, Move, Goto, Set, queue, garbage, count, clock, TypePlace, Place
<1>20. ASSUME NEW t \in Thread, CheckOne(t)
      PROVE  TypePlace'
  BY <1>20 DEF CheckOne, Scanned, Move, Goto, Set, queue, count, clock, TypePlace, Place
<1>21. ASSUME NEW t \in Thread, CheckEnd(t)
      PROVE  TypePlace'
  BY <1>21 DEF CheckEnd, Move, Goto, queue, garbage, count, clock, TypePlace, Place
<1>22. ASSUME NEW t \in Thread, CheckLeave(t)
      PROVE  TypePlace'
  BY <1>22 DEF CheckLeave, Move, Goto, Set, queue, count, clock, TypePlace, Place
<1>23. ASSUME NEW t \in Thread, StaleUse(t)
      PROVE  TypePlace'
  BY <1>23 DEF StaleUse, queue, garbage, locals, count, TypePlace, Place
<1>24. CASE Destroy
  BY <1>24 DEF Destroy, queue, locals, count, clock, TypePlace, Place
<1>25. CASE Tick
  BY <1>25 DEF Tick, queue, garbage, locals, count, TypePlace, Place
<1>26. CASE UNCHANGED vars
  BY <1>26 DEF vars, queue, garbage, locals, count, clock, TypePlace, Place
<1>27. QED
  BY <1>1, <1>2, <1>3, <1>4, <1>5, <1>6, <1>7, <1>8, <1>9, <1>10, <1>11, <1>12, <1>13, <1>14,
     <1>15, <1>16, <1>17, <1>18, <1>19, <1>20, <1>21, <1>22, <1>23, <1>24, <1>25, <1>26 DEF Next,
     Run, Enqueue, Dequeue, RecycleFree, CheckFree, Thread

\* Types, of the locals.
LEMMA TypeLocalsStep == IInv /\ [Next]_vars => TypeLocals'
<1> SUFFICES ASSUME IInv, [Next]_vars PROVE TypeLocals'
  OBVIOUS
<1> USE DEF IInv
<1>1. ASSUME UNCHANGED <<mine, other, ret>> PROVE TypeLocals'
  BY <1>1 DEF TypeLocals, Link
<1>2. ASSUME NEW t \in Thread, SizeAdd(t) \/ SizeSub(t) \/ RecycleLink(t) \/
             RecycleStamp(t) \/ CheckEnter(t) \/ CheckEnd(t) \/ StaleUse(t) \/ EnqCall(t)
      PROVE  TypeLocals'
  BY <1>1, <1>2 DEF SizeAdd, SizeSub, RecycleLink, RecycleStamp, CheckEnter, CheckEnd, StaleUse,
     EnqCall, Call, MoveIf, Move, Goto, clock, count, garbage, locals, queue
<1>3. CASE Tick \/ Destroy
  BY <1>1, <1>3 DEF Tick, Destroy, clock, count, garbage, locals, queue
<1>4. ASSUME NEW t \in Thread, EnqRead(t)
      PROVE  TypeLocals'
  BY <1>4, InQueueType DEF EnqRead, Move, Goto, Set, queue, garbage, count, clock, TypeLocals,
     Link, TypeQueue
<1>5. ASSUME NEW t \in Thread, EnqLink(t)
      PROVE  TypeLocals'
  <2>1. next[mine[t]] = NULL => sent + 1 \in Link
    BY <1>5, RoomToLink, InQueueType DEF EnqLink, MoveIf, Move, Goto, TypeQueue
  <2>2. QED
    BY <1>5, <2>1 DEF EnqLink, Set, TypeLocals, Link
<1>6. ASSUME NEW t \in Thread, EnqSwing(t)
      PROVE  TypeLocals'
  BY <1>6 DEF EnqSwing, Move, Goto, Set, garbage, count, clock, TypeLocals, Link
<1>7. ASSUME NEW t \in Consumer, DeqCall(t)
      PROVE  TypeLocals'
  <2>1. 0 \in 0 .. MaxEnq
    BY BoundAssumption
  <2>2. QED
    BY <1>7, <2>1 DEF DeqCall, locals, TypeLocals
<1>8. ASSUME NEW t \in Thread, DeqHead(t)
      PROVE  TypeLocals'
  BY <1>8, InQueueType DEF DeqHead, Move, Goto, Set, queue, garbage, count, clock, TypeLocals,
     Link, TypeQueue
<1>9. ASSUME NEW t \in Thread, DeqCheck(t)
      PROVE  TypeLocals'
  BY <1>9 DEF DeqCheck, MoveIf, Move, Goto, Set, Again, queue, garbage, locals, count, clock,
     TypeLocals, Link
<1>10. ASSUME NEW t \in Thread, DeqNext(t)
      PROVE  TypeLocals'
  <2>1. mine[t] \in Node
    BY <1>10, InQueueType DEF DeqNext, Move, Goto, Read, TypeQueue
  <2>2. QED
    BY <1>10, <2>1 DEF DeqNext, Set, count, TypeLocals, TypeQueue, Link
<1>11. ASSUME NEW t \in Thread, DeqEmpty(t)
      PROVE  TypeLocals'
  BY <1>11 DEF DeqEmpty, Move, Goto, Set, Again, queue, garbage, count, clock, TypeLocals, Link
<1>12. ASSUME NEW t \in Thread, DeqTail(t)
      PROVE  TypeLocals'
  BY <1>12 DEF DeqTail, MoveIf, Move, Goto, Set, Again, queue, garbage, locals, count, clock,
     TypeLocals, Link
<1>13. ASSUME NEW t \in Thread, DeqSwing(t)
      PROVE  TypeLocals'
  BY <1>13, InQueueType DEF DeqSwing, MoveIf, Move, Goto, Set, garbage, clock, TypeLocals, Link,
     TypeQueue, Read
<1>14. ASSUME NEW t \in Thread, RecycleRead(t)
      PROVE  TypeLocals'
  BY <1>14 DEF RecycleRead, Move, Goto, Set, queue, garbage, count, clock, TypeLocals, Link,
     TypeList
<1>15. ASSUME NEW t \in Thread, RecycleMove(t)
      PROVE  TypeLocals'
  BY <1>15 DEF RecycleMove, Move, Goto, Set, queue, count, clock, TypeLocals, Link
<1>16. ASSUME NEW t \in Thread, CheckTime(t)
      PROVE  TypeLocals'
  BY <1>16 DEF CheckTime, Move, Goto, Set, queue, garbage, count, clock, TypeLocals, Link,
     TypeList
<1>17. ASSUME NEW t \in Thread, CheckOne(t)
      PROVE  TypeLocals'
  BY <1>17, RootScanned DEF CheckOne, Scanned, Move, Goto, Set, queue, count, clock, TypeLocals,
     Link, TypeList
<1>18. ASSUME NEW t \in Thread, CheckLeave(t)
      PROVE  TypeLocals'
  BY <1>18 DEF CheckLeave, Move, Goto, Set, queue, count, clock, TypeLocals, Link
<1>19. CASE UNCHANGED vars
  BY <1>19, <1>1 DEF vars, queue, garbage, locals, count, clock
<1>20. QED
  BY <1>2, <1>3, <1>4, <1>5, <1>6, <1>7, <1>8, <1>9, <1>10, <1>11, <1>12, <1>13, <1>14, <1>15,
     <1>16, <1>17, <1>18, <1>19 DEF Next, Run, Enqueue, Dequeue, RecycleFree, CheckFree, Thread

\* Enqueuers enqueue and dequeuers dequeue.
LEMMA CallerStep == IInv /\ [Next]_vars => Caller'
<1> SUFFICES ASSUME IInv, [Next]_vars PROVE Caller'
  OBVIOUS
<1> USE DEF IInv
<1>1. ASSUME NEW t \in Producer, EnqCall(t)
      PROVE  Caller'
  BY <1>1 DEF EnqCall, Call, Goto, queue, garbage, locals, count, clock, TypePlace, Caller,
     Thread
<1>2. ASSUME NEW t \in Thread, EnqRead(t)
      PROVE  Caller'
  BY <1>2 DEF EnqRead, Move, Goto, Set, queue, garbage, count, clock, TypePlace, Caller
<1>3. ASSUME NEW t \in Thread, EnqLink(t)
      PROVE  Caller'
  BY <1>3 DEF EnqLink, MoveIf, Move, Goto, Set, garbage, clock, TypePlace, Caller
<1>4. ASSUME NEW t \in Thread, EnqSwing(t)
      PROVE  Caller'
  BY <1>4 DEF EnqSwing, Move, Goto, Set, garbage, count, clock, TypePlace, Caller
<1>5. ASSUME NEW t \in Thread, SizeAdd(t)
      PROVE  Caller'
  BY <1>5 DEF SizeAdd, Move, Goto, queue, garbage, locals, count, clock, TypePlace, Caller
<1>6. ASSUME NEW t \in Consumer, DeqCall(t)
      PROVE  Caller'
  BY <1>6 DEF DeqCall, Call, Goto, queue, garbage, locals, count, clock, TypePlace, Caller,
     Thread
<1>7. ASSUME NEW t \in Thread, DeqHead(t)
      PROVE  Caller'
  BY <1>7 DEF DeqHead, Move, Goto, Set, queue, garbage, count, clock, TypePlace, Caller
<1>8. ASSUME NEW t \in Thread, DeqCheck(t)
      PROVE  Caller'
  BY <1>8 DEF DeqCheck, MoveIf, Move, Goto, Set, Again, queue, garbage, locals, count, clock,
     TypePlace, Caller
<1>9. ASSUME NEW t \in Thread, DeqNext(t)
      PROVE  Caller'
  BY <1>9 DEF DeqNext, Move, Goto, Set, queue, garbage, count, clock, TypePlace, Caller
<1>10. ASSUME NEW t \in Thread, DeqEmpty(t)
      PROVE  Caller'
  BY <1>10 DEF DeqEmpty, Move, Goto, Set, Again, queue, garbage, count, clock, TypePlace, Caller
<1>11. ASSUME NEW t \in Thread, DeqTail(t)
      PROVE  Caller'
  BY <1>11 DEF DeqTail, MoveIf, Move, Goto, Set, Again, queue, garbage, locals, count, clock,
     TypePlace, Caller
<1>12. ASSUME NEW t \in Thread, DeqSwing(t)
      PROVE  Caller'
  BY <1>12 DEF DeqSwing, MoveIf, Move, Goto, Set, garbage, clock, TypePlace, Caller
<1>13. ASSUME NEW t \in Thread, SizeSub(t)
      PROVE  Caller'
  BY <1>13 DEF SizeSub, Move, Goto, queue, garbage, locals, count, clock, TypePlace, Caller
<1>14. ASSUME NEW t \in Thread, RecycleRead(t)
      PROVE  Caller'
  BY <1>14 DEF RecycleRead, Move, Goto, Set, queue, garbage, count, clock, TypePlace, Caller
<1>15. ASSUME NEW t \in Thread, RecycleLink(t)
      PROVE  Caller'
  BY <1>15 DEF RecycleLink, MoveIf, Move, Goto, queue, locals, count, clock, TypePlace, Caller
<1>16. ASSUME NEW t \in Thread, RecycleStamp(t)
      PROVE  Caller'
  BY <1>16 DEF RecycleStamp, Move, Goto, queue, locals, count, clock, TypePlace, Caller
<1>17. ASSUME NEW t \in Thread, RecycleMove(t)
      PROVE  Caller'
  BY <1>17 DEF RecycleMove, Move, Goto, Set, queue, count, clock, TypePlace, Caller
<1>18. ASSUME NEW t \in Thread, CheckEnter(t)
      PROVE  Caller'
  BY <1>18 DEF CheckEnter, MoveIf, Move, Goto, queue, locals, count, clock, TypePlace, Caller
<1>19. ASSUME NEW t \in Thread, CheckTime(t)
      PROVE  Caller'
  BY <1>19 DEF CheckTime, Move, Goto, Set, queue, garbage, count, clock, TypePlace, Caller
<1>20. ASSUME NEW t \in Thread, CheckOne(t)
      PROVE  Caller'
  BY <1>20 DEF CheckOne, Scanned, Move, Goto, Set, queue, count, clock, TypePlace, Caller
<1>21. ASSUME NEW t \in Thread, CheckEnd(t)
      PROVE  Caller'
  BY <1>21 DEF CheckEnd, Move, Goto, queue, garbage, count, clock, TypePlace, Caller
<1>22. ASSUME NEW t \in Thread, CheckLeave(t)
      PROVE  Caller'
  BY <1>22 DEF CheckLeave, Move, Goto, Set, queue, count, clock, TypePlace, Caller
<1>23. ASSUME NEW t \in Thread, StaleUse(t)
      PROVE  Caller'
  BY <1>23 DEF StaleUse, queue, garbage, locals, count, TypePlace, Caller
<1>24. CASE Destroy
  BY <1>24 DEF Destroy, queue, locals, count, clock, TypePlace, Caller
<1>25. CASE Tick
  BY <1>25 DEF Tick, queue, garbage, locals, count, TypePlace, Caller
<1>26. CASE UNCHANGED vars
  BY <1>26 DEF vars, queue, garbage, locals, count, clock, TypePlace, Caller
<1>27. QED
  BY <1>1, <1>2, <1>3, <1>4, <1>5, <1>6, <1>7, <1>8, <1>9, <1>10, <1>11, <1>12, <1>13, <1>14,
     <1>15, <1>16, <1>17, <1>18, <1>19, <1>20, <1>21, <1>22, <1>23, <1>24, <1>25, <1>26 DEF Next,
     Run, Enqueue, Dequeue, RecycleFree, CheckFree, Thread

\* A node that was freed is used by nobody.
LEMMA GoneStep == IInv /\ [Next]_vars => Gone'
<1> SUFFICES ASSUME IInv, [Next]_vars PROVE Gone'
  OBVIOUS
<1> USE DEF IInv
<1>1. ASSUME NEW t \in Producer, EnqCall(t)
      PROVE  Gone'
  BY <1>1 DEF EnqCall, Call, Goto, queue, garbage, locals, count, clock, TypePlace, Gone
<1>2. ASSUME NEW t \in Thread, EnqRead(t)
      PROVE  Gone'
  BY <1>2 DEF EnqRead, Move, Goto, Set, queue, garbage, count, clock, TypePlace, Gone
<1>3. ASSUME NEW t \in Thread, EnqLink(t)
      PROVE  Gone'
  BY <1>3 DEF EnqLink, MoveIf, Move, Goto, Set, garbage, clock, TypePlace, Gone
<1>4. ASSUME NEW t \in Thread, EnqSwing(t)
      PROVE  Gone'
  BY <1>4 DEF EnqSwing, Move, Goto, Set, garbage, count, clock, TypePlace, Gone
<1>5. ASSUME NEW t \in Thread, SizeAdd(t)
      PROVE  Gone'
  BY <1>5 DEF SizeAdd, Move, Goto, queue, garbage, locals, count, clock, TypePlace, Gone
<1>6. ASSUME NEW t \in Consumer, DeqCall(t)
      PROVE  Gone'
  BY <1>6 DEF DeqCall, Call, Goto, queue, garbage, locals, count, clock, TypePlace, Gone
<1>7. ASSUME NEW t \in Thread, DeqHead(t)
      PROVE  Gone'
  BY <1>7 DEF DeqHead, Move, Goto, Set, queue, garbage, count, clock, TypePlace, Gone
<1>8. ASSUME NEW t \in Thread, DeqCheck(t)
      PROVE  Gone'
  BY <1>8 DEF DeqCheck, MoveIf, Move, Goto, Set, Again, queue, garbage, locals, count, clock,
     TypePlace, Gone
<1>9. ASSUME NEW t \in Thread, DeqNext(t)
      PROVE  Gone'
  BY <1>9 DEF DeqNext, Move, Goto, Set, queue, garbage, count, clock, TypePlace, Gone
<1>10. ASSUME NEW t \in Thread, DeqEmpty(t)
      PROVE  Gone'
  BY <1>10 DEF DeqEmpty, Move, Goto, Set, Again, queue, garbage, count, clock, TypePlace, Gone
<1>11. ASSUME NEW t \in Thread, DeqTail(t)
      PROVE  Gone'
  BY <1>11 DEF DeqTail, MoveIf, Move, Goto, Set, Again, queue, garbage, locals, count, clock,
     TypePlace, Gone
<1>12. ASSUME NEW t \in Thread, DeqSwing(t)
      PROVE  Gone'
  BY <1>12 DEF DeqSwing, MoveIf, Move, Goto, Set, garbage, clock, TypePlace, Gone
<1>13. ASSUME NEW t \in Thread, SizeSub(t)
      PROVE  Gone'
  BY <1>13 DEF SizeSub, Move, Goto, queue, garbage, locals, count, clock, TypePlace, Gone
<1>14. ASSUME NEW t \in Thread, RecycleRead(t)
      PROVE  Gone'
  BY <1>14 DEF RecycleRead, Move, Goto, Set, queue, garbage, count, clock, TypePlace, Gone
<1>15. ASSUME NEW t \in Thread, RecycleLink(t)
      PROVE  Gone'
  BY <1>15 DEF RecycleLink, MoveIf, Move, Goto, queue, locals, count, clock, TypePlace, Gone
<1>16. ASSUME NEW t \in Thread, RecycleStamp(t)
      PROVE  Gone'
  BY <1>16 DEF RecycleStamp, Move, Goto, queue, locals, count, clock, TypePlace, Gone
<1>17. ASSUME NEW t \in Thread, RecycleMove(t)
      PROVE  Gone'
  BY <1>17 DEF RecycleMove, Move, Goto, Set, queue, count, clock, TypePlace, Gone
<1>18. ASSUME NEW t \in Thread, CheckEnter(t)
      PROVE  Gone'
  BY <1>18 DEF CheckEnter, MoveIf, Move, Goto, queue, locals, count, clock, TypePlace, Gone
<1>19. ASSUME NEW t \in Thread, CheckTime(t)
      PROVE  Gone'
  BY <1>19 DEF CheckTime, Move, Goto, Set, queue, garbage, count, clock, TypePlace, Gone
<1>20. ASSUME NEW t \in Thread, CheckOne(t)
      PROVE  Gone'
  BY <1>20 DEF CheckOne, Scanned, Move, Goto, Set, queue, count, clock, TypePlace, Gone
<1>21. ASSUME NEW t \in Thread, CheckEnd(t)
      PROVE  Gone'
  BY <1>21 DEF CheckEnd, Move, Goto, queue, garbage, count, clock, TypePlace, Gone
<1>22. ASSUME NEW t \in Thread, CheckLeave(t)
      PROVE  Gone'
  BY <1>22 DEF CheckLeave, Move, Goto, Set, queue, count, clock, TypePlace, Gone
<1>23. ASSUME NEW t \in Thread, StaleUse(t)
      PROVE  Gone'
  BY <1>23 DEF StaleUse, queue, garbage, locals, count, TypePlace, Gone
<1>24. CASE Destroy
  BY <1>24 DEF Destroy, queue, locals, count, clock, TypePlace, Gone
<1>25. CASE Tick
  BY <1>25 DEF Tick, queue, garbage, locals, count, TypePlace, Gone
<1>26. CASE UNCHANGED vars
  BY <1>26 DEF vars, queue, garbage, locals, count, clock, TypePlace, Gone
<1>27. QED
  BY <1>1, <1>2, <1>3, <1>4, <1>5, <1>6, <1>7, <1>8, <1>9, <1>10, <1>11, <1>12, <1>13, <1>14,
     <1>15, <1>16, <1>17, <1>18, <1>19, <1>20, <1>21, <1>22, <1>23, <1>24, <1>25, <1>26 DEF Next,
     Run, Enqueue, Dequeue, RecycleFree, CheckFree, Thread

\* The queue stays linked.
LEMMA LinkedStep == IInv /\ [Next]_vars => Linked'
<1> SUFFICES ASSUME IInv, [Next]_vars PROVE Linked'
  OBVIOUS
<1> USE DEF IInv
<1>1. ASSUME NEW t \in Producer, EnqCall(t)
      PROVE  Linked'
  BY <1>1 DEF EnqCall, Call, Goto, queue, garbage, locals, count, clock, Linked, TypePlace
<1>2. ASSUME NEW t \in Thread, EnqRead(t)
      PROVE  Linked'
  BY <1>2 DEF EnqRead, Move, Goto, Set, queue, garbage, count, clock, Linked, TypePlace,
     TypeLocals, TypeQueue
<1>3. ASSUME NEW t \in Thread, EnqLink(t)
      PROVE  Linked'
  <2>1. CASE next[mine[t]] # NULL
    BY <1>3, <2>1 DEF EnqLink, MoveIf, Move, Goto, Set, Linked, TypePlace, TypeLocals
  <2>2. CASE next[mine[t]] = NULL
    <3> mine[t] \in 0 .. tail /\ tail \in 0 .. sent
      BY <1>3 DEF EnqLink, MoveIf, Move, Goto, Read, TypeQueue
    <3> mine[t] \in Node
      BY InQueueType DEF TypeQueue
    <3>1. mine[t] = sent /\ tail = sent
      BY <2>2 DEF Linked, TypeQueue, Node, NULL
    <3>2. \A u \in Thread : pc[u] # "e_swing"
      BY <3>1 DEF Linked, TypeQueue
    <3>3. sent' = sent + 1 /\ next' = [next EXCEPT ![sent] = sent + 1] /\ UNCHANGED <<head, tail, taken>>
      BY <1>3, <2>2, <3>1 DEF EnqLink
    <3>4. \A n \in Node : next'[n] = IF n < sent' THEN n + 1 ELSE NULL
      BY <3>1, <3>3 DEF Linked, TypeQueue, Node
    <3>5. \A u \in Thread : pc'[u] = "e_swing" <=> u = t
      BY <1>3, <2>2, <3>2 DEF EnqLink, MoveIf, Move, Goto, TypePlace
    <3>6. mine'[t] = sent /\ other'[t] = sent'
      BY <1>3, <2>2, <3>1, <3>3 DEF EnqLink, Set, TypeLocals
    <3>7. QED
      BY <3>1, <3>3, <3>4, <3>5, <3>6 DEF Linked, TypeQueue
  <2>3. QED
    BY <2>1, <2>2
<1>4. ASSUME NEW t \in Thread, EnqSwing(t)
      PROVE  Linked'
  BY <1>4 DEF EnqSwing, Move, Goto, Set, garbage, count, clock, Linked, TypePlace, TypeLocals,
     TypeQueue
<1>5. ASSUME NEW t \in Thread, SizeAdd(t)
      PROVE  Linked'
  BY <1>5 DEF SizeAdd, Move, Goto, queue, garbage, locals, count, clock, Linked, TypePlace
<1>6. ASSUME NEW t \in Consumer, DeqCall(t)
      PROVE  Linked'
  BY <1>6 DEF DeqCall, Call, Goto, queue, garbage, locals, count, clock, Linked, TypePlace
<1>7. ASSUME NEW t \in Thread, DeqHead(t)
      PROVE  Linked'
  BY <1>7 DEF DeqHead, Move, Goto, Set, queue, garbage, count, clock, Linked, TypePlace,
     TypeLocals, TypeQueue
<1>8. ASSUME NEW t \in Thread, DeqCheck(t)
      PROVE  Linked'
  BY <1>8 DEF DeqCheck, MoveIf, Move, Goto, Set, Again, queue, garbage, locals, count, clock,
     Linked, TypePlace, TypeLocals, TypeQueue
<1>9. ASSUME NEW t \in Thread, DeqNext(t)
      PROVE  Linked'
  BY <1>9 DEF DeqNext, Move, Goto, Set, queue, garbage, count, clock, Linked, TypePlace,
     TypeLocals, TypeQueue
<1>10. ASSUME NEW t \in Thread, DeqEmpty(t)
      PROVE  Linked'
  BY <1>10 DEF DeqEmpty, Move, Goto, Set, Again, queue, garbage, count, clock, Linked, TypePlace,
     TypeLocals, TypeQueue
<1>11. ASSUME NEW t \in Thread, DeqTail(t)
      PROVE  Linked'
  BY <1>11 DEF DeqTail, MoveIf, Move, Goto, Set, Again, queue, garbage, locals, count, clock,
     Linked, TypePlace, TypeLocals, TypeQueue
<1>12. ASSUME NEW t \in Thread, DeqSwing(t)
      PROVE  Linked'
  BY <1>12 DEF DeqSwing, MoveIf, Move, Goto, Set, garbage, clock, Linked, TypePlace, TypeLocals,
     TypeQueue, Read
<1>13. ASSUME NEW t \in Thread, SizeSub(t)
      PROVE  Linked'
  BY <1>13 DEF SizeSub, Move, Goto, queue, garbage, locals, count, clock, Linked, TypePlace
<1>14. ASSUME NEW t \in Thread, RecycleRead(t)
      PROVE  Linked'
  BY <1>14 DEF RecycleRead, Move, Goto, Set, queue, garbage, count, clock, Linked, TypePlace,
     TypeLocals, TypeQueue
<1>15. ASSUME NEW t \in Thread, RecycleLink(t)
      PROVE  Linked'
  BY <1>15 DEF RecycleLink, MoveIf, Move, Goto, queue, locals, count, clock, Linked, TypePlace
<1>16. ASSUME NEW t \in Thread, RecycleStamp(t)
      PROVE  Linked'
  BY <1>16 DEF RecycleStamp, Move, Goto, queue, locals, count, clock, Linked, TypePlace
<1>17. ASSUME NEW t \in Thread, RecycleMove(t)
      PROVE  Linked'
  BY <1>17 DEF RecycleMove, Move, Goto, Set, queue, count, clock, Linked, TypePlace, TypeLocals,
     TypeQueue
<1>18. ASSUME NEW t \in Thread, CheckEnter(t)
      PROVE  Linked'
  BY <1>18 DEF CheckEnter, MoveIf, Move, Goto, queue, locals, count, clock, Linked, TypePlace
<1>19. ASSUME NEW t \in Thread, CheckTime(t)
      PROVE  Linked'
  BY <1>19 DEF CheckTime, Move, Goto, Set, queue, garbage, count, clock, Linked, TypePlace,
     TypeLocals, TypeQueue
<1>20. ASSUME NEW t \in Thread, CheckOne(t)
      PROVE  Linked'
  BY <1>20 DEF CheckOne, Scanned, Move, Goto, Set, queue, count, clock, Linked, TypePlace,
     TypeLocals, TypeQueue
<1>21. ASSUME NEW t \in Thread, CheckEnd(t)
      PROVE  Linked'
  BY <1>21 DEF CheckEnd, Move, Goto, queue, garbage, count, clock, Linked, TypePlace
<1>22. ASSUME NEW t \in Thread, CheckLeave(t)
      PROVE  Linked'
  BY <1>22 DEF CheckLeave, Move, Goto, Set, queue, count, clock, Linked, TypePlace, TypeLocals,
     TypeQueue
<1>23. ASSUME NEW t \in Thread, StaleUse(t)
      PROVE  Linked'
  BY <1>23 DEF StaleUse, queue, garbage, locals, count, Linked, TypePlace
<1>24. CASE Destroy
  BY <1>24 DEF Destroy, queue, locals, count, clock, Linked, TypePlace
<1>25. CASE Tick
  BY <1>25 DEF Tick, queue, garbage, locals, count, Linked, TypePlace
<1>26. CASE UNCHANGED vars
  BY <1>26 DEF vars, queue, garbage, locals, count, clock, Linked, TypePlace
<1>27. QED
  BY <1>1, <1>2, <1>3, <1>4, <1>5, <1>6, <1>7, <1>8, <1>9, <1>10, <1>11, <1>12, <1>13, <1>14,
     <1>15, <1>16, <1>17, <1>18, <1>19, <1>20, <1>21, <1>22, <1>23, <1>24, <1>25, <1>26 DEF Next,
     Run, Enqueue, Dequeue, RecycleFree, CheckFree, Thread

\* What a thread has read.
LEMMA ReadStep == IInv /\ [Next]_vars => Read'
<1> SUFFICES ASSUME IInv, [Next]_vars PROVE Read'
  OBVIOUS
<1> USE DEF IInv
<1>1. ASSUME NEW t \in Producer, EnqCall(t)
      PROVE  Read'
  BY <1>1 DEF EnqCall, Call, Goto, queue, garbage, locals, count, clock, Read, TypePlace,
     TypeQueue, TypeLocals
<1>2. ASSUME NEW t \in Thread, EnqRead(t)
      PROVE  Read'
  BY <1>2 DEF EnqRead, Move, Goto, Set, queue, garbage, count, clock, Read, TypePlace, TypeQueue,
     TypeLocals
<1>3. ASSUME NEW t \in Thread, EnqLink(t)
      PROVE  Read'
  BY <1>3 DEF EnqLink, MoveIf, Move, Goto, Set, garbage, clock, Read, TypePlace, TypeQueue,
     TypeLocals, Linked
<1>4. ASSUME NEW t \in Thread, EnqSwing(t)
      PROVE  Read'
  BY <1>4 DEF EnqSwing, Move, Goto, Set, garbage, count, clock, Read, TypePlace, TypeQueue,
     TypeLocals, Linked
<1>5. ASSUME NEW t \in Thread, SizeAdd(t)
      PROVE  Read'
  BY <1>5 DEF SizeAdd, Move, Goto, queue, garbage, locals, count, clock, Read, TypePlace,
     TypeQueue, TypeLocals
<1>6. ASSUME NEW t \in Consumer, DeqCall(t)
      PROVE  Read'
  BY <1>6 DEF DeqCall, Call, Goto, queue, garbage, locals, count, clock, Read, TypePlace,
     TypeQueue, TypeLocals
<1>7. ASSUME NEW t \in Thread, DeqHead(t)
      PROVE  Read'
  BY <1>7 DEF DeqHead, Move, Goto, Set, queue, garbage, count, clock, Read, TypePlace, TypeQueue,
     TypeLocals
<1>8. ASSUME NEW t \in Thread, DeqCheck(t)
      PROVE  Read'
  BY <1>8 DEF DeqCheck, MoveIf, Move, Goto, Set, Again, queue, garbage, locals, count, clock,
     Read, TypePlace, TypeQueue, TypeLocals
<1>9. ASSUME NEW t \in Thread, DeqNext(t)
      PROVE  Read'
  <2>1. mine[t] \in 0 .. head /\ mine[t] \in Node
    BY <1>9, InQueueType DEF DeqNext, Move, Goto, Read, TypeQueue
  <2>2. next[mine[t]] = NULL \/ (next[mine[t]] = mine[t] + 1 /\ mine[t] + 1 <= sent)
    BY <2>1 DEF Linked, TypeQueue
  <2>3. \A u \in Thread : u # t => pc'[u] = pc[u] /\ mine'[u] = mine[u] /\ other'[u] = other[u]
    BY <1>9 DEF DeqNext, Move, Goto, Set, TypePlace, TypeLocals
  <2>4. pc'[t] = "d_tail" /\ mine'[t] = mine[t] /\ other'[t] = next[mine[t]]
    BY <1>9 DEF DeqNext, Move, Goto, Set, TypePlace, TypeLocals
  <2>5. UNCHANGED <<head, tail, sent>>
    BY <1>9 DEF DeqNext, queue, count
  <2>6. UNCHANGED ret /\ ret[t] = 0
    BY <1>9 DEF DeqNext, Move, Goto, Read
  <2>7. QED
    BY <2>1, <2>2, <2>3, <2>4, <2>5, <2>6 DEF Read
<1>10. ASSUME NEW t \in Thread, DeqEmpty(t)
      PROVE  Read'
  BY <1>10 DEF DeqEmpty, Move, Goto, Set, Again, queue, garbage, count, clock, Read, TypePlace,
     TypeQueue, TypeLocals
<1>11. ASSUME NEW t \in Thread, DeqTail(t)
      PROVE  Read'
  BY <1>11 DEF DeqTail, MoveIf, Move, Goto, Set, Again, queue, garbage, locals, count, clock,
     Read, TypePlace, TypeQueue, TypeLocals, Linked
<1>12. ASSUME NEW t \in Thread, DeqSwing(t)
      PROVE  Read'
  BY <1>12 DEF DeqSwing, MoveIf, Move, Goto, Set, garbage, clock, Read, TypePlace, TypeQueue,
     TypeLocals, Linked
<1>13. ASSUME NEW t \in Thread, SizeSub(t)
      PROVE  Read'
  BY <1>13 DEF SizeSub, Move, Goto, queue, garbage, locals, count, clock, Read, TypePlace,
     TypeQueue, TypeLocals
<1>14. ASSUME NEW t \in Thread, RecycleRead(t)
      PROVE  Read'
  BY <1>14 DEF RecycleRead, Move, Goto, Set, queue, garbage, count, clock, Read, TypePlace,
     TypeQueue, TypeLocals
<1>15. ASSUME NEW t \in Thread, RecycleLink(t)
      PROVE  Read'
  BY <1>15 DEF RecycleLink, MoveIf, Move, Goto, queue, locals, count, clock, Read, TypePlace,
     TypeQueue, TypeLocals
<1>16. ASSUME NEW t \in Thread, RecycleStamp(t)
      PROVE  Read'
  BY <1>16 DEF RecycleStamp, Move, Goto, queue, locals, count, clock, Read, TypePlace, TypeQueue,
     TypeLocals
<1>17. ASSUME NEW t \in Thread, RecycleMove(t)
      PROVE  Read'
  BY <1>17 DEF RecycleMove, Move, Goto, Set, queue, count, clock, Read, TypePlace, TypeQueue,
     TypeLocals
<1>18. ASSUME NEW t \in Thread, CheckEnter(t)
      PROVE  Read'
  BY <1>18 DEF CheckEnter, MoveIf, Move, Goto, queue, locals, count, clock, Read, TypePlace,
     TypeQueue, TypeLocals
<1>19. ASSUME NEW t \in Thread, CheckTime(t)
      PROVE  Read'
  BY <1>19 DEF CheckTime, Move, Goto, Set, queue, garbage, count, clock, Read, TypePlace,
     TypeQueue, TypeLocals
<1>20. ASSUME NEW t \in Thread, CheckOne(t)
      PROVE  Read'
  BY <1>20 DEF CheckOne, Scanned, Move, Goto, Set, queue, count, clock, Read, TypePlace,
     TypeQueue, TypeLocals
<1>21. ASSUME NEW t \in Thread, CheckEnd(t)
      PROVE  Read'
  BY <1>21 DEF CheckEnd, Move, Goto, queue, garbage, count, clock, Read, TypePlace, TypeQueue,
     TypeLocals
<1>22. ASSUME NEW t \in Thread, CheckLeave(t)
      PROVE  Read'
  BY <1>22 DEF CheckLeave, Move, Goto, Set, queue, count, clock, Read, TypePlace, TypeQueue,
     TypeLocals
<1>23. ASSUME NEW t \in Thread, StaleUse(t)
      PROVE  Read'
  BY <1>23 DEF StaleUse, queue, garbage, locals, count, Read, TypePlace, TypeQueue, TypeLocals
<1>24. CASE Destroy
  BY <1>24 DEF Destroy, queue, locals, count, clock, Read, TypePlace, TypeQueue, TypeLocals
<1>25. CASE Tick
  BY <1>25 DEF Tick, queue, garbage, locals, count, Read, TypePlace, TypeQueue, TypeLocals
<1>26. CASE UNCHANGED vars
  BY <1>26 DEF vars, queue, garbage, locals, count, clock, Read, TypePlace, TypeQueue, TypeLocals
<1>27. QED
  BY <1>1, <1>2, <1>3, <1>4, <1>5, <1>6, <1>7, <1>8, <1>9, <1>10, <1>11, <1>12, <1>13, <1>14,
     <1>15, <1>16, <1>17, <1>18, <1>19, <1>20, <1>21, <1>22, <1>23, <1>24, <1>25, <1>26 DEF Next,
     Run, Enqueue, Dequeue, RecycleFree, CheckFree, Thread

\* What a thread has read is not too old.
LEMMA TimelyStep == IInv /\ [Next]_vars => Timely'
<1> SUFFICES ASSUME IInv, [Next]_vars PROVE Timely'
  OBVIOUS
<1> USE DEF IInv
<1>1. ASSUME NEW t \in Producer, EnqCall(t)
      PROVE  Timely'
  BY <1>1 DEF EnqCall, Call, Goto, queue, garbage, locals, count, clock, Timely, TypePlace,
     TypeTime, InTurn
<1>2. ASSUME NEW t \in Thread, EnqRead(t)
      PROVE  Timely'
  BY <1>2, BoundAssumption DEF EnqRead, Move, Goto, Set, queue, garbage, count, clock, Timely,
     TypePlace, TypeTime, InTurn, Start
<1>3. ASSUME NEW t \in Thread, EnqLink(t)
      PROVE  Timely'
  BY <1>3, BoundAssumption DEF EnqLink, MoveIf, Move, Goto, Set, garbage, clock, Timely,
     TypePlace, TypeTime, InTurn, Start
<1>4. ASSUME NEW t \in Thread, EnqSwing(t)
      PROVE  Timely'
  BY <1>4 DEF EnqSwing, Move, Goto, Set, garbage, count, clock, Timely, TypePlace, TypeTime,
     InTurn
<1>5. ASSUME NEW t \in Thread, SizeAdd(t)
      PROVE  Timely'
  BY <1>5 DEF SizeAdd, Move, Goto, queue, garbage, locals, count, clock, Timely, TypePlace,
     TypeTime, InTurn
<1>6. ASSUME NEW t \in Consumer, DeqCall(t)
      PROVE  Timely'
  BY <1>6 DEF DeqCall, Call, Goto, queue, garbage, locals, count, clock, Timely, TypePlace,
     TypeTime, InTurn
<1>7. ASSUME NEW t \in Thread, DeqHead(t)
      PROVE  Timely'
  BY <1>7, BoundAssumption DEF DeqHead, Move, Goto, Set, queue, garbage, count, clock, Timely,
     TypePlace, TypeTime, InTurn, Start
<1>8. ASSUME NEW t \in Thread, DeqCheck(t)
      PROVE  Timely'
  BY <1>8, BoundAssumption DEF DeqCheck, MoveIf, Move, Goto, Set, Again, queue, garbage, locals,
     count, clock, Timely, TypePlace, TypeTime, InTurn, Start
<1>9. ASSUME NEW t \in Thread, DeqNext(t)
      PROVE  Timely'
  BY <1>9 DEF DeqNext, Move, Goto, Set, queue, garbage, count, clock, Timely, TypePlace,
     TypeTime, InTurn
<1>10. ASSUME NEW t \in Thread, DeqEmpty(t)
      PROVE  Timely'
  BY <1>10, BoundAssumption DEF DeqEmpty, Move, Goto, Set, Again, queue, garbage, count, clock,
     Timely, TypePlace, TypeTime, InTurn, Start
<1>11. ASSUME NEW t \in Thread, DeqTail(t)
      PROVE  Timely'
  BY <1>11, BoundAssumption DEF DeqTail, MoveIf, Move, Goto, Set, Again, queue, garbage, locals,
     count, clock, Timely, TypePlace, TypeTime, InTurn, Start
<1>12. ASSUME NEW t \in Thread, DeqSwing(t)
      PROVE  Timely'
  BY <1>12, BoundAssumption DEF DeqSwing, MoveIf, Move, Goto, Set, garbage, clock, Timely,
     TypePlace, TypeTime, InTurn, Start
<1>13. ASSUME NEW t \in Thread, SizeSub(t)
      PROVE  Timely'
  BY <1>13 DEF SizeSub, Move, Goto, queue, garbage, locals, count, clock, Timely, TypePlace,
     TypeTime, InTurn
<1>14. ASSUME NEW t \in Thread, RecycleRead(t)
      PROVE  Timely'
  BY <1>14 DEF RecycleRead, Move, Goto, Set, queue, garbage, count, clock, Timely, TypePlace,
     TypeTime, InTurn
<1>15. ASSUME NEW t \in Thread, RecycleLink(t)
      PROVE  Timely'
  BY <1>15 DEF RecycleLink, MoveIf, Move, Goto, queue, locals, count, clock, Timely, TypePlace,
     TypeTime, InTurn
<1>16. ASSUME NEW t \in Thread, RecycleStamp(t)
      PROVE  Timely'
  BY <1>16 DEF RecycleStamp, Move, Goto, queue, locals, count, clock, Timely, TypePlace,
     TypeTime, InTurn
<1>17. ASSUME NEW t \in Thread, RecycleMove(t)
      PROVE  Timely'
  BY <1>17 DEF RecycleMove, Move, Goto, Set, queue, count, clock, Timely, TypePlace, TypeTime,
     InTurn
<1>18. ASSUME NEW t \in Thread, CheckEnter(t)
      PROVE  Timely'
  BY <1>18 DEF CheckEnter, MoveIf, Move, Goto, queue, locals, count, clock, Timely, TypePlace,
     TypeTime, InTurn
<1>19. ASSUME NEW t \in Thread, CheckTime(t)
      PROVE  Timely'
  BY <1>19, BoundAssumption DEF CheckTime, Move, Goto, Set, queue, garbage, count, clock, Timely,
     TypePlace, TypeTime, InTurn, Start
<1>20. ASSUME NEW t \in Thread, CheckOne(t)
      PROVE  Timely'
  BY <1>20 DEF CheckOne, Scanned, Move, Goto, Set, queue, count, clock, Timely, TypePlace,
     TypeTime, InTurn
<1>21. ASSUME NEW t \in Thread, CheckEnd(t)
      PROVE  Timely'
  BY <1>21, BoundAssumption DEF CheckEnd, Move, Goto, queue, garbage, count, clock, Timely,
     TypePlace, TypeTime, InTurn, Start
<1>22. ASSUME NEW t \in Thread, CheckLeave(t)
      PROVE  Timely'
  BY <1>22 DEF CheckLeave, Move, Goto, Set, queue, count, clock, Timely, TypePlace, TypeTime,
     InTurn
<1>23. ASSUME NEW t \in Thread, StaleUse(t)
      PROVE  Timely'
  BY <1>23 DEF StaleUse, queue, garbage, locals, count, Timely, TypePlace, TypeTime, InTurn
<1>24. CASE Destroy
  BY <1>24 DEF Destroy, queue, locals, count, clock, Timely, TypePlace, TypeTime, InTurn
<1>25. CASE Tick
  BY <1>25, BoundAssumption DEF Tick, queue, garbage, locals, count, Timely, TypePlace, TypeTime,
     InTurn, Start
<1>26. CASE UNCHANGED vars
  BY <1>26 DEF vars, queue, garbage, locals, count, clock, Timely, TypePlace, TypeTime, InTurn
<1>27. QED
  BY <1>1, <1>2, <1>3, <1>4, <1>5, <1>6, <1>7, <1>8, <1>9, <1>10, <1>11, <1>12, <1>13, <1>14,
     <1>15, <1>16, <1>17, <1>18, <1>19, <1>20, <1>21, <1>22, <1>23, <1>24, <1>25, <1>26 DEF Next,
     Run, Enqueue, Dequeue, RecycleFree, CheckFree, Thread

\* One thread frees at a time.
LEMMA OneCleanerStep == IInv /\ [Next]_vars => OneCleaner'
<1> SUFFICES ASSUME IInv, [Next]_vars PROVE OneCleaner'
  OBVIOUS
<1> USE DEF IInv
<1>1. ASSUME NEW t \in Producer, EnqCall(t)
      PROVE  OneCleaner'
  BY <1>1 DEF EnqCall, Call, Goto, queue, garbage, locals, count, clock, OneCleaner, TypePlace
<1>2. ASSUME NEW t \in Thread, EnqRead(t)
      PROVE  OneCleaner'
  BY <1>2 DEF EnqRead, Move, Goto, Set, queue, garbage, count, clock, OneCleaner, TypePlace
<1>3. ASSUME NEW t \in Thread, EnqLink(t)
      PROVE  OneCleaner'
  BY <1>3 DEF EnqLink, MoveIf, Move, Goto, Set, garbage, clock, OneCleaner, TypePlace
<1>4. ASSUME NEW t \in Thread, EnqSwing(t)
      PROVE  OneCleaner'
  BY <1>4 DEF EnqSwing, Move, Goto, Set, garbage, count, clock, OneCleaner, TypePlace
<1>5. ASSUME NEW t \in Thread, SizeAdd(t)
      PROVE  OneCleaner'
  BY <1>5 DEF SizeAdd, Move, Goto, queue, garbage, locals, count, clock, OneCleaner, TypePlace
<1>6. ASSUME NEW t \in Consumer, DeqCall(t)
      PROVE  OneCleaner'
  BY <1>6 DEF DeqCall, Call, Goto, queue, garbage, locals, count, clock, OneCleaner, TypePlace
<1>7. ASSUME NEW t \in Thread, DeqHead(t)
      PROVE  OneCleaner'
  BY <1>7 DEF DeqHead, Move, Goto, Set, queue, garbage, count, clock, OneCleaner, TypePlace
<1>8. ASSUME NEW t \in Thread, DeqCheck(t)
      PROVE  OneCleaner'
  BY <1>8 DEF DeqCheck, MoveIf, Move, Goto, Set, Again, queue, garbage, locals, count, clock,
     OneCleaner, TypePlace
<1>9. ASSUME NEW t \in Thread, DeqNext(t)
      PROVE  OneCleaner'
  BY <1>9 DEF DeqNext, Move, Goto, Set, queue, garbage, count, clock, OneCleaner, TypePlace
<1>10. ASSUME NEW t \in Thread, DeqEmpty(t)
      PROVE  OneCleaner'
  BY <1>10 DEF DeqEmpty, Move, Goto, Set, Again, queue, garbage, count, clock, OneCleaner,
     TypePlace
<1>11. ASSUME NEW t \in Thread, DeqTail(t)
      PROVE  OneCleaner'
  BY <1>11 DEF DeqTail, MoveIf, Move, Goto, Set, Again, queue, garbage, locals, count, clock,
     OneCleaner, TypePlace
<1>12. ASSUME NEW t \in Thread, DeqSwing(t)
      PROVE  OneCleaner'
  BY <1>12 DEF DeqSwing, MoveIf, Move, Goto, Set, garbage, clock, OneCleaner, TypePlace
<1>13. ASSUME NEW t \in Thread, SizeSub(t)
      PROVE  OneCleaner'
  BY <1>13 DEF SizeSub, Move, Goto, queue, garbage, locals, count, clock, OneCleaner, TypePlace
<1>14. ASSUME NEW t \in Thread, RecycleRead(t)
      PROVE  OneCleaner'
  BY <1>14 DEF RecycleRead, Move, Goto, Set, queue, garbage, count, clock, OneCleaner, TypePlace
<1>15. ASSUME NEW t \in Thread, RecycleLink(t)
      PROVE  OneCleaner'
  BY <1>15 DEF RecycleLink, MoveIf, Move, Goto, queue, locals, count, clock, OneCleaner,
     TypePlace
<1>16. ASSUME NEW t \in Thread, RecycleStamp(t)
      PROVE  OneCleaner'
  BY <1>16 DEF RecycleStamp, Move, Goto, queue, locals, count, clock, OneCleaner, TypePlace
<1>17. ASSUME NEW t \in Thread, RecycleMove(t)
      PROVE  OneCleaner'
  BY <1>17 DEF RecycleMove, Move, Goto, Set, queue, count, clock, OneCleaner, TypePlace
<1>18. ASSUME NEW t \in Thread, CheckEnter(t)
      PROVE  OneCleaner'
  BY <1>18 DEF CheckEnter, MoveIf, Move, Goto, queue, locals, count, clock, OneCleaner, TypePlace
<1>19. ASSUME NEW t \in Thread, CheckTime(t)
      PROVE  OneCleaner'
  BY <1>19 DEF CheckTime, Move, Goto, Set, queue, garbage, count, clock, OneCleaner, TypePlace
<1>20. ASSUME NEW t \in Thread, CheckOne(t)
      PROVE  OneCleaner'
  BY <1>20 DEF CheckOne, Scanned, Move, Goto, Set, queue, count, clock, OneCleaner, TypePlace
<1>21. ASSUME NEW t \in Thread, CheckEnd(t)
      PROVE  OneCleaner'
  BY <1>21 DEF CheckEnd, Move, Goto, queue, garbage, count, clock, OneCleaner, TypePlace
<1>22. ASSUME NEW t \in Thread, CheckLeave(t)
      PROVE  OneCleaner'
  BY <1>22 DEF CheckLeave, Move, Goto, Set, queue, count, clock, OneCleaner, TypePlace
<1>23. ASSUME NEW t \in Thread, StaleUse(t)
      PROVE  OneCleaner'
  BY <1>23 DEF StaleUse, queue, garbage, locals, count, OneCleaner, TypePlace
<1>24. CASE Destroy
  BY <1>24 DEF Destroy, queue, locals, count, clock, OneCleaner, TypePlace
<1>25. CASE Tick
  BY <1>25 DEF Tick, queue, garbage, locals, count, OneCleaner, TypePlace
<1>26. CASE UNCHANGED vars
  BY <1>26 DEF vars, queue, garbage, locals, count, clock, OneCleaner, TypePlace
<1>27. QED
  BY <1>1, <1>2, <1>3, <1>4, <1>5, <1>6, <1>7, <1>8, <1>9, <1>10, <1>11, <1>12, <1>13, <1>14,
     <1>15, <1>16, <1>17, <1>18, <1>19, <1>20, <1>21, <1>22, <1>23, <1>24, <1>25, <1>26 DEF Next,
     Run, Enqueue, Dequeue, RecycleFree, CheckFree, Thread
-----------------------------------------------------------------------------
(***************************************************************************)
(* The free list.  What f leads to from n is the least set that holds n    *)
(* and is closed under f.                                                  *)
(***************************************************************************)

Closed(f, S) == \A k \in S : f[k] \in S \cup {NULL}
Reach(f, n) ==
    {m \in Node : \A S \in SUBSET Node : n \in S \cup {NULL} /\ Closed(f, S) => m \in S}

\* The chain of a node is what it leads to.
LEMMA ChainIsReach == \A n : Chain(n) = Reach(nextfree, n)
  BY DEF Chain, Reach, Closed

\* NULL is not a node.
LEMMA NullIsNoNode == NULL \notin Node
  BY BoundAssumption DEF NULL, Node

\* What a node leads to is within every closed set that holds it.
LEMMA ReachLeast ==
    ASSUME NEW f, NEW n, NEW S \in SUBSET Node, n \in S \cup {NULL}, Closed(f, S)
    PROVE  Reach(f, n) \subseteq S
  BY DEF Reach

\* A node leads to itself.
LEMMA ReachHolds ==
    ASSUME NEW f, NEW n \in Node
    PROVE  n \in Reach(f, n)
  BY NullIsNoNode DEF Reach

\* NULL leads nowhere.
LEMMA ReachNull == \A f : Reach(f, NULL) = {}
<1> TAKE f
<1>1. Closed(f, {})
  BY DEF Closed
<1>2. QED
  BY <1>1, ReachLeast

\* What a node leads to is closed.
LEMMA ReachClosed ==
    ASSUME NEW f \in [Node -> Link], NEW n
    PROVE  Closed(f, Reach(f, n))
<1> SUFFICES ASSUME NEW k \in Reach(f, n), f[k] # NULL PROVE f[k] \in Reach(f, n)
  BY DEF Closed
<1>1. f[k] \in Node
  BY DEF Reach, Link
<1>2. ASSUME NEW S \in SUBSET Node, n \in S \cup {NULL}, Closed(f, S)
      PROVE  f[k] \in S
  <2>1. k \in S
    BY <1>2 DEF Reach
  <2>2. QED
    BY <1>2, <2>1 DEF Closed
<1>3. QED
  BY <1>1, <1>2 DEF Reach

\* A list is its first node and the rest.
LEMMA ReachStep ==
    ASSUME NEW f \in [Node -> Link], NEW n \in Node
    PROVE  Reach(f, n) = {n} \cup Reach(f, f[n])
<1> DEFINE R == Reach(f, n)
           Q == Reach(f, f[n])
<1>1. R \in SUBSET Node /\ Q \in SUBSET Node /\ f[n] \in Link
  BY DEF Reach
<1>2. n \in R /\ Closed(f, R) /\ Closed(f, Q)
  BY ReachHolds, ReachClosed
<1>3. f[n] \in Q \cup {NULL}
  BY <1>1, ReachHolds DEF Link
<1>4. R \subseteq {n} \cup Q
  <2>1. Closed(f, {n} \cup Q)
    BY <1>2, <1>3 DEF Closed
  <2> HIDE DEF R, Q
  <2>2. {n} \cup Q \in SUBSET Node /\ n \in ({n} \cup Q) \cup {NULL}
    BY <1>1
  <2>3. QED
    BY <2>1, <2>2, ReachLeast DEF R
<1>5. Q \subseteq R
  <2>1. f[n] \in R \cup {NULL}
    BY <1>2 DEF Closed
  <2> HIDE DEF R
  <2>2. QED
    BY <1>1, <1>2, <2>1, ReachLeast
<1>6. QED
  BY <1>2, <1>4, <1>5

\* A node m put behind the last node l is reached from where l is.
LEMMA ReachAppend ==
    ASSUME NEW f \in [Node -> Link], NEW g \in [Node -> Link], NEW l \in Node, NEW m \in Node,
           l # m, f[l] = NULL, f[m] = NULL,
           g[l] = m, \A k \in Node : k # l => g[k] = f[k],
           NEW n \in Link
    PROVE  Reach(g, n) = IF l \in Reach(f, n) THEN Reach(f, n) \cup {m} ELSE Reach(f, n)
<1> DEFINE R == Reach(f, n)
           Q == Reach(g, n)
<1>1. g[m] = NULL
  OBVIOUS
<1>2. R \in SUBSET Node /\ Q \in SUBSET Node
  BY DEF Reach
<1>3. n \in R \cup {NULL} /\ n \in Q \cup {NULL}
  BY ReachHolds DEF Link
<1>4. Closed(f, R) /\ Closed(g, Q)
  BY <1>1, ReachClosed
<1> HIDE DEF R, Q
<1>5. R \subseteq Q
  <2>1. Closed(f, Q)
    BY <1>1, <1>2, <1>4 DEF Closed
  <2>2. QED
    BY <1>2, <1>3, <2>1, ReachLeast DEF R
<1>6. ASSUME l \notin R
      PROVE  Q \subseteq R
  <2>1. Closed(g, R)
    BY <1>1, <1>2, <1>4, <1>6 DEF Closed
  <2>2. QED
    BY <1>2, <1>3, <2>1, ReachLeast DEF Q
<1>7. ASSUME l \in R
      PROVE  Q = R \cup {m}
  <2>1. Closed(g, R \cup {m})
    BY <1>1, <1>2, <1>4 DEF Closed
  <2>2. Q \subseteq R \cup {m}
    <3>1. R \cup {m} \in SUBSET Node /\ n \in (R \cup {m}) \cup {NULL}
      BY <1>2, <1>3
    <3>2. QED
      BY <2>1, <3>1, ReachLeast DEF Q
  <2>3. m \in Q
    BY <1>1, <1>4, <1>5, <1>7, NullIsNoNode DEF Closed
  <2>4. QED
    BY <1>5, <2>2, <2>3
<1>8. QED
  BY <1>5, <1>6, <1>7 DEF R, Q

\* Where the list begins depends on the scan only.
LEMMA RootStays ==
    ASSUME root_free' = root_free, Scanners' = Scanners, \A u \in Scanners : mine'[u] = mine[u]
    PROVE  Root' = Root
<1>1. CASE Scanners = {}
  BY <1>1 DEF Root
<1>2. CASE Scanners # {}
  <2> DEFINE c == CHOOSE u \in Scanners : TRUE
  <2>1. c \in Scanners
    BY <1>2
  <2>2. Root = mine[c]
    BY <1>2 DEF Root
  <2>3. Root' = mine'[c]
    BY <1>2 DEF Root
  <2>4. QED
    BY <2>1, <2>2, <2>3
<1>3. QED
  BY <1>1, <1>2

\* A thread whose step the free list does not notice.
FreePlace == {"r_read", "r_link", "r_stamp", "r_move", "c_scan", "c_leave"}
Unnoticed(t) ==
    \/ pc[t] \notin FreePlace /\ pc'[t] \notin FreePlace
    \/ /\ mine'[t] = mine[t] /\ other'[t] = other[t]
       /\ \/ pc'[t] = pc[t]
          \/ pc[t] = "c_scan" /\ pc'[t] = "c_leave"
          \/ pc[t] = "r_stamp" /\ pc'[t] = "r_move"
          \/ pc[t] = "r_link" /\ pc'[t] = "r_read"

\* A step that is none of the free list's keeps it as it is.
LEMMA FreeListStays ==
    ASSUME TypePlace, TypeLocals, TypeList,
           UNCHANGED <<root_free, move_free, nextfree, freed, head>>,
           \A t \in Thread : Unnoticed(t)
    PROVE  /\ Waiting' = Waiting /\ InHand' = InHand
           /\ Placed => Placed'
           /\ ListShape => ListShape'
           /\ ListEnd => ListEnd'
<1>1. Scanners' = Scanners /\ \A u \in Scanners : mine'[u] = mine[u]
  BY DEF Scanners, Unnoticed, FreePlace
<1>2. Root' = Root
  BY <1>1, RootStays
<1>3. \A n : Chain(n)' = Chain(n)
  BY DEF Chain
<1>4. Waiting' = Waiting
  BY <1>2, <1>3 DEF Waiting, Root
<1>5. InHand' = InHand
  BY DEF InHand, Unnoticed, FreePlace
<1>6. Placed => Placed'
  BY <1>2, <1>4, <1>5 DEF Placed, Unnoticed, FreePlace
<1>7. ListShape => ListShape'
  BY <1>3, <1>4 DEF ListShape
<1>8. ListEnd => ListEnd'
  <2>1. Linker' = Linker /\ \A t \in Linker : mine'[t] = mine[t] /\ other'[t] = other[t]
    BY DEF Linker, Unnoticed, FreePlace
  <2>2. \A t \in Thread : pc'[t] = "r_link" => pc[t] = "r_link" /\ other'[t] = other[t]
    BY DEF Unnoticed, FreePlace
  <2>3. QED
    BY <1>4, <2>1, <2>2 DEF ListEnd
<1>9. QED
  BY <1>4, <1>5, <1>6, <1>7, <1>8

\* The node that leaves the queue is in the hands of the thread that took it.
LEMMA DeqSwingKeeps ==
    ASSUME IInv, NEW t \in Thread, DeqSwing(t)
    PROVE  Placed' /\ ListShape' /\ ListEnd' /\ Waiting' = Waiting
<1> USE DEF IInv
<1>1. Placed /\ ListShape /\ ListEnd /\ pc[t] = "d_swing"
  BY Here DEF DeqSwing, MoveIf, Move, Goto
<1>2. UNCHANGED <<root_free, move_free, nextfree, freed>>
  BY DEF DeqSwing, garbage
<1>3. CASE head # mine[t]
  <2>1. UNCHANGED head
    BY <1>3 DEF DeqSwing
  <2>2. \A u \in Thread : Unnoticed(u)
    BY <1>3 DEF DeqSwing, MoveIf, Move, Goto, Set, TypePlace, TypeLocals, Unnoticed, FreePlace
  <2>3. QED
    BY <1>1, <1>2, <2>1, <2>2, FreeListStays
<1>4. CASE head = mine[t]
  <2>1. /\ \A u \in Thread : pc'[u] = IF u = t THEN "r_read" ELSE pc[u]
        /\ mine' = mine
        /\ \A u \in Thread : u # t => other'[u] = other[u]
    BY <1>4 DEF DeqSwing, MoveIf, Move, Goto, Set, TypePlace, TypeLocals
  <2>2. head' = head + 1 /\ head < sent
    BY <1>1, <1>4 DEF DeqSwing, Read, TypeQueue
  <2>3. Scanners' = Scanners /\ Linker' = Linker
    BY <1>1, <2>1 DEF Scanners, Linker
  <2>4. Root' = Root
    BY <1>2, <2>1, <2>3, RootStays
  <2>5. Waiting' = Waiting /\ \A n : Chain(n)' = Chain(n)
    BY <1>2, <2>4 DEF Waiting, Root, Chain
  <2>6. InHand' = InHand \cup {head}
    BY <1>1, <1>4, <2>1 DEF InHand
  <2>7. head \notin freed \cup Waiting \cup InHand
    BY <1>1, <2>2, BoundAssumption DEF Placed, TypeQueue, FreeBase
  <2>8. 0 .. head' - 1 \cup {FreeBase} = (0 .. head - 1 \cup {FreeBase}) \cup {head}
    BY <2>2 DEF TypeQueue
  <2>9. Placed'
    <3>1. \A u \in Thread : pc[u] \in {"r_read", "r_link"} => mine[u] # head
      BY <2>7 DEF InHand
    <3>2. \A u, v \in Thread :
             pc'[u] \in {"r_read", "r_link"} /\ pc'[v] \in {"r_read", "r_link"} /\ mine'[u] = mine'[v]
             => u = v
      BY <1>1, <1>4, <2>1, <3>1 DEF Placed
    <3>3. QED
      BY <1>1, <1>2, <2>4, <2>5, <2>6, <2>7, <2>8, <3>2 DEF Placed
  <2>10. ListShape'
    BY <1>1, <1>2, <2>5 DEF ListShape
  <2>11. ListEnd'
    BY <1>1, <1>2, <2>1, <2>3, <2>5 DEF ListEnd, Linker
  <2>12. QED
    BY <2>5, <2>9, <2>10, <2>11
<1>5. QED
  BY <1>3, <1>4

\* What it reads as move_free is not the node that another is putting there.
LEMMA RecycleReadKeeps ==
    ASSUME IInv, NEW t \in Thread, RecycleRead(t)
    PROVE  Placed' /\ ListShape' /\ ListEnd' /\ Waiting' = Waiting
<1> USE DEF IInv
<1>1. Placed /\ ListShape /\ ListEnd /\ pc[t] = "r_read"
  BY Here DEF RecycleRead, Move, Goto
<1>2. UNCHANGED <<root_free, move_free, nextfree, freed, head>>
  BY DEF RecycleRead, garbage, queue
<1>3. /\ \A u \in Thread : pc'[u] = IF u = t THEN "r_link" ELSE pc[u]
      /\ mine' = mine
      /\ \A u \in Thread : other'[u] = IF u = t THEN move_free ELSE other[u]
  BY DEF RecycleRead, Move, Goto, Set, TypePlace, TypeLocals
<1>4. Scanners' = Scanners /\ Linker' = Linker /\ InHand' = InHand
  BY <1>1, <1>3 DEF Scanners, Linker, InHand
<1>5. Root' = Root
  BY <1>2, <1>3, <1>4, RootStays
<1>6. Waiting' = Waiting /\ \A n : Chain(n)' = Chain(n)
  BY <1>2, <1>5 DEF Waiting, Root, Chain
<1>7. Placed'
  BY <1>1, <1>2, <1>3, <1>4, <1>5, <1>6 DEF Placed
<1>8. ListShape'
  BY <1>1, <1>2, <1>6 DEF ListShape
<1>9. \A u \in Linker : move_free # mine[u]
  <2> SUFFICES ASSUME NEW u \in Linker, move_free = mine[u] PROVE FALSE
    OBVIOUS
  <2>1. nextfree[move_free] = move_free /\ move_free \in Waiting
    BY <1>1 DEF ListEnd, Placed
  <2>2. move_free \in Chain(move_free)
    BY ChainIsReach, ReachHolds DEF TypeList
  <2>3. QED
    BY <1>1, <2>1, <2>2 DEF ListShape
<1>10. ListEnd'
  <2>1. move_free \in Waiting
    BY <1>1 DEF Placed
  <2>2. QED
    BY <1>1, <1>2, <1>3, <1>4, <1>6, <1>9, <2>1 DEF ListEnd, Linker
<1>11. QED
  BY <1>6, <1>7, <1>8, <1>10

\* The node is put behind the end of the list, where move_free still points.
LEMMA RecycleLinkKeeps ==
    ASSUME IInv, NEW t \in Thread, RecycleLink(t)
    PROVE  Placed' /\ ListShape' /\ ListEnd' /\ Waiting' \ Unstamped' \subseteq Waiting \ Unstamped
<1> USE DEF IInv
<1>1. Placed /\ ListShape /\ ListEnd /\ pc[t] = "r_link"
  BY Here DEF RecycleLink, MoveIf, Move, Goto
<1>2. UNCHANGED <<root_free, move_free, freed, head, mine, other>>
  BY DEF RecycleLink, queue, locals
<1>3. CASE nextfree[other[t]] # NULL
  <2>1. UNCHANGED nextfree
    BY <1>3 DEF RecycleLink, TypeList
  <2>2. \A u \in Thread : Unnoticed(u)
    BY <1>2, <1>3 DEF RecycleLink, MoveIf, Move, Goto, TypePlace, Unnoticed, FreePlace
  <2>3. Unstamped' = Unstamped
    BY <1>1, <1>2, <1>3 DEF RecycleLink, MoveIf, Move, Goto, TypePlace, Unstamped
  <2>4. QED
    BY <1>1, <1>2, <2>1, <2>2, <2>3, FreeListStays
<1>4. CASE nextfree[other[t]] = NULL
  <2> SUFFICES ASSUME NEW l, NEW m, l = other[t], m = mine[t]
               PROVE  Placed' /\ ListShape' /\ ListEnd' /\ Waiting' \ Unstamped' \subseteq Waiting \ Unstamped
    OBVIOUS
  <2>1. l \in Waiting /\ l \in Node /\ l \notin freed
    BY <1>1, ChainType DEF RecycleLink, ListEnd, Waiting, Chain
  <2>2. m \in InHand /\ m \notin Waiting /\ m \notin freed
    BY <1>1 DEF InHand, Placed
  <2>3. m \in Node /\ nextfree[m] = NULL /\ l # m
    <3>1. m \in 0 .. head - 1 \cup {FreeBase}
      BY <1>1, <2>2 DEF Placed
    <3>2. m \in Node
      BY <3>1, BoundAssumption DEF TypeQueue, Node, FreeBase
    <3>3. QED
      BY <1>1, <2>1, <2>2, <3>2 DEF ListShape
  <2>4. nextfree' = [nextfree EXCEPT ![l] = m]
    BY <1>4 DEF RecycleLink, TypeList
  <2>5. \A u \in Thread : pc'[u] = IF u = t THEN "r_stamp" ELSE pc[u]
    BY <1>4 DEF RecycleLink, MoveIf, Move, Goto, TypePlace
  <2>6. nextfree[move_free] = NULL /\ move_free = l /\ Linker = {}
    <3>1. move_free \in Waiting
      BY <1>1 DEF Placed
    <3>2. ASSUME NEW u \in Linker
          PROVE  FALSE
      <4>1. mine[u] \in Waiting /\ nextfree[mine[u]] = NULL /\ l # mine[u]
        BY <1>1 DEF ListEnd
      <4>2. QED
        BY <1>1, <1>4, <2>1, <4>1 DEF ListShape
    <3>3. nextfree[move_free] = NULL
      BY <1>1, <3>2 DEF ListEnd
    <3>4. QED
      BY <1>1, <1>4, <2>1, <3>1, <3>2, <3>3 DEF ListShape
  <2>7. Scanners' = Scanners /\ Linker' = {t} /\ InHand' = InHand \ {m}
    <3>1. \A u \in Thread : pc[u] \in {"r_read", "r_link"} /\ mine[u] = m => u = t
      BY <1>1 DEF Placed
    <3>2. InHand' = InHand \ {m}
      BY <1>1, <1>2, <2>5, <3>1 DEF InHand
    <3>3. QED
      BY <1>1, <2>5, <2>6, <3>2 DEF Scanners, Linker
  <2>8. Root' = Root
    BY <1>2, <2>7, RootStays
  <2>9. \A n \in Link :
          Reach(nextfree', n) = IF l \in Reach(nextfree, n) THEN Reach(nextfree, n) \cup {m}
                                                            ELSE Reach(nextfree, n)
    <3>1. nextfree \in [Node -> Link] /\ nextfree' \in [Node -> Link] /\ nextfree[l] = NULL
      BY <1>4, <2>3, <2>4 DEF TypeList, Link
    <3>2. nextfree'[l] = m /\ \A k \in Node : k # l => nextfree'[k] = nextfree[k]
      BY <2>1, <2>4, <3>1
    <3>3. QED
      BY <2>1, <2>3, <3>1, <3>2, ReachAppend
  <2>10. Waiting' = Waiting \cup {m}
    <3>1. Waiting = Reach(nextfree, Root)
      BY ChainIsReach DEF Waiting, Root
    <3>2. Waiting' = Reach(nextfree', Root')
      BY DEF Waiting, Root, Chain, Reach, Closed
    <3>3. Root \in Link
      BY <1>1 DEF Placed, Link
    <3>4. QED
      BY <2>1, <2>8, <2>9, <3>1, <3>2, <3>3
  <2>11. Placed'
    BY <1>1, <1>2, <2>2, <2>5, <2>7, <2>8, <2>10 DEF Placed
  <2>12. ListShape'
    <3>1. nextfree'[l] = m /\ nextfree'[m] = NULL /\ nextfree[l] = NULL
          /\ \A n \in Node : n # l => nextfree'[n] = nextfree[n]
      BY <1>4, <2>1, <2>3, <2>4 DEF TypeList
    <3>2. Reach(nextfree', NULL) = {} /\ Reach(nextfree', m) = {m}
      <4>1. Reach(nextfree, NULL) = {} /\ Reach(nextfree, m) = {m}
        BY <2>3, ReachNull, ReachStep DEF TypeList
      <4>2. QED
        BY <2>3, <2>9, <4>1 DEF Link
    <3>4. ASSUME NEW n \in Waiting'
          PROVE  n \notin Reach(nextfree', nextfree'[n])
      <4>1. CASE n = m
        BY <3>1, <3>2, <4>1
      <4>2. CASE n = l
        BY <2>3, <3>1, <3>2, <4>2
      <4>3. CASE n # m /\ n # l
        <5>1. n \in Waiting /\ n \in Node
          BY <2>10, <4>3 DEF Waiting, Chain
        <5>2. nextfree'[n] = nextfree[n] /\ nextfree[n] \in Link
          BY <3>1, <4>3, <5>1 DEF TypeList
        <5>3. n \notin Reach(nextfree, nextfree[n])
          BY <1>1, <5>1, ChainIsReach DEF ListShape
        <5>4. QED
          BY <2>9, <4>3, <5>2, <5>3
      <4>4. QED
        BY <4>1, <4>2, <4>3
    <3>5. \A a, b \in Waiting' : nextfree'[a] = NULL /\ nextfree'[b] = NULL => a = b
      <4>1. \A a \in Waiting' : nextfree'[a] = NULL => a = m
        BY <1>1, <2>1, <2>3, <2>10, <3>1, ChainType, NullIsNoNode DEF ListShape, Waiting, Chain
      <4>2. QED
        BY <4>1
    <3>6. \A n \in Node \ (Waiting' \cup freed') : nextfree'[n] = NULL
      BY <1>1, <1>2, <2>1, <2>10, <3>1 DEF ListShape
    <3>7. QED
      BY <3>4, <3>5, <3>6 DEF ListShape, Chain, Reach, Closed
  <2>13. ListEnd'
    BY <1>1, <1>2, <2>1, <2>2, <2>3, <2>4, <2>5, <2>6, <2>7, <2>10 DEF ListEnd, Linker, TypeList
  <2>14. Unstamped' = Unstamped \cup {m}
    BY <1>1, <1>2, <2>5 DEF Unstamped
  <2>15. QED
    BY <2>10, <2>11, <2>12, <2>13, <2>14
<1>5. QED
  BY <1>3, <1>4

\* move_free follows to the new end of the list.
LEMMA RecycleMoveKeeps ==
    ASSUME IInv, NEW t \in Thread, RecycleMove(t)
    PROVE  Placed' /\ ListShape' /\ ListEnd' /\ Waiting' = Waiting
<1> USE DEF IInv
<1>1. Placed /\ ListShape /\ ListEnd /\ pc[t] = "r_move" /\ t \in Linker
  BY Here DEF RecycleMove, Move, Goto, Linker
<1>2. UNCHANGED <<root_free, nextfree, freed, head>>
  BY DEF RecycleMove, queue
<1>3. /\ \A u \in Thread : pc'[u] = IF u = t THEN "c_enter" ELSE pc[u]
      /\ \A u \in Thread : u # t => mine'[u] = mine[u] /\ other'[u] = other[u]
  BY DEF RecycleMove, Move, Goto, Set, TypePlace, TypeLocals
<1>4. Scanners' = Scanners /\ InHand' = InHand /\ \A u \in Scanners : mine'[u] = mine[u]
  BY <1>1, <1>3 DEF Scanners, InHand
<1>5. Linker' = {}
  BY <1>1, <1>3 DEF Linker, ListEnd
<1>6. Root' = Root
  BY <1>2, <1>4, RootStays
<1>7. Waiting' = Waiting /\ \A n : Chain(n)' = Chain(n)
  BY <1>2, <1>6 DEF Waiting, Root, Chain
<1>8. move_free' = mine[t] /\ mine[t] \in Waiting /\ nextfree[mine[t]] = NULL
  BY <1>1 DEF RecycleMove, ListEnd
<1>9. Placed'
  BY <1>1, <1>2, <1>3, <1>4, <1>6, <1>7, <1>8 DEF Placed
<1>10. ListShape'
  BY <1>1, <1>2, <1>7 DEF ListShape
<1>11. ListEnd'
  BY <1>1, <1>2, <1>3, <1>5, <1>7, <1>8 DEF ListEnd
<1>12. QED
  BY <1>7, <1>9, <1>10, <1>11

\* The scan begins where the list does.
LEMMA CheckTimeKeeps ==
    ASSUME IInv, NEW t \in Thread, CheckTime(t)
    PROVE  Placed' /\ ListShape' /\ ListEnd' /\ Waiting' = Waiting
<1> USE DEF IInv
<1>1. Placed /\ ListShape /\ ListEnd /\ pc[t] = "c_time" /\ Scanners = {}
  BY Here DEF CheckTime, Move, Goto, Scanners, OneCleaner
<1>2. UNCHANGED <<root_free, move_free, nextfree, freed, head>>
  BY DEF CheckTime, queue, garbage
<1>3. /\ \A u \in Thread : pc'[u] = IF u = t THEN "c_scan" ELSE pc[u]
      /\ \A u \in Thread : u # t => mine'[u] = mine[u] /\ other'[u] = other[u]
      /\ mine'[t] = root_free
  BY DEF CheckTime, Move, Goto, Set, TypePlace, TypeLocals
<1>4. Scanners' = {t} /\ InHand' = InHand /\ Linker' = Linker
  BY <1>1, <1>3 DEF Scanners, InHand, Linker
<1>5. Root' = Root
  <2>1. Root = root_free
    BY <1>1 DEF Root
  <2>2. Root' = mine'[t]
    BY <1>4 DEF Root
  <2>3. QED
    BY <1>3, <2>1, <2>2
<1>6. Waiting' = Waiting /\ \A n : Chain(n)' = Chain(n)
  BY <1>2, <1>5 DEF Waiting, Root, Chain
<1>7. Placed'
  BY <1>1, <1>2, <1>3, <1>4, <1>5, <1>6 DEF Placed
<1>8. ListShape'
  BY <1>1, <1>2, <1>6 DEF ListShape
<1>9. ListEnd'
  BY <1>1, <1>2, <1>3, <1>4, <1>6 DEF ListEnd, Linker
<1>10. QED
  BY <1>6, <1>7, <1>8, <1>9

\* The scan frees the first node of the list, which is not its end.
LEMMA CheckOneKeeps ==
    ASSUME IInv, NEW t \in Thread, CheckOne(t)
    PROVE  /\ Placed' /\ ListShape' /\ ListEnd'
           /\ mine[t] \in Waiting \ Unstamped
           /\ Waiting' = Waiting \ {mine[t]} /\ freed' = freed \cup {mine[t]}
<1> USE DEF IInv
<1>1. Placed /\ ListShape /\ ListEnd /\ pc[t] = "c_scan"
  BY Here DEF CheckOne, Move, Goto
<1>2. UNCHANGED <<root_free, move_free, nextfree, head>>
  BY DEF CheckOne, queue
<1>3. /\ pc' = pc
      /\ \A u \in Thread : u # t => mine'[u] = mine[u] /\ other'[u] = other[u]
      /\ mine'[t] = nextfree[mine[t]]
  BY DEF CheckOne, Move, Goto, Set, TypePlace, TypeLocals
<1> SUFFICES ASSUME NEW m, m = mine[t]
             PROVE  /\ Placed' /\ ListShape' /\ ListEnd'
                    /\ m \in Waiting \ Unstamped
                    /\ Waiting' = Waiting \ {m} /\ freed' = freed \cup {m}
  OBVIOUS
<1>4. m \in Node /\ Root = m /\ Scanners = {t} /\ m # move_free
  BY <1>1, RootScanned DEF CheckOne, Scanned
<1>5. freed' = freed \cup {m}
  BY DEF CheckOne
<1>6. Scanners' = {t} /\ InHand' = InHand /\ Linker' = Linker /\ Root' = nextfree[m]
  <2>1. Scanners' = {t} /\ InHand' = InHand /\ Linker' = Linker
    BY <1>1, <1>3, <1>4 DEF Scanners, InHand, Linker
  <2>2. Root' = mine'[t]
    BY <2>1 DEF Root
  <2>3. QED
    BY <1>3, <2>1, <2>2
<1>7. Waiting = {m} \cup Chain(nextfree[m]) /\ Waiting' = Chain(nextfree[m]) /\ m \in Waiting
  <2>1. Waiting = Reach(nextfree, m)
    BY <1>4, ChainIsReach DEF Waiting, Root
  <2>2. Waiting' = Reach(nextfree', Root')
    BY DEF Waiting, Root, Chain, Reach, Closed
  <2>3. QED
    BY <1>2, <1>4, <1>6, <2>1, <2>2, ReachStep, ChainIsReach DEF TypeList
<1>8. Waiting' = Waiting \ {m}
  BY <1>1, <1>7 DEF ListShape
<1>9. move_free \in Waiting'
  BY <1>1, <1>4, <1>8 DEF Placed
<1>10. nextfree[m] \in Node
  <2>1. Chain(NULL) = {}
    BY ChainIsReach, ReachNull
  <2>2. QED
    BY <1>4, <1>7, <1>9, <2>1 DEF TypeList, Link
<1>11. \A u \in Linker : mine[u] # m
  BY <1>1, <1>10, NullIsNoNode DEF ListEnd
<1>12. Placed'
  <2>1. \A u \in Thread : pc[u] \in {"r_read", "r_link"} => mine'[u] = mine[u]
    BY <1>1, <1>3
  <2>2. QED
    BY <1>1, <1>2, <1>3, <1>5, <1>6, <1>7, <1>8, <1>9, <1>10, <2>1 DEF Placed
<1>13. ListShape'
  <2>1. \A n : Chain(n)' = Chain(n)
    BY <1>2 DEF Chain
  <2>2. QED
    BY <1>1, <1>2, <1>5, <1>7, <1>8, <2>1 DEF ListShape
<1>14. ListEnd'
  <2>1. \A u \in Thread : pc[u] \in {"r_stamp", "r_move", "r_link"} =>
            mine'[u] = mine[u] /\ other'[u] = other[u]
    BY <1>1, <1>3
  <2>2. QED
    BY <1>1, <1>2, <1>3, <1>5, <1>6, <1>8, <1>11, <2>1 DEF ListEnd, Linker
<1>15. m \notin Unstamped
  BY <1>11 DEF Unstamped, Linker
<1>16. QED
  BY <1>5, <1>7, <1>8, <1>12, <1>13, <1>14, <1>15

\* The list begins where the scan has stopped.
LEMMA CheckLeaveKeeps ==
    ASSUME IInv, NEW t \in Thread, CheckLeave(t)
    PROVE  Placed' /\ ListShape' /\ ListEnd' /\ Waiting' = Waiting
<1> USE DEF IInv
<1>1. Placed /\ ListShape /\ ListEnd /\ pc[t] = "c_leave"
  BY Here DEF CheckLeave, Move, Goto
<1>2. UNCHANGED <<move_free, nextfree, freed, head>> /\ root_free' = mine[t]
  BY DEF CheckLeave, queue
<1>3. /\ \A u \in Thread : pc'[u] = IF u = t THEN "count" ELSE pc[u]
      /\ \A u \in Thread : u # t => mine'[u] = mine[u] /\ other'[u] = other[u]
  BY DEF CheckLeave, Move, Goto, Set, TypePlace, TypeLocals
<1>4. Scanners' = {} /\ InHand' = InHand /\ Linker' = Linker
  BY <1>1, <1>3, RootScanned DEF Scanners, InHand, Linker
<1>5. Root' = Root
  <2>1. Root = mine[t]
    BY <1>1, RootScanned
  <2>2. Root' = root_free'
    BY <1>4 DEF Root
  <2>3. QED
    BY <1>2, <2>1, <2>2
<1>6. Waiting' = Waiting /\ \A n : Chain(n)' = Chain(n)
  BY <1>2, <1>5 DEF Waiting, Root, Chain
<1>7. Placed'
  BY <1>1, <1>2, <1>3, <1>4, <1>5, <1>6 DEF Placed
<1>8. ListShape'
  BY <1>1, <1>2, <1>6 DEF ListShape
<1>9. ListEnd'
  BY <1>1, <1>2, <1>3, <1>4, <1>6 DEF ListEnd, Linker
<1>10. QED
  BY <1>6, <1>7, <1>8, <1>9

\* Every other step leaves the free list alone.
LEMMA OthersKeep ==
    ASSUME IInv, NEW t \in Thread,
           \/ EnqCall(t) \/ EnqRead(t) \/ EnqLink(t) \/ EnqSwing(t) \/ SizeAdd(t)
           \/ DeqCall(t) \/ DeqHead(t) \/ DeqCheck(t) \/ DeqNext(t) \/ DeqEmpty(t) \/ DeqTail(t)
           \/ SizeSub(t) \/ RecycleStamp(t) \/ CheckEnter(t) \/ CheckEnd(t)
    PROVE  /\ Placed' /\ ListShape' /\ ListEnd' /\ Waiting' = Waiting
           /\ UNCHANGED <<freed, head>>
<1> USE DEF IInv
<1>1. pc[t] # "gone"
  BY DEF EnqCall, EnqRead, EnqLink, EnqSwing, SizeAdd, DeqCall, DeqHead, DeqCheck, DeqNext, DeqEmpty,
         DeqTail, SizeSub, RecycleStamp, CheckEnter, CheckEnd, Call, MoveIf, Move, Goto
<1>2. UNCHANGED <<root_free, move_free, nextfree, freed, head>>
  BY DEF EnqCall, EnqRead, EnqLink, EnqSwing, SizeAdd, DeqCall, DeqHead, DeqCheck, DeqNext, DeqEmpty,
         DeqTail, SizeSub, RecycleStamp, CheckEnter, CheckEnd, queue, garbage
<1>3. \A u \in Thread : Unnoticed(u)
  <2> USE DEF Unnoticed, FreePlace, Call, MoveIf, Move, Goto, Set, Again, locals, TypePlace, TypeLocals
  <2>1. CASE EnqCall(t) \/ EnqRead(t) \/ EnqLink(t) \/ EnqSwing(t) \/ SizeAdd(t)
    BY <2>1 DEF EnqCall, EnqRead, EnqLink, EnqSwing, SizeAdd
  <2>2. CASE DeqCall(t) \/ DeqHead(t) \/ DeqCheck(t) \/ DeqNext(t)
    BY <2>2 DEF DeqCall, DeqHead, DeqCheck, DeqNext
  <2>3. CASE DeqEmpty(t) \/ DeqTail(t) \/ SizeSub(t)
    BY <2>3 DEF DeqEmpty, DeqTail, SizeSub
  <2>4. CASE RecycleStamp(t) \/ CheckEnter(t) \/ CheckEnd(t)
    BY <2>4 DEF RecycleStamp, CheckEnter, CheckEnd
  <2>5. QED
    BY <2>1, <2>2, <2>3, <2>4
<1>4. QED
  BY <1>1, <1>2, <1>3, Here, FreeListStays

\* A turn that goes on is as protected as it was.
LEMMA TurnGoesOn ==
    ASSUME Protected, freed' = freed, Waiting' \ Unstamped' \subseteq Waiting \ Unstamped,
           UNCHANGED deactivate_tm,
           \A u \in Thread : pc'[u] \in InTurn =>
               pc[u] \in InTurn /\ mine'[u] = mine[u] /\ since'[u] = since[u]
    PROVE  Protected'
  BY DEF Protected


TurnKept(u) == pc'[u] \in InTurn => pc[u] \in InTurn /\ mine'[u] = mine[u] /\ since'[u] = since[u]
StampKept(u) == (pc'[u] = "r_stamp" <=> pc[u] = "r_stamp") /\ (pc[u] = "r_stamp" => mine'[u] = mine[u])

\* A step of the queue takes nobody's turn at the free list.
LEMMA TurnsAreKept ==
    ASSUME TypePlace, TypeLocals, TypeTime, NEW t \in Thread,
           Run(t) \/ EnqCall(t) \/ DeqCall(t), ~StaleUse(t), ~EnqRead(t), ~DeqHead(t)
    PROVE  /\ \A u \in Thread : TurnKept(u)
           /\ ~RecycleStamp(t) /\ ~RecycleLink(t) => Unstamped' = Unstamped
           /\ ~RecycleStamp(t) => UNCHANGED deactivate_tm
           /\ ~CheckOne(t) => UNCHANGED freed
<1> USE DEF Call, MoveIf, Move, Goto, Set, Again, locals, garbage, InTurn, TurnKept, StampKept
<1>1. \A u \in Thread \ {t} : TurnKept(u) /\ StampKept(u)
  <2> SUFFICES ASSUME NEW u \in Thread, u # t PROVE TurnKept(u) /\ StampKept(u)
    OBVIOUS
  <2>1. pc'[u] = pc[u]
    BY DEF EnqCall, EnqLink, EnqSwing, SizeAdd, DeqCall, DeqCheck, DeqNext, DeqEmpty, DeqTail, DeqSwing,
           SizeSub, RecycleRead, RecycleLink, RecycleStamp, RecycleMove, CheckEnter, CheckTime, CheckOne,
           CheckEnd, CheckLeave, Run, Enqueue, Dequeue, RecycleFree, CheckFree, TypePlace
  <2>2. mine'[u] = mine[u]
    BY DEF EnqCall, EnqLink, EnqSwing, SizeAdd, DeqCall, DeqCheck, DeqNext, DeqEmpty, DeqTail, DeqSwing,
           SizeSub, RecycleRead, RecycleLink, RecycleStamp, RecycleMove, CheckEnter, CheckTime, CheckOne,
           CheckEnd, CheckLeave, Run, Enqueue, Dequeue, RecycleFree, CheckFree, TypeLocals
  <2>3. since'[u] = since[u]
    BY DEF EnqCall, EnqLink, EnqSwing, SizeAdd, DeqCall, DeqCheck, DeqNext, DeqEmpty, DeqTail, DeqSwing,
           SizeSub, RecycleRead, RecycleLink, RecycleStamp, RecycleMove, CheckEnter, CheckTime, CheckOne,
           CheckEnd, CheckLeave, Run, Enqueue, Dequeue, RecycleFree, CheckFree, TypeTime
  <2>4. QED
    BY <2>1, <2>2, <2>3
<1>2. TurnKept(t) /\ (~RecycleStamp(t) /\ ~RecycleLink(t) => StampKept(t))
  <2> USE DEF TypePlace, TypeLocals, TypeTime
  <2>1. CASE EnqCall(t) \/ EnqLink(t) \/ EnqSwing(t) \/ SizeAdd(t)
    BY <2>1 DEF EnqCall, EnqLink, EnqSwing, SizeAdd
  <2>2. CASE DeqCall(t) \/ DeqCheck(t) \/ DeqNext(t)
    BY <2>2 DEF DeqCall, DeqCheck, DeqNext
  <2>3. CASE DeqEmpty(t) \/ DeqTail(t) \/ DeqSwing(t) \/ SizeSub(t)
    BY <2>3 DEF DeqEmpty, DeqTail, DeqSwing, SizeSub
  <2>4. CASE RecycleRead(t) \/ RecycleMove(t)
    BY <2>4 DEF RecycleRead, RecycleMove
  <2>5. CASE RecycleLink(t) \/ RecycleStamp(t)
    BY <2>5 DEF RecycleLink, RecycleStamp
  <2>6. CASE CheckEnter(t) \/ CheckTime(t)
    BY <2>6 DEF CheckEnter, CheckTime
  <2>7. CASE CheckOne(t) \/ CheckEnd(t) \/ CheckLeave(t)
    BY <2>7 DEF CheckOne, CheckEnd, CheckLeave
  <2>8. QED
    BY <2>1, <2>2, <2>3, <2>4, <2>5, <2>6, <2>7 DEF Run, Enqueue, Dequeue, RecycleFree, CheckFree
<1>3. ~RecycleStamp(t) /\ ~RecycleLink(t) => Unstamped' = Unstamped
  <2> SUFFICES ASSUME \A u \in Thread : StampKept(u) PROVE Unstamped' = Unstamped
    BY <1>1, <1>2
  <2>1. QED
    BY DEF Unstamped
<1>4. ~RecycleStamp(t) => UNCHANGED deactivate_tm
  BY DEF EnqCall, EnqLink, EnqSwing, SizeAdd, DeqCall, DeqCheck, DeqNext, DeqEmpty, DeqTail, DeqSwing,
         SizeSub, RecycleRead, RecycleLink, RecycleMove, CheckEnter, CheckTime, CheckOne,
         CheckEnd, CheckLeave, Run, Enqueue, Dequeue, RecycleFree, CheckFree
<1>5. ~CheckOne(t) => UNCHANGED freed
  BY DEF EnqCall, EnqLink, EnqSwing, SizeAdd, DeqCall, DeqCheck, DeqNext, DeqEmpty, DeqTail, DeqSwing,
         SizeSub, RecycleRead, RecycleLink, RecycleStamp, RecycleMove, CheckEnter, CheckTime,
         CheckEnd, CheckLeave, Run, Enqueue, Dequeue, RecycleFree, CheckFree
<1>6. QED
  BY <1>1, <1>2, <1>3, <1>4, <1>5

\* What a thread may reach in its turn is safe until the turn is over.
LEMMA ProtectedKeeps ==
    ASSUME IInv, NEW t \in Thread, Run(t) \/ EnqCall(t) \/ DeqCall(t), ~StaleUse(t)
    PROVE  Protected'
<1> USE DEF IInv
<1>1. pc[t] # "gone"
  BY DEF EnqCall, EnqRead, EnqLink, EnqSwing, SizeAdd, DeqCall, DeqHead, DeqCheck, DeqNext, DeqEmpty,
         DeqTail, DeqSwing, SizeSub, RecycleRead, RecycleLink, RecycleStamp, RecycleMove, CheckEnter,
         CheckTime, CheckOne, CheckEnd, CheckLeave, Call, MoveIf, Move, Goto,
         Run, Enqueue, Dequeue, RecycleFree, CheckFree
<1>2. Protected /\ Placed
  BY <1>1, Here
<1>3. CASE EnqRead(t) \/ DeqHead(t)
  <2>1. /\ Waiting' = Waiting /\ UNCHANGED <<freed, deactivate_tm>>
    BY <1>3, OthersKeep DEF EnqRead, DeqHead, garbage
  <2>2. Unstamped' = Unstamped
    <3>1. \A u \in Thread : StampKept(u)
      BY <1>3 DEF EnqRead, DeqHead, Move, Goto, Set, StampKept, TypePlace, TypeLocals
    <3>2. QED
      BY <3>1 DEF Unstamped, StampKept
  <2>3. \A u \in Thread : u # t => TurnKept(u)
    BY <1>3 DEF EnqRead, DeqHead, Move, Goto, Set, TurnKept, TypePlace, TypeLocals, TypeTime
  <2>4. mine'[t] >= head
    BY <1>3 DEF EnqRead, DeqHead, Set, TypeLocals, TypeQueue, Linked
  <2>5. \A n \in Node \ {FreeBase} : n >= head => n \notin freed /\ n \notin Waiting
    BY <1>2, BoundAssumption DEF Placed, TypeQueue, Node
  <2>6. mine'[t] \in Int /\ head \in Int
    BY <1>3 DEF EnqRead, DeqHead, Set, TypeLocals, TypeQueue
  <2>7. \A n \in Node \ {FreeBase} : n >= mine'[t] => n \notin freed' /\ n \notin Waiting'
    BY <2>1, <2>4, <2>5, <2>6, BoundAssumption DEF Node
  <2>8. QED
    BY <1>2, <2>1, <2>2, <2>3, <2>7 DEF Protected, TurnKept
<1>4. CASE RecycleStamp(t)
  <2>1. /\ Waiting' = Waiting /\ UNCHANGED freed /\ \A u \in Thread : TurnKept(u)
    BY <1>4, OthersKeep, TurnsAreKept DEF RecycleStamp, EnqRead, DeqHead, Move, Goto
  <2>2. /\ Unstamped \subseteq Unstamped' \cup {mine[t]}
        /\ deactivate_tm' = [deactivate_tm EXCEPT ![mine[t]] = now]
    BY <1>4 DEF RecycleStamp, Move, Goto, Unstamped, TypePlace, locals
  <2>3. \A n \in Waiting' \ Unstamped' :
            n \in Node /\ (n = mine[t] \/ (n \in Waiting \ Unstamped /\ deactivate_tm'[n] = deactivate_tm[n]))
    BY <2>1, <2>2 DEF TypeTime, Waiting, Chain
  <2>4. mine[t] \in Node => deactivate_tm'[mine[t]] = now
    BY <2>2 DEF TypeTime
  <2>5. \A u \in Thread : now >= since[u]
    BY BoundAssumption DEF Timely, TypeTime, Start
  <2>6. QED
    BY <1>2, <2>1, <2>3, <2>4, <2>5 DEF Protected, TurnKept
<1>5. CASE CheckOne(t)
  <2>1. /\ mine[t] \in Waiting \ Unstamped
        /\ Waiting' = Waiting \ {mine[t]} /\ freed' = freed \cup {mine[t]}
    BY <1>5, CheckOneKeeps
  <2>2. /\ Unstamped' = Unstamped /\ UNCHANGED deactivate_tm /\ \A u \in Thread : TurnKept(u)
    BY <1>5, TurnsAreKept DEF CheckOne, RecycleStamp, RecycleLink, EnqRead, DeqHead, MoveIf, Move, Goto
  <2>3. ASSUME NEW u \in Thread, pc[u] \in InTurn, mine[t] # FreeBase, mine[t] >= mine[u]
        PROVE  FALSE
    <3>1. mine[t] \in Node /\ deactivate_tm[mine[t]] >= since[u]
      BY <1>2, <2>1, <2>3 DEF Protected, Waiting, Chain
    <3>2. now - since[u] <= Delay /\ since[t] <= now
      BY <2>3 DEF Timely
    <3>3. since[t] - deactivate_tm[mine[t]] > Grace
      BY <1>5 DEF CheckOne, Scanned
    <3>4. /\ now \in Int /\ since[u] \in Int /\ since[t] \in Int /\ deactivate_tm[mine[t]] \in Int
      BY <3>1, BoundAssumption DEF TypeTime, Start
    <3>5. QED
      BY <3>1, <3>2, <3>3, <3>4, BoundAssumption
  <2>4. QED
    BY <1>2, <2>1, <2>2, <2>3 DEF Protected, TurnKept
<1>6. CASE ~EnqRead(t) /\ ~DeqHead(t) /\ ~RecycleStamp(t) /\ ~CheckOne(t)
  <2>1. /\ UNCHANGED <<freed, deactivate_tm>> /\ \A u \in Thread : TurnKept(u)
        /\ ~RecycleLink(t) => Unstamped' = Unstamped
    BY <1>6, TurnsAreKept
  <2>2. Waiting' \ Unstamped' \subseteq Waiting \ Unstamped
    BY <1>6, <2>1, OthersKeep, DeqSwingKeeps, RecycleReadKeeps, RecycleLinkKeeps, RecycleMoveKeeps,
       CheckTimeKeeps, CheckLeaveKeeps DEF Run, Enqueue, Dequeue, RecycleFree, CheckFree
  <2>3. QED
    BY <1>2, <2>1, <2>2, TurnGoesOn DEF TurnKept
<1>7. QED
  BY <1>3, <1>4, <1>5, <1>6

\* The free list is one chain without a circle.
LEMMA FreeListStep == IInv /\ [Next]_vars => FreeList'
<1> SUFFICES ASSUME IInv, [Next]_vars, ~(\E t \in Thread : pc[t] = "gone")'
             PROVE  Placed' /\ ListShape' /\ ListEnd' /\ Protected'
  BY DEF FreeList
<1> USE DEF IInv
<1>1. ASSUME NEW t \in Thread, Run(t) \/ EnqCall(t) \/ DeqCall(t), ~StaleUse(t)
      PROVE  Placed' /\ ListShape' /\ ListEnd' /\ Protected'
  BY <1>1, ProtectedKeeps, OthersKeep, DeqSwingKeeps, RecycleReadKeeps, RecycleLinkKeeps,
     RecycleMoveKeeps, CheckTimeKeeps, CheckOneKeeps, CheckLeaveKeeps
     DEF Run, Enqueue, Dequeue, RecycleFree, CheckFree
<1>2. CASE Tick \/ UNCHANGED vars \/ \E t \in Thread : StaleUse(t)
  <2>1. UNCHANGED <<queue, garbage, pc, locals>>
    BY <1>2 DEF Tick, vars, StaleUse
  <2>2. Placed /\ ListShape /\ ListEnd /\ Protected
    BY <2>1 DEF FreeList
  <2>3. /\ Waiting' = Waiting /\ Placed' /\ ListShape' /\ ListEnd'
    <3>1. \A u \in Thread : Unnoticed(u)
      BY <2>1 DEF Unnoticed, locals
    <3>2. QED
      BY <2>1, <2>2, <3>1, FreeListStays DEF queue, garbage
  <2>4. Protected'
    <3>1. Unstamped' = Unstamped
      BY <2>1 DEF Unstamped, locals
    <3>2. QED
      BY <2>1, <2>2, <2>3, <3>1 DEF Protected, garbage, locals
  <2>5. QED
    BY <2>3, <2>4
<1>3. CASE Destroy
  BY <1>3, ThreadAssumption DEF Destroy, Thread
<1>4. QED
  BY <1>1, <1>2, <1>3 DEF Next, Thread


\* lfqueue_destroy frees what is in the queue and what waits to be freed.
LEMMA AllFreedStep == IInv /\ [Next]_vars => AllFreed'
<1> SUFFICES ASSUME IInv, [Next]_vars, \E t \in Thread : pc'[t] = "gone"
             PROVE  freed' = 0 .. sent' \cup {FreeBase}
  BY DEF AllFreed
<1> USE DEF IInv
<1>1. ASSUME NEW t \in Thread, Run(t) \/ EnqCall(t) \/ DeqCall(t), ~StaleUse(t)
      PROVE  FALSE
  <2>1. pc'[t] # "gone"
    BY <1>1 DEF EnqCall, EnqRead, EnqLink, EnqSwing, SizeAdd, DeqCall, DeqHead, DeqCheck, DeqNext,
            DeqEmpty, DeqTail, DeqSwing, SizeSub, RecycleRead, RecycleLink, RecycleStamp, RecycleMove,
            CheckEnter, CheckTime, CheckOne, CheckEnd, CheckLeave, Call, MoveIf, Move, Goto,
            Run, Enqueue, Dequeue, RecycleFree, CheckFree, TypePlace
  <2>2. QED
    BY <2>1, GoneStep DEF Gone
<1>2. CASE Tick \/ UNCHANGED vars \/ \E t \in Thread : StaleUse(t)
  BY <1>2 DEF Tick, StaleUse, vars, garbage, count, AllFreed
<1>3. CASE Destroy
  <2>1. Scanners = {} /\ InHand = {} /\ Placed
    BY <1>3 DEF Destroy, Scanners, InHand, FreeList
  <2>2. freed \cup Chain(root_free) = 0 .. head - 1 \cup {FreeBase}
    BY <2>1 DEF Placed, Waiting
  <2>3. freed' = (0 .. head - 1 \cup {FreeBase}) \cup (head .. sent - 1) \cup {sent} /\ sent' = sent
    BY <1>3, <2>2 DEF Destroy, Destroyed, Left, count
  <2>4. QED
    BY <2>3 DEF TypeQueue
<1>4. QED
  BY <1>1, <1>2, <1>3 DEF Next, Thread
-----------------------------------------------------------------------------
(***************************************************************************)
(* The count.                                                              *)
(***************************************************************************)

\* The threads that are about to count are finitely many.
LEMMA CountsFinite ==
    /\ IsFiniteSet(ToAdd) /\ IsFiniteSet(ToSub) /\ IsFiniteSet(ToLink)
    /\ Cardinality(ToAdd) \in Nat /\ Cardinality(ToSub) \in Nat /\ Cardinality(ToLink) \in Nat
<1>1. IsFiniteSet(Thread)
  BY ThreadAssumption, FS_Union DEF Thread
<1>2. IsFiniteSet(ToAdd) /\ IsFiniteSet(ToSub)
  BY <1>1, FS_Subset DEF ToAdd, ToSub
<1>3. IsFiniteSet(ToLink)
  BY ThreadAssumption, FS_Subset DEF ToLink
<1>4. QED
  BY <1>2, <1>3, FS_CardinalityType

\* A thread joins a finite set, or leaves it.
LEMMA Joins ==
    ASSUME NEW S, NEW T, NEW t, IsFiniteSet(S)
    PROVE  /\ T = S \cup {t} /\ t \notin S => Cardinality(T) = Cardinality(S) + 1
           /\ T = S \ {t} /\ t \in S => Cardinality(T) = Cardinality(S) - 1
  BY FS_AddElement, FS_RemoveElement

\* Sets that agree but for one element.
LEMMA AllButOne ==
    ASSUME NEW S, NEW T, NEW t, T \ {t} = S \ {t}
    PROVE  /\ t \in T /\ t \notin S => T = S \cup {t}
           /\ t \notin T /\ t \in S => T = S \ {t}
           /\ (t \in T <=> t \in S) => T = S
<1>1. \A x : x # t => (x \in T <=> x \in S)
  <2> TAKE x
  <2>1. x # t => (x \in T <=> x \in T \ {t}) /\ (x \in S <=> x \in S \ {t})
    OBVIOUS
  <2>2. QED
    BY <2>1
<1>2. t \in T /\ t \notin S => T = S \cup {t}
  BY <1>1
<1>3. t \notin T /\ t \in S => T = S \ {t}
  BY <1>1
<1>4. (t \in T <=> t \in S) => T = S
  BY <1>1
<1>5. QED
  BY <1>2, <1>3, <1>4

CountKept(t) ==
    /\ t \in ToAdd' <=> t \in ToAdd
    /\ t \in ToSub' <=> t \in ToSub
    /\ t \in ToLink' <=> t \in ToLink

\* The other threads count as before.
LEMMA OthersCount ==
    ASSUME IInv, NEW t \in Thread, Run(t) \/ EnqCall(t) \/ DeqCall(t), ~StaleUse(t),
           NEW u \in Thread, u # t
    PROVE  CountKept(u)
<1> USE DEF IInv
<1>1. pc'[u] = pc[u] /\ op'[u] = op[u] /\ ret'[u] = ret[u]
  BY DEF EnqCall, EnqRead, EnqLink, EnqSwing, SizeAdd, DeqCall, DeqHead, DeqCheck, DeqNext, DeqEmpty,
         DeqTail, DeqSwing, SizeSub, RecycleRead, RecycleLink, RecycleStamp, RecycleMove, CheckEnter,
         CheckTime, CheckOne, CheckEnd, CheckLeave, Call, MoveIf, Move, Goto,
         Run, Enqueue, Dequeue, RecycleFree, CheckFree, TypePlace, TypeLocals
<1>2. QED
  BY <1>1 DEF CountKept, ToAdd, ToSub, ToLink

\* So does the thread that moves, where it is neither linked, unlinked nor
\* counted.
LEMMA MoverCounts ==
    ASSUME IInv, NEW t \in Thread,
           \/ EnqRead(t) \/ EnqSwing(t) \/ DeqCall(t) \/ DeqHead(t) \/ DeqCheck(t) \/ DeqNext(t)
           \/ DeqEmpty(t) \/ DeqTail(t) \/ RecycleRead(t) \/ RecycleLink(t) \/ RecycleStamp(t)
           \/ RecycleMove(t) \/ CheckEnter(t) \/ CheckTime(t) \/ CheckOne(t) \/ CheckEnd(t) \/ CheckLeave(t)
    PROVE  CountKept(t) /\ UNCHANGED <<size, count>>
<1> USE DEF IInv, CountKept, ToAdd, ToSub, ToLink, Call, MoveIf, Move, Goto, TypePlace, TypeLocals
<1>1. CASE EnqRead(t) \/ EnqSwing(t) \/ DeqCall(t)
  BY <1>1 DEF EnqRead, EnqSwing, DeqCall, Caller
<1>2. CASE DeqHead(t) \/ DeqCheck(t) \/ DeqNext(t) \/ DeqEmpty(t) \/ DeqTail(t)
  BY <1>2 DEF DeqHead, DeqCheck, DeqNext, DeqEmpty, DeqTail, Caller, Read
<1>3. CASE RecycleRead(t) \/ RecycleLink(t) \/ RecycleStamp(t) \/ RecycleMove(t)
  BY <1>3 DEF RecycleRead, RecycleLink, RecycleStamp, RecycleMove, Caller
<1>4. CASE CheckEnter(t) \/ CheckTime(t) \/ CheckOne(t) \/ CheckEnd(t) \/ CheckLeave(t)
  BY <1>4 DEF CheckEnter, CheckTime, CheckOne, CheckEnd, CheckLeave
<1>5. QED
  BY <1>1, <1>2, <1>3, <1>4

\* The size is that of the queue, but for those about to count.
LEMMA CountedStep == IInv /\ [Next]_vars => Counted' /\ size' \in Int
<1> SUFFICES ASSUME IInv, [Next]_vars PROVE Counted' /\ size' \in Int
  OBVIOUS
<1> USE DEF IInv
<1> DEFINE None == ~(\E t \in Thread : pc[t] = "gone")
<1>1. ASSUME ToAdd' = ToAdd, ToSub' = ToSub, ToLink' = ToLink, UNCHANGED <<size, count>>, None' <=> None
      PROVE  Counted' /\ size' \in Int
  BY <1>1 DEF Counted, count
<1>2. ASSUME NEW t \in Thread, Run(t) \/ (t \in Producer /\ EnqCall(t)) \/ DeqCall(t), ~StaleUse(t)
      PROVE  Counted' /\ size' \in Int
  <2>1. None
    BY <1>2, Here DEF EnqCall, EnqRead, EnqLink, EnqSwing, SizeAdd, DeqCall, DeqHead, DeqCheck, DeqNext,
            DeqEmpty, DeqTail, DeqSwing, SizeSub, RecycleRead, RecycleLink, RecycleStamp, RecycleMove,
            CheckEnter, CheckTime, CheckOne, CheckEnd, CheckLeave, Call, MoveIf, Move, Goto,
            Run, Enqueue, Dequeue, RecycleFree, CheckFree
  <2>none. None'
    <3>1. pc'[t] # "gone"
      BY <1>2 DEF EnqCall, EnqRead, EnqLink, EnqSwing, SizeAdd, DeqCall, DeqHead, DeqCheck, DeqNext,
            DeqEmpty, DeqTail, DeqSwing, SizeSub, RecycleRead, RecycleLink, RecycleStamp, RecycleMove,
            CheckEnter, CheckTime, CheckOne, CheckEnd, CheckLeave, Call, MoveIf, Move, Goto,
            Run, Enqueue, Dequeue, RecycleFree, CheckFree, TypePlace
    <3>2. QED
      BY <3>1, GoneStep DEF Gone
  <2>2. \A u \in Thread \ {t} : CountKept(u)
    BY <1>2, OthersCount
  <2>3. /\ ToAdd \subseteq Thread /\ ToSub \subseteq Thread /\ ToLink \subseteq Thread
        /\ ToAdd' \subseteq Thread /\ ToSub' \subseteq Thread /\ ToLink' \subseteq Thread
    BY DEF ToAdd, ToSub, ToLink, Thread
  <2>4. ASSUME CountKept(t), UNCHANGED <<size, count>>
        PROVE  Counted' /\ size' \in Int
    BY <1>1, <2>1, <2>none, <2>2, <2>3, <2>4 DEF CountKept
  <2>5. /\ ToAdd' \ {t} = ToAdd \ {t}
        /\ ToSub' \ {t} = ToSub \ {t}
        /\ ToLink' \ {t} = ToLink \ {t}
    BY <2>2, <2>3 DEF CountKept
  <2> USE <2>1, <2>none, CountsFinite DEF Counted, TypeQueue
  <2>6. CASE t \in Producer /\ EnqCall(t)
    <3>1. /\ t \in ToLink' /\ t \notin ToLink
          /\ t \notin ToAdd' /\ t \notin ToAdd /\ t \notin ToSub' /\ t \notin ToSub
      BY <2>6 DEF EnqCall, Call, Goto, ToLink, ToAdd, ToSub, TypePlace
    <3>2. ToLink' = ToLink \cup {t} /\ ToAdd' = ToAdd /\ ToSub' = ToSub
      BY <2>5, <3>1, AllButOne
    <3>3. Cardinality(ToLink') = Cardinality(ToLink) + 1
      BY <3>1, <3>2, Joins
    <3>4. sent + Cardinality(ToLink) < MaxEnq /\ UNCHANGED <<size, count>>
      BY <2>6 DEF EnqCall, ToLink
    <3>5. QED
      BY <3>2, <3>3, <3>4, BoundAssumption DEF count
  <2>7. CASE EnqLink(t)
    <3>1. CASE next[mine[t]] # NULL
      <4>1. CountKept(t) /\ UNCHANGED <<size, count>>
        BY <2>7, <3>1 DEF EnqLink, MoveIf, Move, Goto, CountKept, ToLink, ToAdd, ToSub, TypePlace, Caller,
                          count
      <4>2. QED
        BY <2>4, <4>1
    <3>2. CASE next[mine[t]] = NULL
      <4>1. /\ t \notin ToLink' /\ t \in ToLink
            /\ t \in ToAdd' /\ t \notin ToAdd /\ t \notin ToSub' /\ t \notin ToSub
        BY <2>7, <3>2 DEF EnqLink, MoveIf, Move, Goto, ToLink, ToAdd, ToSub, TypePlace, Caller
      <4>2. ToLink' = ToLink \ {t} /\ ToAdd' = ToAdd \cup {t} /\ ToSub' = ToSub
        BY <2>5, <4>1, AllButOne
      <4>3. Cardinality(ToLink') = Cardinality(ToLink) - 1 /\ Cardinality(ToAdd') = Cardinality(ToAdd) + 1
        BY <4>1, <4>2, Joins
      <4>4. sent' = sent + 1 /\ taken' = taken /\ size' = size
        BY <2>7, <3>2 DEF EnqLink
      <4>5. QED
        BY <4>2, <4>3, <4>4, BoundAssumption
    <3>3. QED
      BY <3>1, <3>2
  <2>8. CASE SizeAdd(t)
    <3>1. /\ t \notin ToAdd' /\ t \in ToAdd
          /\ t \notin ToLink' /\ t \notin ToLink /\ t \notin ToSub' /\ t \notin ToSub
      BY <2>8 DEF SizeAdd, Move, Goto, ToLink, ToAdd, ToSub, TypePlace
    <3>2. ToAdd' = ToAdd \ {t} /\ ToLink' = ToLink /\ ToSub' = ToSub
      BY <2>5, <3>1, AllButOne
    <3>3. Cardinality(ToAdd') = Cardinality(ToAdd) - 1
      BY <3>1, <3>2, Joins
    <3>4. size' = size + 1 /\ UNCHANGED <<sent, taken>>
      BY <2>8 DEF SizeAdd, count
    <3>5. QED
      BY <3>2, <3>3, <3>4
  <2>9. CASE DeqSwing(t)
    <3>1. CASE head # mine[t]
      <4>1. CountKept(t) /\ UNCHANGED <<size, count>>
        BY <2>9, <3>1 DEF DeqSwing, MoveIf, Move, Goto, CountKept, ToLink, ToAdd, ToSub, TypePlace, Caller,
                          count
      <4>2. QED
        BY <2>4, <4>1
    <3>2. CASE head = mine[t]
      <4>1. other[t] # 0
        BY <2>9 DEF DeqSwing, MoveIf, Move, Goto, Read
      <4>2. /\ t \in ToSub' /\ t \notin ToSub
            /\ t \notin ToAdd' /\ t \notin ToAdd /\ t \notin ToLink' /\ t \notin ToLink
        BY <2>9, <3>2, <4>1 DEF DeqSwing, MoveIf, Move, Goto, ToLink, ToAdd, ToSub, TypePlace, TypeLocals,
                                Caller
      <4>3. ToSub' = ToSub \cup {t} /\ ToAdd' = ToAdd /\ ToLink' = ToLink
        BY <2>5, <4>2, AllButOne
      <4>4. Cardinality(ToSub') = Cardinality(ToSub) + 1
        BY <4>2, <4>3, Joins
      <4>5. taken' = taken + 1 /\ UNCHANGED <<sent, size>>
        BY <2>9, <3>2 DEF DeqSwing
      <4>6. QED
        BY <4>3, <4>4, <4>5
    <3>3. QED
      BY <3>1, <3>2
  <2>10. CASE SizeSub(t)
    <3>1. CASE ret[t] = 0
      <4>1. CountKept(t) /\ UNCHANGED <<size, count>>
        BY <2>10, <3>1 DEF SizeSub, Move, Goto, CountKept, ToLink, ToAdd, ToSub, TypePlace
      <4>2. QED
        BY <2>4, <4>1
    <3>2. CASE ret[t] # 0
      <4>1. /\ t \notin ToSub' /\ t \in ToSub
            /\ t \notin ToAdd' /\ t \notin ToAdd /\ t \notin ToLink' /\ t \notin ToLink
        BY <2>10, <3>2 DEF SizeSub, Move, Goto, ToLink, ToAdd, ToSub, TypePlace
      <4>2. ToSub' = ToSub \ {t} /\ ToAdd' = ToAdd /\ ToLink' = ToLink
        BY <2>5, <4>1, AllButOne
      <4>3. Cardinality(ToSub') = Cardinality(ToSub) - 1
        BY <4>1, <4>2, Joins
      <4>4. size' = size - 1 /\ UNCHANGED <<sent, taken>>
        BY <2>10, <3>2 DEF SizeSub, count
      <4>5. QED
        BY <4>2, <4>3, <4>4
    <3>3. QED
      BY <3>1, <3>2
  <2>11. QED
    BY <1>2, <2>4, <2>6, <2>7, <2>8, <2>9, <2>10, MoverCounts
       DEF Run, Enqueue, Dequeue, RecycleFree, CheckFree
<1>3. CASE Tick \/ UNCHANGED vars \/ \E t \in Thread : StaleUse(t)
  BY <1>1, <1>3 DEF Tick, StaleUse, vars, ToAdd, ToSub, ToLink
<1>4. CASE Destroy
  <2>1. ToAdd' = {} /\ ToSub' = {} /\ ToLink' = {}
    BY <1>4 DEF Destroy, ToAdd, ToSub, ToLink, Thread
  <2>2. Cardinality(ToSub') = 0 /\ Cardinality(ToLink') = 0
    BY <2>1, FS_EmptySet
  <2>3. \E t \in Thread : pc'[t] = "gone"
    BY <1>4, ThreadAssumption DEF Destroy, Thread
  <2>4. QED
    BY <1>4, <2>2, <2>3 DEF Destroy, count, Counted, TypeQueue
<1>5. QED
  BY <1>2, <1>3, <1>4 DEF Next, Thread

-----------------------------------------------------------------------------
\* The first state has the invariant.
LEMMA InitIInv == Init => IInv
<1> SUFFICES ASSUME Init PROVE IInv
  OBVIOUS
<1> USE BoundAssumption DEF Init
<1>1. TypeQueue /\ TypeList
  <2>1. Base \in Node /\ FreeBase \in Node /\ NULL \in Link /\ 0 \in 0 .. MaxEnq
    BY DEF Node, Link, Base, FreeBase
  <2>2. TypeQueue
    BY <2>1 DEF TypeQueue, Base
  <2>3. TypeList
    BY <2>1 DEF TypeList
  <2>4. QED
    BY <2>2, <2>3
<1>2. TypeTime /\ TypePlace /\ TypeLocals
  BY DEF TypeTime, TypePlace, TypeLocals, Start, Place, Node, Link, NULL
<1>3. Caller /\ Gone /\ Read /\ Timely /\ OneCleaner /\ AllFreed
  <2>1. \A t \in Thread : pc[t] = "idle" /\ since[t] = now
    OBVIOUS
  <2>2. Caller /\ Read /\ OneCleaner
    BY <2>1 DEF Caller, Read, OneCleaner
  <2>3. Gone /\ AllFreed
    BY <2>1 DEF Gone, AllFreed
  <2>4. Timely
    BY <2>1 DEF Timely, InTurn, Start
  <2>5. QED
    BY <2>2, <2>3, <2>4
<1>4. Linked
  <2>1. \A n \in Node : ~(n < sent) /\ next[n] = NULL
    BY DEF Node
  <2>2. \A t \in Thread : pc[t] = "idle"
    OBVIOUS
  <2>3. tail = 0 /\ head = 0 /\ taken = 0 /\ sent = 0
    BY DEF Base
  <2>4. QED
    BY <2>1, <2>2, <2>3 DEF Linked
<1>5. FreeList
  <2>1. Scanners = {} /\ InHand = {} /\ Linker = {}
    BY DEF Scanners, InHand, Linker
  <2>2. Root = FreeBase /\ FreeBase \in Node
    BY <2>1 DEF Root, FreeBase, Node
  <2>3. Waiting = {FreeBase}
    <3>1. Waiting = Reach(nextfree, FreeBase)
      BY <2>2, ChainIsReach DEF Waiting, Root
    <3>2. nextfree \in [Node -> Link] /\ nextfree[FreeBase] = NULL
      BY <2>2 DEF Link
    <3>3. QED
      BY <2>2, <3>1, <3>2, ReachStep, ReachNull
  <2>4. \A n \in Node : Chain(nextfree[n]) = {}
    BY ChainIsReach, ReachNull
  <2>5. Placed
    BY <2>1, <2>2, <2>3 DEF Placed, Base
  <2>6. ListShape
    BY <2>2, <2>3, <2>4 DEF ListShape
  <2>7. ListEnd /\ Protected
    BY <2>1, <2>2 DEF ListEnd, Protected, InTurn
  <2>8. QED
    BY <2>5, <2>6, <2>7 DEF FreeList
<1>6. Counted
  <2>1. ToAdd = {} /\ ToSub = {} /\ ToLink = {}
    BY DEF ToAdd, ToSub, ToLink, Thread
  <2>2. QED
    BY <2>1, FS_EmptySet DEF Counted
<1>7. QED
  BY <1>1, <1>2, <1>3, <1>4, <1>5, <1>6 DEF IInv

\* A step through freed memory is a step of the free list.
LEMMA NoStaleQueue == IInv /\ [Next]_vars => undefined' # "queue"
<1> SUFFICES ASSUME IInv, NEW t \in Thread, StaleUse(t), pc[t] # "r_link" PROVE FALSE
  BY DEF IInv, Next, Run, Enqueue, Dequeue, RecycleFree, CheckFree, StaleUse, Destroy, Tick, vars, clock,
         EnqCall, EnqRead, EnqLink, EnqSwing, SizeAdd, DeqCall, DeqHead, DeqCheck, DeqNext,
         DeqEmpty, DeqTail, DeqSwing, SizeSub, RecycleRead, RecycleLink, RecycleStamp, RecycleMove,
         CheckEnter, CheckTime, CheckOne, CheckEnd, CheckLeave, Thread
<1> USE DEF IInv
<1>1. PICK n \in Through(t) : n \in freed
  BY DEF StaleUse
<1>2. pc[t] \in InTurn /\ (n = mine[t] \/ (pc[t] = "d_tail" /\ n = other[t]))
  BY <1>1 DEF Through, InTurn
<1>3. n \in Node
  BY <1>1 DEF TypeList
<1>4. n \in 0 .. sent /\ n >= mine[t]
  BY <1>2, <1>3, NullIsNoNode DEF Read, InTurn, TypeQueue, Linked
<1>5. n # FreeBase
  BY <1>4, BoundAssumption DEF TypeQueue, FreeBase
<1>6. Protected
  BY <1>2, Here DEF InTurn
<1>7. QED
  BY <1>1, <1>2, <1>3, <1>4, <1>5, <1>6 DEF Protected

\* Every step keeps it.
LEMMA IInvStep == IInv /\ [Next]_vars => IInv'
  BY TypeQueueStep, TypeListStep, TypeTimeStep, TypePlaceStep, TypeLocalsStep, NoStaleQueue, CallerStep,
     GoneStep, LinkedStep, ReadStep, TimelyStep, OneCleanerStep, FreeListStep, AllFreedStep, CountedStep
     DEF IInv

\* Every state has it.
LEMMA Inductive == Spec => []IInv
  BY InitIInv, IInvStep, PTL DEF Spec
-----------------------------------------------------------------------------
(***************************************************************************)
(* The theorems.                                                           *)
(***************************************************************************)

\* No more elements are linked and not counted than there are producers.
LEMMA SizeRange == IInv => size \in -Cardinality(Producer) .. MaxEnq
<1> SUFFICES ASSUME IInv PROVE size \in -Cardinality(Producer) .. MaxEnq
  OBVIOUS
<1> USE DEF IInv
<1>1. Cardinality(Producer) \in Nat
  BY ThreadAssumption, FS_CardinalityType
<1>2. CASE \E t \in Thread : pc[t] = "gone"
  BY <1>1, <1>2, BoundAssumption DEF Counted
<1>3. CASE ~(\E t \in Thread : pc[t] = "gone")
  <2>1. ToAdd \subseteq Producer
    BY DEF Caller, ToAdd
  <2>2. Cardinality(ToAdd) <= Cardinality(Producer)
    BY <2>1, ThreadAssumption, FS_Subset
  <2>3. size = sent - taken - Cardinality(ToAdd) + Cardinality(ToSub) /\ Cardinality(ToSub) <= taken
    BY <1>3 DEF Counted
  <2>4. QED
    BY <1>1, <2>2, <2>3, CountsFinite, BoundAssumption DEF TypeQueue
<1>4. QED
  BY <1>2, <1>3

\* The types.
LEMMA Typed == IInv => TypeOK
  BY SizeRange DEF IInv, TypeQueue, TypeList, TypeTime, TypePlace, TypeLocals, TypeOK

\* No node is lost or freed twice, and one thread at a time scans.
LEMMA Accounted == IInv => NodesAccounted
<1> SUFFICES ASSUME IInv PROVE NodesAccounted
  OBVIOUS
<1>1. CASE \E t \in Thread : pc[t] = "gone"
  BY <1>1 DEF IInv, AllFreed, NodesAccounted
<1>2. CASE ~(\E t \in Thread : pc[t] = "gone")
  <2>1. Placed
    BY <1>2 DEF IInv, FreeList
  <2>2. Cardinality(Scanners) <= 1
    <3>1. CASE Scanners = {}
      BY <3>1, FS_EmptySet
    <3>2. CASE Scanners # {}
      <4>1. PICK t \in Thread : t \in Scanners
        BY <3>2 DEF Scanners
      <4>2. Scanners = {t}
        BY <4>1, RootScanned DEF Scanners
      <4>3. QED
        BY <4>2, FS_Singleton
    <3>3. QED
      BY <3>1, <3>2
  <2>3. QED
    BY <1>2, <2>1, <2>2 DEF Placed, NodesAccounted
<1>3. QED
  BY <1>1, <1>2

\* With no call in progress nothing is left to be counted.
LEMMA Exact == IInv => SizeExactAtRest
<1> SUFFICES ASSUME IInv, \A t \in Thread : pc[t] = "idle" PROVE size = sent - taken
  BY DEF SizeExactAtRest
<1>1. ToAdd = {} /\ ToSub = {}
  BY DEF ToAdd, ToSub
<1>2. Cardinality(ToAdd) = 0 /\ Cardinality(ToSub) = 0
  BY <1>1, FS_EmptySet
<1>3. QED
  BY <1>2 DEF IInv, Counted, TypeQueue

\* The deferred free never frees a node that a thread of the queue is about to
\* read, loses none and frees none twice, and the count of lfqueue_size is
\* exact whenever no call is in progress.
THEOREM GarbageAndSize == Spec => []NodesAndSize
<1>1. IInv => NodesAndSize
  BY Typed, Accounted, Exact DEF IInv, NodesAndSize, QueueNodesLive
<1>2. QED
  BY <1>1, Inductive, PTL

\* What a state of the queue says of the FIFO queue: readers inside a call,
\* and what their last call gave them.
Busy ==
    [t \in Consumer |->
        \/ pc[t] \in {"d_head", "d_check", "d_next"}
        \/ pc[t] \in {"d_tail", "d_swing"} /\ other[t] # NULL]
Got == [t \in Consumer |-> ret[t]]

\* The queue starts as an empty FIFO queue.
LEMMA StartsEmpty == Init => Abstract!Init
  BY DEF Init, Abstract!Init, Thread

\* A step that keeps these is a stutter of the FIFO queue.
LEMMA Stutters ==
    ASSUME UNCHANGED <<count, Busy, Got>>
    PROVE  [Abstract!Next]_(Abstract!vars)
  BY DEF Abstract!vars, count, Busy, Got

\* Steps of a thread leave the others' calls alone.
LEMMA OthersCalls ==
    ASSUME IInv, NEW t \in Thread, Run(t) \/ EnqCall(t) \/ DeqCall(t), ~StaleUse(t),
           NEW u \in Consumer, u # t
    PROVE  Busy'[u] = Busy[u] /\ Got'[u] = Got[u]
<1> USE DEF IInv
<1>1. pc'[u] = pc[u] /\ other'[u] = other[u] /\ ret'[u] = ret[u]
  BY DEF EnqCall, EnqRead, EnqLink, EnqSwing, SizeAdd, DeqCall, DeqHead, DeqCheck, DeqNext, DeqEmpty,
         DeqTail, DeqSwing, SizeSub, RecycleRead, RecycleLink, RecycleStamp, RecycleMove, CheckEnter,
         CheckTime, CheckOne, CheckEnd, CheckLeave, Call, MoveIf, Move, Goto, Set, Again, locals, Thread,
         Run, Enqueue, Dequeue, RecycleFree, CheckFree, TypePlace, TypeLocals
<1>2. QED
  BY <1>1 DEF Busy, Got

\* The steps that link no element, take none and neither start a call of
\* lfqueue_deq nor find the queue empty do not show.
LEMMA InnerSteps ==
    ASSUME IInv, NEW t \in Thread,
           \/ EnqCall(t) \/ EnqRead(t) \/ EnqSwing(t) \/ SizeAdd(t)
           \/ DeqHead(t) \/ DeqCheck(t) \/ DeqEmpty(t) \/ DeqTail(t) \/ SizeSub(t)
           \/ RecycleRead(t) \/ RecycleLink(t) \/ RecycleStamp(t) \/ RecycleMove(t)
           \/ CheckEnter(t) \/ CheckTime(t) \/ CheckOne(t) \/ CheckEnd(t) \/ CheckLeave(t)
    PROVE  UNCHANGED count /\ (t \in Consumer => Busy'[t] = Busy[t] /\ Got'[t] = Got[t])
<1> USE DEF IInv, Busy, Got, Call, MoveIf, Move, Goto, Set, Again, locals, count, TypePlace, TypeLocals,
            Thread
<1>1. CASE EnqCall(t) \/ EnqRead(t) \/ EnqSwing(t) \/ SizeAdd(t)
  BY <1>1 DEF EnqCall, EnqRead, EnqSwing, SizeAdd
<1>2. CASE DeqHead(t) \/ DeqCheck(t) \/ DeqEmpty(t) \/ DeqTail(t) \/ SizeSub(t)
  BY <1>2 DEF DeqHead, DeqCheck, DeqEmpty, DeqTail, SizeSub
<1>3. CASE RecycleRead(t) \/ RecycleLink(t) \/ RecycleStamp(t) \/ RecycleMove(t)
  BY <1>3 DEF RecycleRead, RecycleLink, RecycleStamp, RecycleMove
<1>4. CASE CheckEnter(t) \/ CheckTime(t) \/ CheckOne(t) \/ CheckEnd(t) \/ CheckLeave(t)
  BY <1>4 DEF CheckEnter, CheckTime, CheckOne, CheckEnd, CheckLeave
<1>5. QED
  BY <1>1, <1>2, <1>3, <1>4

\* A link is a Send.
LEMMA LinkSends ==
    ASSUME IInv, NEW t \in Thread, EnqLink(t)
    PROVE  [Abstract!Next]_(Abstract!vars)
<1>1. ASSUME NEW u \in Consumer PROVE Busy'[u] = Busy[u] /\ Got'[u] = Got[u]
  <2>1. CASE u # t
    BY <2>1, OthersCalls DEF Run, Enqueue, EnqLink, MoveIf, Move, Goto, StaleUse, clock
  <2>2. CASE u = t
    BY <2>2 DEF EnqLink, MoveIf, Move, Goto, Set, Busy, Got, IInv, TypePlace, TypeLocals
  <2>3. QED
    BY <2>1, <2>2
<1>2. Busy' = Busy /\ Got' = Got
  BY <1>1 DEF Busy, Got
<1>3. CASE next[mine[t]] = NULL
  <2>1. Abstract!Send
    BY <1>2, <1>3 DEF EnqLink, Abstract!Send, Busy, Got
  <2>2. QED
    BY <2>1 DEF Abstract!Next
<1>4. CASE next[mine[t]] # NULL
  BY <1>2, <1>4, Stutters DEF EnqLink, count
<1>5. QED
  BY <1>3, <1>4

\* The others' part of a step of a reader.
LEMMA OneReader ==
    ASSUME IInv, NEW t \in Consumer, DeqCall(t) \/ DeqNext(t) \/ DeqSwing(t)
    PROVE  /\ Busy' = [Busy EXCEPT ![t] = Busy'[t]]
           /\ Got' = [Got EXCEPT ![t] = Got'[t]]
<1>1. ASSUME NEW u \in Consumer, u # t PROVE Busy'[u] = Busy[u] /\ Got'[u] = Got[u]
  <2>1. ~StaleUse(t)
    BY DEF StaleUse, DeqCall, DeqNext, DeqSwing, MoveIf, Move, Call, Goto, clock
  <2>2. t \in Thread /\ (Run(t) \/ DeqCall(t))
    BY DEF Thread, Run, Dequeue
  <2>3. QED
    BY <1>1, <2>1, <2>2, OthersCalls
<1>2. QED
  BY <1>1 DEF Busy, Got

\* The call of lfqueue_deq is a Call.
LEMMA CallCalls ==
    ASSUME IInv, NEW t \in Consumer, DeqCall(t)
    PROVE  Abstract!Call(t)
<1>1. ~Busy[t] /\ Busy'[t] = TRUE /\ Got'[t] = 0 /\ UNCHANGED <<sent, taken>>
  BY DEF DeqCall, Call, Goto, Busy, Got, IInv, TypePlace, TypeLocals, Thread, count
<1>2. QED
  BY <1>1, OneReader DEF Abstract!Call, Busy, Got

\* A reader that finds no next node leaves when the queue is empty.
LEMMA NextFindsNothing ==
    ASSUME IInv, NEW t \in Consumer, DeqNext(t)
    PROVE  [Abstract!Next]_(Abstract!vars)
<1> USE DEF IInv, Thread
<1>1. mine[t] \in 0 .. head /\ mine[t] \in Node
  BY BoundAssumption DEF DeqNext, Move, Goto, Read, TypeQueue, Node
<1>2. Busy[t] = TRUE /\ Busy'[t] = (next[mine[t]] # NULL) /\ Got'[t] = Got[t] /\ UNCHANGED <<sent, taken>>
  BY DEF DeqNext, Move, Goto, Set, Busy, Got, TypePlace, TypeLocals, count
<1>3. CASE next[mine[t]] = NULL
  <2>1. ~(mine[t] < sent)
    BY <1>1, <1>3 DEF Linked, Node, NULL
  <2>2. taken = sent
    BY <1>1, <2>1 DEF Linked, TypeQueue
  <2>3. Abstract!Nothing(t)
    BY <1>2, <1>3, <2>2, OneReader DEF Abstract!Nothing, Busy, Got
  <2>4. QED
    BY <2>3 DEF Abstract!Next
<1>4. CASE next[mine[t]] # NULL
  <2>1. Busy' = Busy /\ Got' = Got
    BY <1>2, <1>4, OneReader DEF Busy, Got
  <2>2. QED
    BY <1>2, <2>1, Stutters DEF count
<1>5. QED
  BY <1>3, <1>4

\* Moving head delivers the oldest element.
LEMMA SwingDelivers ==
    ASSUME IInv, NEW t \in Consumer, DeqSwing(t)
    PROVE  [Abstract!Next]_(Abstract!vars)
<1> USE DEF IInv, Thread
<1>1. mine[t] \in 0 .. head /\ other[t] = mine[t] + 1 /\ mine[t] < tail
  BY DEF DeqSwing, MoveIf, Move, Goto, Read
<1>2. Busy[t] = TRUE
  BY <1>1 DEF DeqSwing, MoveIf, Move, Goto, Busy, NULL, TypeQueue
<1>3. CASE head = mine[t]
  <2>1. taken < sent /\ other[t] = taken + 1
    BY <1>1, <1>3 DEF Linked, TypeQueue
  <2>2. Busy'[t] = FALSE /\ Got'[t] = taken + 1 /\ taken' = taken + 1 /\ UNCHANGED sent
    BY <1>3, <2>1 DEF DeqSwing, MoveIf, Move, Goto, Set, Busy, Got, TypePlace, TypeLocals
  <2>3. Abstract!Deliver(t)
    BY <1>2, <2>1, <2>2, OneReader DEF Abstract!Deliver, Busy, Got
  <2>4. QED
    BY <2>3 DEF Abstract!Next
<1>4. CASE head # mine[t]
  <2>1. Busy'[t] = TRUE /\ Got'[t] = Got[t] /\ UNCHANGED <<sent, taken>>
    BY <1>4 DEF DeqSwing, MoveIf, Move, Goto, Set, Busy, Got, TypePlace, TypeLocals
  <2>2. Busy' = Busy /\ Got' = Got
    BY <1>2, <2>1, OneReader DEF Busy, Got
  <2>3. QED
    BY <2>1, <2>2, Stutters DEF count
<1>5. QED
  BY <1>3, <1>4

\* Each step of the queue is one of the FIFO queue, or does not show.
LEMMA StepsAsFifo == IInv /\ [Next]_vars => [Abstract!Next]_(Abstract!vars)
<1> SUFFICES ASSUME IInv, [Next]_vars PROVE [Abstract!Next]_(Abstract!vars)
  OBVIOUS
<1>1. ASSUME NEW t \in Thread,
             \/ EnqCall(t) \/ EnqRead(t) \/ EnqSwing(t) \/ SizeAdd(t)
             \/ DeqHead(t) \/ DeqCheck(t) \/ DeqEmpty(t) \/ DeqTail(t) \/ SizeSub(t)
             \/ RecycleRead(t) \/ RecycleLink(t) \/ RecycleStamp(t) \/ RecycleMove(t)
             \/ CheckEnter(t) \/ CheckTime(t) \/ CheckOne(t) \/ CheckEnd(t) \/ CheckLeave(t)
      PROVE  [Abstract!Next]_(Abstract!vars)
  <2>1. ~StaleUse(t)
    BY <1>1 DEF StaleUse, EnqCall, EnqRead, EnqSwing, SizeAdd, DeqHead, DeqCheck, DeqEmpty, DeqTail,
            SizeSub, RecycleRead, RecycleLink, RecycleStamp, RecycleMove, CheckEnter, CheckTime, CheckOne,
            CheckEnd, CheckLeave, clock, Call, MoveIf, Move, Goto
  <2>2. \A u \in Consumer : Busy'[u] = Busy[u] /\ Got'[u] = Got[u]
    BY <1>1, <2>1, InnerSteps, OthersCalls DEF Run, Enqueue, Dequeue, RecycleFree, CheckFree
  <2>3. Busy' = Busy /\ Got' = Got
    BY <2>2 DEF Busy, Got
  <2>4. QED
    BY <1>1, <2>3, InnerSteps, Stutters
<1>2. ASSUME NEW t \in Thread, DeqNext(t) \/ DeqSwing(t)
      PROVE  [Abstract!Next]_(Abstract!vars)
  <2>1. t \in Consumer
    BY <1>2 DEF DeqNext, DeqSwing, MoveIf, Move, Goto, IInv, Caller
  <2>2. QED
    BY <1>2, <2>1, NextFindsNothing, SwingDelivers
<1>3. ASSUME NEW t \in Consumer, DeqCall(t)
      PROVE  [Abstract!Next]_(Abstract!vars)
  BY <1>3, CallCalls DEF Abstract!Next
<1>4. CASE Tick \/ UNCHANGED vars \/ \E t \in Thread : StaleUse(t)
  <2>1. UNCHANGED <<count, pc, other, ret>>
    BY <1>4 DEF Tick, StaleUse, vars, locals
  <2>2. QED
    BY <2>1, Stutters DEF Busy, Got
<1>5. CASE Destroy
  <2>1. UNCHANGED <<count, ret>> /\ \A t \in Thread : pc[t] = "idle" /\ pc'[t] = "gone"
    BY <1>5 DEF Destroy
  <2>2. Busy' = Busy /\ Got' = Got
    BY <2>1 DEF Busy, Got, Thread
  <2>3. QED
    BY <2>1, <2>2, Stutters
<1>6. QED
  BY <1>1, <1>2, <1>3, <1>4, <1>5, LinkSends
     DEF Next, Run, Enqueue, Dequeue, RecycleFree, CheckFree, Thread

\* The library's claim of linearizability: what producers and consumers see of
\* the lock-free queue is an atomic FIFO queue.
THEOREM AtomicFifo == Spec => ImplementsFifo
<1>1. IInv /\ [Next]_vars => [Abstract!Next]_(Abstract!vars)
  BY StepsAsFifo
<1>2. QED
  BY <1>1, StartsEmpty, Inductive, PTL DEF Spec, Abstract!Spec, ImplementsFifo
================================================================================
