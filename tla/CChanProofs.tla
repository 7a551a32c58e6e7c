----------------------------- MODULE CChanProofs -----------------------------
(***************************************************************************)
(* Proofs about the channel of CChan for every finite set of readers and   *)
(* every number of sends.                                                  *)
(*                                                                         *)
(* TypeOK and RingHoldsBacklog are inductive together: the indices stay in *)
(* range because next is the slot behind the backlog, taken stays below    *)
(* the bound because sent = taken + used, and an entry read is a number    *)
(* because the slots of the backlog hold the messages of the backlog.      *)
(* NoLostWakeup is inductive on top of TypeOK.  Both give the refinement.  *)
(* The last part is about the deadline of a timed wait, the module         *)
(* CondTimeout, for every set of clock readings and of timeouts.           *)
(***************************************************************************)
EXTENDS CChan, CondTimeout, FiniteSetTheorems, TLAPS

\* The inductive invariant of the ring.
RingInv == TypeOK /\ RingHoldsBacklog

\* The variables of the ring and of the two counters, typed.
RingType ==
    /\ alloc \in Nat \ {0}
    /\ next \in 0 .. alloc - 1
    /\ first \in 0 .. alloc - 1
    /\ used \in 0 .. alloc
    /\ data \in [0 .. alloc - 1 -> Nat]
    /\ sent \in 0 .. MaxSend
    /\ taken \in 0 .. MaxSend

-----------------------------------------------------------------------------
\* Storing a value keeps the ring right when there is a free entry.
LEMMA SendInPlace ==
    ASSUME RingInv, Send, used # alloc
    PROVE  RingType' /\ RingHoldsBacklog'
<1> USE DEF RingInv, TypeOK, RingType
<1>1. /\ alloc' = alloc
      /\ data' = [data EXCEPT ![next] = sent + 1]
      /\ next' = Advance(next, alloc)
      /\ used' = used + 1
      /\ first' = first /\ taken' = taken /\ sent' = sent + 1
      /\ sent < MaxSend
  BY DEF Send, Room
<1>2. next = Slot(used) /\ sent = taken + used
  BY DEF RingHoldsBacklog
<1>3. RingType'
  BY <1>1, MaxSendAssumption DEF Advance
<1>4. next' = Slot(used)' /\ sent' = taken' + used'
  BY <1>1, <1>2 DEF Slot, Advance
<1>5. ASSUME NEW k \in 0 .. used' - 1
      PROVE  data'[Slot(k)'] = taken' + 1 + k
  <2>1. Slot(k)' = Slot(k)
    BY <1>1 DEF Slot
  <2>2. CASE k = used
    BY <1>1, <1>2, <2>1, <2>2
  <2>3. CASE k # used
    <3>1. k \in 0 .. used - 1
      BY <1>1, <2>3
    <3>2. data[Slot(k)] = taken + 1 + k
      BY <3>1 DEF RingHoldsBacklog
    <3>3. Slot(k) # next /\ Slot(k) \in 0 .. alloc - 1
      BY <1>2, <3>1 DEF Slot
    <3>4. QED
      BY <1>1, <2>1, <3>2, <3>3
  <2>4. QED
    BY <2>2, <2>3
<1>6. QED
  BY <1>3, <1>4, <1>5 DEF RingHoldsBacklog

\* Doubling a full buffer and copying its wrapped part behind the old end
\* leaves the backlog in one piece, in order, with room behind it.
LEMMA SendExpanding ==
    ASSUME RingInv, Send, used = alloc
    PROVE  RingType' /\ RingHoldsBacklog'
<1> USE DEF RingInv, TypeOK, RingType
<1>1. /\ alloc' = 2 * alloc
      /\ data' = [Expanded EXCEPT ![alloc + first] = sent + 1]
      /\ next' = Advance(alloc + first, 2 * alloc)
      /\ used' = used + 1
      /\ first' = first /\ taken' = taken /\ sent' = sent + 1
      /\ sent < MaxSend
  BY DEF Send, Room
<1>2. Expanded \in [0 .. 2 * alloc - 1 -> Nat]
  BY DEF Expanded, Uninit
<1>3. next = Slot(used) /\ sent = taken + used
  BY DEF RingHoldsBacklog
<1>4. RingType'
  <2>1. alloc' \in Nat \ {0}
    BY <1>1
  <2>2. next' \in 0 .. alloc' - 1 /\ first' \in 0 .. alloc' - 1
    BY <1>1 DEF Advance
  <2>3. used' \in 0 .. alloc'
    BY <1>1
  <2>4. data' \in [0 .. alloc' - 1 -> Nat]
    BY <1>1, <1>2
  <2>5. sent' \in 0 .. MaxSend /\ taken' \in 0 .. MaxSend
    BY <1>1, MaxSendAssumption
  <2>6. QED
    BY <2>1, <2>2, <2>3, <2>4, <2>5
<1>5. next' = Slot(used)' /\ sent' = taken' + used'
  BY <1>1, <1>3 DEF Slot, Advance
<1>6. ASSUME NEW k \in 0 .. used' - 1
      PROVE  data'[Slot(k)'] = taken' + 1 + k
  <2>1. Slot(k)' = first + k /\ first + k \in 0 .. 2 * alloc - 1
    BY <1>1 DEF Slot
  <2>2. CASE k = used
    BY <1>1, <1>2, <1>3, <2>1, <2>2
  <2>3. CASE k # used
    <3>1. k \in 0 .. used - 1
      BY <1>1, <2>3
    <3>2. data[Slot(k)] = taken + 1 + k
      BY <3>1 DEF RingHoldsBacklog
    <3>3. Expanded[first + k] = data[Slot(k)]
      BY <2>1, <3>1 DEF Expanded, Slot
    <3>4. first + k # alloc + first
      BY <3>1
    <3>5. QED
      BY <1>1, <1>2, <2>1, <3>2, <3>3, <3>4
  <2>4. QED
    BY <2>2, <2>3
<1>7. QED
  BY <1>4, <1>5, <1>6 DEF RingHoldsBacklog

\* Taking the first entry hands out the oldest message and keeps the ring
\* right.
LEMMA TakeKeepsRing ==
    ASSUME RingInv, NEW r \in Reader, Take(r), sent' = sent
    PROVE  /\ RingType' /\ RingHoldsBacklog'
           /\ taken < sent /\ taken' = taken + 1
           /\ ret' = [ret EXCEPT ![r] = taken + 1]
<1> USE DEF RingInv, TypeOK, RingType
<1>1. /\ alloc' = alloc /\ next' = next /\ data' = data
      /\ first' = Advance(first, alloc)
      /\ used' = used - 1 /\ used # 0
      /\ taken' = taken + 1
      /\ ret' = [ret EXCEPT ![r] = data[first]]
  BY DEF Take
<1>2. next = Slot(used) /\ sent = taken + used
  BY DEF RingHoldsBacklog
<1>3. data[first] = taken + 1
  <2>1. 0 \in 0 .. used - 1 /\ Slot(0) = first
    BY <1>1 DEF Slot
  <2>2. data[Slot(0)] = taken + 1 + 0
    BY <2>1 DEF RingHoldsBacklog
  <2>3. QED
    BY <2>1, <2>2
<1>4. RingType'
  BY <1>1, <1>2, MaxSendAssumption DEF Advance
<1>5. next' = Slot(used)' /\ sent' = taken' + used'
  BY <1>1, <1>2 DEF Slot, Advance
<1>6. ASSUME NEW k \in 0 .. used' - 1
      PROVE  data'[Slot(k)'] = taken' + 1 + k
  <2>1. k + 1 \in 0 .. used - 1 /\ Slot(k)' = Slot(k + 1)
    BY <1>1 DEF Slot, Advance
  <2>2. data[Slot(k + 1)] = taken + 1 + (k + 1)
    BY <2>1 DEF RingHoldsBacklog
  <2>3. QED
    BY <1>1, <2>1, <2>2
<1>7. QED
  BY <1>1, <1>2, <1>3, <1>4, <1>5, <1>6 DEF RingHoldsBacklog
-----------------------------------------------------------------------------
\* Leaving the ring and the counters alone keeps what is said of them.
LEMMA RingUntouched ==
    ASSUME RingInv, UNCHANGED <<ring, sent, taken>>
    PROVE  RingType' /\ RingHoldsBacklog'
BY DEF RingInv, TypeOK, RingType, RingHoldsBacklog, Slot, ring

\* A turn of a reader takes the oldest message, or finds the ring empty.
LEMMA ReceiveCases ==
    ASSUME NEW r \in Reader, Receive(r)
    PROVE  /\ running /\ running' = running /\ sent' = sent
           /\ op' = op /\ elapsed' = elapsed
           /\ pc[r] \in {"enter", "woken"}
           /\ \/ Take(r)
              \/ \E to \in {"idle", "blocked"} : Leave(r, to)
BY DEF Receive, Recv, Wait, WaitTime, WaitTimeWoken

\* An empty ring.
LEMMA RingInvInit == Init => RingInv
BY MaxSendAssumption
   DEF Init, RingInv, TypeOK, RingHoldsBacklog, Slot, PCs, Ops, Uninit

\* Every step keeps the ring invariant.
LEMMA RingInvStep == RingInv /\ [Next]_vars => RingInv'
<1> SUFFICES ASSUME RingInv, [Next]_vars PROVE RingInv'
  OBVIOUS
<1>1. CASE Send
  <2>1. RingType' /\ RingHoldsBacklog'
    BY <1>1, SendInPlace, SendExpanding
  <2>2. pc' \in [Reader -> PCs]
    BY <1>1 DEF Send, Signal, RingInv, TypeOK, PCs
  <2>3. QED
    BY <1>1, <2>1, <2>2 DEF Send, RingInv, TypeOK, RingType
<1>2. CASE SendAbort
  <2>1. RingType' /\ RingHoldsBacklog'
    BY <1>2, RingUntouched DEF SendAbort
  <2>2. QED
    BY <1>2, <2>1 DEF SendAbort, RingInv, TypeOK, RingType
<1>3. ASSUME NEW r \in Reader, NEW f \in Ops, Call(r, f)
      PROVE  RingInv'
  <2>1. RingType' /\ RingHoldsBacklog'
    BY <1>3, RingUntouched DEF Call
  <2>2. QED
    BY <1>3, <2>1 DEF Call, RingInv, TypeOK, RingType, PCs
<1>4. ASSUME NEW r \in Reader, Receive(r)
      PROVE  RingInv'
  <2>1. /\ running' = running /\ sent' = sent
        /\ op' = op /\ elapsed' = elapsed
    BY <1>4, ReceiveCases
  <2>2. CASE Take(r)
    <3>1. RingType' /\ RingHoldsBacklog'
      BY <2>1, <2>2, TakeKeepsRing
    <3>2. ret' = [ret EXCEPT ![r] = taken + 1]
      BY <2>1, <2>2, TakeKeepsRing
    <3>3. pc' \in [Reader -> PCs] /\ ret' \in [Reader -> Nat]
      BY <2>2, <3>2, MaxSendAssumption DEF Take, RingInv, TypeOK, PCs
    <3>4. QED
      BY <2>1, <3>1, <3>3 DEF RingInv, TypeOK, RingType
  <2>3. ASSUME NEW to \in {"idle", "blocked"}, Leave(r, to)
        PROVE  RingInv'
    <3>1. RingType' /\ RingHoldsBacklog'
      BY <2>1, <2>3, RingUntouched DEF Leave
    <3>2. QED
      BY <2>1, <2>3, <3>1 DEF Leave, RingInv, TypeOK, RingType, PCs
  <2>4. QED
    BY <1>4, <2>2, <2>3, ReceiveCases
<1>5. ASSUME NEW r \in Reader, Elapse(r) \/ SpuriousWakeup(r)
      PROVE  RingInv'
  <2>1. RingType' /\ RingHoldsBacklog'
    BY <1>5, RingUntouched DEF Elapse, SpuriousWakeup
  <2>2. QED
    BY <1>5, <2>1 DEF Elapse, SpuriousWakeup, RingInv, TypeOK, RingType, PCs
<1>6. CASE UNCHANGED vars
  <2>1. RingType' /\ RingHoldsBacklog'
    BY <1>6, RingUntouched DEF vars
  <2>2. QED
    BY <1>6, <2>1 DEF vars, RingInv, TypeOK, RingType
<1>7. QED
  BY <1>1, <1>2, <1>3, <1>4, <1>5, <1>6 DEF Next

\* The fields of cchan_t and the readers keep their types.
THEOREM TypeCorrect == Spec => []TypeOK
<1>1. RingInv => TypeOK
  BY DEF RingInv
<1>2. QED
  BY RingInvInit, RingInvStep, <1>1, PTL DEF Spec

\* The ring always holds exactly the messages sent and not yet received, in
\* the order of their sends.
THEOREM RingCorrect == Spec => []RingHoldsBacklog
<1>1. RingInv => RingHoldsBacklog
  BY DEF RingInv
<1>2. QED
  BY RingInvInit, RingInvStep, <1>1, PTL DEF Spec
-----------------------------------------------------------------------------
(***************************************************************************)
(* Wakeups.                                                                *)
(***************************************************************************)

\* The woken readers are finitely many.
LEMMA WokenFinite == IsFiniteSet(Woken) /\ Cardinality(Woken) \in Nat
<1>1. Woken \in SUBSET Reader
  BY DEF Woken
<1>2. QED
  BY <1>1, ReaderAssumption, FS_Subset, FS_CardinalityType

\* A reader that wakes makes one more.
LEMMA OneMoreWoken ==
    ASSUME pc \in [Reader -> PCs], NEW r \in Blocked,
           pc' = [pc EXCEPT ![r] = "woken"]
    PROVE  Cardinality(Woken)' = Cardinality(Woken) + 1
<1>1. Woken' = Woken \cup {r} /\ r \notin Woken
  BY DEF Woken, Blocked
<1>2. Cardinality(Woken \cup {r}) = Cardinality(Woken) + 1
  BY <1>1, WokenFinite, FS_AddElement
<1>3. QED
  BY <1>1, <1>2

\* A woken reader that moves elsewhere makes one less.
LEMMA OneLessWoken ==
    ASSUME pc \in [Reader -> PCs], NEW r \in Woken, NEW p \in PCs, p # "woken",
           pc' = [pc EXCEPT ![r] = p]
    PROVE  Cardinality(Woken)' = Cardinality(Woken) - 1
<1>1. Woken' = Woken \ {r}
  BY DEF Woken
<1>2. Cardinality(Woken \ {r}) = Cardinality(Woken) - 1
  BY WokenFinite, FS_RemoveElement
<1>3. QED
  BY <1>1, <1>2

\* A reader that takes an entry leaves no blocked reader without enough woken
\* ones: the entry is gone together with, at most, one woken reader.
LEMMA TakeKeepsWakeups ==
    ASSUME RingInv, NoLostWakeup, NEW r \in Reader, Take(r),
           pc[r] \in {"enter", "woken"}
    PROVE  NoLostWakeup'
<1> SUFFICES ASSUME Blocked' # {} PROVE used' <= Cardinality(Woken)'
  BY DEF NoLostWakeup
<1> USE DEF RingInv, TypeOK
<1>1. /\ used' = used - 1
      /\ pc' = [pc EXCEPT ![r] = "idle"]
  BY DEF Take
<1>2. Blocked # {}
  BY <1>1 DEF Blocked
<1>3. used <= Cardinality(Woken)
  BY <1>2 DEF NoLostWakeup
<1>4. CASE r \in Woken
  <2>1. Cardinality(Woken)' = Cardinality(Woken) - 1
    BY <1>1, <1>4, OneLessWoken DEF PCs
  <2>2. QED
    BY <1>1, <1>3, <2>1, WokenFinite
<1>5. CASE r \notin Woken
  <2>1. Woken' = Woken
    BY <1>1, <1>5 DEF Woken
  <2>2. QED
    BY <1>1, <1>3, <2>1, WokenFinite
<1>6. QED
  BY <1>4, <1>5

\* Every step keeps enough woken readers.
LEMMA NoLostWakeupStep == RingInv /\ NoLostWakeup /\ [Next]_vars => NoLostWakeup'
<1> SUFFICES ASSUME RingInv, NoLostWakeup, [Next]_vars PROVE NoLostWakeup'
  OBVIOUS
<1> USE DEF RingInv, TypeOK
<1>1. CASE Send
  <2>1. used' = used + 1
    BY <1>1 DEF Send
  <2>2. CASE Blocked = {}
    <3>1. Blocked' = {}
      BY <1>1, <2>2 DEF Send, Signal, Blocked
    <3>2. QED
      BY <3>1 DEF NoLostWakeup
  <2>3. CASE Blocked # {}
    <3>1. PICK r \in Blocked : pc' = [pc EXCEPT ![r] = "woken"]
      BY <1>1, <2>3 DEF Send, Signal
    <3>2. Cardinality(Woken)' = Cardinality(Woken) + 1
      BY <3>1, OneMoreWoken
    <3>3. QED
      BY <2>1, <2>3, <3>2, WokenFinite DEF NoLostWakeup
  <2>4. QED
    BY <2>2, <2>3
<1>2. CASE SendAbort
  BY <1>2 DEF SendAbort, NoLostWakeup, Blocked, Woken, ring
<1>3. ASSUME NEW r \in Reader, NEW f \in Ops, Call(r, f)
      PROVE  NoLostWakeup'
  <2>1. Blocked' = Blocked /\ Woken' = Woken /\ used' = used
    BY <1>3 DEF Call, Blocked, Woken, ring
  <2>2. QED
    BY <2>1 DEF NoLostWakeup
<1>4. ASSUME NEW r \in Reader, Receive(r)
      PROVE  NoLostWakeup'
  <2>1. CASE Take(r)
    BY <1>4, <2>1, ReceiveCases, TakeKeepsWakeups
  <2>2. ASSUME NEW to \in {"idle", "blocked"}, Leave(r, to)
        PROVE  NoLostWakeup'
    <3>1. used' = 0
      BY <2>2 DEF Leave, ring
    <3>2. Cardinality(Woken)' \in Nat
      <4>1. (Woken \in SUBSET Reader)'
        BY DEF Woken
      <4>2. QED
        BY <4>1, ReaderAssumption, FS_Subset, FS_CardinalityType
    <3>3. QED
      BY <3>1, <3>2 DEF NoLostWakeup
  <2>3. QED
    BY <1>4, <2>1, <2>2, ReceiveCases
<1>5. ASSUME NEW r \in Reader, Elapse(r) \/ SpuriousWakeup(r)
      PROVE  NoLostWakeup'
  <2>1. used' = used /\ pc' = [pc EXCEPT ![r] = "woken"]
    BY <1>5 DEF Elapse, SpuriousWakeup, ring
  <2>2. Blocked' # {} => Blocked # {}
    BY <2>1 DEF Blocked
  <2>3. CASE r \in Blocked
    <3>1. Cardinality(Woken)' = Cardinality(Woken) + 1
      BY <2>1, <2>3, OneMoreWoken
    <3>2. QED
      BY <2>1, <2>2, <3>1, WokenFinite DEF NoLostWakeup
  <2>4. CASE r \notin Blocked
    <3>1. Woken' = Woken
      BY <1>5, <2>1, <2>4 DEF Woken, Blocked, Elapse, SpuriousWakeup
    <3>2. QED
      BY <2>1, <2>2, <3>1 DEF NoLostWakeup
  <2>5. QED
    BY <2>3, <2>4
<1>6. CASE UNCHANGED vars
  BY <1>6 DEF vars, ring, NoLostWakeup, Blocked, Woken
<1>7. QED
  BY <1>1, <1>2, <1>3, <1>4, <1>5, <1>6 DEF Next

\* No wakeup is lost: blocked readers never sit beside more entries than there
\* are woken readers to take them.
THEOREM WakeupsSuffice == Spec => []NoLostWakeup
<1>1. Init => NoLostWakeup
  BY DEF Init, NoLostWakeup, Blocked
<1>2. QED
  BY <1>1, RingInvInit, RingInvStep, NoLostWakeupStep, PTL DEF Spec
-----------------------------------------------------------------------------
(***************************************************************************)
(* Refinement.                                                             *)
(***************************************************************************)

\* An initial state of the channel is one of the queue.
LEMMA FifoInit == Init => Queue!Init
BY DEF Init, Queue!Init

\* A step of the channel is one of the queue, or leaves the queue alone.
LEMMA FifoStep == RingInv /\ [Next]_vars => [Queue!Next]_(Queue!vars)
<1> SUFFICES ASSUME RingInv, [Next]_vars PROVE [Queue!Next]_(Queue!vars)
  OBVIOUS
<1> USE DEF RingInv, TypeOK, PCs
<1> DEFINE busy == [r \in Reader |-> pc[r] # "idle"]
<1>1. CASE Send
  <2>1. busy' = busy
    BY <1>1 DEF Send, Signal, Blocked
  <2>2. Queue!Send
    BY <1>1, <2>1 DEF Send, Queue!Send
  <2>3. QED
    BY <2>2 DEF Queue!Next
<1>2. CASE SendAbort
  BY <1>2 DEF SendAbort, Queue!vars
<1>3. ASSUME NEW r \in Reader, NEW f \in Ops, Call(r, f)
      PROVE  Queue!Next
  <2>1. busy' = [busy EXCEPT ![r] = TRUE] /\ ~busy[r]
    BY <1>3 DEF Call
  <2>2. Queue!Call(r)
    BY <1>3, <2>1 DEF Call, Queue!Call
  <2>3. QED
    BY <2>2 DEF Queue!Next
<1>4. ASSUME NEW r \in Reader, Receive(r)
      PROVE  [Queue!Next]_(Queue!vars)
  <2>1. sent' = sent /\ pc[r] \in {"enter", "woken"}
    BY <1>4, ReceiveCases
  <2>2. busy[r]
    BY <2>1
  <2>3. CASE Take(r)
    <3>1. busy' = [busy EXCEPT ![r] = FALSE]
      BY <2>3 DEF Take
    <3>2. /\ taken < sent /\ taken' = taken + 1
          /\ ret' = [ret EXCEPT ![r] = taken + 1]
      BY <2>1, <2>3, TakeKeepsRing
    <3>3. Queue!Deliver(r)
      BY <2>1, <2>2, <3>1, <3>2 DEF Queue!Deliver
    <3>4. QED
      BY <3>3 DEF Queue!Next
  <2>4. CASE Leave(r, "idle")
    <3>1. busy' = [busy EXCEPT ![r] = FALSE]
      BY <2>4 DEF Leave
    <3>2. taken = sent /\ taken' = taken /\ ret' = ret
      BY <2>4 DEF Leave, RingHoldsBacklog
    <3>3. Queue!Nothing(r)
      BY <2>1, <2>2, <3>1, <3>2 DEF Queue!Nothing
    <3>4. QED
      BY <3>3 DEF Queue!Next
  <2>5. CASE Leave(r, "blocked")
    <3>1. busy' = busy
      BY <2>1, <2>5 DEF Leave
    <3>2. QED
      BY <2>1, <2>5, <3>1 DEF Leave, Queue!vars
  <2>6. QED
    BY <1>4, <2>3, <2>4, <2>5, ReceiveCases
<1>5. ASSUME NEW r \in Reader, Elapse(r) \/ SpuriousWakeup(r)
      PROVE  UNCHANGED Queue!vars
  <2>1. busy' = busy
    BY <1>5 DEF Elapse, SpuriousWakeup
  <2>2. QED
    BY <1>5, <2>1 DEF Elapse, SpuriousWakeup, Queue!vars
<1>6. CASE UNCHANGED vars
  BY <1>6 DEF vars, Queue!vars
<1>7. QED
  BY <1>1, <1>2, <1>3, <1>4, <1>5, <1>6 DEF Next

\* The channel implements the queue of Fifo.
THEOREM ChannelIsFifo == Spec => ImplementsFifo
<1>1. QED
  BY RingInvInit, RingInvStep, FifoInit, FifoStep, PTL
     DEF Spec, ImplementsFifo, Queue!Spec

-----------------------------------------------------------------------------
(***************************************************************************)
(* The deadline of a wait (CondTimeout), for every clock and every         *)
(* timeout: what cchan_cond_waittime_1 computes, and the one case in which *)
(* a wait is cut short.                                                    *)
(***************************************************************************)
\* An instant is its full seconds and the microseconds behind them, and a
\* timeout its full seconds and the milliseconds behind them.
LEMMA SplitInstant ==
    ASSUME NEW t \in Nat
    PROVE  /\ t \div 1000000 \in Nat
           /\ t % 1000000 \in Nat /\ t % 1000000 < 1000000
           /\ t = 1000000 * (t \div 1000000) + (t % 1000000)
BY SMT

\* The same of the timeout.
LEMMA SplitTimeout ==
    ASSUME NEW m \in Nat
    PROVE  /\ m \div 1000 \in Nat
           /\ m % 1000 \in Nat /\ m % 1000 < 1000
           /\ m = 1000 * (m \div 1000) + (m % 1000)
BY SMT

\* An instant has one way to be written as seconds and microseconds.
LEMMA UniqueSplit ==
    ASSUME NEW s \in Nat, NEW u \in Nat, u < 1000000
    PROVE  /\ (1000000 * s + u) \div 1000000 = s
           /\ (1000000 * s + u) % 1000000 = u
BY SMT

\* The nanoseconds of a timespec are at most a full second, and they are one
\* exactly when the microseconds add up to one.
LEMMA TimespecType ==
    ASSUME NEW t \in Nat, NEW m \in Nat
    PROVE  /\ Timespec(t, m) \in [sec : Nat, nsec : Nat]
           /\ Timespec(t, m).nsec <= NsecPerSec
           /\ Timespec(t, m).nsec = NsecPerSec <=>
                Micros(t, m) = UsecPerSec
<1> DEFINE u == t % 1000000
           v == m % 1000
           s == (t \div 1000000) + (m \div 1000)
           n == (u + v * 1000) * 1000
<1>1. u \in Nat /\ u < 1000000 /\ v \in Nat /\ v < 1000 /\ s \in Nat
  BY SMT, SplitInstant, SplitTimeout
<1>2. Timespec(t, m) = IF n > 1000000000
                       THEN [sec |-> s + 1, nsec |-> n - 1000000000]
                       ELSE [sec |-> s, nsec |-> n]
  BY SMT DEF Timespec, Micros, UsecPerSec, NsecPerSec
<1>3. Micros(t, m) = u + v * 1000
  BY SMT DEF Micros, UsecPerSec
<1> HIDE DEF u, v, s
<1>4. n \in Nat /\ n < 2000000000
  BY SMT, <1>1
<1>5. n = 1000000000 <=> u + v * 1000 = 1000000
  BY SMT, <1>1
<1> HIDE DEF n
<1>6. CASE n > 1000000000
  BY SMT, <1>1, <1>2, <1>3, <1>4, <1>5, <1>6 DEF Valid, UsecPerSec, NsecPerSec
<1>7. CASE ~(n > 1000000000)
  BY SMT, <1>1, <1>2, <1>3, <1>4, <1>5, <1>7 DEF Valid, UsecPerSec, NsecPerSec
<1>8. QED
  BY <1>6, <1>7

\* A valid timespec names the instant ms milliseconds after the reading.
LEMMA TimespecExact ==
    ASSUME NEW t \in Nat, NEW m \in Nat, Valid(Timespec(t, m))
    PROVE  Timespec(t, m) =
             [sec  |-> (t + m * 1000) \div UsecPerSec,
              nsec |-> ((t + m * 1000) % UsecPerSec) * 1000]
<1> DEFINE u == t % 1000000
           v == m % 1000
           p == t \div 1000000
           q == m \div 1000
           w == u + v * 1000
           at == t + m * 1000
<1>1. u \in Nat /\ u < 1000000 /\ p \in Nat /\ t = 1000000 * p + u
  BY SMT, SplitInstant
<1>2. v \in Nat /\ v < 1000 /\ q \in Nat /\ m = 1000 * q + v
  BY SMT, SplitTimeout
<1>3. Timespec(t, m) = IF w * 1000 > 1000000000
                       THEN [sec |-> p + q + 1, nsec |-> w * 1000 - 1000000000]
                       ELSE [sec |-> p + q, nsec |-> w * 1000]
  BY SMT DEF Timespec, Micros, UsecPerSec, NsecPerSec
<1>4. w # 1000000
  <2>1. Timespec(t, m).nsec # NsecPerSec
    BY SMT, TimespecType DEF Valid, NsecPerSec
  <2>2. Micros(t, m) # UsecPerSec
    BY <2>1, TimespecType
  <2>3. QED
    BY SMT, <2>2 DEF Micros, UsecPerSec
<1> HIDE DEF u, v, p, q
<1>5. at = 1000000 * (p + q) + w
  BY SMT, <1>1, <1>2
<1>6. w \in Nat /\ w < 2000000
  BY SMT, <1>1, <1>2
<1> HIDE DEF w, at
<1>7. CASE w > 1000000
  <2>1. p + q + 1 \in Nat /\ w - 1000000 \in Nat /\ w - 1000000 < 1000000
    BY SMT, <1>1, <1>2, <1>6, <1>7
  <2>2. at = 1000000 * (p + q + 1) + (w - 1000000)
    BY SMT, <1>1, <1>2, <1>5, <1>6
  <2>3. at \div 1000000 = p + q + 1 /\ at % 1000000 = w - 1000000
    BY SMT, <2>1, <2>2, UniqueSplit
  <2>4. w * 1000 > 1000000000 /\ w * 1000 - 1000000000 = (w - 1000000) * 1000
    BY SMT, <1>6, <1>7
  <2>5. QED
    BY SMT, <1>3, <2>3, <2>4 DEF at, UsecPerSec
<1>8. CASE w < 1000000
  <2>1. p + q \in Nat /\ w \in Nat /\ w < 1000000
    BY SMT, <1>1, <1>2, <1>6, <1>8
  <2>2. at \div 1000000 = p + q /\ at % 1000000 = w
    BY SMT, <1>5, <2>1, UniqueSplit
  <2>3. ~(w * 1000 > 1000000000)
    BY SMT, <1>6, <1>8
  <2>4. QED
    BY SMT, <1>3, <2>2, <2>3 DEF at, UsecPerSec
<1>9. QED
  BY SMT, <1>4, <1>6, <1>7, <1>8

\* Once the clock has reached a valid deadline, the timeout has passed.
LEMMA ReachedMeansElapsed ==
    ASSUME ClockTypeOK, Valid(deadline), Reached(deadline), DeadlineExact
    PROVE  now - start >= ms * 1000
<1> DEFINE at == start + ms * 1000
<1>1. at \in Nat /\ now \in Nat /\ start \in Nat /\ ms \in Nat
  BY DEF ClockTypeOK
<1>2. deadline = [sec |-> at \div UsecPerSec, nsec |-> (at % UsecPerSec) * 1000]
  BY DEF DeadlineExact
<1>3. \/ now \div UsecPerSec > at \div UsecPerSec
      \/ /\ now \div UsecPerSec = at \div UsecPerSec
         /\ (now % UsecPerSec) * 1000 >= (at % UsecPerSec) * 1000
  BY <1>2 DEF Reached
<1> HIDE DEF at
<1>4. now >= at
  BY SMT, <1>1, <1>3 DEF UsecPerSec
<1>5. QED
  BY <1>1, <1>4 DEF at
-----------------------------------------------------------------------------
\* The deadline in use is the one computed from the clock reading.
ClockInv ==
    /\ ClockTypeOK
    /\ deadline = Timespec(start, ms)
    /\ call # "idle" => start <= now
    /\ call = "waiting" => Valid(deadline)
    /\ EarlyOnlyAtFullSecond

\* The deadline in use is the computed one, and that is exact.
LEMMA ExactFromInv == ClockInv => DeadlineExact
BY TimespecExact DEF ClockInv, ClockTypeOK, DeadlineExact

\* Before a call.
LEMMA ClockInvInit ==
    ASSUME ClockInit
    PROVE  ClockInv
<1>1. now \in Nat /\ start \in Nat /\ ms \in Nat /\ waited = 0 /\ call = "idle"
  BY InstantsAssumption, TimeoutsAssumption DEF ClockInit
<1>2. /\ deadline = Timespec(start, ms)
      /\ deadline \in [sec : Nat, nsec : Nat] /\ deadline.nsec <= NsecPerSec
  BY <1>1, TimespecType DEF ClockInit
<1>3. QED
  BY <1>1, <1>2 DEF ClockInit, ClockInv, ClockTypeOK, EarlyOnlyAtFullSecond

\* Every step keeps it.
LEMMA ClockInvStep ==
    ASSUME ClockInv, [ClockNext]_clock
    PROVE  ClockInv'
<1> USE DEF ClockInv, ClockTypeOK
<1>1. CASE Tick
  BY <1>1, InstantsAssumption DEF Tick, EarlyOnlyAtFullSecond, Valid
<1>2. CASE Arm
  <2>1. start' \in Nat /\ ms' \in Nat /\ deadline' = Timespec(start', ms')
    BY <1>2, TimeoutsAssumption DEF Arm
  <2>2. deadline' \in [sec : Nat, nsec : Nat] /\ deadline'.nsec <= NsecPerSec
    BY <2>1, TimespecType
  <2>3. QED
    BY <1>2, <2>1, <2>2 DEF Arm, EarlyOnlyAtFullSecond
<1>3. CASE Refused
  <2>1. Timespec(start, ms).nsec = NsecPerSec
    BY SMT, <1>3 DEF Refused, Valid, NsecPerSec
  <2>2. Micros(start, ms) = UsecPerSec
    BY <2>1, TimespecType
  <2>3. QED
    BY <1>3, <2>2 DEF Refused, Finish, EarlyOnlyAtFullSecond
<1>4. CASE Block
  BY <1>4 DEF Block, EarlyOnlyAtFullSecond, Valid
<1>5. CASE TimedOut
  <2>1. now - start >= ms * 1000
    BY <1>5, ExactFromInv, ReachedMeansElapsed DEF TimedOut
  <2>2. QED
    BY <1>5, <2>1 DEF TimedOut, Finish, EarlyOnlyAtFullSecond
<1>6. CASE UNCHANGED clock
  BY <1>6 DEF clock, EarlyOnlyAtFullSecond, Valid
<1>7. QED
  BY <1>1, <1>2, <1>3, <1>4, <1>5, <1>6 DEF ClockNext

\* Every timespec that timedwait accepts names the instant asked for.
THEOREM DeadlinesExact == ClockSpec => []DeadlineExact
<1>1. ClockInit => ClockInv
  BY ClockInvInit
<1>2. ClockInv /\ [ClockNext]_clock => ClockInv'
  BY ClockInvStep
<1>3. QED
  BY <1>1, <1>2, ExactFromInv, PTL DEF ClockSpec

\* A wait is cut short only when the sum of microseconds is a full second.
THEOREM EarlyOnlyThen == ClockSpec => []EarlyOnlyAtFullSecond
<1>1. ClockInit => ClockInv
  BY ClockInvInit
<1>2. ClockInv /\ [ClockNext]_clock => ClockInv'
  BY ClockInvStep
<1>3. ClockInv => EarlyOnlyAtFullSecond
  BY DEF ClockInv
<1>4. QED
  BY <1>1, <1>2, <1>3, PTL DEF ClockSpec
=============================================================================
