-------------------------------- MODULE CChan --------------------------------
(***************************************************************************)
(* The channel of lib/cchan-0.1: a ring buffer that doubles when full,     *)
(* under a mutex, with one condition variable for its blocked readers.     *)
(*                                                                         *)
(* Grain.  The mutex is held from lock to unlock, and cond_wait gives it   *)
(* up, so a step is one stretch of code between two of these points: a     *)
(* whole cchan_send or cchan_recv, the part of cchan_wait before its       *)
(* cond_wait, one turn of its loop after a wakeup, and the two halves of   *)
(* cchan_waittime.                                                         *)
(*                                                                         *)
(* Data.  A value is the number of the send that put it in the channel, so *)
(* loss, duplication, reordering and the reading of a slot that was never  *)
(* written all show.                                                       *)
(***************************************************************************)
EXTENDS Integers, FiniteSets

CONSTANTS
    Reader,            \* threads that receive
    MaxSend,           \* bound on the number of sends of a behaviour
    Spurious           \* whether a wait may end by itself, as POSIX allows

ASSUME ReaderAssumption == IsFiniteSet(Reader)
ASSUME MaxSendAssumption == MaxSend \in Nat
ASSUME SpuriousAssumption == Spurious \in BOOLEAN

VARIABLES
    alloc,             \* allocated entries in data
    next,              \* index of next written entry
    first,             \* index of first contained entry
    used,              \* number of used entries
    data,              \* the entries, 0 .. alloc-1
    pc,                \* where each reader is
    op,                \* the function a reader is in
    elapsed,           \* its ms milliseconds have passed (cchan_waittime)
    ret,               \* the value its last call returned, 0 for none
    sent, taken,       \* numbers of messages sent and received so far
    running            \* FALSE once realloc failed and abort() was called

ring == <<alloc, next, first, used, data>>
vars == <<ring, pc, op, elapsed, ret, sent, taken, running>>

Ops == {"recv", "wait", "waittime"}

\* idle: outside the channel; enter: called, wants the mutex; blocked: queued
\* on the condition variable; woken: off it again, wants the mutex back.
PCs == {"idle", "enter", "blocked", "woken"}

Blocked == {r \in Reader : pc[r] = "blocked"}
Woken   == {r \in Reader : pc[r] = "woken"}

\* What malloc and realloc leave in an entry: not the value of any send.
Uninit == 0

Init ==
    /\ alloc = 1
    /\ next = 0
    /\ first = 0
    /\ used = 0
    /\ data = [i \in {0} |-> Uninit]
    /\ pc = [r \in Reader |-> "idle"]
    /\ op = [r \in Reader |-> "recv"]
    /\ elapsed = [r \in Reader |-> FALSE]
    /\ ret = [r \in Reader |-> 0]
    /\ sent = 0
    /\ taken = 0
    /\ running = TRUE
-----------------------------------------------------------------------------
(***************************************************************************)
(* Sending.                                                                *)
(***************************************************************************)

\* Mutant: the wrap comes one entry late.
AdvanceLate(i, n) == IF i = n THEN 0 ELSE i + 1

\* The index after i in a buffer of n entries.
Advance(i, n) == IF i + 1 = n THEN 0 ELSE i + 1

\* Mutant: the memcpy after the realloc is missing.
ExpandedUncopied ==
    [i \in 0 .. 2 * alloc - 1 |-> IF i < alloc THEN data[i] ELSE Uninit]

\* The doubled buffer: realloc keeps the old entries, and memcpy repeats
\* those before first behind the old end, where they follow on.
Expanded ==
    [i \in 0 .. 2 * alloc - 1 |->
        IF i < alloc THEN data[i]
        ELSE IF i - alloc < first THEN data[i - alloc]
        ELSE Uninit]

\* Mutant: the write index stays where it was in the smaller buffer.
RoomUnmoved ==
    IF used = alloc
    THEN [alloc |-> 2 * alloc, data |-> Expanded, next |-> next]
    ELSE [alloc |-> alloc, data |-> data, next |-> next]

\* The buffer and the write index as the store of the value finds them.
Room ==
    IF used = alloc
    THEN [alloc |-> 2 * alloc, data |-> Expanded, next |-> alloc + first]
    ELSE [alloc |-> alloc, data |-> data, next |-> next]

\* Mutant: a send signals only when it finds the ring empty.
SignalWhenEmpty ==
    IF used > 0 \/ Blocked = {} THEN pc' = pc
    ELSE \E r \in Blocked : pc' = [pc EXCEPT ![r] = "woken"]

\* pthread_cond_signal: one blocked reader, any one, is woken.
Signal ==
    IF Blocked = {} THEN pc' = pc
    ELSE \E r \in Blocked : pc' = [pc EXCEPT ![r] = "woken"]

Send ==
    /\ running
    /\ sent < MaxSend
    /\ alloc' = Room.alloc
    /\ data' = [Room.data EXCEPT ![Room.next] = sent + 1]
    /\ next' = Advance(Room.next, Room.alloc)
    /\ used' = used + 1
    /\ sent' = sent + 1
    /\ Signal
    /\ UNCHANGED <<first, op, elapsed, ret, taken, running>>

\* realloc returns NULL: the process aborts.
SendAbort ==
    /\ running
    /\ sent < MaxSend
    /\ used = alloc
    /\ running' = FALSE
    /\ UNCHANGED <<ring, pc, op, elapsed, ret, sent, taken>>
-----------------------------------------------------------------------------
(***************************************************************************)
(* Receiving.                                                              *)
(***************************************************************************)

Call(r, f) ==
    /\ running
    /\ pc[r] = "idle"
    /\ pc' = [pc EXCEPT ![r] = "enter"]
    /\ op' = [op EXCEPT ![r] = f]
    /\ elapsed' = [elapsed EXCEPT ![r] = FALSE]
    /\ ret' = [ret EXCEPT ![r] = 0]
    /\ UNCHANGED <<ring, sent, taken, running>>

\* Copy the first entry out, move first on, unlock and return.
Take(r) ==
    /\ used # 0
    /\ ret' = [ret EXCEPT ![r] = data[first]]
    /\ first' = Advance(first, alloc)
    /\ used' = used - 1
    /\ taken' = taken + 1
    /\ pc' = [pc EXCEPT ![r] = "idle"]
    /\ UNCHANGED <<alloc, next, data>>

\* Unlock and return 0, or block on the condition variable.
Leave(r, to) ==
    /\ used = 0
    /\ pc' = [pc EXCEPT ![r] = to]
    /\ UNCHANGED <<ring, ret, taken>>

Recv(r) ==
    /\ running
    /\ pc[r] = "enter" /\ op[r] = "recv"
    /\ Take(r) \/ Leave(r, "idle")
    /\ UNCHANGED <<op, elapsed, sent, running>>

\* One turn of the loop of cchan_wait, its first or one after a wakeup.
Wait(r) ==
    /\ running
    /\ pc[r] \in {"enter", "woken"} /\ op[r] = "wait"
    /\ Take(r) \/ Leave(r, "blocked")
    /\ UNCHANGED <<op, elapsed, sent, running>>

WaitTime(r) ==
    /\ running
    /\ pc[r] = "enter" /\ op[r] = "waittime"
    /\ Take(r) \/ Leave(r, "blocked")
    /\ UNCHANGED <<op, elapsed, sent, running>>

\* Mutant: woken to an empty ring, cchan_waittime waits again.
WaitTimeAgain(r) ==
    /\ running
    /\ pc[r] = "woken" /\ op[r] = "waittime"
    /\ Take(r) \/ Leave(r, "blocked")
    /\ UNCHANGED <<op, elapsed, sent, running>>

\* The second half of cchan_waittime looks once more, whatever woke it.
WaitTimeWoken(r) ==
    /\ running
    /\ pc[r] = "woken" /\ op[r] = "waittime"
    /\ Take(r) \/ Leave(r, "idle")
    /\ UNCHANGED <<op, elapsed, sent, running>>
-----------------------------------------------------------------------------
(***************************************************************************)
(* What the condition variable may do by itself.                           *)
(***************************************************************************)

\* The deadline of cond_timedwait passes.
Elapse(r) ==
    /\ running
    /\ pc[r] \in {"blocked", "woken"} /\ op[r] = "waittime"
    /\ ~elapsed[r]
    /\ elapsed' = [elapsed EXCEPT ![r] = TRUE]
    /\ pc' = [pc EXCEPT ![r] = "woken"]
    /\ UNCHANGED <<ring, op, ret, sent, taken, running>>

\* POSIX allows a wait to end without a signal.
SpuriousWakeup(r) ==
    /\ running
    /\ Spurious
    /\ pc[r] = "blocked"
    /\ pc' = [pc EXCEPT ![r] = "woken"]
    /\ UNCHANGED <<ring, op, elapsed, ret, sent, taken, running>>
-----------------------------------------------------------------------------
Receive(r) == Recv(r) \/ Wait(r) \/ WaitTime(r) \/ WaitTimeWoken(r)

Next ==
    \/ Send
    \/ SendAbort
    \/ \E r \in Reader :
        \/ \E f \in Ops : Call(r, f)
        \/ Receive(r)
        \/ Elapse(r)
        \/ SpuriousWakeup(r)

Spec == Init /\ [][Next]_vars

\* A thread that wants the mutex gets it and runs on, and time passes.
\* Nobody is obliged to send, or to call.
Fairness == \A r \in Reader : WF_vars(Receive(r)) /\ WF_vars(Elapse(r))

FairSpec == Spec /\ Fairness
-----------------------------------------------------------------------------
(***************************************************************************)
(* Properties.                                                             *)
(***************************************************************************)

\* Every field of cchan_t, and every reader's place in the code, has its type.
TypeOK ==
    /\ alloc \in Nat \ {0}
    /\ next \in 0 .. alloc - 1
    /\ first \in 0 .. alloc - 1
    /\ used \in 0 .. alloc
    /\ data \in [0 .. alloc - 1 -> Nat]
    /\ pc \in [Reader -> PCs]
    /\ op \in [Reader -> Ops]
    /\ elapsed \in [Reader -> BOOLEAN]
    /\ ret \in [Reader -> Nat]
    /\ sent \in 0 .. MaxSend
    /\ taken \in 0 .. MaxSend
    /\ running \in BOOLEAN

\* The slot of the k-th entry counted from the first one.
Slot(k) == IF first + k < alloc THEN first + k ELSE first + k - alloc

\* The entries of the ring, read from first, are exactly the messages sent
\* and not yet received, oldest first, across every wrap of first and next
\* and every doubling of a buffer that has wrapped; next is the slot behind
\* the last of them.
RingHoldsBacklog ==
    /\ next = Slot(used)
    /\ sent = taken + used
    /\ \A k \in 0 .. used - 1 : data[Slot(k)] = taken + 1 + k

\* As long as some reader is blocked, there are at least as many woken readers
\* on their way to the ring as it has entries: one signal a send, and the
\* second look of cchan_waittime, lose no wakeup.
NoLostWakeup == Blocked # {} => used <= Cardinality(Woken)

\* The channel is a first-in first-out queue that delivers every message to
\* one reader only, and gives nothing only when it is empty.
Queue == INSTANCE Fifo WITH busy <- [r \in Reader |-> pc[r] # "idle"]
ImplementsFifo == Queue!Spec

\* cchan_waittime returns, with a value or without, whatever the others do.
TimedCallReturns ==
    \A r \in Reader :
        (op[r] = "waittime" /\ pc[r] # "idle") ~> (pc[r] = "idle" \/ ~running)

\* No reader stays blocked in cchan_wait beside a message that stays in the
\* ring.
NoReaderLeftBehind ==
    \A r \in Reader :
        (used > 0 /\ pc[r] = "blocked")
            ~> (used = 0 \/ pc[r] # "blocked" \/ ~running)

\* What the receives of cchan.c promise their callers: to come back.
ReadersServed == TimedCallReturns /\ NoReaderLeftBehind
=============================================================================
