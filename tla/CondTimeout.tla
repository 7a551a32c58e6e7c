----------------------------- MODULE CondTimeout -----------------------------
(***************************************************************************)
(* The clock arithmetic under cchan_waittime: cchan_cond_waittime_1 reads  *)
(* the time of day, turns "ms milliseconds from now" into an absolute      *)
(* timespec and waits until then.  One thread calls it over and over on a  *)
(* channel to which nobody sends, so that only the deadline ends a wait.   *)
(* The names differ from those of CChan, so that a module may extend both. *)
(*                                                                         *)
(* Times are microseconds since an arbitrary full second.  The code's      *)
(* tv_nsec is a 64-bit long, and its intermediate value stays below        *)
(* 2 000 000 000, so it does not wrap.                                     *)
(***************************************************************************)
EXTENDS Integers

CONSTANTS
    Instants,          \* the readings of the clock that a behaviour may see
    Timeouts           \* the ms with which cchan_waittime is called

ASSUME InstantsAssumption == Instants \subseteq Nat
ASSUME TimeoutsAssumption == Timeouts \subseteq Nat

VARIABLES
    now,               \* the clock
    call,              \* idle, armed (deadline computed), waiting, returned
    start,             \* when the call read the clock
    ms,                \* its argument
    deadline,          \* its timespec
    waited             \* how long the call took, once it has returned

clock == <<now, call, start, ms, deadline, waited>>

UsecPerSec == 1000000
NsecPerSec == 1000000000

\* The microseconds behind the second: of the reading t, plus the timeout's.
Micros(t, m) == (t % UsecPerSec) + (m % 1000) * 1000

\* Mutant: the carry is not taken out of tv_nsec.
TimespecNoCarry(t, m) ==
    [sec  |-> (t \div UsecPerSec) + (m \div 1000),
     nsec |-> Micros(t, m) * 1000]

\* Mutant: the carry is taken out of tv_nsec and not put into tv_sec.
TimespecLostSecond(t, m) ==
    [sec  |-> (t \div UsecPerSec) + (m \div 1000),
     nsec |-> (Micros(t, m) * 1000) % NsecPerSec]

\* The timespec computed from a clock reading t.
Timespec(t, m) ==
    LET sec  == (t \div UsecPerSec) + (m \div 1000)
        nsec == Micros(t, m) * 1000
    IN  IF nsec > NsecPerSec
        THEN [sec |-> sec + 1, nsec |-> nsec - NsecPerSec]
        ELSE [sec |-> sec, nsec |-> nsec]

\* pthread_cond_timedwait takes a timespec only with tv_nsec below a second.
Valid(ts) == ts.nsec < NsecPerSec

\* The clock has reached the timespec.
Reached(ts) ==
    \/ now \div UsecPerSec > ts.sec
    \/ /\ now \div UsecPerSec = ts.sec
       /\ (now % UsecPerSec) * 1000 >= ts.nsec

ClockInit ==
    /\ now \in Instants
    /\ call = "idle"
    /\ start = now
    /\ ms \in Timeouts
    /\ deadline = Timespec(start, ms)
    /\ waited = 0

Tick ==
    /\ now' \in Instants
    /\ now' > now
    /\ UNCHANGED <<call, start, ms, deadline, waited>>

\* gettimeofday and the arithmetic.
Arm ==
    /\ call \in {"idle", "returned"}
    /\ call' = "armed"
    /\ start' = now
    /\ ms' \in Timeouts
    /\ deadline' = Timespec(now, ms')
    /\ waited' = 0
    /\ UNCHANGED now

Finish ==
    /\ call' = "returned"
    /\ waited' = now - start
    /\ UNCHANGED <<now, start, ms, deadline>>

\* EINVAL: timedwait returns at once, without waiting.
Refused ==
    /\ call = "armed"
    /\ ~Valid(deadline)
    /\ Finish

Block ==
    /\ call = "armed"
    /\ Valid(deadline)
    /\ call' = "waiting"
    /\ UNCHANGED <<now, start, ms, deadline, waited>>

\* ETIMEDOUT.
TimedOut ==
    /\ call = "waiting"
    /\ Reached(deadline)
    /\ Finish

ClockNext == Tick \/ Arm \/ Refused \/ Block \/ TimedOut

ClockSpec == ClockInit /\ [][ClockNext]_clock
-----------------------------------------------------------------------------
(***************************************************************************)
(* Properties.                                                             *)
(***************************************************************************)

\* The clock, the call and its deadline have their types.
ClockTypeOK ==
    /\ now \in Nat
    /\ call \in {"idle", "armed", "waiting", "returned"}
    /\ start \in Nat
    /\ ms \in Nat
    /\ deadline \in [sec : Nat, nsec : Nat]
    /\ deadline.nsec <= NsecPerSec
    /\ waited \in Nat

\* A valid timespec names exactly the microsecond start + ms * 1000, across
\* every carry from nanoseconds into seconds.
DeadlineExact ==
    Valid(deadline) =>
        LET at == start + ms * 1000
        IN  deadline = [sec  |-> at \div UsecPerSec,
                        nsec |-> (at % UsecPerSec) * 1000]

\* A call that nothing interrupts comes back too early for one reason only:
\* its microseconds and its milliseconds add up to exactly one second.
EarlyOnlyAtFullSecond ==
    (call = "returned" /\ waited < ms * 1000) =>
        Micros(start, ms) = UsecPerSec
=============================================================================
