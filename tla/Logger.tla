-------------------------------- MODULE Logger --------------------------------
(***************************************************************************)
(* The file logger of lib/c-logger-0.4.1 with the crash handler of         *)
(* lib/backtrace.c: threads that log under one mutex, the rotation of the  *)
(* log files, the flush that takes no mutex, faults that end in the        *)
(* handler, kills and restarts.                                            *)
(*                                                                         *)
(* Grain.  The rotation is one step per call that changes the file system  *)
(* or the stream, so that a kill finds every state in between and an       *)
(* unlocked flush meets every value of the stream.                         *)
(*                                                                         *)
(* Data.  All lines have one length.  A file is the sequence of the        *)
(* numbers of its lines; those of the last file that are still in the      *)
(* stdio buffer are lost by a kill, and their numbers given again.         *)
(***************************************************************************)
EXTENDS Integers, Sequences

CONSTANTS
    Thread,            \* the threads of the process
    Flusher,           \* those that call logger_flush: the event loop's
    LineLen,           \* bytes of a line
    MaxFileSize,       \* arguments of logger_initFileLogger
    MaxBackup,
    MaxLines,          \* bound on the lines logged before the threads stop
    MaxRestarts,       \* bound on the restarts
    MayFail            \* the calls that can fail: "open", "remove", "rename"

ASSUME FlusherAssumption == Flusher \subseteq Thread
ASSUME SizeAssumption ==
    /\ LineLen \in Nat \ {0} /\ MaxFileSize \in Nat \ {0}
    /\ MaxBackup \in 0 .. 255
    /\ MaxLines \in Nat /\ MaxRestarts \in Nat
ASSUME MayFailAssumption == MayFail \subseteq {"open", "remove", "rename"}

CONSTANT Nobody        \* the owner of the mutex while it is free
ASSUME NobodyAssumption == Nobody \notin Thread

VARIABLES
    up,                \* the process runs
    pc,                \* where each thread is
    owner,             \* the thread that holds s_mutex
    output,            \* s_flog.output: NULL, an open stream, a closed one
    size,              \* s_flog.currentFileSize
    idx,               \* i of the loop in rotateLogFiles
    held,              \* the stream a thread is about to flush, and its state
    faulted,           \* the thread is in segfault_handler
    files,             \* index of each log file there is -> its lines
    unflushed,         \* lines of the current file still in the buffer
    lines,             \* number of lines written
    restarts,          \* restarts so far
    failed             \* the calls that have failed so far

disk  == <<files, unflushed, lines>>
flog  == <<output, size>>
vars  == <<up, pc, owner, flog, idx, held, faulted, disk, restarts, failed>>

Index == 0 .. MaxBackup
Size(f) == LineLen * Len(f)

\* Mutant: the mode is "w".
OpenedEmpty(fs) ==
    [i \in DOMAIN fs \cup {0} |-> IF i = 0 THEN <<>> ELSE fs[i]]

\* The files after fopen(s_flog.filename, "a").
Opened(fs) ==
    [i \in DOMAIN fs \cup {0} |-> IF i \in DOMAIN fs THEN fs[i] ELSE <<>>]

Init ==
    /\ up = TRUE
    /\ pc = [t \in Thread |-> "idle"]
    /\ owner = Nobody
    /\ output = "open" /\ size = 0
    /\ idx = 0
    /\ held = [t \in Thread |-> "null"]
    /\ faulted = [t \in Thread |-> FALSE]
    /\ files = [i \in {0} |-> <<>>]
    /\ unflushed = 0 /\ lines = 0
    /\ restarts = 0
    /\ failed = {}

Move(t, from, to) == up /\ pc[t] = from /\ pc' = [pc EXCEPT ![t] = to]
-----------------------------------------------------------------------------
(***************************************************************************)
(* logger_log and rotateLogFiles.                                          *)
(***************************************************************************)

Call(t) ==
    /\ lines < MaxLines
    /\ Move(t, "idle", "lock")
    /\ UNCHANGED <<up, owner, flog, idx, held, faulted, disk, restarts, failed>>

\* s_mutex is not recursive: its owner waits for itself.
Lock(t) ==
    /\ owner = Nobody
    /\ Move(t, "lock", "rotate")
    /\ owner' = t
    /\ UNCHANGED <<up, flog, idx, held, faulted, disk, restarts, failed>>

\* Mutant: a file that is just full takes another line.
FullLate == size > MaxFileSize

\* The current file has no room left.
Full == size >= MaxFileSize

\* The size test of rotateLogFiles, and what follows where no rotation does.
Fits(t) ==
    /\ ~Full
    /\ Move(t, "rotate", IF output = "null" THEN "unlock" ELSE "write")
    /\ UNCHANGED <<up, owner, flog, idx, held, faulted, disk, restarts, failed>>

\* fclose(s_flog.output) writes the buffer out; whoever still holds the stream
\* holds freed memory.
CloseStream ==
    /\ output' = "closed"
    /\ unflushed' = 0
    /\ held' = [t \in Thread |-> IF held[t] = "open" THEN "closed" ELSE held[t]]

\* Mutant: the last backup file is never used.
CloseFullShort(t) ==
    /\ Full /\ output # "null"
    /\ Move(t, "rotate", IF MaxBackup <= 1 THEN "reopen" ELSE "remove")
    /\ CloseStream
    /\ idx' = MaxBackup - 1
    /\ UNCHANGED <<up, owner, size, faulted, files, lines, restarts, failed>>

\* The loop runs from the last backup down.
CloseFull(t) ==
    /\ Full /\ output # "null"
    /\ Move(t, "rotate", IF MaxBackup = 0 THEN "reopen" ELSE "remove")
    /\ CloseStream
    /\ idx' = MaxBackup
    /\ UNCHANGED <<up, owner, size, faulted, files, lines, restarts, failed>>

\* After a reopen that failed, the next call closes NULL: the thread faults
\* with the mutex in its hands, and its handler logs.
CloseNull(t) ==
    /\ Full /\ output = "null"
    /\ Move(t, "rotate", "lock")
    /\ faulted' = [faulted EXCEPT ![t] = TRUE]
    /\ UNCHANGED <<up, owner, flog, idx, held, disk, restarts, failed>>

\* A call that can fail, and does.
Fails(call) == call \in MayFail /\ failed' = failed \cup {call}

Without(i) == [j \in DOMAIN files \ {i} |-> files[j]]

\* Mutant: src is removed instead of dst.
RemoveSource(t) ==
    /\ Move(t, "remove", "rename")
    /\ files' = Without(idx - 1)
    /\ UNCHANGED <<up, owner, flog, idx, held, faulted, unflushed, lines,
                   restarts, failed>>

\* remove(dst), if there is a dst.
Remove(t) ==
    /\ Move(t, "remove", "rename")
    /\ \/ files' = Without(idx) /\ UNCHANGED failed
       \/ idx \in DOMAIN files /\ Fails("remove") /\ UNCHANGED files
    /\ UNCHANGED <<up, owner, flog, idx, held, faulted, unflushed, lines,
                   restarts>>

\* rename(2) replaces what the new name stood for.
Renamed(from, to) ==
    IF from \in DOMAIN files
    THEN [j \in (DOMAIN files \ {from}) \cup {to} |->
             IF j = to THEN files[from] ELSE files[j]]
    ELSE files

\* Mutant: the loop runs on to index 0.
RenameTooFar(t) ==
    /\ Move(t, "rename", IF idx = 0 THEN "reopen" ELSE "remove")
    /\ idx' = idx - 1
    /\ files' = Renamed(idx - 1, idx)
    /\ UNCHANGED <<up, owner, flog, held, faulted, unflushed, lines, restarts,
                   failed>>

\* rename(src, dst), if there is a src; then the next turn of the loop.
Rename(t) ==
    /\ Move(t, "rename", IF idx = 1 THEN "reopen" ELSE "remove")
    /\ idx' = idx - 1
    /\ \/ files' = Renamed(idx - 1, idx) /\ UNCHANGED failed
       \/ idx - 1 \in DOMAIN files /\ Fails("rename") /\ UNCHANGED files
    /\ UNCHANGED <<up, owner, flog, held, faulted, unflushed, lines, restarts>>

\* The stream opened at the end, and the size of the file it writes to.
Reopen(t) ==
    /\ \/ /\ Move(t, "reopen", "write")
          /\ files' = Opened(files)
          /\ output' = "open"
          /\ size' = Size(files'[0])
          /\ UNCHANGED failed
       \/ /\ Fails("open")
          /\ Move(t, "reopen", "unlock")
          /\ output' = "null"
          /\ UNCHANGED <<files, size>>
    /\ UNCHANGED <<up, owner, idx, held, faulted, unflushed, lines, restarts>>

\* vflog writes the line and, if the last flush is long ago, flushes.
Write(t) ==
    /\ Move(t, "write", "unlock")
    /\ lines' = lines + 1
    /\ files' = [files EXCEPT ![0] = Append(@, lines')]
    /\ size' = size + LineLen
    /\ unflushed' \in {0, unflushed + 1}
    /\ UNCHANGED <<up, owner, output, idx, held, faulted, restarts,
                   failed>>

\* The handler goes on to its flush.
Unlock(t) ==
    /\ Move(t, "unlock", IF faulted[t] THEN "load" ELSE "idle")
    /\ owner' = Nobody
    /\ UNCHANGED <<up, flog, idx, held, faulted, disk, restarts, failed>>

Log(t) ==
    \/ Lock(t) \/ Fits(t) \/ CloseFull(t) \/ CloseNull(t) \/ Remove(t)
    \/ Rename(t) \/ Reopen(t) \/ Write(t) \/ Unlock(t)
-----------------------------------------------------------------------------
(***************************************************************************)
(* logger_flush, without the mutex: it loads the pointer, then uses it.    *)
(***************************************************************************)

\* timer_cb.
TimerCb(t) ==
    /\ t \in Flusher
    /\ Move(t, "idle", "load")
    /\ UNCHANGED <<up, owner, flog, idx, held, faulted, disk, restarts, failed>>

FlushLoad(t) ==
    /\ Move(t, "load", "flush")
    /\ held' = [held EXCEPT ![t] = output]
    /\ UNCHANGED <<up, owner, flog, idx, faulted, disk, restarts, failed>>

\* fflush(NULL) flushes nothing of ours.  What the flush of a closed stream does
\* is undefined; here, nothing.
FlushDo(t) ==
    /\ Move(t, "flush", IF faulted[t] THEN "exit" ELSE "idle")
    /\ unflushed' = IF held[t] = "open" THEN 0 ELSE unflushed
    /\ held' = [held EXCEPT ![t] = "null"]
    /\ UNCHANGED <<up, owner, flog, idx, faulted, files, lines, restarts, failed>>
-----------------------------------------------------------------------------
(***************************************************************************)
(* Faults, the end of the process, and the next one.                       *)
(***************************************************************************)

\* A thread faults in its own code: segfault_handler logs.
Fault(t) ==
    /\ ~faulted[t]
    /\ Move(t, "idle", "lock")
    /\ faulted' = [faulted EXCEPT ![t] = TRUE]
    /\ UNCHANGED <<up, owner, flog, idx, held, disk, restarts, failed>>

\* The memory of the process goes with it.
End ==
    /\ up /\ up' = FALSE
    /\ pc' = [t \in Thread |-> "idle"]
    /\ owner' = Nobody
    /\ output' = "null" /\ size' = 0
    /\ idx' = 0
    /\ held' = [t \in Thread |-> "null"]
    /\ faulted' = [t \in Thread |-> FALSE]
    /\ unflushed' = 0
    /\ UNCHANGED <<restarts, failed>>

\* It ends and the buffer is lost.
Die ==
    /\ End
    /\ files' = IF unflushed = 0 THEN files
                ELSE [files EXCEPT ![0] = SubSeq(@, 1, Len(@) - unflushed)]
    /\ lines' = lines - unflushed

\* Mutant: the handler returns and its thread goes on.
HandlerReturns(t) ==
    /\ Move(t, "exit", "idle")
    /\ UNCHANGED <<up, owner, flog, idx, held, faulted, disk, restarts, failed>>

\* _exit(99).
HandlerExit(t) == pc[t] = "exit" /\ Die

\* SIGKILL, or the power.
Kill == restarts < MaxRestarts /\ Die

\* main has joined every thread and calls logger_close.
Close ==
    /\ \A t \in Thread : pc[t] = "idle"
    /\ End
    /\ UNCHANGED <<files, lines>>

Started ==
    /\ ~up /\ up' = TRUE
    /\ restarts < MaxRestarts
    /\ restarts' = restarts + 1
    /\ output' = "open"
    /\ files' = Opened(files)
    /\ UNCHANGED <<pc, owner, idx, held, faulted, unflushed, lines, failed>>

\* Mutant: a new process takes its log file for empty.
RestartEmpty == Started /\ size' = 0

\* logger_initFileLogger goes on with the file it finds.
Restart == Started /\ size' = Size(files'[0])

Crash(t) == FlushLoad(t) \/ FlushDo(t) \/ HandlerExit(t)

Next ==
    \/ \E t \in Thread : Call(t) \/ Log(t) \/ TimerCb(t) \/ Crash(t) \/ Fault(t)
    \/ Kill \/ Close \/ Restart

Spec == Init /\ [][Next]_vars

\* A thread inside the logger runs on.  Nobody is obliged to log, to flush on
\* the timer or to fault.
Fairness == \A t \in Thread : WF_vars(Log(t)) /\ WF_vars(Crash(t))

FairSpec == Spec /\ Fairness
-----------------------------------------------------------------------------
(***************************************************************************)
(* Properties.                                                             *)
(***************************************************************************)

PCs == {"idle", "lock", "rotate", "remove", "rename", "reopen", "write",
        "unlock", "load", "flush", "exit"}

\* The threads, the static structs of logger.c and the disk have their types.
TypeOK ==
    /\ up \in BOOLEAN
    /\ pc \in [Thread -> PCs]
    /\ owner \in Thread \cup {Nobody}
    /\ output \in {"null", "open", "closed"}
    /\ size \in Nat
    /\ idx \in Index
    /\ held \in [Thread -> {"null", "open", "closed"}]
    /\ faulted \in [Thread -> BOOLEAN]
    /\ DOMAIN files \subseteq Index
    /\ \A i \in DOMAIN files : files[i] \in Seq(Nat)
    /\ unflushed \in Nat /\ lines \in Nat
    /\ restarts \in 0 .. MaxRestarts
    /\ failed \subseteq MayFail

In(i) == {files[i][k] : k \in 1 .. Len(files[i])}
Kept == UNION {In(i) : i \in DOMAIN files}

\* Whatever fails and whenever the process dies, the lines are in order: within
\* a file, and from each file to the next younger one; and the last line
\* written is among them.
NewestKeptInOrder ==
    /\ \A i \in DOMAIN files :
        \A k \in 1 .. Len(files[i]) - 1 : files[i][k] < files[i][k + 1]
    /\ \A i, j \in DOMAIN files : i < j => \A a \in In(i), b \in In(j) : b < a
    /\ lines > 0 => lines \in Kept

\* While the renames succeed, the files together hold the youngest lines
\* without a gap: also after a kill in the middle of a rotation, a remove or a
\* reopen that failed.
NoGap ==
    "rename" \notin failed => \E first \in 1 .. lines + 1 : Kept = first .. lines

\* The files are one log: ordered, without a gap, up to the last line.
OneLog == TypeOK /\ NewestKeptInOrder /\ NoGap

\* A process that is not killed erases lines only when every backup file it is
\* allowed is there.
ErasesOnlyWhenFull ==
    (/\ up /\ restarts = 0 /\ failed \subseteq {"remove"} /\ owner = Nobody
     /\ lines > 0 /\ 1 \notin Kept) => DOMAIN files = Index

\* Between two calls, currentFileSize is the size of the current file, the
\* buffered lines included: also in a process that found a file of an earlier
\* one, and after a rotation that failed half-way.  It is tested before a line
\* is written, so that no file exceeds its limit by a whole line, whoever is
\* killed or restarted when, unless a rename fails, or there is no backup to
\* rename it to, and the full file stays the current one.
OverByLessThanALine ==
    /\ (up /\ owner = Nobody /\ output = "open") => size = Size(files[0])
    /\ "rename" \notin failed /\ MaxBackup > 0
          => \A i \in DOMAIN files : Size(files[i]) < MaxFileSize + LineLen

\* Rotation keeps to its two limits, MaxFileSize and MaxBackup.
LimitsKept == ErasesOnlyWhenFull /\ OverByLessThanALine

\* A thread that faults gets the mutex, logs and ends the process, whatever the
\* others do in the logger: as long as every reopen succeeds.
FaultEndsProcess == \A t \in Thread : faulted[t] ~> (~up \/ "open" \in failed)
=============================================================================
