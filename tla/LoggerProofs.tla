------------------------------ MODULE LoggerProofs ------------------------------
(***************************************************************************)
(* Proofs about the file logger for any number of threads, lines, backup   *)
(* files, failures, kills and restarts: the files are one log (OneLog) and *)
(* the rotation keeps to its limits (LimitsKept).                          *)
(*                                                                         *)
(* What a call of the file system does to the files is said of two values  *)
(* of the variable, by lemmas without a state; the inductive invariant     *)
(* adds to them who may be in the rotation, and how far it has come.       *)
(***************************************************************************)
EXTENDS Logger, TLAPS

\* The types of TypeOK, but for the files.
TypeFlog ==
    /\ up \in BOOLEAN
    /\ pc \in [Thread -> PCs]
    /\ owner \in Thread \cup {Nobody}
    /\ output \in {"null", "open", "closed"}
    /\ size \in Nat
    /\ idx \in Index
    /\ held \in [Thread -> {"null", "open", "closed"}]
    /\ faulted \in [Thread -> BOOLEAN]
    /\ unflushed \in Nat /\ lines \in Nat
    /\ restarts \in 0 .. MaxRestarts
    /\ failed \subseteq MayFail

\* Files with lines in them.
Disk(f) == DOMAIN f \subseteq Index /\ \A i \in DOMAIN f : f[i] \in Seq(Nat)

\* Each file holds consecutive lines, of 1 .. n, younger than those of the files
\* behind it; the current file ends with line n.
Runs(f) == \A i \in DOMAIN f : \A k, l \in 1 .. Len(f[i]) : f[i][l] = f[i][k] + (l - k)
Descend(f) ==
    \A i, j \in DOMAIN f : i < j =>
        \A k \in 1 .. Len(f[i]), l \in 1 .. Len(f[j]) : f[j][l] < f[i][k]
Within(f, n) == \A i \in DOMAIN f : \A k \in 1 .. Len(f[i]) : f[i][k] \in 1 .. n
Ends(f, n) ==
    0 \in DOMAIN f => Len(f[0]) <= n /\ \A k \in 1 .. Len(f[0]) : f[0][k] = n - Len(f[0]) + k
Sound(f, n) == Runs(f) /\ Descend(f) /\ Within(f, n) /\ Ends(f, n)

\* Line a is in some file.
Holds(f, a) == \E i \in DOMAIN f : \E k \in 1 .. Len(f[i]) : f[i][k] = a

\* From f to g line n is added, or the lines of S are lost.
Gains(f, g, n) == \A a \in Nat : Holds(g, a) <=> Holds(f, a) \/ a = n
Loses(f, g, S) == \A a \in Nat : Holds(g, a) <=> Holds(f, a) /\ ~(a \in S)

\* Line a is in some file but file o.
HoldsBut(f, o, a) == \E i \in DOMAIN f \ {o} : \E k \in 1 .. Len(f[i]) : f[i][k] = a

\* File o, if there, is behind all others.
Oldest(f, o) == o \in DOMAIN f => \A i \in DOMAIN f : i <= o

\* The files hold the youngest lines, up to n, without a gap.
Gapless(f, n) == \E first \in 1 .. n + 1 : \A a \in Nat : Holds(f, a) <=> a \in first .. n

\* There is a current file, and a line in it.
Begun(f) == 0 \in DOMAIN f /\ Len(f[0]) > 0

\* The files on the disk.  The last line that is not in the buffer is among
\* them.
FilesRight ==
    /\ Disk(files) /\ Sound(files, lines)
    /\ lines - unflushed > 0 => Holds(files, lines - unflushed)
    /\ "rename" \notin failed => Gapless(files, lines)

Inside == {"rotate", "remove", "rename", "reopen", "write", "unlock"}
Rotation == {"remove", "rename", "reopen"}

\* One thread at a time is in the logger; a process that is down is in none of
\* its threads.
Mutex ==
    /\ \A t \in Thread : pc[t] \in Inside => owner = t
    /\ ~up => output = "null" /\ \A t \in Thread : pc[t] = "idle"

\* The stream, the buffer and currentFileSize belong to the current file, but
\* for the time of a rotation.
Stream ==
    /\ output = "open" =>
          /\ up /\ 0 \in DOMAIN files
          /\ size = Size(files[0]) /\ unflushed <= Len(files[0])
    /\ output # "open" => unflushed = 0
    /\ output = "closed" => \E t \in Thread : pc[t] \in Rotation
    /\ \A t \in Thread : pc[t] \in Rotation => output = "closed"
    /\ \A t \in Thread : pc[t] = "write" => output = "open"

\* The loop of the rotation: until the current file is renamed the newest line
\* is in it; and the name the next file is to get is free.
Turns ==
    \A t \in Thread :
        /\ pc[t] \in {"remove", "rename"} => idx >= 1 /\ Begun(files)
        /\ pc[t] = "reopen" => idx = 0
        /\ pc[t] \in Rotation /\ "rename" \notin failed /\ idx < MaxBackup => idx \notin DOMAIN files

\* No file is larger than the limit by a whole line, and the one that is written
\* to has reached it not at all.
Limited ==
    "rename" \notin failed /\ MaxBackup > 0 =>
        /\ \A i \in DOMAIN files : Size(files[i]) < MaxFileSize + LineLen
        /\ \A t \in Thread : pc[t] = "write" => size < MaxFileSize

\* The names of the files are without a hole, but for those of S, and only when
\* all names are taken the first of n lines is gone.
Linked(f, n, S) ==
    /\ \A i \in DOMAIN f : 0 .. i \subseteq DOMAIN f \cup S
    /\ n > 0 /\ ~Holds(f, 1) => Index \subseteq DOMAIN f \cup S

\* Such are the files of a process that was not killed, the name that the
\* rotation is about to give being the hole.
Hole == IF \E t \in Thread : pc[t] \in Rotation THEN {idx} ELSE {}
Chained ==
    up /\ restarts = 0 /\ failed \subseteq {"remove"} => Linked(files, lines, Hole)

\* The inductive invariant.
IInv ==
    /\ TypeFlog /\ FilesRight
    /\ Mutex /\ Stream /\ Turns /\ Limited /\ Chained
-----------------------------------------------------------------------------
(***************************************************************************)
(* What the calls of the file system do to the files.                      *)
(***************************************************************************)

\* The last line of the current file.
LEMMA NewestInCurrent ==
    ASSUME NEW f, NEW n \in Nat, Disk(f), Sound(f, n), Begun(f)
    PROVE  Holds(f, n)
<1>1. Len(f[0]) \in Nat /\ 0 \in DOMAIN f
  BY DEF Disk, Begun
<1>2. Len(f[0]) \in 1 .. Len(f[0])
  BY <1>1 DEF Begun
<1>3. f[0][Len(f[0])] = n
  BY <1>1, <1>2 DEF Sound, Ends
<1>4. QED
  BY <1>1, <1>2, <1>3 DEF Holds

\* Fewer files, each with the lines it had.
LEMMA Fewer ==
    ASSUME NEW f, NEW n \in Nat, Disk(f), Sound(f, n),
           NEW g, DOMAIN g \subseteq DOMAIN f, \A i \in DOMAIN g : g[i] = f[i]
    PROVE  Disk(g) /\ Sound(g, n)
<1>1. Disk(g)
  BY DEF Disk
<1>2. Runs(g)
  BY DEF Sound, Runs
<1>3. Descend(g)
  BY DEF Sound, Descend
<1>4. Within(g, n)
  BY DEF Sound, Within
<1>5. Ends(g, n)
  BY DEF Sound, Ends
<1>6. QED
  BY <1>1, <1>2, <1>3, <1>4, <1>5 DEF Sound

\* Without the oldest file the others have no gap either.
LEMMA OldestGone ==
    ASSUME NEW f, NEW n \in Nat, Disk(f), Sound(f, n), Gapless(f, n),
           NEW o, Oldest(f, o),
           NEW g, \A a : Holds(g, a) <=> HoldsBut(f, o, a)
    PROVE  Gapless(g, n)
<1> USE DEF Oldest, HoldsBut
<1>1. PICK first \in 1 .. n + 1 : \A a \in Nat : Holds(f, a) <=> a \in first .. n
  BY DEF Gapless
<1>2. CASE o \notin DOMAIN f \/ Len(f[o]) = 0
  <2>1. \A i \in DOMAIN f : i = o => 1 .. Len(f[i]) = {}
    BY <1>2
  <2>3. \A a : Holds(g, a) <=> Holds(f, a)
    BY <2>1 DEF Holds
  <2>2. QED
    BY <1>1, <2>3 DEF Gapless
<1>3. CASE o \in DOMAIN f /\ Len(f[o]) # 0
  <2>0. Len(f[o]) \in Nat /\ Len(f[o]) \in 1 .. Len(f[o]) /\ f[o] \in Seq(Nat) /\ o \in Int
    BY <1>3 DEF Disk, Index
  <2> DEFINE last == f[o][Len(f[o])]
  <2>1. last \in first .. n
    BY <1>1, <1>3, <2>0 DEF Holds
  <2>2. ASSUME NEW k \in 1 .. Len(f[o]) PROVE f[o][k] <= last /\ f[o][k] \in Nat
    <3>1. last = f[o][k] + (Len(f[o]) - k)
      BY <1>3, <2>0 DEF Sound, Runs
    <3>2. QED
      BY <2>0, <3>1
  <2>3. ASSUME NEW i \in DOMAIN f \ {o}, NEW k \in 1 .. Len(f[i]) PROVE f[i][k] > last
    <3>1. i < o
      BY <1>3, <2>0 DEF Disk, Index
    <3>2. QED
      BY <1>3, <2>0, <3>1 DEF Sound, Descend
  <2>4. ASSUME NEW a \in Nat PROVE Holds(g, a) <=> a \in last + 1 .. n
    <3>1. Holds(g, a) => a \in last + 1 .. n
      <4>1. Holds(g, a) => \E i \in DOMAIN f \ {o} : \E k \in 1 .. Len(f[i]) : f[i][k] = a
        OBVIOUS
      <4>3. Holds(g, a) => Holds(f, a)
        BY <4>1 DEF Holds
      <4>4. Holds(g, a) => a > last
        BY <4>1, <2>3
      <4>2. QED
        BY <1>1, <2>1, <4>3, <4>4
    <3>2. a \in last + 1 .. n => Holds(g, a)
      <4>1. a \in last + 1 .. n => Holds(f, a) /\ ~(a <= last)
        BY <1>1, <2>1
      <4>2. QED
        <5> SUFFICES ASSUME Holds(f, a), ~(a <= last) PROVE Holds(g, a)
          BY <4>1
        <5>1. PICK i \in DOMAIN f : \E k \in 1 .. Len(f[i]) : f[i][k] = a
          BY DEF Holds
        <5>2. i # o
          BY <2>2, <5>1
        <5>3. QED
          BY <5>1, <5>2
    <3>3. QED
      BY <3>1, <3>2
  <2>5. last + 1 \in 1 .. n + 1
    BY <2>1
  <2>6. QED
    BY <2>4, <2>5 DEF Gapless
<1>4. QED
  BY <1>2, <1>3

\* remove of a backup file: the newest line stays, and no gap arises where the
\* oldest file goes.
LEMMA Removed ==
    ASSUME NEW f, NEW n \in Nat, Disk(f), Sound(f, n),
           NEW i \in Index, i >= 1,
           NEW g, g = [j \in DOMAIN f \ {i} |-> f[j]]
    PROVE  /\ Disk(g) /\ Sound(g, n)
           /\ Begun(f) => Begun(g)
           /\ Oldest(f, i) /\ Gapless(f, n) => Gapless(g, n)
<1>1. DOMAIN g = DOMAIN f \ {i} /\ \A j \in DOMAIN g : g[j] = f[j]
  OBVIOUS
<1>2. Disk(g) /\ Sound(g, n)
  BY <1>1, Fewer
<1>3. Begun(f) => Begun(g)
  BY <1>1 DEF Begun, Index
<1>4. \A a : Holds(g, a) <=> HoldsBut(f, i, a)
  BY <1>1 DEF Holds, HoldsBut
<1>5. Oldest(f, i) /\ Gapless(f, n) => Gapless(g, n)
  <2> SUFFICES ASSUME Oldest(f, i), Gapless(f, n) PROVE Gapless(g, n)
    OBVIOUS
  <2>1. QED
    BY <1>2, <1>4, OldestGone
<1>6. QED
  BY <1>2, <1>3, <1>5

\* rename of file i - 1 to i: the lines of file i are lost, if there is one.
LEMMA Renames ==
    ASSUME NEW f, NEW n \in Nat, Disk(f), Sound(f, n),
           NEW i \in Index, i >= 1, i - 1 \in DOMAIN f,
           NEW g, g = [j \in (DOMAIN f \ {i - 1}) \cup {i} |-> IF j = i THEN f[i - 1] ELSE f[j]]
    PROVE  /\ Disk(g) /\ Sound(g, n)
           /\ Begun(f) /\ i > 1 => Begun(g)
           /\ Begun(f) => Holds(g, n)
           /\ Oldest(f, i) /\ Gapless(f, n) => Gapless(g, n)
<1>0. i \in Int /\ i # i - 1
  BY DEF Index
<1>1. /\ DOMAIN g = (DOMAIN f \ {i - 1}) \cup {i}
      /\ g[i] = f[i - 1]
      /\ \A j \in DOMAIN g : j # i => j \in DOMAIN f /\ g[j] = f[j]
      /\ i - 1 \notin DOMAIN g
  BY DEF Index
<1>2. Disk(g)
  BY <1>1 DEF Disk
<1> DEFINE from(j) == IF j = i THEN i - 1 ELSE j
<1>3. \A j \in DOMAIN g : from(j) \in DOMAIN f \ {i} /\ g[j] = f[from(j)] /\ from(j) \in Int /\ j \in Int
  BY <1>1 DEF Disk, Index
<1>4. \A j, k \in DOMAIN g : j < k => from(j) < from(k)
  <2> TAKE j, k \in DOMAIN g
  <2>1. j \in Int /\ k \in Int /\ i \in Int /\ j # i - 1 /\ k # i - 1
    BY <1>1, <1>3 DEF Index
  <2>2. CASE j = i
    <3>1. j < k => from(j) = i - 1 /\ from(k) = k /\ i < k
      BY <2>1, <2>2
    <3> HIDE DEF from
    <3>2. QED
      BY <2>1, <3>1
  <2>3. CASE k = i
    <3>1. j < k => from(j) = j /\ from(k) = i - 1 /\ j < i /\ j # i - 1
      BY <2>1, <2>3
    <3> HIDE DEF from
    <3>2. QED
      BY <2>1, <3>1
  <2>4. CASE j # i /\ k # i
    BY <2>4
  <2>5. QED
    BY <2>2, <2>3, <2>4
<1> HIDE DEF from
<1>5. Sound(g, n)
  <2>1. Runs(g)
    <3> SUFFICES ASSUME NEW j \in DOMAIN g PROVE \A k, l \in 1 .. Len(g[j]) : g[j][l] = g[j][k] + (l - k)
      BY DEF Runs
    <3>1. from(j) \in DOMAIN f /\ g[j] = f[from(j)]
      BY <1>3
    <3>2. QED
      BY <3>1 DEF Sound, Runs
  <2>2. Descend(g)
    <3> SUFFICES ASSUME NEW j \in DOMAIN g, NEW m \in DOMAIN g, j < m
                 PROVE  \A k \in 1 .. Len(g[j]), l \in 1 .. Len(g[m]) : g[m][l] < g[j][k]
      BY DEF Descend
    <3>1. from(j) < from(m) /\ from(j) \in DOMAIN f /\ from(m) \in DOMAIN f
          /\ g[j] = f[from(j)] /\ g[m] = f[from(m)]
      BY <1>3, <1>4
    <3>2. QED
      BY <3>1 DEF Sound, Descend
  <2>3. Within(g, n)
    <3> SUFFICES ASSUME NEW j \in DOMAIN g PROVE \A k \in 1 .. Len(g[j]) : g[j][k] \in 1 .. n
      BY DEF Within
    <3>1. from(j) \in DOMAIN f /\ g[j] = f[from(j)]
      BY <1>3
    <3>2. QED
      BY <3>1 DEF Sound, Within
  <2>4. 0 \in DOMAIN g => 0 \in DOMAIN f /\ g[0] = f[0]
    BY <1>1 DEF Index
  <2>5. Ends(g, n)
    BY <2>4 DEF Sound, Ends
  <2>6. QED
    BY <2>1, <2>2, <2>3, <2>5 DEF Sound
<1>6. Begun(f) /\ i > 1 => Begun(g)
  BY <1>1 DEF Begun, Index
<1>7. \A a : Holds(g, a) <=> HoldsBut(f, i, a)
  <2> TAKE a
  <2>1. Holds(g, a) => HoldsBut(f, i, a)
    <3> SUFFICES ASSUME NEW j \in DOMAIN g, NEW k \in 1 .. Len(g[j]), g[j][k] = a
                 PROVE  HoldsBut(f, i, a)
      BY DEF Holds
    <3>1. from(j) \in DOMAIN f \ {i} /\ g[j] = f[from(j)]
      BY <1>3
    <3>2. QED
      BY <3>1 DEF HoldsBut
  <2>2. \A j \in DOMAIN f \ {i} : \E m \in DOMAIN g : g[m] = f[j]
    <3> TAKE j \in DOMAIN f \ {i}
    <3>1. CASE j = i - 1
      BY <1>1, <3>1
    <3>2. CASE j # i - 1
      BY <1>1, <3>2
    <3>3. QED
      BY <3>1, <3>2
  <2>3. ASSUME NEW j \in DOMAIN f \ {i}, NEW k \in 1 .. Len(f[j]), f[j][k] = a PROVE Holds(g, a)
    <3>1. PICK m \in DOMAIN g : g[m] = f[j]
      BY <2>2
    <3>2. QED
      BY <2>3, <3>1 DEF Holds
  <2>4. QED
    BY <2>1, <2>3 DEF HoldsBut
<1>8. Begun(f) /\ i > 1 => Holds(g, n)
  BY <1>2, <1>5, <1>6, NewestInCurrent
<1>9. Begun(f) /\ i = 1 => Holds(g, n)
  <2>1. ASSUME Begun(f), i = 1 PROVE Holds(g, n)
    <3>1. Len(f[0]) \in Nat /\ Len(f[0]) \in 1 .. Len(f[0])
      BY <2>1 DEF Begun, Disk
    <3>2. f[0][Len(f[0])] = n
      BY <2>1, <3>1 DEF Begun, Sound, Ends
    <3>3. g[1] = f[0] /\ 1 \in DOMAIN g
      BY <1>1, <2>1
    <3>4. QED
      BY <3>1, <3>2, <3>3 DEF Holds
  <2>2. QED
    BY <2>1
<1>10. Oldest(f, i) /\ Gapless(f, n) => Gapless(g, n)
  <2> SUFFICES ASSUME Oldest(f, i), Gapless(f, n) PROVE Gapless(g, n)
    OBVIOUS
  <2>1. QED
    BY <1>2, <1>7, OldestGone
<1>11. QED
  BY <1>2, <1>5, <1>6, <1>8, <1>9, <1>10 DEF Index

\* fopen with "a" adds an empty file, or nothing.
LEMMA Opens ==
    ASSUME NEW f, NEW n \in Nat, Disk(f), Sound(f, n), NEW g, g = Opened(f)
    PROVE  /\ Disk(g) /\ Sound(g, n)
           /\ 0 \in DOMAIN g
           /\ DOMAIN g = DOMAIN f \cup {0} /\ \A i \in DOMAIN f : g[i] = f[i]
           /\ 0 \notin DOMAIN f => g[0] = <<>>
           /\ \A a : Holds(g, a) <=> Holds(f, a)
<1>1. /\ DOMAIN g = DOMAIN f \cup {0} /\ \A i \in DOMAIN f : g[i] = f[i]
      /\ 0 \notin DOMAIN f => g[0] = <<>>
  BY DEF Opened
<1>2. \A i \in DOMAIN g : i \notin DOMAIN f => i = 0 /\ Len(g[i]) = 0
  BY <1>1
<1>3. Disk(g)
  <2>1. 0 \in Index
    BY SizeAssumption DEF Index
  <2>2. <<>> \in Seq(Nat)
    OBVIOUS
  <2>3. QED
    BY <1>1, <2>1, <2>2 DEF Disk
<1>4. Sound(g, n)
  <2>1. \A i \in DOMAIN g : \A k \in 1 .. Len(g[i]) : i \in DOMAIN f
    BY <1>2
  <2>2. Runs(g)
    BY <1>1, <2>1 DEF Sound, Runs
  <2>3. Descend(g)
    BY <1>1, <2>1 DEF Sound, Descend
  <2>4. Within(g, n)
    BY <1>1, <2>1 DEF Sound, Within
  <2>5. Len(g[0]) <= n /\ \A k \in 1 .. Len(g[0]) : g[0][k] = n - Len(g[0]) + k
    <3>1. CASE 0 \in DOMAIN f
      BY <1>1, <3>1 DEF Sound, Ends
    <3>2. CASE 0 \notin DOMAIN f
      BY <1>1, <1>2, <3>2
    <3>3. QED
      BY <3>1, <3>2
  <2>6. QED
    BY <2>2, <2>3, <2>4, <2>5 DEF Sound, Ends
<1>5. \A a : Holds(g, a) <=> Holds(f, a)
  BY <1>1, <1>2 DEF Holds
<1>6. QED
  BY <1>1, <1>3, <1>4, <1>5

\* What is written is line n + 1, at the end of the current file.
LEMMA Appends ==
    ASSUME NEW f, NEW n \in Nat, Disk(f), Sound(f, n), 0 \in DOMAIN f,
           NEW g, g = [f EXCEPT ![0] = Append(@, n + 1)]
    PROVE  /\ Disk(g) /\ Sound(g, n + 1)
           /\ DOMAIN g = DOMAIN f /\ Len(g[0]) = Len(f[0]) + 1 /\ \A i \in DOMAIN f \ {0} : g[i] = f[i]
           /\ Gains(f, g, n + 1)
           /\ Gapless(f, n) => Gapless(g, n + 1)
<1> DEFINE m == Len(f[0])
<1>1. f[0] \in Seq(Nat) /\ m \in Nat
  BY DEF Disk
<1>2. /\ DOMAIN g = DOMAIN f /\ \A i \in DOMAIN f \ {0} : g[i] = f[i]
      /\ g[0] = Append(f[0], n + 1)
  OBVIOUS
<1>3. /\ g[0] \in Seq(Nat) /\ Len(g[0]) = m + 1
      /\ \A k \in 1 .. m : g[0][k] = f[0][k]
      /\ g[0][m + 1] = n + 1
  BY <1>1, <1>2
<1> HIDE DEF m
<1>4. Disk(g)
  BY <1>2, <1>3 DEF Disk
<1>5. m <= n /\ \A k \in 1 .. m : f[0][k] = n - m + k
  BY DEF Sound, Ends, m
<1>6. \A k \in 1 .. m + 1 : g[0][k] = n - m + k
  <2> TAKE k \in 1 .. m + 1
  <2>1. CASE k \in 1 .. m
    BY <1>3, <1>5, <2>1
  <2>2. CASE k = m + 1
    <3>1. n - m + (m + 1) = n + 1
      BY <1>1
    <3>2. QED
      BY <1>3, <2>2, <3>1
  <2>3. k \in 1 .. m \/ k = m + 1
    BY <1>1
  <2>4. QED
    BY <2>1, <2>2, <2>3
<1>7. Sound(g, n + 1)
  <2>1. ASSUME NEW i \in DOMAIN g, NEW k \in 1 .. Len(g[i]), NEW l \in 1 .. Len(g[i])
        PROVE  g[i][l] = g[i][k] + (l - k) /\ g[i][k] \in 1 .. n + 1
    <3>1. CASE i = 0
      <4>1. k \in 1 .. m + 1 /\ l \in 1 .. m + 1
        BY <1>3, <2>1, <3>1
      <4>2. g[0][k] = n - m + k /\ g[0][l] = n - m + l
        BY <1>6, <4>1
      <4>3. n - m \in Nat /\ k \in Int /\ l \in Int /\ n - m + k \in 1 .. n + 1
        BY <1>1, <1>5, <4>1
      <4>4. n - m + l = (n - m + k) + (l - k)
        BY <4>3
      <4>5. QED
        BY <3>1, <4>2, <4>3, <4>4
    <3>2. CASE i # 0
      BY <1>2, <2>1, <3>2 DEF Sound, Runs, Within
    <3>3. QED
      BY <3>1, <3>2
  <2>2. ASSUME NEW i \in DOMAIN g, NEW j \in DOMAIN g, i < j,
               NEW k \in 1 .. Len(g[i]), NEW l \in 1 .. Len(g[j])
        PROVE  g[j][l] < g[i][k]
    <3>0. j # 0 /\ g[j] = f[j] /\ j \in DOMAIN f /\ i \in DOMAIN f
      BY <1>2, <2>2 DEF Disk, Index
    <3>1. CASE i # 0
      BY <1>2, <2>2, <3>0, <3>1 DEF Sound, Descend
    <3>2. CASE i = 0 /\ k \in 1 .. m
      BY <1>2, <1>3, <2>2, <3>0, <3>2 DEF Sound, Descend, m
    <3>3. CASE i = 0 /\ k = m + 1
      <4>1. f[j][l] \in 1 .. n
        BY <2>2, <3>0 DEF Sound, Within
      <4>2. QED
        BY <1>3, <3>0, <3>3, <4>1
    <3>4. QED
      BY <1>1, <1>3, <2>2, <3>1, <3>2, <3>3
  <2>3. Len(g[0]) <= n + 1 /\ \A k \in 1 .. Len(g[0]) : g[0][k] = n + 1 - Len(g[0]) + k
    <3>1. \A k \in 1 .. m + 1 : n + 1 - (m + 1) + k = n - m + k
      BY <1>1, <1>5
    <3>2. m + 1 <= n + 1
      BY <1>1, <1>5
    <3>3. \A k \in 1 .. m + 1 : g[0][k] = n + 1 - (m + 1) + k
      BY <1>6, <3>1
    <3>4. QED
      BY <1>3, <3>2, <3>3
  <2>4. Runs(g)
    <3>1. ASSUME NEW i \in DOMAIN g, NEW k \in 1 .. Len(g[i]), NEW l \in 1 .. Len(g[i])
          PROVE  g[i][l] = g[i][k] + (l - k)
      <4>1. g[i][l] = g[i][k] + (l - k) /\ g[i][k] \in 1 .. n + 1
        BY <2>1, Zenon
      <4>2. QED
        BY <4>1, Zenon
    <3>2. QED
      BY <3>1, Zenon DEF Runs
  <2>5. Within(g, n + 1)
    <3> SUFFICES ASSUME NEW i \in DOMAIN g, NEW k \in 1 .. Len(g[i]) PROVE g[i][k] \in 1 .. n + 1
      BY DEF Within
    <3>1. \A l \in 1 .. Len(g[i]) : g[i][k] \in 1 .. n + 1
      BY <2>1
    <3>2. QED
      BY <3>1
  <2>6. Descend(g)
    BY <2>2 DEF Descend
  <2>7. QED
    BY <2>3, <2>4, <2>5, <2>6 DEF Sound, Ends
<1>8. \A a \in Nat : Holds(g, a) <=> Holds(f, a) \/ a = n + 1
  <2> TAKE a \in Nat
  <2>1. Holds(g, a) => Holds(f, a) \/ a = n + 1
    <3>1. ASSUME NEW i \in DOMAIN g, NEW k \in 1 .. Len(g[i]), g[i][k] = a
          PROVE  Holds(f, a) \/ a = n + 1
      <4>1. CASE i # 0
        BY <1>2, <3>1, <4>1 DEF Holds
      <4>2. CASE i = 0 /\ k \in 1 .. m
        BY <1>2, <1>3, <3>1, <4>2 DEF Holds, m
      <4>3. CASE i = 0 /\ k = m + 1
        BY <1>3, <3>1, <4>3
      <4>4. QED
        BY <1>1, <1>3, <3>1, <4>1, <4>2, <4>3
    <3>2. QED
      BY <3>1 DEF Holds
  <2>2. Holds(f, a) => Holds(g, a)
    <3>1. ASSUME NEW i \in DOMAIN f, NEW k \in 1 .. Len(f[i]), f[i][k] = a
          PROVE  Holds(g, a)
      <4>1. CASE i # 0
        BY <1>2, <3>1, <4>1 DEF Holds
      <4>2. CASE i = 0
        <5>1. k \in 1 .. m /\ k \in 1 .. m + 1
          BY <1>1, <3>1, <4>2 DEF m
        <5>2. QED
          BY <1>2, <1>3, <3>1, <4>2, <5>1 DEF Holds
      <4>3. QED
        BY <4>1, <4>2
    <3>2. QED
      BY <3>1 DEF Holds
  <2>3. a = n + 1 => Holds(g, a)
    <3>1. m + 1 \in 1 .. Len(g[0]) /\ 0 \in DOMAIN g
      BY <1>1, <1>2, <1>3
    <3>2. QED
      BY <1>3, <3>1 DEF Holds
  <2>4. QED
    BY <2>1, <2>2, <2>3
<1>9. Gapless(f, n) => Gapless(g, n + 1)
  <2>1. ASSUME NEW first \in 1 .. n + 1, \A a \in Nat : Holds(f, a) <=> a \in first .. n
        PROVE  \A a \in Nat : Holds(g, a) <=> a \in first .. n + 1
    <3> TAKE a \in Nat
    <3>1. Holds(g, a) <=> (a \in first .. n \/ a = n + 1)
      BY <1>8, <2>1
    <3>2. QED
      BY <3>1, <2>1
  <2>2. \A first \in 1 .. n + 1 : first \in 1 .. (n + 1) + 1
    OBVIOUS
  <2>3. QED
    BY <2>1, <2>2 DEF Gapless
<1>10. QED
  BY <1>2, <1>3, <1>4, <1>7, <1>8, <1>9 DEF m, Gains

\* The buffer is lost: the last u lines.
LEMMA Truncates ==
    ASSUME NEW f, NEW n \in Nat, Disk(f), Sound(f, n), 0 \in DOMAIN f,
           NEW u \in Nat, u <= Len(f[0]),
           NEW g, g = [f EXCEPT ![0] = SubSeq(@, 1, Len(@) - u)]
    PROVE  /\ n - u \in Nat
           /\ Disk(g) /\ Sound(g, n - u)
           /\ DOMAIN g = DOMAIN f /\ Len(g[0]) <= Len(f[0]) /\ \A i \in DOMAIN f \ {0} : g[i] = f[i]
           /\ Loses(f, g, n - u + 1 .. n)
           /\ Gapless(f, n) => Gapless(g, n - u)
<1> DEFINE m == Len(f[0])
<1>1. f[0] \in Seq(Nat) /\ m \in Nat
  BY DEF Disk
<1>2. /\ DOMAIN g = DOMAIN f /\ \A i \in DOMAIN f \ {0} : g[i] = f[i]
      /\ g[0] = SubSeq(f[0], 1, m - u)
  OBVIOUS
<1>3. /\ g[0] \in Seq(Nat) /\ Len(g[0]) = m - u
      /\ \A k \in 1 .. m - u : g[0][k] = f[0][k]
  BY <1>1, <1>2
<1>4. u <= m
  OBVIOUS
<1> HIDE DEF m
<1>5. m <= n /\ \A k \in 1 .. m : f[0][k] = n - m + k
  BY DEF Sound, Ends, m
<1>6. n - u \in Nat
  BY <1>1, <1>4, <1>5
<1>7. Disk(g)
  BY <1>2, <1>3 DEF Disk
<1>8. ASSUME NEW i \in DOMAIN f \ {0}, NEW k \in 1 .. Len(f[i]) PROVE f[i][k] \in 1 .. n - u
  <2>1. f[i][k] \in 1 .. n
    BY <1>8 DEF Sound, Within
  <2>2. CASE m = 0
    BY <1>1, <1>4, <2>1, <2>2
  <2>3. CASE m # 0
    <3>1. 1 \in 1 .. m /\ 0 < i
      BY <1>1, <1>8, <2>3 DEF Disk, Index
    <3>2. f[i][k] < f[0][1]
      BY <1>8, <3>1 DEF Sound, Descend, m
    <3>3. QED
      BY <1>1, <1>4, <1>5, <2>1, <3>1, <3>2
  <2>4. QED
    BY <2>2, <2>3
<1>9. Sound(g, n - u)
  <2>1. ASSUME NEW i \in DOMAIN g, NEW k \in 1 .. Len(g[i]), NEW l \in 1 .. Len(g[i])
        PROVE  g[i][l] = g[i][k] + (l - k) /\ g[i][k] \in 1 .. n - u
    <3>1. CASE i = 0
      <4>1. k \in 1 .. m - u /\ l \in 1 .. m - u /\ k \in 1 .. m /\ l \in 1 .. m
        BY <1>1, <1>3, <2>1, <3>1
      <4>2. g[0][k] = n - m + k /\ g[0][l] = n - m + l
        BY <1>3, <1>5, <4>1
      <4>3. n - m \in Nat /\ k \in Int /\ l \in Int
        BY <1>1, <1>5, <4>1
      <4>4. n - m + k \in 1 .. n - u
        BY <1>1, <1>4, <1>5, <4>1
      <4>5. QED
        BY <3>1, <4>2, <4>3, <4>4
    <3>2. CASE i # 0
      BY <1>2, <1>8, <2>1, <3>2 DEF Sound, Runs
    <3>3. QED
      BY <3>1, <3>2
  <2>2. ASSUME NEW i \in DOMAIN g, NEW j \in DOMAIN g, i < j,
               NEW k \in 1 .. Len(g[i]), NEW l \in 1 .. Len(g[j])
        PROVE  g[j][l] < g[i][k]
    <3>0. j # 0 /\ g[j] = f[j] /\ j \in DOMAIN f /\ i \in DOMAIN f
      BY <1>2, <2>2 DEF Disk, Index
    <3>1. CASE i # 0
      BY <1>2, <2>2, <3>0, <3>1 DEF Sound, Descend
    <3>2. CASE i = 0
      <4>1. k \in 1 .. m - u /\ k \in 1 .. m
        BY <1>1, <1>3, <2>2, <3>2
      <4>2. QED
        BY <1>2, <1>3, <2>2, <3>0, <3>2, <4>1 DEF Sound, Descend, m
    <3>3. QED
      BY <3>1, <3>2
  <2>3. Len(g[0]) <= n - u /\ \A k \in 1 .. Len(g[0]) : g[0][k] = n - u - Len(g[0]) + k
    <3>1. \A k \in 1 .. m - u : k \in 1 .. m /\ n - u - (m - u) + k = n - m + k
      BY <1>1, <1>4, <1>5
    <3>2. m - u <= n - u
      BY <1>1, <1>5
    <3>3. QED
      BY <1>3, <1>5, <3>1, <3>2
  <2>4. Runs(g)
    BY <2>1 DEF Runs
  <2>5. Within(g, n - u)
    <3> SUFFICES ASSUME NEW i \in DOMAIN g, NEW k \in 1 .. Len(g[i]) PROVE g[i][k] \in 1 .. n - u
      BY DEF Within
    <3>1. \A l \in 1 .. Len(g[i]) : g[i][k] \in 1 .. n - u
      BY <2>1
    <3>2. QED
      BY <3>1
  <2>6. Descend(g)
    BY <2>2 DEF Descend
  <2>7. QED
    BY <2>3, <2>4, <2>5, <2>6 DEF Sound, Ends
<1>10. \A a \in Nat : Holds(g, a) <=> Holds(f, a) /\ ~(a \in n - u + 1 .. n)
  <2> TAKE a \in Nat
  <2>1. Holds(g, a) => Holds(f, a) /\ ~(a \in n - u + 1 .. n)
    <3>1. ASSUME NEW i \in DOMAIN g, NEW k \in 1 .. Len(g[i]), g[i][k] = a
          PROVE  Holds(f, a) /\ a \in 1 .. n - u
      <4>1. CASE i # 0
        BY <1>2, <1>8, <3>1, <4>1 DEF Holds
      <4>2. CASE i = 0
        <5>1. k \in 1 .. m - u /\ k \in 1 .. m
          BY <1>1, <1>3, <3>1, <4>2
        <5>2. a = f[0][k] /\ a = n - m + k
          BY <1>3, <1>5, <3>1, <4>2, <5>1
        <5>3. QED
          BY <1>1, <1>5, <5>1, <5>2 DEF Holds, m
      <4>3. QED
        BY <4>1, <4>2
    <3>2. QED
      BY <1>6, <3>1 DEF Holds
  <2>2. Holds(f, a) => Holds(g, a) \/ a \in n - u + 1 .. n
    <3>1. ASSUME NEW i \in DOMAIN f, NEW k \in 1 .. Len(f[i]), f[i][k] = a
          PROVE  Holds(g, a) \/ a \in n - u + 1 .. n
      <4>1. CASE i # 0
        BY <1>2, <3>1, <4>1 DEF Holds
      <4>2. CASE i = 0 /\ k \in 1 .. m - u
        BY <1>2, <1>3, <3>1, <4>2 DEF Holds
      <4>3. CASE i = 0 /\ k \in m - u + 1 .. m
        <5>1. k \in 1 .. m /\ a = n - m + k
          BY <1>1, <1>4, <1>5, <3>1, <4>3
        <5>2. QED
          BY <1>1, <1>5, <4>3, <5>1
      <4>4. QED
        BY <1>1, <3>1, <4>1, <4>2, <4>3 DEF m
    <3>2. QED
      BY <3>1 DEF Holds
  <2>3. QED
    BY <2>1, <2>2
<1>11. Gapless(f, n) => Gapless(g, n - u)
  <2>1. ASSUME NEW first \in 1 .. n + 1, \A a \in Nat : Holds(f, a) <=> a \in first .. n
        PROVE  first \in 1 .. n - u + 1 /\ \A a \in Nat : Holds(g, a) <=> a \in first .. n - u
    <3>1. first <= n - u + 1
      <4>1. CASE u = 0
        BY <2>1, <4>1
      <4>2. CASE u # 0
        <5>1. 1 \in 1 .. m /\ f[0][1] = n - m + 1
          BY <1>1, <1>4, <1>5, <4>2
        <5>2. Holds(f, n - m + 1) /\ n - m + 1 \in Nat
          BY <1>1, <1>5, <5>1 DEF Holds, m
        <5>3. QED
          BY <1>1, <1>4, <2>1, <5>2
      <4>3. QED
        BY <4>1, <4>2
    <3>2. QED
      <4>1. first \in 1 .. n - u + 1
        BY <1>6, <2>1, <3>1
      <4>2. ASSUME NEW a \in Nat PROVE Holds(g, a) <=> a \in first .. n - u
        <5>1. Holds(g, a) <=> a \in first .. n /\ ~(a \in n - u + 1 .. n)
          BY <1>10, <2>1
        <5>2. QED
          BY <1>6, <5>1, <4>1
      <4>3. QED
        BY <4>1, <4>2
  <2>2. QED
    BY <2>1 DEF Gapless
<1>12. Len(g[0]) <= Len(f[0])
  BY <1>1, <1>3 DEF m
<1>13. QED
  BY <1>2, <1>6, <1>7, <1>9, <1>10, <1>11, <1>12 DEF Loses
-----------------------------------------------------------------------------
(***************************************************************************)
(* Sizes.                                                                  *)
(***************************************************************************)

\* A file grows by a line, and is empty or not by its size.
LEMMA Sizes ==
    ASSUME NEW s \in Seq(Nat)
    PROVE  /\ Size(s) \in Nat
           /\ Len(s) = 0 => Size(s) = 0
           /\ Size(s) > 0 => Len(s) > 0
           /\ \A r \in Seq(Nat) : /\ Len(r) = Len(s) + 1 => Size(r) = Size(s) + LineLen
                                  /\ Len(r) <= Len(s) => Size(r) <= Size(s)
<1>1. Len(s) \in Nat /\ LineLen \in Nat
  BY SizeAssumption
<1>2. Size(s) \in Nat /\ (Len(s) = 0 => Size(s) = 0)
  BY <1>1 DEF Size
<1>3. ASSUME NEW r \in Seq(Nat) PROVE /\ Len(r) = Len(s) + 1 => Size(r) = Size(s) + LineLen
                                      /\ Len(r) <= Len(s) => Size(r) <= Size(s)
  <2>1. Len(r) \in Nat
    OBVIOUS
  <2>2. \A a, b, c \in Nat : c * (a + 1) = c * a + c
    OBVIOUS
  <2>3. \A a, b, c \in Nat : a <= b => c * a <= c * b
    OBVIOUS
  <2>4. QED
    BY <1>1, <2>1, <2>2, <2>3 DEF Size
<1>4. QED
  BY <1>1, <1>2, <1>3

\* What is in the buffer is in the current file.
LEMMA BufferFits == IInv => lines - unflushed \in Nat
<1> SUFFICES ASSUME IInv PROVE lines - unflushed \in Nat
  OBVIOUS
<1>1. CASE output = "open"
  <2>1. Len(files[0]) <= lines /\ unflushed <= Len(files[0]) /\ files[0] \in Seq(Nat)
    BY <1>1 DEF IInv, FilesRight, Sound, Ends, Stream, Disk
  <2>2. QED
    BY <2>1 DEF IInv, TypeFlog
<1>2. CASE output # "open"
  BY <1>2 DEF IInv, TypeFlog, Stream
<1>3. QED
  BY <1>1, <1>2

\* The file that a rotation or a start opens has a size.
LEMMA OpenedSize == IInv => Size(Opened(files)[0]) \in Nat
<1> SUFFICES ASSUME IInv PROVE Size(Opened(files)[0]) \in Nat
  OBVIOUS
<1>1. Disk(files) /\ Sound(files, lines) /\ lines \in Nat
  BY DEF IInv, FilesRight, TypeFlog
<1>2. Opened(files)[0] \in Seq(Nat)
  BY <1>1, Opens DEF Disk
<1>3. QED
  BY <1>2, Sizes

\* The newest line is in a file, or in the buffer of one.
LEMMA Newest == IInv => (lines > 0 => Holds(files, lines))
<1> SUFFICES ASSUME IInv, lines > 0 PROVE Holds(files, lines)
  OBVIOUS
<1> USE DEF IInv, FilesRight, TypeFlog
<1>1. CASE unflushed = 0
  BY <1>1
<1>2. CASE unflushed # 0
  <2>1. output = "open"
    BY <1>2 DEF Stream
  <2>2. 0 \in DOMAIN files /\ unflushed <= Len(files[0]) /\ Len(files[0]) \in Nat
    BY <2>1 DEF Stream, Disk
  <2>3. Begun(files)
    BY <1>2, <2>2 DEF Begun
  <2>4. QED
    BY <2>3, NewestInCurrent
<1>3. QED
  BY <1>1, <1>2

\* Of a name that the rotation is about to give, the file is the oldest.
LEMMA NameFree ==
    ASSUME IInv, NEW t \in Thread, pc[t] \in {"remove", "rename"}, "rename" \notin failed
    PROVE  Oldest(files, idx)
<1>1. CASE idx < MaxBackup
  BY <1>1 DEF IInv, Turns, Rotation, Oldest
<1>2. CASE idx = MaxBackup
  BY <1>2 DEF IInv, FilesRight, Disk, Oldest, Index
<1>3. QED
  BY <1>1, <1>2, SizeAssumption DEF IInv, TypeFlog, Index

\* Of two threads, one is not in the logger.
LEMMA Alone ==
    ASSUME IInv, NEW t \in Thread, pc[t] \in Inside, NEW x \in Thread, x # t
    PROVE  pc[x] \notin Inside
BY DEF IInv, Mutex

\* The types.
LEMMA TypeFlogStep == IInv /\ [Next]_vars => TypeFlog'
<1> SUFFICES ASSUME IInv, [Next]_vars PROVE TypeFlog'
  OBVIOUS
<1> USE DEF IInv
<1>1. ASSUME NEW t \in Thread, Call(t)
      PROVE  TypeFlog'
  BY <1>1 DEF Call, Move, flog, disk, TypeFlog, PCs
<1>2. ASSUME NEW t \in Thread, Lock(t)
      PROVE  TypeFlog'
  BY <1>2 DEF Lock, Move, flog, disk, TypeFlog, PCs
<1>3. ASSUME NEW t \in Thread, Fits(t)
      PROVE  TypeFlog'
  BY <1>3 DEF Fits, Move, Full, flog, disk, TypeFlog, PCs
<1>4. ASSUME NEW t \in Thread, CloseFull(t)
      PROVE  TypeFlog'
  BY <1>4, SizeAssumption DEF CloseFull, Move, Full, CloseStream, TypeFlog, PCs, Index
<1>5. ASSUME NEW t \in Thread, CloseNull(t)
      PROVE  TypeFlog'
  BY <1>5 DEF CloseNull, Move, Full, flog, disk, TypeFlog, PCs
<1>6. ASSUME NEW t \in Thread, Remove(t)
      PROVE  TypeFlog'
  BY <1>6 DEF Remove, Move, Fails, Without, flog, TypeFlog, PCs
<1>7. ASSUME NEW t \in Thread, Rename(t)
      PROVE  TypeFlog'
  <2>1. idx >= 1 /\ idx - 1 \in Index
    BY <1>7, SizeAssumption DEF Rename, Move, Turns, TypeFlog, Index
  <2>2. failed' \subseteq MayFail /\ pc' \in [Thread -> PCs] /\ idx' \in Index
    BY <1>7, <2>1 DEF Rename, Move, Fails, TypeFlog, PCs
  <2>3. QED
    BY <1>7, <2>2 DEF Rename, flog, TypeFlog
<1>8. ASSUME NEW t \in Thread, Reopen(t)
      PROVE  TypeFlog'
  BY <1>8, OpenedSize DEF Reopen, Move, Fails, TypeFlog, PCs, Index
<1>9. ASSUME NEW t \in Thread, Write(t)
      PROVE  TypeFlog'
  BY <1>9, SizeAssumption DEF Write, Move, TypeFlog, PCs
<1>10. ASSUME NEW t \in Thread, Unlock(t)
      PROVE  TypeFlog'
  BY <1>10 DEF Unlock, Move, flog, disk, TypeFlog, PCs
<1>11. ASSUME NEW t \in Thread, TimerCb(t)
      PROVE  TypeFlog'
  BY <1>11 DEF TimerCb, Move, flog, disk, TypeFlog, PCs
<1>12. ASSUME NEW t \in Thread, FlushLoad(t)
      PROVE  TypeFlog'
  BY <1>12 DEF FlushLoad, Move, flog, disk, TypeFlog, PCs
<1>13. ASSUME NEW t \in Thread, FlushDo(t)
      PROVE  TypeFlog'
  BY <1>13 DEF FlushDo, Move, flog, TypeFlog, PCs
<1>14. ASSUME NEW t \in Thread, Fault(t)
      PROVE  TypeFlog'
  BY <1>14 DEF Fault, Move, flog, disk, TypeFlog, PCs
<1>15. CASE Die
  <2>1. lines' \in Nat /\ unflushed' \in Nat /\ idx' \in Index /\ size' \in Nat
    BY <1>15, BufferFits, SizeAssumption DEF Die, End, Index
  <2>2. pc' \in [Thread -> PCs] /\ held' \in [Thread -> {"null", "open", "closed"}]
        /\ faulted' \in [Thread -> BOOLEAN]
    BY <1>15 DEF Die, End, PCs
  <2>3. QED
    BY <1>15, <2>1, <2>2 DEF Die, End, TypeFlog
<1>16. CASE Close
  <2>1. idx' \in Index /\ size' \in Nat /\ unflushed' \in Nat
    BY <1>16, SizeAssumption DEF Close, End, Index
  <2>2. pc' \in [Thread -> PCs] /\ held' \in [Thread -> {"null", "open", "closed"}]
        /\ faulted' \in [Thread -> BOOLEAN]
    BY <1>16 DEF Close, End, PCs
  <2>3. QED
    BY <1>16, <2>1, <2>2 DEF Close, End, TypeFlog
<1>17. CASE Restart
  <2>1. size' \in Nat
    BY <1>17, OpenedSize DEF Restart, Started
  <2>2. restarts' \in 0 .. MaxRestarts
    BY <1>17, SizeAssumption DEF Restart, Started, TypeFlog
  <2>3. QED
    BY <1>17, <2>1, <2>2 DEF Restart, Started, TypeFlog, disk
<1>18. CASE UNCHANGED vars
  BY <1>18 DEF vars, flog, disk, TypeFlog, PCs
<1>19. QED
  BY <1>1, <1>2, <1>3, <1>4, <1>5, <1>6, <1>7, <1>8, <1>9, <1>10, <1>11, <1>12, <1>13, <1>14,
     <1>15, <1>16, <1>17, <1>18 DEF Next, Log, Crash, HandlerExit, Kill

\* One thread at a time is in the logger.
LEMMA MutexStep == IInv /\ [Next]_vars => Mutex'
<1> SUFFICES ASSUME IInv, [Next]_vars PROVE Mutex'
  OBVIOUS
<1> USE DEF IInv
<1>1. ASSUME NEW t \in Thread, Call(t)
      PROVE  Mutex'
  BY <1>1, NobodyAssumption DEF Call, Move, flog, disk, Mutex, TypeFlog, Inside
<1>2. ASSUME NEW t \in Thread, Lock(t)
      PROVE  Mutex'
  BY <1>2, NobodyAssumption DEF Lock, Move, flog, disk, Mutex, TypeFlog, Inside
<1>3. ASSUME NEW t \in Thread, Fits(t)
      PROVE  Mutex'
  BY <1>3, NobodyAssumption DEF Fits, Move, Full, flog, disk, Mutex, TypeFlog, Inside
<1>4. ASSUME NEW t \in Thread, CloseFull(t)
      PROVE  Mutex'
  BY <1>4, NobodyAssumption DEF CloseFull, Move, Full, CloseStream, Mutex, TypeFlog, Inside
<1>5. ASSUME NEW t \in Thread, CloseNull(t)
      PROVE  Mutex'
  BY <1>5, NobodyAssumption DEF CloseNull, Move, Full, flog, disk, Mutex, TypeFlog, Inside
<1>6. ASSUME NEW t \in Thread, Remove(t)
      PROVE  Mutex'
  BY <1>6, NobodyAssumption DEF Remove, Move, Fails, Without, flog, Mutex, TypeFlog, Inside
<1>7. ASSUME NEW t \in Thread, Rename(t)
      PROVE  Mutex'
  BY <1>7, NobodyAssumption DEF Rename, Move, Fails, Renamed, flog, Mutex, TypeFlog, Inside
<1>8. ASSUME NEW t \in Thread, Reopen(t)
      PROVE  Mutex'
  BY <1>8, NobodyAssumption DEF Reopen, Move, Fails, Mutex, TypeFlog, Inside
<1>9. ASSUME NEW t \in Thread, Write(t)
      PROVE  Mutex'
  BY <1>9, NobodyAssumption DEF Write, Move, Mutex, TypeFlog, Inside
<1>10. ASSUME NEW t \in Thread, Unlock(t)
      PROVE  Mutex'
  BY <1>10, NobodyAssumption DEF Unlock, Move, flog, disk, Mutex, TypeFlog, Inside
<1>11. ASSUME NEW t \in Thread, TimerCb(t)
      PROVE  Mutex'
  BY <1>11, NobodyAssumption DEF TimerCb, Move, flog, disk, Mutex, TypeFlog, Inside
<1>12. ASSUME NEW t \in Thread, FlushLoad(t)
      PROVE  Mutex'
  BY <1>12, NobodyAssumption DEF FlushLoad, Move, flog, disk, Mutex, TypeFlog, Inside
<1>13. ASSUME NEW t \in Thread, FlushDo(t)
      PROVE  Mutex'
  BY <1>13, NobodyAssumption DEF FlushDo, Move, flog, Mutex, TypeFlog, Inside
<1>14. ASSUME NEW t \in Thread, Fault(t)
      PROVE  Mutex'
  BY <1>14, NobodyAssumption DEF Fault, Move, flog, disk, Mutex, TypeFlog, Inside
<1>15. CASE Die
  BY <1>15, NobodyAssumption DEF Die, End, Mutex, TypeFlog, Inside
<1>16. CASE Close
  BY <1>16, NobodyAssumption DEF Close, End, Mutex, TypeFlog, Inside
<1>17. CASE Restart
  BY <1>17, NobodyAssumption DEF Restart, Started, Mutex, TypeFlog, Inside
<1>18. CASE UNCHANGED vars
  BY <1>18 DEF vars, flog, disk, Mutex, TypeFlog, Inside
<1>19. QED
  BY <1>1, <1>2, <1>3, <1>4, <1>5, <1>6, <1>7, <1>8, <1>9, <1>10, <1>11, <1>12, <1>13, <1>14,
     <1>15, <1>16, <1>17, <1>18 DEF Next, Log, Crash, HandlerExit, Kill

\* The files.
LEMMA FilesRightStep == IInv /\ [Next]_vars => FilesRight'
<1> SUFFICES ASSUME IInv, [Next]_vars PROVE FilesRight'
  OBVIOUS
<1> USE DEF IInv
<1>1. ASSUME NEW t \in Thread, Call(t)
      PROVE  FilesRight'
  BY <1>1 DEF Call, Move, flog, disk, FilesRight, disk
<1>2. ASSUME NEW t \in Thread, Lock(t)
      PROVE  FilesRight'
  BY <1>2 DEF Lock, Move, flog, disk, FilesRight, disk
<1>3. ASSUME NEW t \in Thread, Fits(t)
      PROVE  FilesRight'
  BY <1>3 DEF Fits, Move, Full, flog, disk, FilesRight, disk
<1>4. ASSUME NEW t \in Thread, CloseFull(t)
      PROVE  FilesRight'
  BY <1>4, Newest DEF CloseFull, Move, Full, CloseStream, FilesRight, disk, TypeFlog
<1>5. ASSUME NEW t \in Thread, CloseNull(t)
      PROVE  FilesRight'
  BY <1>5 DEF CloseNull, Move, Full, flog, disk, FilesRight, disk
<1>6. ASSUME NEW t \in Thread, Remove(t)
      PROVE  FilesRight'
  <2>1. idx >= 1 /\ Begun(files) /\ unflushed = 0
    BY <1>6 DEF Remove, Move, Turns, Stream, Rotation
  <2>2. CASE files' = Without(idx) /\ failed' = failed
    <3>1. Disk(files') /\ Sound(files', lines) /\ Begun(files')
      BY <2>1, <2>2, Removed DEF Without, FilesRight, TypeFlog
    <3>2. Holds(files', lines)
      BY <3>1, NewestInCurrent DEF TypeFlog
    <3>3. "rename" \notin failed => Gapless(files', lines)
      BY <1>6, <2>1, <2>2, Removed, NameFree DEF Remove, Move, Without, FilesRight, TypeFlog
    <3>4. QED
      BY <1>6, <2>1, <2>2, <3>1, <3>2, <3>3 DEF Remove, FilesRight, TypeFlog
  <2>3. CASE files' = files /\ failed' = failed \cup {"remove"}
    BY <1>6, <2>3 DEF Remove, FilesRight
  <2>4. QED
    BY <1>6, <2>2, <2>3 DEF Remove, Fails
<1>7. ASSUME NEW t \in Thread, Rename(t)
      PROVE  FilesRight'
  <2>1. idx >= 1 /\ Begun(files) /\ unflushed = 0
    BY <1>7 DEF Rename, Move, Turns, Stream, Rotation
  <2>2. CASE files' = Renamed(idx - 1, idx) /\ idx - 1 \in DOMAIN files /\ failed' = failed
    <3>1. Disk(files') /\ Sound(files', lines) /\ Holds(files', lines)
      BY <2>1, <2>2, Renames DEF Renamed, FilesRight, TypeFlog
    <3>2. "rename" \notin failed => Gapless(files', lines)
      BY <1>7, <2>1, <2>2, Renames, NameFree DEF Rename, Move, Renamed, FilesRight, TypeFlog
    <3>3. QED
      BY <1>7, <2>1, <2>2, <3>1, <3>2 DEF Rename, FilesRight, TypeFlog
  <2>3. CASE files' = files /\ (failed' = failed \/ failed' = failed \cup {"rename"})
    BY <1>7, <2>3 DEF Rename, FilesRight
  <2>4. QED
    BY <1>7, <2>2, <2>3 DEF Rename, Fails, Renamed
<1>8. ASSUME NEW t \in Thread, Reopen(t)
      PROVE  FilesRight'
  <2>1. CASE files' = Opened(files) /\ failed' = failed
    <3>1. Disk(files') /\ Sound(files', lines) /\ \A a : Holds(files', a) <=> Holds(files, a)
      BY <2>1, Opens DEF FilesRight, TypeFlog
    <3>2. Gapless(files, lines) => Gapless(files', lines)
      BY <3>1 DEF Gapless
    <3>3. QED
      BY <1>8, <2>1, <3>1, <3>2 DEF Reopen, FilesRight
  <2>2. CASE files' = files /\ failed' = failed \cup {"open"}
    BY <1>8, <2>2 DEF Reopen, FilesRight
  <2>3. QED
    BY <1>8, <2>1, <2>2 DEF Reopen, Fails
<1>9. ASSUME NEW t \in Thread, Write(t)
      PROVE  FilesRight'
  <2>1. 0 \in DOMAIN files
    BY <1>9 DEF Write, Move, Stream
  <2>2. files' = [files EXCEPT ![0] = Append(@, lines + 1)] /\ lines' = lines + 1 /\ failed' = failed
    BY <1>9 DEF Write
  <2>3. /\ Disk(files') /\ Sound(files', lines')
        /\ Gains(files, files', lines + 1)
        /\ Gapless(files, lines) => Gapless(files', lines')
    <3>1. Disk(files) /\ Sound(files, lines) /\ lines \in Nat
      BY DEF FilesRight, TypeFlog
    <3>2. Disk(files') /\ Sound(files', lines + 1)
      BY <2>1, <2>2, <3>1, Appends
    <3>3. Gains(files, files', lines + 1)
      BY <2>1, <2>2, <3>1, Appends
    <3>4. Gapless(files, lines) => Gapless(files', lines + 1)
      BY <2>1, <2>2, <3>1, Appends
    <3>5. QED
      BY <2>2, <3>2, <3>3, <3>4
  <2>4. lines' - unflushed' > 0 => Holds(files', lines' - unflushed')
    <3>1. CASE unflushed' = 0
      <4>1. lines + 1 \in Nat /\ lines' - unflushed' = lines + 1
        BY <2>2, <3>1 DEF TypeFlog
      <4>2. Holds(files', lines + 1)
        BY <2>3, <4>1 DEF Gains
      <4>3. QED
        BY <4>1, <4>2
    <3>2. CASE unflushed' = unflushed + 1
      <4>1. lines' - unflushed' = lines - unflushed
        BY <2>2, <3>2 DEF TypeFlog
      <4>2. QED
        BY <2>3, <4>1, BufferFits DEF FilesRight, Gains
    <3>3. QED
      BY <1>9, <3>1, <3>2 DEF Write
  <2>5. QED
    BY <2>2, <2>3, <2>4 DEF FilesRight
<1>10. ASSUME NEW t \in Thread, Unlock(t)
      PROVE  FilesRight'
  BY <1>10 DEF Unlock, Move, flog, disk, FilesRight, disk
<1>11. ASSUME NEW t \in Thread, TimerCb(t)
      PROVE  FilesRight'
  BY <1>11 DEF TimerCb, Move, flog, disk, FilesRight, disk
<1>12. ASSUME NEW t \in Thread, FlushLoad(t)
      PROVE  FilesRight'
  BY <1>12 DEF FlushLoad, Move, flog, disk, FilesRight, disk
<1>13. ASSUME NEW t \in Thread, FlushDo(t)
      PROVE  FilesRight'
  BY <1>13, Newest DEF FlushDo, Move, flog, FilesRight, disk, TypeFlog
<1>14. ASSUME NEW t \in Thread, Fault(t)
      PROVE  FilesRight'
  BY <1>14 DEF Fault, Move, flog, disk, FilesRight, disk
<1>15. CASE Die
  <2>1. CASE unflushed = 0
    BY <1>15, <2>1 DEF Die, End, FilesRight, TypeFlog
  <2>2. CASE unflushed # 0
    <3>1. 0 \in DOMAIN files /\ unflushed <= Len(files[0])
      BY <2>2 DEF Stream
    <3>2. /\ files' = [files EXCEPT ![0] = SubSeq(@, 1, Len(@) - unflushed)]
          /\ lines' = lines - unflushed /\ unflushed' = 0 /\ failed' = failed
      BY <1>15, <2>2 DEF Die, End
    <3>3. /\ lines - unflushed \in Nat /\ Disk(files') /\ Sound(files', lines')
          /\ Loses(files, files', lines - unflushed + 1 .. lines)
          /\ Gapless(files, lines) => Gapless(files', lines')
      <4>1. Disk(files) /\ Sound(files, lines) /\ lines \in Nat /\ unflushed \in Nat
        BY DEF FilesRight, TypeFlog
      <4>2. lines - unflushed \in Nat /\ Disk(files') /\ Sound(files', lines - unflushed)
        BY <3>1, <3>2, <4>1, Truncates
      <4>3. Loses(files, files', lines - unflushed + 1 .. lines)
        BY <3>1, <3>2, <4>1, Truncates
      <4>4. Gapless(files, lines) => Gapless(files', lines - unflushed)
        BY <3>1, <3>2, <4>1, Truncates
      <4>5. QED
        BY <3>2, <4>2, <4>3, <4>4
    <3>4. lines' > 0 => Holds(files', lines')
      <4>1. ~(lines' \in lines - unflushed + 1 .. lines)
        BY <3>2, <3>3 DEF TypeFlog
      <4>2. QED
        BY <3>2, <3>3, <4>1 DEF FilesRight, Loses
    <3>5. lines' - unflushed' = lines'
      BY <3>2, <3>3
    <3>6. QED
      BY <3>2, <3>3, <3>4, <3>5 DEF FilesRight
  <2>3. QED
    BY <2>1, <2>2
<1>16. CASE Close
  BY <1>16, Newest DEF Close, End, FilesRight, disk, TypeFlog
<1>17. CASE Restart
  <2>1. files' = Opened(files) /\ UNCHANGED <<lines, unflushed, failed>>
    BY <1>17 DEF Restart, Started
  <2>2. Disk(files') /\ Sound(files', lines) /\ \A a : Holds(files', a) <=> Holds(files, a)
    BY <2>1, Opens DEF FilesRight, TypeFlog
  <2>3. Gapless(files, lines) => Gapless(files', lines)
    BY <2>2 DEF Gapless
  <2>4. QED
    BY <2>1, <2>2, <2>3 DEF FilesRight
<1>18. CASE UNCHANGED vars
  BY <1>18 DEF vars, flog, disk, FilesRight, disk
<1>19. QED
  BY <1>1, <1>2, <1>3, <1>4, <1>5, <1>6, <1>7, <1>8, <1>9, <1>10, <1>11, <1>12, <1>13, <1>14,
     <1>15, <1>16, <1>17, <1>18 DEF Next, Log, Crash, HandlerExit, Kill

\* The steps that have nothing to do with the files: what they write of the
\* buffer, and where no thread goes.
Quiet ==
    /\ UNCHANGED <<up, output, size, idx, files, lines, restarts, failed>>
    /\ unflushed' \in {0, unflushed}
    /\ \A x \in Thread : \A p \in Rotation \cup {"write"} : pc'[x] = p <=> pc[x] = p

\* The other ones.
LEMMA Steps ==
    ASSUME IInv, [Next]_vars
    PROVE  \/ Quiet
           \/ \E t \in Thread : \/ Fits(t) \/ CloseFull(t) \/ Remove(t) \/ Rename(t)
                                \/ Reopen(t) \/ Write(t)
           \/ Die \/ Close \/ Restart
<1> USE DEF IInv
<1>1. ASSUME NEW t \in Thread, Call(t) PROVE Quiet
  BY <1>1 DEF Call, Move, flog, disk, Quiet, TypeFlog, Rotation
<1>2. ASSUME NEW t \in Thread, Lock(t) PROVE Quiet
  BY <1>2 DEF Lock, Move, flog, disk, Quiet, TypeFlog, Rotation
<1>3. ASSUME NEW t \in Thread, CloseNull(t) PROVE Quiet
  BY <1>3 DEF CloseNull, Move, flog, disk, Quiet, TypeFlog, Rotation
<1>4. ASSUME NEW t \in Thread, Unlock(t) PROVE Quiet
  BY <1>4 DEF Unlock, Move, flog, disk, Quiet, TypeFlog, Rotation
<1>5. ASSUME NEW t \in Thread, TimerCb(t) PROVE Quiet
  BY <1>5 DEF TimerCb, Move, flog, disk, Quiet, TypeFlog, Rotation
<1>6. ASSUME NEW t \in Thread, FlushLoad(t) PROVE Quiet
  BY <1>6 DEF FlushLoad, Move, flog, disk, Quiet, TypeFlog, Rotation
<1>7. ASSUME NEW t \in Thread, FlushDo(t) PROVE Quiet
  BY <1>7 DEF FlushDo, Move, flog, Quiet, TypeFlog, Rotation
<1>8. ASSUME NEW t \in Thread, Fault(t) PROVE Quiet
  BY <1>8 DEF Fault, Move, flog, disk, Quiet, TypeFlog, Rotation
<1>9. CASE UNCHANGED vars
  BY <1>9 DEF vars, flog, disk, Quiet
<1>10. QED
  BY <1>1, <1>2, <1>3, <1>4, <1>5, <1>6, <1>7, <1>8, <1>9
     DEF Next, Log, Crash, HandlerExit, Kill

\* Where the size is tested the stream is not a closed one.
LEMMA NotClosed ==
    ASSUME IInv, NEW t \in Thread, pc[t] = "rotate"
    PROVE  output # "closed"
<1>1. ASSUME NEW x \in Thread, pc[x] \in Rotation PROVE FALSE
  BY <1>1, Alone DEF Inside, Rotation
<1>2. QED
  BY <1>1 DEF IInv, Stream

\* The stream, the buffer and currentFileSize.
LEMMA StreamStep == IInv /\ [Next]_vars => Stream'
<1> SUFFICES ASSUME IInv, [Next]_vars PROVE Stream'
  OBVIOUS
<1> USE DEF IInv
<1>0. /\ 0 \in DOMAIN files => files[0] \in Seq(Nat) /\ Len(files[0]) \in Nat
      /\ Disk(files) /\ Sound(files, lines) /\ lines \in Nat /\ unflushed \in Nat
  BY DEF FilesRight, Disk, TypeFlog
<1>1. CASE Quiet
  <2>1. output' = "open" => unflushed' <= Len(files'[0])
    BY <1>0, <1>1 DEF Quiet, Stream
  <2>2. \A x \in Thread : /\ pc'[x] \in Rotation <=> pc[x] \in Rotation
                          /\ pc'[x] = "write" <=> pc[x] = "write"
    BY <1>1 DEF Quiet
  <2>3. QED
    BY <1>1, <2>1, <2>2 DEF Quiet, Stream
<1>2. ASSUME NEW t \in Thread, Fits(t)
      PROVE  Stream'
  <2>1. output # "closed" /\ pc[t] = "rotate"
    BY <1>2, NotClosed DEF Fits, Move
  <2>2. pc'[t] \in {"write", "unlock"} /\ (pc'[t] = "write" => output # "null")
    BY <1>2 DEF Fits, Move, TypeFlog
  <2>3. \A x \in Thread : x # t => pc'[x] = pc[x] /\ pc'[x] \notin Inside
    BY <1>2, <2>1, Alone DEF Fits, Move, TypeFlog, Inside
  <2>4. \A x \in Thread : pc'[x] \notin Rotation /\ (pc'[x] = "write" => output = "open")
    BY <2>1, <2>2, <2>3 DEF Rotation, Inside, TypeFlog
  <2>5. UNCHANGED <<up, output, size, files, unflushed>>
    BY <1>2 DEF Fits, flog, disk
  <2>6. QED
    BY <2>1, <2>4, <2>5 DEF Stream
<1>3. ASSUME NEW t \in Thread, CloseFull(t)
      PROVE  Stream'
  <2>1. pc[t] = "rotate" /\ pc'[t] \in Rotation
    BY <1>3 DEF CloseFull, Move, TypeFlog, Rotation
  <2>2. \A x \in Thread : x # t => pc'[x] \notin Inside
    BY <1>3, <2>1, Alone DEF CloseFull, Move, TypeFlog, Inside
  <2>3. output' = "closed" /\ unflushed' = 0
    BY <1>3 DEF CloseFull, CloseStream
  <2>4. QED
    BY <2>1, <2>2, <2>3 DEF Stream, Rotation, Inside
<1>4. ASSUME NEW t \in Thread, Remove(t) \/ Rename(t)
      PROVE  Stream'
  <2>1. pc[t] \in Rotation /\ pc'[t] \in Rotation
    BY <1>4 DEF Remove, Rename, Move, TypeFlog, Rotation
  <2>2. \A x \in Thread : x # t => pc'[x] \notin Inside
    BY <1>4, <2>1, Alone DEF Remove, Rename, Move, TypeFlog, Inside, Rotation
  <2>3. output' = "closed" /\ unflushed' = 0
    BY <1>4, <2>1 DEF Remove, Rename, Stream, flog
  <2>4. QED
    BY <2>1, <2>2, <2>3 DEF Stream, Rotation, Inside
<1>5. ASSUME NEW t \in Thread, Reopen(t)
      PROVE  Stream'
  <2>1. pc[t] = "reopen" /\ output = "closed" /\ unflushed' = 0 /\ up' = TRUE
    BY <1>5 DEF Reopen, Move, Stream, Rotation, TypeFlog
  <2>2. \A x \in Thread : x # t => pc'[x] \notin Inside
    BY <1>5, <2>1, Alone DEF Reopen, Move, TypeFlog, Inside
  <2>3. \/ /\ pc'[t] = "write" /\ output' = "open"
           /\ files' = Opened(files) /\ size' = Size(files'[0])
        \/ pc'[t] = "unlock" /\ output' = "null"
    BY <1>5 DEF Reopen, Move, TypeFlog
  <2>4. output' = "open" => 0 \in DOMAIN files' /\ Len(files'[0]) \in Nat
    <3>1. output' = "open" => Disk(files') /\ 0 \in DOMAIN files'
      BY <1>0, <2>3, Opens
    <3>2. QED
      BY <3>1 DEF Disk
  <2>5. \A x \in Thread : pc'[x] \notin Rotation /\ (pc'[x] = "write" => output' = "open")
    BY <2>2, <2>3 DEF Rotation, Inside
  <2>6. QED
    BY <2>1, <2>3, <2>4, <2>5 DEF Stream
<1>6. ASSUME NEW t \in Thread, Write(t)
      PROVE  Stream'
  <2>1. /\ pc[t] = "write" /\ pc'[t] = "unlock" /\ output = "open"
        /\ 0 \in DOMAIN files /\ size = Size(files[0]) /\ unflushed <= Len(files[0]) /\ up = TRUE
    BY <1>6 DEF Write, Move, Stream, TypeFlog
  <2>2. \A x \in Thread : x # t => pc'[x] \notin Inside
    BY <1>6, <2>1, Alone DEF Write, Move, TypeFlog, Inside
  <2>3. files' = [files EXCEPT ![0] = Append(@, lines + 1)]
    BY <1>6 DEF Write
  <2>4. 0 \in DOMAIN files' /\ files'[0] \in Seq(Nat) /\ Len(files'[0]) = Len(files[0]) + 1
    BY <1>0, <2>1, <2>3, Appends DEF Disk
  <2>5. size' = Size(files'[0]) /\ unflushed' <= Len(files'[0])
    BY <1>0, <1>6, <2>1, <2>4, Sizes DEF Write
  <2>6. \A x \in Thread : pc'[x] \notin Rotation /\ pc'[x] # "write"
    BY <2>1, <2>2 DEF Rotation, Inside
  <2>7. output' = "open" /\ up' = TRUE
    BY <1>6, <2>1 DEF Write
  <2>8. QED
    BY <2>4, <2>5, <2>6, <2>7 DEF Stream
<1>7. CASE Die \/ Close
  BY <1>7 DEF Die, Close, End, Stream, Rotation
<1>8. CASE Restart
  <2>1. up' = TRUE /\ files' = Opened(files) /\ size' = Size(files'[0]) /\ unflushed' = 0
        /\ output' = "open" /\ \A x \in Thread : pc'[x] = "idle"
    BY <1>8 DEF Restart, Started, Mutex, Stream
  <2>2. 0 \in DOMAIN files' /\ Len(files'[0]) \in Nat
    <3>1. Disk(files') /\ 0 \in DOMAIN files'
      BY <1>0, <2>1, Opens
    <3>2. QED
      BY <3>1 DEF Disk
  <2>3. QED
    BY <2>1, <2>2 DEF Stream, Rotation
<1>9. QED
  BY <1>1, <1>2, <1>3, <1>4, <1>5, <1>6, <1>7, <1>8, Steps

\* What the six steps of a log call say of the place of each thread.
LEMMA Places ==
    ASSUME IInv, NEW t \in Thread,
           Fits(t) \/ CloseFull(t) \/ Remove(t) \/ Rename(t) \/ Reopen(t) \/ Write(t)
    PROVE  /\ pc[t] \in Inside
           /\ \A x \in Thread : x # t => pc[x] \notin Inside /\ pc'[x] \notin Inside
           /\ Fits(t) => pc[t] = "rotate" /\ pc'[t] \in {"write", "unlock"}
           /\ CloseFull(t) => pc[t] = "rotate" /\ pc'[t] \in {"remove", "reopen"}
           /\ Remove(t) => pc[t] = "remove" /\ pc'[t] = "rename"
           /\ Rename(t) => pc[t] = "rename" /\ pc'[t] \in {"remove", "reopen"}
           /\ Reopen(t) => pc[t] = "reopen" /\ pc'[t] \in {"write", "unlock"}
           /\ Write(t) => pc[t] = "write" /\ pc'[t] = "unlock"
<1> USE DEF IInv
<1>1. /\ Fits(t) => pc[t] = "rotate" /\ pc'[t] \in {"write", "unlock"}
      /\ CloseFull(t) => pc[t] = "rotate" /\ pc'[t] \in {"remove", "reopen"}
      /\ Remove(t) => pc[t] = "remove" /\ pc'[t] = "rename"
  BY DEF Fits, CloseFull, Remove, Move, TypeFlog
<1>2. /\ Rename(t) => pc[t] = "rename" /\ pc'[t] \in {"remove", "reopen"}
      /\ Reopen(t) => pc[t] = "reopen" /\ pc'[t] \in {"write", "unlock"}
      /\ Write(t) => pc[t] = "write" /\ pc'[t] = "unlock"
  BY DEF Rename, Reopen, Write, Move, TypeFlog
<1>3. pc[t] \in Inside
  BY <1>1, <1>2 DEF Inside
<1>4. \E to \in PCs : pc' = [pc EXCEPT ![t] = to]
  BY DEF Fits, CloseFull, Remove, Rename, Reopen, Write, Move, PCs
<1>5. ASSUME NEW x \in Thread, x # t PROVE pc[x] \notin Inside /\ pc'[x] \notin Inside
  BY <1>3, <1>4, <1>5, Alone DEF TypeFlog
<1>6. QED
  BY <1>1, <1>2, <1>3, <1>5

\* The loop of the rotation.
LEMMA TurnsStep == IInv /\ [Next]_vars => Turns'
<1> SUFFICES ASSUME IInv, [Next]_vars PROVE Turns'
  OBVIOUS
<1> USE DEF IInv
<1>0. Disk(files) /\ Sound(files, lines) /\ lines \in Nat /\ idx \in Index /\ idx \in Nat
  BY SizeAssumption DEF FilesRight, TypeFlog, Index
<1>1. CASE Quiet
  <2>1. \A x \in Thread : /\ pc'[x] \in Rotation <=> pc[x] \in Rotation
                          /\ pc'[x] \in {"remove", "rename"} <=> pc[x] \in {"remove", "rename"}
                          /\ pc'[x] = "reopen" <=> pc[x] = "reopen"
    BY <1>1 DEF Quiet, Rotation
  <2>2. UNCHANGED <<files, idx, failed>>
    BY <1>1 DEF Quiet
  <2>3. QED
    BY <2>1, <2>2 DEF Turns, Begun
<1>2. ASSUME NEW t \in Thread, Fits(t) \/ Reopen(t) \/ Write(t)
      PROVE  Turns'
  <2>1. \A x \in Thread : pc'[x] \notin Rotation
    BY <1>2, Places DEF Inside, Rotation
  <2>2. QED
    BY <2>1 DEF Turns, Rotation
<1>3. ASSUME NEW t \in Thread, CloseFull(t)
      PROVE  Turns'
  <2>1. /\ pc[t] = "rotate" /\ pc'[t] \in Rotation
        /\ \A x \in Thread : x # t => pc'[x] \notin Rotation
    BY <1>3, Places DEF Rotation, Inside
  <2>2. /\ pc'[t] = "reopen" <=> MaxBackup = 0
        /\ idx' = MaxBackup /\ files' = files /\ output # "null" /\ size >= MaxFileSize
    BY <1>3 DEF CloseFull, Move, Full, TypeFlog
  <2>3. output = "open"
    BY <2>1, <2>2, NotClosed DEF TypeFlog
  <2>4. Begun(files)
    <3>1. 0 \in DOMAIN files /\ files[0] \in Seq(Nat) /\ Size(files[0]) >= MaxFileSize
      BY <1>0, <2>2, <2>3 DEF Stream, Disk
    <3>2. Size(files[0]) \in Nat /\ Size(files[0]) > 0
      BY <3>1, Sizes, SizeAssumption
    <3>3. QED
      BY <3>1, <3>2, Sizes DEF Begun
  <2>5. /\ pc'[t] \in {"remove", "rename"} => idx' >= 1 /\ Begun(files)
        /\ pc'[t] = "reopen" => idx' = 0
        /\ ~(idx' < MaxBackup)
    BY <2>1, <2>2, <2>4, SizeAssumption DEF Rotation
  <2>6. QED
    BY <2>1, <2>2, <2>5 DEF Turns, Begun, Rotation
<1>4. ASSUME NEW t \in Thread, Remove(t)
      PROVE  Turns'
  <2>1. /\ pc[t] = "remove" /\ pc'[t] = "rename"
        /\ \A x \in Thread : x # t => pc'[x] \notin Rotation
    BY <1>4, Places DEF Rotation, Inside
  <2>2. idx >= 1 /\ idx' = idx /\ Begun(files)
    BY <1>4, <2>1 DEF Remove, Turns
  <2>3. CASE files' = Without(idx) /\ failed' = failed
    <3>1. Begun(files')
      BY <1>0, <2>2, <2>3, Removed DEF Without
    <3>2. idx \notin DOMAIN files'
      BY <2>3 DEF Without
    <3>3. QED
      BY <2>1, <2>2, <3>1, <3>2 DEF Turns, Rotation, Begun
  <2>4. CASE files' = files /\ failed' = failed \cup {"remove"}
    <3>1. "rename" \notin failed' /\ idx < MaxBackup => idx \notin DOMAIN files
      BY <2>1, <2>4 DEF Turns, Rotation
    <3>2. QED
      BY <2>1, <2>2, <2>4, <3>1 DEF Turns, Rotation, Begun
  <2>5. QED
    BY <1>4, <2>3, <2>4 DEF Remove, Fails
<1>5. ASSUME NEW t \in Thread, Rename(t)
      PROVE  Turns'
  <2>1. /\ pc[t] = "rename" /\ pc'[t] = IF idx = 1 THEN "reopen" ELSE "remove"
        /\ \A x \in Thread : x # t => pc'[x] \notin Rotation
    BY <1>5, Places DEF Rotation, Inside, Rename, Move, TypeFlog
  <2>2. idx >= 1 /\ idx' = idx - 1 /\ Begun(files)
    BY <1>5, <2>1 DEF Rename, Turns
  <2>3. idx > 1 => idx' >= 1
    BY <1>0, <2>2
  <2>4. CASE files' = Renamed(idx - 1, idx) /\ idx - 1 \in DOMAIN files
    <3>1. idx > 1 => Begun(files')
      BY <1>0, <2>2, <2>4, Renames DEF Renamed
    <3>2. idx - 1 \notin DOMAIN files'
      BY <1>0, <2>4 DEF Renamed
    <3>3. QED
      BY <1>0, <2>1, <2>2, <2>3, <3>1, <3>2 DEF Turns, Rotation, Begun
  <2>5. CASE files' = files /\ (idx - 1 \in DOMAIN files => "rename" \in failed')
    BY <1>0, <2>1, <2>2, <2>3, <2>5 DEF Turns, Rotation, Begun
  <2>6. QED
    BY <1>5, <2>4, <2>5 DEF Rename, Fails, Renamed
<1>6. CASE Die \/ Close
  BY <1>6 DEF Die, Close, End, Turns, Rotation
<1>7. CASE Restart
  BY <1>7 DEF Restart, Started, Mutex, Turns, Rotation
<1>8. QED
  BY <1>1, <1>2, <1>3, <1>4, <1>5, <1>6, <1>7, Steps

\* No file is too large.
LEMMA LimitedStep == IInv /\ [Next]_vars => Limited'
<1> SUFFICES ASSUME IInv, [Next]_vars, "rename" \notin failed', MaxBackup > 0
             PROVE  /\ \A i \in DOMAIN files' : Size(files'[i]) < MaxFileSize + LineLen
                    /\ \A x \in Thread : pc'[x] = "write" => size' < MaxFileSize
  BY DEF Limited
<1> USE DEF IInv
<1>0. Disk(files) /\ Sound(files, lines) /\ lines \in Nat
  BY DEF FilesRight, TypeFlog
<1>a. MaxFileSize \in Nat \ {0} /\ LineLen \in Nat \ {0} /\ size \in Nat
  BY SizeAssumption DEF TypeFlog
<1>b. "rename" \notin failed
  <2>1. failed \subseteq failed'
    BY Steps DEF Quiet, Fits, CloseFull, Remove, Rename, Reopen, Write, Die, Close, End,
                 Restart, Started, Fails
  <2>2. QED
    BY <2>1
<1>c. /\ \A i \in DOMAIN files : Size(files[i]) < MaxFileSize + LineLen
      /\ \A x \in Thread : pc[x] = "write" => size < MaxFileSize
  BY <1>b DEF Limited
<1>d. \A i \in DOMAIN files : files[i] \in Seq(Nat)
  BY <1>0 DEF Disk
<1>e. files' = Opened(files) =>
        /\ DOMAIN files' = DOMAIN files \cup {0}
        /\ \A i \in DOMAIN files' : Size(files'[i]) < MaxFileSize + LineLen
        /\ 0 \notin DOMAIN files => Size(files'[0]) = 0
  <2>1. SUFFICES ASSUME files' = Opened(files)
                 PROVE  /\ DOMAIN files' = DOMAIN files \cup {0}
                        /\ \A i \in DOMAIN files' : Size(files'[i]) < MaxFileSize + LineLen
                        /\ 0 \notin DOMAIN files => Size(files'[0]) = 0
    OBVIOUS
  <2>2. /\ DOMAIN files' = DOMAIN files \cup {0}
        /\ \A i \in DOMAIN files : files'[i] = files[i]
        /\ 0 \notin DOMAIN files => files'[0] = <<>>
    BY <2>1 DEF Opened
  <2>3. <<>> \in Seq(Nat) /\ Size(<<>>) = 0
    <3>1. <<>> \in Seq(Nat) /\ Len(<<>>) = 0
      OBVIOUS
    <3>2. QED
      BY <3>1, Sizes
  <2>4. QED
    BY <1>a, <1>c, <2>2, <2>3
<1>1. CASE Quiet
  <2>1. \A x \in Thread : pc'[x] = "write" <=> pc[x] = "write"
    BY <1>1 DEF Quiet
  <2>2. QED
    BY <1>1, <1>c, <2>1 DEF Quiet
<1>2. ASSUME NEW t \in Thread, Fits(t)
      PROVE  /\ \A i \in DOMAIN files' : Size(files'[i]) < MaxFileSize + LineLen
             /\ \A x \in Thread : pc'[x] = "write" => size' < MaxFileSize
  BY <1>2, <1>a, <1>c DEF Fits, Full, flog, disk
<1>3. ASSUME NEW t \in Thread, CloseFull(t)
      PROVE  /\ \A i \in DOMAIN files' : Size(files'[i]) < MaxFileSize + LineLen
             /\ \A x \in Thread : pc'[x] = "write" => size' < MaxFileSize
  <2>1. \A x \in Thread : pc'[x] # "write"
    BY <1>3, Places DEF Inside
  <2>2. QED
    BY <1>3, <1>c, <2>1 DEF CloseFull
<1>4. ASSUME NEW t \in Thread, Remove(t) \/ Rename(t)
      PROVE  /\ \A i \in DOMAIN files' : Size(files'[i]) < MaxFileSize + LineLen
             /\ \A x \in Thread : pc'[x] = "write" => size' < MaxFileSize
  <2>1. \A x \in Thread : pc'[x] # "write"
    BY <1>4, Places DEF Inside
  <2>2. \A i \in DOMAIN files' : \E j \in DOMAIN files : files'[i] = files[j]
    BY <1>4 DEF Remove, Rename, Without, Renamed
  <2>3. QED
    BY <1>c, <2>1, <2>2
<1>5. ASSUME NEW t \in Thread, Reopen(t)
      PROVE  /\ \A i \in DOMAIN files' : Size(files'[i]) < MaxFileSize + LineLen
             /\ \A x \in Thread : pc'[x] = "write" => size' < MaxFileSize
  <2>1. pc[t] = "reopen" /\ \A x \in Thread : x # t => pc'[x] # "write"
    BY <1>5, Places DEF Inside
  <2>2. idx = 0 /\ 0 \notin DOMAIN files
    BY <1>b, <2>1 DEF Turns, Rotation
  <2>3. CASE files' = Opened(files) /\ size' = Size(files'[0])
    BY <1>a, <1>e, <2>2, <2>3
  <2>4. CASE files' = files /\ pc'[t] # "write"
    BY <1>c, <2>1, <2>4
  <2>5. QED
    BY <1>5, <2>3, <2>4 DEF Reopen, Move, TypeFlog
<1>6. ASSUME NEW t \in Thread, Write(t)
      PROVE  /\ \A i \in DOMAIN files' : Size(files'[i]) < MaxFileSize + LineLen
             /\ \A x \in Thread : pc'[x] = "write" => size' < MaxFileSize
  <2>1. pc[t] = "write" /\ \A x \in Thread : pc'[x] # "write"
    BY <1>6, Places DEF Inside
  <2>2. /\ files' = [files EXCEPT ![0] = Append(@, lines + 1)]
        /\ 0 \in DOMAIN files /\ size = Size(files[0])
    BY <1>6, <2>1 DEF Write, Stream
  <2>3. /\ DOMAIN files' = DOMAIN files /\ \A i \in DOMAIN files \ {0} : files'[i] = files[i]
        /\ Len(files'[0]) = Len(files[0]) + 1 /\ Disk(files')
    BY <1>0, <2>2, Appends
  <2>4. Size(files'[0]) = size + LineLen
    BY <1>d, <2>2, <2>3, Sizes DEF Disk
  <2>5. QED
    BY <1>a, <1>c, <2>1, <2>3, <2>4
<1>7. CASE Die \/ Close
  <2>1. \A x \in Thread : pc'[x] # "write"
    BY <1>7 DEF Die, Close, End
  <2>2. CASE files' = files
    BY <1>c, <2>1, <2>2
  <2>3. CASE files' = [files EXCEPT ![0] = SubSeq(@, 1, Len(@) - unflushed)] /\ unflushed # 0
    <3>1. 0 \in DOMAIN files /\ unflushed \in Nat /\ unflushed <= Len(files[0])
      BY <2>3 DEF Stream, TypeFlog
    <3>2. /\ DOMAIN files' = DOMAIN files /\ \A i \in DOMAIN files \ {0} : files'[i] = files[i]
          /\ Len(files'[0]) <= Len(files[0]) /\ Disk(files')
      BY <1>0, <2>3, <3>1, Truncates
    <3>3. Size(files'[0]) <= Size(files[0]) /\ Size(files'[0]) \in Nat /\ Size(files[0]) \in Nat
      BY <1>d, <3>1, <3>2, Sizes DEF Disk
    <3>4. QED
      BY <1>a, <1>c, <2>1, <3>1, <3>2, <3>3
  <2>4. QED
    BY <1>7, <2>2, <2>3 DEF Die, Close
<1>8. CASE Restart
  <2>1. files' = Opened(files) /\ \A x \in Thread : pc'[x] # "write"
    BY <1>8 DEF Restart, Started, Mutex
  <2>2. QED
    BY <1>e, <2>1
<1>9. QED
  BY <1>1, <1>2, <1>3, <1>4, <1>5, <1>6, <1>7, <1>8, Steps

\* The hole in the names is the one of the thread that rotates.
LEMMA HoleOf ==
    ASSUME IInv, NEW t \in Thread, pc[t] \in Inside
    PROVE  Hole = IF pc[t] \in Rotation THEN {idx} ELSE {}
<1>1. \A x \in Thread : x # t => pc[x] \notin Rotation
  BY Alone DEF Inside, Rotation
<1>2. QED
  BY <1>1 DEF Hole

\* What the rotation does to the names and to the first line: of the names it
\* takes one away and fills the next.
LEMMA ChainRemoved ==
    ASSUME NEW f, NEW n \in Nat, Disk(f), NEW i \in Index, i >= 1,
           i < MaxBackup => i \notin DOMAIN f,
           Linked(f, n, {i}),
           NEW g, g = [j \in DOMAIN f \ {i} |-> f[j]]
    PROVE  Linked(g, n, {i})
<1>0. /\ \A j \in DOMAIN f : 0 .. j \subseteq DOMAIN f \cup {i}
      /\ n > 0 /\ ~Holds(f, 1) => Index \subseteq DOMAIN f \cup {i}
  BY DEF Linked
<1>1. DOMAIN g = DOMAIN f \ {i} /\ \A j \in DOMAIN g : g[j] = f[j]
  OBVIOUS
<1>2. DOMAIN g \cup {i} = DOMAIN f \cup {i}
  BY <1>1
<1>3. \A j \in DOMAIN g : 0 .. j \subseteq DOMAIN g \cup {i}
  BY <1>0, <1>1, <1>2
<1>4. ASSUME n > 0, ~Holds(g, 1) PROVE Index \subseteq DOMAIN g \cup {i}
  <2>1. CASE i \in DOMAIN f
    <3>1. i = MaxBackup
      BY <2>1, SizeAssumption DEF Index
    <3>2. QED
      BY <1>0, <1>2, <2>1, <3>1 DEF Index
  <2>2. CASE i \notin DOMAIN f
    <3>1. g = [j \in DOMAIN f |-> f[j]] /\ DOMAIN g = DOMAIN f
      BY <2>2
    <3>2. ~Holds(f, 1)
      BY <1>1, <1>4, <3>1 DEF Holds
    <3>3. QED
      BY <1>0, <1>2, <1>4, <3>2
  <2>3. QED
    BY <2>1, <2>2
<1>5. QED
  BY <1>3, <1>4 DEF Linked

\* A backup that is renamed leaves its place to the one before.
LEMMA ChainRenamed ==
    ASSUME NEW f, NEW n \in Nat, Disk(f), NEW i \in Index, i >= 1, Begun(f),
           i < MaxBackup => i \notin DOMAIN f,
           Linked(f, n, {i}),
           NEW g,
           g = IF i - 1 \in DOMAIN f
               THEN [j \in (DOMAIN f \ {i - 1}) \cup {i} |-> IF j = i THEN f[i - 1] ELSE f[j]]
               ELSE f
    PROVE  Linked(g, n, {i - 1})
<1>a. /\ \A j \in DOMAIN f : 0 .. j \subseteq DOMAIN f \cup {i}
      /\ n > 0 /\ ~Holds(f, 1) => Index \subseteq DOMAIN f \cup {i}
  BY DEF Linked
<1>0. i \in Int /\ i - 1 \in Index /\ i <= MaxBackup /\ DOMAIN f \subseteq Index
  <2>1. i \in Int /\ i - 1 \in Index /\ i <= MaxBackup
    BY SizeAssumption DEF Index
  <2>2. QED
    BY <2>1 DEF Disk
<1>1. CASE i - 1 \in DOMAIN f
  <2>1. /\ DOMAIN g = (DOMAIN f \ {i - 1}) \cup {i} /\ g[i] = f[i - 1]
        /\ \A j \in DOMAIN f \ {i - 1, i} : j \in DOMAIN g /\ g[j] = f[j]
    BY <1>1
  <2>2. DOMAIN g \cup {i - 1} = DOMAIN f \cup {i}
    BY <1>1, <2>1
  <2>3. \A j \in DOMAIN g : 0 .. j \subseteq DOMAIN g \cup {i - 1}
    <3>1. 0 .. i \subseteq DOMAIN f \cup {i}
      <4>1. 0 .. i - 1 \subseteq DOMAIN f \cup {i}
        BY <1>a, <1>1
      <4>2. QED
        BY <1>0, <4>1
    <3>2. QED
      BY <1>a, <2>1, <2>2, <3>1
  <2>4. ASSUME n > 0, ~Holds(g, 1) PROVE Index \subseteq DOMAIN g \cup {i - 1}
    <3>1. CASE i \in DOMAIN f
      <4>1. i = MaxBackup
        BY <1>0, <3>1, SizeAssumption
      <4>2. QED
        BY <1>a, <2>2, <3>1, <4>1 DEF Index
    <3>2. CASE i \notin DOMAIN f
      <4>1. ASSUME NEW j \in DOMAIN f, NEW k \in 1 .. Len(f[j]), f[j][k] = 1 PROVE Holds(g, 1)
        <5>1. CASE j = i - 1
          BY <2>1, <4>1, <5>1 DEF Holds
        <5>2. CASE j # i - 1
          BY <2>1, <3>2, <4>1, <5>2 DEF Holds
        <5>3. QED
          BY <5>1, <5>2
      <4>2. ~Holds(f, 1)
        BY <2>4, <4>1 DEF Holds
      <4>3. QED
        BY <1>a, <2>2, <2>4, <4>2
    <3>3. QED
      BY <3>1, <3>2
  <2>5. QED
    BY <2>3, <2>4 DEF Linked
<1>2. CASE i - 1 \notin DOMAIN f
  <2>1. g = f /\ i - 1 # 0
    BY <1>2 DEF Begun
  <2>2. ASSUME NEW j \in DOMAIN f PROVE j < i - 1
    <3>1. 0 .. j \subseteq DOMAIN f \cup {i} /\ j \in Int
      BY <1>a, <1>0 DEF Index
    <3>2. i - 1 \notin 0 .. j
      BY <1>0, <1>2, <3>1
    <3>3. QED
      BY <1>0, <3>1, <3>2 DEF Index
  <2>3. \A j \in DOMAIN f : i \notin 0 .. j
    <3>1. \A j \in DOMAIN f : j \in Int
      BY <1>0 DEF Index
    <3>2. QED
      BY <1>0, <2>2, <3>1
  <2>4. \A j \in DOMAIN f : 0 .. j \subseteq DOMAIN f
    BY <1>a, <2>3
  <2>5. ~(Index \subseteq DOMAIN f \cup {i})
    BY <1>0, <1>2
  <2>6. QED
    BY <1>a, <2>1, <2>4, <2>5 DEF Linked
<1>3. QED
  BY <1>1, <1>2

\* The names have no hole but the rotation's.
LEMMA ChainedStep == IInv /\ [Next]_vars => Chained'
<1> SUFFICES ASSUME IInv, [Next]_vars, up', restarts' = 0, failed' \subseteq {"remove"}
             PROVE  Linked(files', lines', Hole')
  BY DEF Chained
<1> USE DEF IInv
<1>0. Disk(files) /\ Sound(files, lines) /\ lines \in Nat /\ idx \in Index
  BY DEF FilesRight, TypeFlog
<1>1. ~(Die \/ Close \/ Restart)
  BY DEF Die, Close, End, Restart, Started, TypeFlog
<1>2. CASE Quiet
  <2>1. \A x \in Thread : pc'[x] \in Rotation <=> pc[x] \in Rotation
    BY <1>2 DEF Quiet
  <2>2. Hole' = Hole
    BY <1>2, <2>1 DEF Hole, Quiet
  <2>3. QED
    BY <1>2, <2>2 DEF Quiet, Chained
<1>3. ASSUME NEW t \in Thread,
             Fits(t) \/ CloseFull(t) \/ Remove(t) \/ Rename(t) \/ Reopen(t) \/ Write(t)
      PROVE  Linked(files', lines', Hole')
  <2>1. UNCHANGED <<up, restarts>> /\ failed \subseteq failed'
    BY <1>3 DEF Fits, CloseFull, Remove, Rename, Reopen, Write, Fails
  <2>2. Linked(files, lines, Hole)
    BY <2>1 DEF Chained
  <2>3. Hole = IF pc[t] \in Rotation THEN {idx} ELSE {}
    BY <1>3, Places, HoleOf
  <2>4. Hole' = IF pc'[t] \in Rotation THEN {idx'} ELSE {}
    <3>1. \A x \in Thread : x # t => pc'[x] \notin Rotation
      BY <1>3, Places DEF Inside, Rotation
    <3>2. QED
      BY <3>1 DEF Hole
  <2>5. "rename" \notin failed /\ (pc[t] \in Rotation /\ idx < MaxBackup => idx \notin DOMAIN files)
    BY <2>1 DEF Turns
  <2>6. CASE Fits(t) \/ CloseFull(t)
    <3>1. files' = files /\ lines' = lines /\ Hole = {}
      BY <1>3, <2>3, <2>6, Places DEF Fits, CloseFull, Rotation, disk
    <3>2. QED
      BY <2>2, <3>1 DEF Linked
  <2>7. CASE Remove(t)
    <3>1. pc[t] = "remove" /\ lines' = lines /\ idx >= 1 /\ Hole = {idx} /\ Hole' = {idx}
      BY <1>3, <2>3, <2>4, <2>7, Places DEF Remove, Turns, Rotation
    <3>2. CASE files' = Without(idx)
      BY <1>0, <2>2, <2>5, <3>1, <3>2, ChainRemoved DEF Without, Rotation
    <3>3. CASE files' = files
      BY <2>2, <3>1, <3>3
    <3>4. QED
      BY <2>7, <3>2, <3>3 DEF Remove
  <2>8. CASE Rename(t)
    <3>1. /\ pc[t] = "rename" /\ lines' = lines /\ idx >= 1 /\ Begun(files)
          /\ Hole = {idx} /\ Hole' = {idx - 1}
      BY <1>3, <2>3, <2>4, <2>8, Places DEF Rename, Turns, Rotation
    <3>2. files' = Renamed(idx - 1, idx)
      BY <2>8 DEF Rename, Fails
    <3>3. (idx < MaxBackup => idx \notin DOMAIN files) /\ Linked(files, lines, {idx})
      BY <2>2, <2>5, <3>1 DEF Rotation
    <3>4. Linked(files', lines, {idx - 1})
      BY <1>0, <3>1, <3>2, <3>3, ChainRenamed DEF Renamed
    <3>5. QED
      BY <3>1, <3>4
  <2>9. CASE Reopen(t)
    <3>1. pc[t] = "reopen" /\ idx = 0 /\ Hole = {0} /\ lines' = lines
      BY <1>3, <2>3, <2>9, Places DEF Reopen, Turns, Rotation
    <3>2. files' = Opened(files)
      BY <2>9 DEF Reopen, Fails
    <3>3. DOMAIN files' = DOMAIN files \cup {0}
      BY <3>2 DEF Opened
    <3>4. Holds(files', 1) <=> Holds(files, 1)
      BY <1>0, <3>2, Opens
    <3>5. \A i \in DOMAIN files' : 0 .. i \subseteq DOMAIN files'
      <4>1. 0 .. 0 = {0}
        OBVIOUS
      <4>2. QED
        BY <2>2, <3>1, <3>3, <4>1 DEF Linked
    <3>6. QED
      BY <2>2, <2>4, <3>1, <3>3, <3>4, <3>5 DEF Linked
  <2>10. CASE Write(t)
    <3>1. pc[t] = "write" /\ Hole = {} /\ lines' = lines + 1
      BY <1>3, <2>3, <2>10, Places DEF Write, Rotation
    <3>2. 0 \in DOMAIN files /\ files' = [files EXCEPT ![0] = Append(@, lines + 1)]
      BY <2>10, <3>1 DEF Write, Stream
    <3>3. DOMAIN files' = DOMAIN files
      BY <3>2
    <3>4. Gains(files, files', lines + 1)
      BY <1>0, <3>2, Appends
    <3>5. Holds(files', 1) <=> Holds(files, 1) \/ 1 = lines + 1
      BY <3>4 DEF Gains
    <3>6. QED
      BY <1>0, <2>2, <2>4, <3>1, <3>3, <3>5 DEF Linked
  <2>11. QED
    BY <1>3, <2>6, <2>7, <2>8, <2>9, <2>10
<1>4. QED
  BY <1>1, <1>2, <1>3, Steps

-----------------------------------------------------------------------------
(***************************************************************************)
(* The theorems.                                                           *)
(***************************************************************************)

\* The invariant holds at the start.
LEMMA InitIInv == Init => IInv
<1> SUFFICES ASSUME Init PROVE IInv
  OBVIOUS
<1> USE DEF Init
<1>1. DOMAIN files = {0} /\ files[0] = <<>> /\ Len(files[0]) = 0 /\ files[0] \in Seq(Nat)
  OBVIOUS
<1>2. TypeFlog
  BY SizeAssumption DEF TypeFlog, PCs, Index
<1>3. Size(files[0]) = 0
  BY <1>1, Sizes
<1>4. ASSUME NEW a PROVE ~Holds(files, a)
  BY <1>1 DEF Holds
<1>5. FilesRight
  <2>1. Disk(files)
    BY <1>1, SizeAssumption DEF Disk, Index
  <2>2. Sound(files, 0)
    BY <1>1 DEF Sound, Runs, Descend, Within, Ends
  <2>3. Gapless(files, 0)
    <3>1. 1 \in 1 .. 0 + 1 /\ \A a \in Nat : a \notin 1 .. 0
      OBVIOUS
    <3>2. QED
      BY <1>4, <3>1 DEF Gapless
  <2>4. QED
    BY <2>1, <2>2, <2>3 DEF FilesRight
<1>6. Mutex /\ Turns
  BY DEF Mutex, Turns, Inside, Rotation
<1>7. Stream
  BY <1>1, <1>3 DEF Stream, Rotation
<1>8. Limited
  BY <1>1, <1>3, SizeAssumption DEF Limited
<1>9. Chained
  <2>1. 0 .. 0 = {0}
    OBVIOUS
  <2>2. QED
    BY <1>1, <2>1 DEF Chained, Linked
<1>10. QED
  BY <1>2, <1>5, <1>6, <1>7, <1>8, <1>9 DEF IInv

\* Every step preserves it.
LEMMA NextIInv == IInv /\ [Next]_vars => IInv'
BY TypeFlogStep, MutexStep, FilesRightStep, StreamStep, TurnsStep, LimitedStep, ChainedStep
   DEF IInv

\* It is an invariant.
LEMMA Inductive == Spec => []IInv
<1>1. QED
  BY InitIInv, NextIInv, PTL DEF Spec

\* The lines that are kept are the ones that some file holds.
LEMMA KeptHeld == \A a : a \in Kept <=> Holds(files, a)
BY DEF Kept, In, Holds

\* The log files are one log, whatever fails and whenever the process is killed:
\* within a file and from file to file the lines are in order, the last line
\* written is there, and as long as the renames succeed there is no gap.
THEOREM FilesAreOneLog == Spec => []OneLog
<1>1. ASSUME IInv PROVE OneLog
  <2> USE <1>1
  <2>1. Disk(files) /\ Sound(files, lines) /\ lines \in Nat
    BY DEF IInv, FilesRight, TypeFlog
  <2>2. TypeOK
    BY DEF IInv, FilesRight, Disk, TypeFlog, TypeOK
  <2>3. NewestKeptInOrder
    <3>1. ASSUME NEW i \in DOMAIN files, NEW k \in 1 .. Len(files[i]) - 1
          PROVE  files[i][k] < files[i][k + 1]
      <4>1. files[i] \in Seq(Nat)
        BY <2>1 DEF Disk
      <4>2. k \in 1 .. Len(files[i]) /\ k + 1 \in 1 .. Len(files[i]) /\ files[i][k] \in Nat
        BY <4>1
      <4>3. files[i][k + 1] = files[i][k] + ((k + 1) - k)
        BY <2>1, <4>2 DEF Sound, Runs
      <4>4. QED
        BY <4>2, <4>3
    <3>2. ASSUME NEW i \in DOMAIN files, NEW j \in DOMAIN files, i < j,
                 NEW a \in In(i), NEW b \in In(j)
          PROVE  b < a
      BY <2>1, <3>2 DEF Sound, Descend, In
    <3>3. lines > 0 => lines \in Kept
      BY Newest, KeptHeld
    <3>4. QED
      BY <3>1, <3>2, <3>3 DEF NewestKeptInOrder
  <2>4. NoGap
    <3> SUFFICES ASSUME "rename" \notin failed
                 PROVE  \E first \in 1 .. lines + 1 : Kept = first .. lines
      BY DEF NoGap
    <3>1. PICK first \in 1 .. lines + 1 : \A a \in Nat : Holds(files, a) <=> a \in first .. lines
      BY DEF IInv, FilesRight, Gapless
    <3>2. \A a : Holds(files, a) => a \in Nat
      BY <2>1 DEF Sound, Within, Holds
    <3>3. \A a \in first .. lines : a \in Nat
      BY <2>1
    <3>4. Kept = first .. lines
      BY <3>1, <3>2, <3>3, KeptHeld
    <3>5. QED
      BY <3>4
  <2>5. QED
    BY <2>2, <2>3, <2>4 DEF OneLog
<1>2. QED
  BY <1>1, Inductive, PTL

\* Rotation keeps to its two limits: a process that is not killed erases lines
\* only when every backup file it may have is there, and no file exceeds the
\* size limit by a whole line.
THEOREM RotationKeepsLimits == Spec => []LimitsKept
<1>1. ASSUME IInv PROVE LimitsKept
  <2> USE <1>1 DEF IInv
  <2>1. ErasesOnlyWhenFull
    <3> SUFFICES ASSUME up, restarts = 0, failed \subseteq {"remove"}, owner = Nobody,
                        lines > 0, 1 \notin Kept
                 PROVE  DOMAIN files = Index
      BY DEF ErasesOnlyWhenFull
    <3>1. Hole = {}
      BY NobodyAssumption DEF Mutex, Hole, Inside, Rotation
    <3>2. ~Holds(files, 1)
      BY KeptHeld
    <3>3. Index \subseteq DOMAIN files
      BY <3>1, <3>2 DEF Chained, Linked
    <3>4. QED
      BY <3>3 DEF FilesRight, Disk
  <2>2. OverByLessThanALine
    BY DEF Stream, Limited, OverByLessThanALine
  <2>3. QED
    BY <2>1, <2>2 DEF LimitsKept
<1>2. QED
  BY <1>1, Inductive, PTL
================================================================================
