------------------------------ MODULE SetupProofs ------------------------------
(***************************************************************************)
(* Proofs about the start of a process, for any files, templates and       *)
(* number of starts: struct config is what the ini file means              *)
(* (ConfigRight), the rules are the lines of the regex file                *)
(* (RulesAreTheLines), and a start that fails leaves nothing behind        *)
(* (FailureIsClean).                                                       *)
(*                                                                         *)
(* What a file means is defined without the reader's state.  So the        *)
(* lemmas say first, without a state, what one more line adds to the       *)
(* meaning of those before it; then the invariant says that the reader is  *)
(* where it is with the meaning of what lies behind it.                    *)
(***************************************************************************)
EXTENDS Setup, FiniteSetTheorems, SequenceTheorems, WellFoundedInduction, TLAPS

\* The parts of TypeOK.  A file is there or not, and has a text.
TypeDisk ==
    /\ DOMAIN disk = File
    /\ \A f \in File : disk[f] \in [there : BOOLEAN, text : Seq(Item[f])]
TypePlace ==
    /\ pc \in Place /\ file \in File
    /\ at \in Nat \ {0}
    /\ held \subseteq ErrPath \cup {"patterns"}
    /\ overrun \in BOOLEAN
    /\ starts \in 0 .. MaxStart
    /\ DOMAIN meant = File /\ broken \subseteq File
    /\ lines \in Seq(Seq(Item["regex"]))
TypeFields(c) ==
    /\ DOMAIN c = Option
    /\ \A o \in Port : c[o] \in uint16_t
    /\ \A o \in Switch : c[o] \in {0, 1}
    /\ \A o \in Number : c[o] \in Int
TypeConfig == TypeFields(config)

\* Places: before a file is read, and where the regex policy is made.
Opening == {"access", "open", "copy", "read"}
Making == {"rules", "opt", "set", "add"}

\* A file that is missing should hold its template; the one that is copied holds
\* the beginning of it.
Copying ==
    /\ \A f \in File : ~disk[f].there => meant[f] = Template[f]
    /\ pc = "open" => ~disk[file].there
    /\ pc = "read" => disk[file].there
    /\ pc = "copy" =>
          /\ disk[file].there /\ meant[file] = Template[file]
          /\ Len(disk[file].text) <= Len(Template[file])
          /\ disk[file].text = SubSeq(Template[file], 1, Len(disk[file].text))
    /\ FilesAsMeant

\* What each place of a start has allocated.
Allocated ==
    /\ pc \in Opening => held = IF file = "regex" THEN {"words"} ELSE {}
    /\ pc = "line" => held = {}
    /\ pc = "scan" => held = {"words"}
    /\ pc = "rules" => held = {"words", "lines"}
    /\ pc = "opt" => held = {"words", "lines", "rules"}
    /\ pc = "set" => held = {"words", "lines", "rules", "opt"}
    /\ pc = "add" => held = {"words", "lines", "rules", "opt", "set"}
    /\ pc = "compile" => held = {"words", "lines", "rules", "opt", "set"}
                                \cup IF rules = <<>> THEN {} ELSE {"patterns"}
    /\ pc = "up" => held = {"words", "rules", "opt", "set"}
                           \cup IF rules = <<>> THEN {} ELSE {"patterns"}
    /\ FailureReleases

\* The reader behind line n: its section, and the name before if that is open.
ReaderAt(t, n, s, p) ==
    /\ s = LastName(t, n, "section")
    /\ Open(t, n + 1) => p = LastName(t, n, "pair") /\ p # ""
    /\ ~Open(t, n + 1) => p = ""

\* struct config behind the whole of it.
ConfigOf(t) ==
    [Meaning(t, Len(t)) EXCEPT ![Threads] = IF @ \in 1 .. PARSER_THREAD_MAX THEN @
                                            ELSE PARSER_THREAD_DEFAULT]

IniText == disk["ini"].text
Reading ==
    /\ file = "ini" /\ pc \in Opening => section = "" /\ prev_name = "" /\ config = Zero
    /\ pc = "line" =>
          /\ file = "ini" /\ at <= Len(IniText) + 1
          /\ ReaderAt(IniText, at - 1, section, prev_name)
          /\ config = Meaning(IniText, at - 1)
    /\ file # "ini" => config = ConfigOf(IniText)

\* What was read of the regex file, and which is its next line.
RegexText == disk["regex"].text
Scanning ==
    /\ pc \in Opening => at = 1
    /\ pc \in Opening \cup {"line"} => lines = <<>> /\ ~overrun
    /\ pc = "scan" =>
          /\ file = "regex" /\ at \in {1, Len(RegexText) + 1} \cup Begins(RegexText)
          /\ AreLines(lines, RegexText, at)
    /\ pc \in Making => AreLines(lines, RegexText, Len(RegexText) + 1)
    /\ pc \in {"compile", "up"} => AreLines(rules, RegexText, Len(RegexText) + 1)
    /\ pc \in Making \cup {"compile", "up"} => file = "regex"
    /\ overrun => file = "regex" /\ \A i \in DOMAIN RegexText : RegexText[i] # "n"

\* The inductive invariant.
IInv ==
    /\ TypeDisk /\ TypePlace /\ TypeConfig
    /\ Copying /\ Allocated /\ Reading /\ Scanning

-----------------------------------------------------------------------------
(***************************************************************************)
(* The least and the greatest number of a set.                             *)
(***************************************************************************)

\* A set of numbers has a least one.
LEMMA Least ==
    ASSUME NEW S, S \subseteq Nat, S # {}
    PROVE  \E x \in S : \A y \in S : x <= y
<1>1. PICK x \in S : \A y \in S : ~(<<y, x>> \in OpToRel(<, Nat))
  BY NatLessThanWellFounded, WFMin
<1>2. \A y \in S : ~(y < x)
  BY <1>1 DEF OpToRel
<1>3. QED
  BY <1>2

\* A bounded one has a greatest one.
LEMMA Greatest ==
    ASSUME NEW S, NEW n \in Nat, S \subseteq 0 .. n, S # {}
    PROVE  \E x \in S : \A y \in S : x >= y
<1> DEFINE D == {n - x : x \in S}
<1>1. D \subseteq Nat /\ D # {}
  <2>1. \A x \in S : n - x \in Nat
    OBVIOUS
  <2>2. PICK x \in S : TRUE
    OBVIOUS
  <2>3. n - x \in D
    OBVIOUS
  <2>4. QED
    BY <2>1, <2>3
<1>2. PICK d \in D : \A y \in D : d <= y
  BY <1>1, Least
<1>3. PICK x \in S : d = n - x
  OBVIOUS
<1>4. \A y \in S : n - x <= n - y
  BY <1>2, <1>3
<1>5. \A y \in S : y \in Int
  OBVIOUS
<1>6. QED
  BY <1>3, <1>4, <1>5

\* What Min and Max are.
LEMMA MinIs ==
    ASSUME NEW S, S \subseteq Nat, S # {}
    PROVE  Min(S) \in S /\ \A y \in S : Min(S) <= y
BY Least DEF Min

\* The greatest number of a set is its Max.
LEMMA MaxIs ==
    ASSUME NEW S, S \subseteq Int, NEW m \in S, \A y \in S : m >= y
    PROVE  Max(S) = m
<1>1. Max(S) \in S /\ \A y \in S : Max(S) >= y
  BY DEF Max
<1>2. Max(S) >= m /\ m >= Max(S) /\ Max(S) \in Int /\ m \in Int
  BY <1>1
<1>3. QED
  BY <1>2

-----------------------------------------------------------------------------
(***************************************************************************)
(* The ini file: what line a adds to the meaning of those before it.       *)
(***************************************************************************)

\* A name is open behind a line that names one, or if it was open before, and
\* the line does not close it.
LEMMA OpenNext ==
    ASSUME NEW t, NEW a \in Nat \ {0}
    PROVE  Open(t, a + 1) <=> \/ Names(t[a])
                              \/ Open(t, a) /\ (Closes(t[a]) => t[a].indent)
<1>1. (a + 1) - 1 = a /\ a \in 1 .. a /\ a + 1 .. a = {}
  OBVIOUS
<1>2. ASSUME Open(t, a + 1), ~Names(t[a])
      PROVE  Open(t, a) /\ (Closes(t[a]) => t[a].indent)
  <2>1. PICK j \in 1 .. a : Names(t[j]) /\ \A k \in j + 1 .. a : Closes(t[k]) => t[k].indent
    BY <1>1, <1>2 DEF Open
  <2>2. j # a
    BY <1>2, <2>1
  <2>3. j \in 1 .. a - 1 /\ a \in j + 1 .. a /\ j + 1 .. a - 1 \subseteq j + 1 .. a
    BY <2>1, <2>2
  <2>4. QED
    BY <2>1, <2>3 DEF Open
<1>3. ASSUME Names(t[a]) PROVE Open(t, a + 1)
  BY <1>1, <1>3 DEF Open
<1>4. ASSUME Open(t, a), Closes(t[a]) => t[a].indent PROVE Open(t, a + 1)
  <2>1. PICK j \in 1 .. a - 1 : Names(t[j]) /\ \A k \in j + 1 .. a - 1 : Closes(t[k]) => t[k].indent
    BY <1>4 DEF Open
  <2>2. j \in 1 .. a /\ \A k \in j + 1 .. a : k \in j + 1 .. a - 1 \/ k = a
    BY <2>1
  <2>3. QED
    BY <1>1, <1>4, <2>1, <2>2 DEF Open
<1>5. QED
  BY <1>2, <1>3, <1>4

\* The last name is that of line a, if it gives one.
LEMMA LastNext ==
    ASSUME NEW t, NEW a \in Nat \ {0}, NEW kind
    PROVE  LastName(t, a, kind) =
              IF Real(t, a, kind) THEN t[a].name ELSE LastName(t, a - 1, kind)
<1> DEFINE S(n) == {i \in 1 .. n : Real(t, i, kind)}
<1>1. CASE Real(t, a, kind)
  <2>1. a \in S(a) /\ S(a) \subseteq Int /\ \A y \in S(a) : a >= y
    BY <1>1
  <2>2. Max(S(a)) = a
    BY <2>1, MaxIs
  <2>3. QED
    BY <1>1, <2>1, <2>2 DEF LastName
<1>2. CASE ~Real(t, a, kind)
  <2>1. \A i \in 1 .. a : i = a \/ i \in 1 .. a - 1
    OBVIOUS
  <2>2. \A i \in 1 .. a - 1 : i \in 1 .. a
    OBVIOUS
  <2>3. S(a) = S(a - 1)
    BY <1>2, <2>1, <2>2
  <2>4. QED
    BY <1>2, <2>3 DEF LastName
<1>3. QED
  BY <1>1, <1>2

\* The meaning changes where line a assigns.
LEMMA MeaningNext ==
    ASSUME NEW t, NEW a \in Nat \ {0}
    PROVE  Meaning(t, a) =
              [o \in Option |-> IF Assigns(t, a, o) THEN Stored(o, ValueOf(t, a))
                                                    ELSE Meaning(t, a - 1)[o]]
<1> DEFINE S(n, o) == {i \in 1 .. n : Assigns(t, i, o)}
           F(n, o) == IF S(n, o) = {} THEN Zero[o] ELSE Stored(o, ValueOf(t, Max(S(n, o))))
<1>1. \A n : Meaning(t, n) = [o \in Option |-> F(n, o)]
  BY DEF Meaning
<1>2. ASSUME NEW o, Assigns(t, a, o) PROVE F(a, o) = Stored(o, ValueOf(t, a))
  <2>1. a \in S(a, o) /\ S(a, o) \subseteq Int /\ \A y \in S(a, o) : a >= y
    BY <1>2
  <2>2. Max(S(a, o)) = a
    BY <2>1, MaxIs
  <2>3. QED
    BY <2>1, <2>2
<1>3. ASSUME NEW o, ~Assigns(t, a, o) PROVE F(a, o) = F(a - 1, o)
  <2>1. \A i \in 1 .. a : i = a \/ i \in 1 .. a - 1
    OBVIOUS
  <2>2. \A i \in 1 .. a - 1 : i \in 1 .. a
    OBVIOUS
  <2>3. S(a, o) = S(a - 1, o)
    BY <1>3, <2>1, <2>2
  <2>4. QED
    BY <2>3
<1> HIDE DEF F
<1>4. \A o \in Option : Meaning(t, a - 1)[o] = F(a - 1, o)
  BY <1>1
<1>5. \A o \in Option : F(a, o) = IF Assigns(t, a, o) THEN Stored(o, ValueOf(t, a))
                                                    ELSE Meaning(t, a - 1)[o]
  BY <1>2, <1>3, <1>4
<1>6. QED
  BY <1>1, <1>5

\* Before its first line a file means nothing.
LEMMA MeaningBegins ==
    ASSUME NEW t
    PROVE  Meaning(t, 0) = Zero /\ ReaderAt(t, 0, "", "")
<1>1. 1 .. 0 = {} /\ 1 .. (0 + 1) - 1 = {}
  OBVIOUS
<1>2. Meaning(t, 0) = [o \in Option |-> Zero[o]]
  BY <1>1 DEF Meaning
<1>3. Zero = [o \in Option |-> Zero[o]]
  BY DEF Zero
<1>4. LastName(t, 0, "section") = "" /\ ~Open(t, 0 + 1)
  BY <1>1 DEF LastName, Open
<1>5. QED
  BY <1>2, <1>3, <1>4 DEF ReaderAt

-----------------------------------------------------------------------------
(***************************************************************************)
(* The regex file: from one line to the next.                              *)
(***************************************************************************)

\* The end of a line: no newline before it, and one there unless the file ends.
LEMMA EolIs ==
    ASSUME NEW T, NEW c \in Seq(T), NEW i \in 1 .. Len(c) + 1
    PROVE  /\ Eol(c, i) \in i .. Len(c) + 1
           /\ Eol(c, i) <= Len(c) => c[Eol(c, i)] = "n"
           /\ \A k \in i .. Eol(c, i) - 1 : c[k] # "n"
<1> DEFINE S == {k \in i .. Len(c) + 1 : k = Len(c) + 1 \/ c[k] = "n"}
<1>1. Len(c) \in Nat /\ i \in Nat
  OBVIOUS
<1>2. Len(c) + 1 \in S /\ S \subseteq Nat
  BY <1>1
<1>3. Min(S) \in S /\ \A y \in S : Min(S) <= y
  BY <1>2, MinIs
<1>4. Eol(c, i) = Min(S)
  BY DEF Eol
<1>5. Eol(c, i) \in i .. Len(c) + 1 /\ (Eol(c, i) <= Len(c) => c[Eol(c, i)] = "n")
  BY <1>1, <1>3, <1>4
<1>6. ASSUME NEW k \in i .. Eol(c, i) - 1 PROVE c[k] # "n"
  <2>1. k \in i .. Len(c) + 1 /\ ~(Eol(c, i) <= k)
    BY <1>1, <1>5
  <2>2. k \notin S
    BY <1>3, <1>4, <2>1
  <2>3. QED
    BY <2>1, <2>2
<1>7. QED
  BY <1>5, <1>6

\* The white space behind it.
LEMMA SkipIs ==
    ASSUME NEW T, NEW c \in Seq(T), NEW i \in 1 .. Len(c) + 1
    PROVE  /\ Skip(c, i) \in i .. Len(c) + 1
           /\ Skip(c, i) <= Len(c) => c[Skip(c, i)] \notin {"n", "s"}
           /\ \A k \in i .. Skip(c, i) - 1 : c[k] \in {"n", "s"}
<1> DEFINE S == {k \in i .. Len(c) + 1 : k = Len(c) + 1 \/ c[k] \notin {"n", "s"}}
<1>1. Len(c) \in Nat /\ i \in Nat
  OBVIOUS
<1>2. Len(c) + 1 \in S /\ S \subseteq Nat
  BY <1>1
<1>3. Min(S) \in S /\ \A y \in S : Min(S) <= y
  BY <1>2, MinIs
<1>4. Skip(c, i) = Min(S)
  BY DEF Skip
<1>5. Skip(c, i) \in i .. Len(c) + 1 /\ (Skip(c, i) <= Len(c) => c[Skip(c, i)] \notin {"n", "s"})
  BY <1>1, <1>3, <1>4
<1>6. ASSUME NEW k \in i .. Skip(c, i) - 1 PROVE c[k] \in {"n", "s"}
  <2>1. k \in i .. Len(c) + 1 /\ ~(Skip(c, i) <= k)
    BY <1>1, <1>5
  <2>2. k \notin S
    BY <1>3, <1>4, <2>1
  <2>3. QED
    BY <2>1, <2>2
<1>7. QED
  BY <1>5, <1>6

\* Behind a line and the white space after it the next line begins, or the file
\* ends; no line begins in between.
LEMMA NextLineBegins ==
    ASSUME NEW T, NEW c \in Seq(T), NEW a \in Begins(c),
           NEW s, s = Skip(c, Eol(c, a))
    PROVE  /\ s \in a + 1 .. Len(c) + 1
           /\ s = Len(c) + 1 \/ s \in Begins(c)
           /\ \A i \in Begins(c) : i < s <=> i <= a
<1> DEFINE e == Eol(c, a)
<1>1. Len(c) \in Nat /\ a \in 1 .. Len(c) /\ a \in 1 .. Len(c) + 1 /\ c[a] # "n" /\ DOMAIN c = 1 .. Len(c)
  BY DEF Begins
<1>2. /\ e \in a .. Len(c) + 1 /\ (e <= Len(c) => c[e] = "n")
      /\ \A k \in a .. e - 1 : c[k] # "n"
  BY <1>1, EolIs
<1> HIDE DEF e
<1>3. e \in a + 1 .. Len(c) + 1 /\ e \in 1 .. Len(c) + 1
  BY <1>1, <1>2
<1>4. /\ s \in e .. Len(c) + 1 /\ (s <= Len(c) => c[s] \notin {"n", "s"})
      /\ \A k \in e .. s - 1 : c[k] \in {"n", "s"}
  BY <1>3, SkipIs DEF e
<1>5. s \in a + 1 .. Len(c) + 1
  BY <1>1, <1>3, <1>4
<1>6. ASSUME s # Len(c) + 1 PROVE s \in Begins(c)
  <2>1. s <= Len(c) /\ e <= Len(c) /\ c[e] = "n" /\ c[s] \notin {"n", "s"} /\ s # e
    BY <1>1, <1>2, <1>3, <1>4, <1>6
  <2>2. e \in e .. s - 1
    BY <1>3, <1>4, <2>1
  <2> DEFINE N == {k \in e .. s - 1 : c[k] = "n"}
  <2>3. PICK j \in N : \A k \in N : j >= k
    <3>1. N \subseteq 0 .. Len(c) + 1 /\ Len(c) + 1 \in Nat
      BY <1>1, <1>3, <1>4
    <3>2. N # {}
      BY <2>1, <2>2
    <3> HIDE DEF N
    <3>3. QED
      BY <3>1, <3>2, Greatest
  <2>4. ASSUME NEW k \in j + 1 .. s - 1 PROVE c[k] = "s"
    <3>1. k \in e .. s - 1 /\ ~(j >= k)
      BY <1>3, <1>4, <2>3
    <3>2. c[k] # "n"
      BY <2>3, <3>1
    <3>3. QED
      BY <1>4, <3>1, <3>2
  <2>5. j \in 1 .. s - 1 /\ s \in 1 .. Len(c)
    BY <1>1, <1>3, <1>4, <2>1, <2>3
  <2>6. QED
    BY <1>1, <2>1, <2>3, <2>4, <2>5 DEF Begins
<1>7. ASSUME NEW i \in Begins(c), a < i, i < s PROVE FALSE
  <2>1. i \in 1 .. Len(c) /\ i # 1 /\ c[i] # "n" /\ c[i] # "s"
    BY <1>1, <1>7 DEF Begins
  <2>2. PICK j \in 1 .. i - 1 : c[j] = "n" /\ \A k \in j + 1 .. i - 1 : c[k] = "s"
    BY <1>1, <1>7, <2>1 DEF Begins
  <2>3. i < e
    BY <1>3, <1>4, <1>7, <2>1
  <2>4. j < a
    BY <1>1, <1>2, <1>3, <2>2, <2>3
  <2>5. a \in j + 1 .. i - 1
    BY <1>1, <1>7, <2>1, <2>2, <2>4
  <2>6. c[a] = "s" /\ a # 1
    BY <1>1, <2>2, <2>4, <2>5
  <2>7. QED
    BY <2>6 DEF Begins
<1>8. \A i \in Begins(c) : i \in 1 .. Len(c)
  BY <1>1 DEF Begins
<1>9. QED
  BY <1>1, <1>5, <1>6, <1>7, <1>8

\* Where no line begins there are none.
LEMMA NoLines ==
    ASSUME NEW T, NEW c \in Seq(T)
    PROVE  AreLines(<<>>, c, 1)
<1>1. {i \in RegularAt(c) : i < 1} = {}
  BY DEF RegularAt, Begins
<1>2. QED
  BY <1>1, FS_EmptySet DEF AreLines

\* The regular lines are finitely many.
LEMMA LinesFinite ==
    ASSUME NEW T, NEW c \in Seq(T)
    PROVE  IsFiniteSet(RegularAt(c)) /\ RegularAt(c) \subseteq Nat
<1>1. RegularAt(c) \subseteq 1 .. Len(c)
  BY DEF RegularAt, Begins
<1>2. QED
  BY <1>1, FS_Interval, FS_Subset

\* A line that is read is one more, if it is regular.
LEMMA LineRead ==
    ASSUME NEW T, NEW c \in Seq(T), NEW a \in Begins(c),
           NEW s \in Nat, \A i \in Begins(c) : i < s <=> i <= a,
           NEW ls \in Seq(Seq(T)), AreLines(ls, c, a),
           NEW m, m = IF Regular(LineAt(c, a)) THEN Append(ls, LineAt(c, a)) ELSE ls
    PROVE  AreLines(m, c, s)
<1> DEFINE R == {i \in RegularAt(c) : i < a}
           Q == {i \in RegularAt(c) : i < s}
<1>1. a \in Nat /\ RegularAt(c) \subseteq Begins(c) /\ RegularAt(c) \subseteq Nat
  BY LinesFinite DEF RegularAt, Begins
<1>2. IsFiniteSet(R) /\ IsFiniteSet(Q) /\ Cardinality(R) \in Nat
  BY LinesFinite, FS_Subset, FS_CardinalityType
<1>3. Q = {i \in RegularAt(c) : i <= a}
  BY <1>1
<1>4. Len(ls) = Cardinality(R) /\ \A i \in R : ls[Cardinality({j \in R : j <= i})] = LineAt(c, i)
  BY DEF AreLines
<1>5. CASE ~Regular(LineAt(c, a))
  <2>1. a \notin RegularAt(c)
    BY <1>5 DEF RegularAt
  <2>2. Q = R
    BY <1>1, <1>3, <2>1
  <2>3. QED
    BY <1>4, <1>5, <2>2 DEF AreLines
<1>6. CASE Regular(LineAt(c, a))
  <2>1. a \in RegularAt(c)
    BY <1>6 DEF RegularAt
  <2>2. Q = R \cup {a} /\ a \notin R
    BY <1>1, <1>3, <2>1
  <2>3. Cardinality(Q) = Cardinality(R) + 1
    BY <1>2, <2>2, FS_AddElement
  <2>4. /\ Len(m) = Len(ls) + 1 /\ m[Len(ls) + 1] = LineAt(c, a)
        /\ \A k \in 1 .. Len(ls) : m[k] = ls[k]
    BY <1>6
  <2>5. ASSUME NEW i \in Q PROVE m[Cardinality({j \in Q : j <= i})] = LineAt(c, i)
    <3>1. CASE i = a
      <4>1. {j \in Q : j <= i} = Q
        BY <1>3, <3>1
      <4>2. QED
        BY <1>4, <2>3, <2>4, <3>1, <4>1
    <3>2. CASE i # a
      <4>1. i \in R /\ {j \in Q : j <= i} = {j \in R : j <= i}
        BY <1>1, <2>2, <2>5, <3>2
      <4>2. {j \in R : j <= i} \in SUBSET R /\ {j \in R : j <= i} # {}
        BY <1>1, <4>1
      <4>3. Cardinality({j \in R : j <= i}) \in 1 .. Len(ls)
        <5> DEFINE P == {j \in R : j <= i}
        <5> HIDE DEF P, R
        <5>1. IsFiniteSet(P) /\ Cardinality(P) <= Cardinality(R)
          BY <1>2, <4>2, FS_Subset DEF P
        <5>2. Cardinality(P) \in Nat /\ Cardinality(P) # 0
          BY <4>2, <5>1, FS_CardinalityType, FS_EmptySet DEF P
        <5>3. QED
          BY <1>2, <1>4, <5>1, <5>2 DEF P
      <4>4. QED
        BY <1>4, <2>4, <4>1, <4>3
    <3>3. QED
      BY <3>1, <3>2
  <2>6. QED
    BY <1>4, <2>3, <2>4, <2>5 DEF AreLines
<1>7. QED
  BY <1>5, <1>6

-----------------------------------------------------------------------------
(***************************************************************************)
(* Types.                                                                  *)
(***************************************************************************)

\* The kinds of options are apart.
LEMMA OptionKinds ==
    /\ Option = Port \cup Switch \cup Number \cup Text
    /\ \A o \in Port : o \notin Switch \cup Number \cup Text
    /\ \A o \in Switch : o \notin Port \cup Number \cup Text
    /\ \A o \in Number : o \notin Port \cup Switch \cup Text
    /\ Threads \in Number
BY DEF Option, Port, Switch, Number, Threads, Text

\* What an option can hold.
LEMMA StoredTyped ==
    ASSUME NEW c, TypeFields(c), NEW p \in Option, NEW v, v.num \in Int
    PROVE  TypeFields([c EXCEPT ![p] = Stored(p, v)])
<1>1. p \in Port => Stored(p, v) = v.num % 65536
  BY OptionKinds DEF Stored
<1>2. p \in Switch => Stored(p, v) \in {0, 1}
  BY OptionKinds DEF Stored
<1>3. p \in Number => Stored(p, v) = v.num
  BY OptionKinds DEF Stored
<1>4. v.num % 65536 \in uint16_t
  <2>1. \A n \in Int : n % 65536 \in uint16_t
    BY DEF uint16_t
  <2>2. QED
    BY <2>1
<1> DEFINE w == Stored(p, v)
           d == [c EXCEPT ![p] = w]
<1>5. /\ p \in Port => w \in uint16_t
      /\ p \in Switch => w \in {0, 1}
      /\ p \in Number => w \in Int
  BY <1>1, <1>2, <1>3, <1>4
<1> HIDE DEF w
<1>6. DOMAIN c = Option
  BY DEF TypeFields
<1>7. DOMAIN d = Option /\ d[p] = w /\ \A o \in Option : o # p => d[o] = c[o]
  BY <1>6
<1> HIDE DEF d
<1>8. TypeFields(d)
  BY <1>5, <1>7, OptionKinds DEF TypeFields
<1>9. QED
  BY <1>8 DEF d, w

\* An empty configuration, and one with the number of threads in its range.
LEMMA ZeroTyped == TypeFields(Zero)
<1>1. \A o \in Option : o \notin Text => Zero[o] = 0
  BY DEF Zero
<1>2. DOMAIN Zero = Option /\ 0 \in uint16_t
  BY DEF Zero, uint16_t
<1>3. QED
  BY <1>1, <1>2, OptionKinds DEF TypeFields

\* A number of threads out of its range becomes one in it.
LEMMA ValidTyped ==
    ASSUME NEW c, TypeFields(c)
    PROVE  TypeFields(Valid(c))
<1>1. Threads \in Number /\ Threads \in Option /\ Threads \notin Port \cup Switch
  BY OptionKinds
<1>2. DOMAIN c = Option /\ c[Threads] \in Int
  BY <1>1 DEF TypeFields
<1>3. /\ DOMAIN Valid(c) = Option
      /\ Valid(c)[Threads] \in Int
      /\ \A p \in Option : p # Threads => Valid(c)[p] = c[p]
  BY <1>1, <1>2 DEF Valid, PARSER_THREAD_DEFAULT
<1>4. QED
  BY <1>1, <1>3, OptionKinds DEF TypeFields

\* What is left is something.
LEMMA Smaller ==
    ASSUME NEW a \in Nat, NEW b \in Nat, b - a > 0
    PROVE  a < b
OBVIOUS

\* One more block of a template is written.
LEMMA LongerCopy ==
    ASSUME NEW T, NEW s \in Seq(T), NEW k \in Nat, k < Len(s)
    PROVE  SubSeq(s, 1, k + 1) \in Seq(T) /\ Len(SubSeq(s, 1, k + 1)) = k + 1
<1>1. k + 1 \in Int /\ 1 <= k + 1 /\ \A i \in 1 .. k + 1 : i \in 1 .. Len(s)
  OBVIOUS
<1>2. \A i \in 1 .. k + 1 : s[i] \in T
  BY <1>1
<1>3. QED
  BY <1>1, <1>2, SubSeqProperties

\* The line that the ini reader is at.
LEMMA LineTyped ==
    ASSUME TypeDisk, TypePlace, MoreLines
    PROVE  IsLine(Line) /\ at \in 1 .. Len(IniText) /\ Line = IniText[at]
<1>1. IniText \in Seq(Item["ini"])
  BY DEF TypeDisk, File, IniText
<1>2. at \in 1 .. Len(IniText)
  BY <1>1 DEF MoreLines, TypePlace, IniText
<1>3. QED
  BY <1>1, <1>2, ItemAssumption DEF Line, IniText

\* The step of the regex reader.
LEMMA ScanLineStep ==
    ASSUME IInv, ScanLine
    PROVE  /\ at' \in at + 1 .. Len(RegexText) + 1
           /\ at \in Begins(RegexText)
           /\ at' = Len(RegexText) + 1 \/ at' \in Begins(RegexText)
           /\ LineAt(RegexText, at) \in Seq(Item["regex"])
           /\ AreLines(lines', RegexText, at')
           /\ lines' \in Seq(Seq(Item["regex"]))
<1> USE DEF IInv
<1>1. RegexText \in Seq(Item["regex"])
  BY DEF TypeDisk, File, RegexText
<1>2. /\ pc = "scan" /\ at <= Len(RegexText) /\ RegexText[at] # "n"
      /\ at' = Skip(RegexText, Eol(RegexText, at))
      /\ lines' = IF Regular(LineAt(RegexText, at)) THEN Append(lines, LineAt(RegexText, at)) ELSE lines
  BY DEF ScanLine, Goto, RegexText, LineAt
<1>3. at \in Begins(RegexText)
  BY <1>1, <1>2 DEF Scanning, Begins
<1>4. /\ at' \in at + 1 .. Len(RegexText) + 1
      /\ at' = Len(RegexText) + 1 \/ at' \in Begins(RegexText)
      /\ \A i \in Begins(RegexText) : i < at' <=> i <= at
  BY <1>1, <1>2, <1>3, NextLineBegins
<1>5. at' \in Nat
  BY <1>4 DEF TypePlace
<1>6. LineAt(RegexText, at) \in Seq(Item["regex"])
  <2>1. at \in 1 .. Len(RegexText) /\ at \in 1 .. Len(RegexText) + 1
    BY <1>1, <1>3 DEF Begins
  <2>2. Eol(RegexText, at) \in at .. Len(RegexText) + 1
    BY <1>1, <2>1, EolIs
  <2>3. SubSeq(RegexText, at, Eol(RegexText, at) - 1) \in Seq(Item["regex"])
    <3> DEFINE n == Eol(RegexText, at) - 1
    <3>1. n \in Int /\ at \in Int /\ \A i \in at .. n : i \in 1 .. Len(RegexText)
      BY <1>1, <2>1, <2>2
    <3> HIDE DEF n
    <3>2. \A i \in at .. n : RegexText[i] \in Item["regex"]
      BY <1>1, <3>1
    <3>3. SubSeq(RegexText, at, n) \in Seq(Item["regex"])
      BY <3>1, <3>2, SubSeqProperties
    <3>4. QED
      BY <3>3 DEF n
  <2>4. QED
    BY <2>3 DEF LineAt
<1>7. AreLines(lines, RegexText, at) /\ lines \in Seq(Seq(Item["regex"]))
  BY <1>2 DEF Scanning, TypePlace
<1>8. AreLines(lines', RegexText, at')
  BY <1>1, <1>2, <1>3, <1>4, <1>5, <1>7, LineRead
<1>9. lines' \in Seq(Seq(Item["regex"]))
  <2>1. Append(lines, LineAt(RegexText, at)) \in Seq(Seq(Item["regex"]))
    BY <1>6, <1>7, AppendProperties
  <2>2. QED
    BY <1>2, <1>7, <2>1
<1>10. QED
  BY <1>3, <1>4, <1>6, <1>8, <1>9

\* The files keep their types.
LEMMA TypeDiskStep == IInv /\ [Next]_vars => TypeDisk'
<1> SUFFICES ASSUME IInv, [Next]_vars PROVE TypeDisk'
  OBVIOUS
<1> USE DEF IInv
<1>1. CASE Start
  BY <1>1 DEF Start, reader, policy, copied, TypeDisk
<1>2. CASE Kill
  BY <1>2 DEF Kill, reader, policy, copied, TypeDisk
<1>3. CASE Access
  BY <1>3 DEF Access, Goto, reader, policy, copied, TypeDisk
<1>4. CASE CopyOpen
  <2>1. <<>> \in Seq(Item[file])
    OBVIOUS
  <2>2. QED
    BY <1>4, <2>1 DEF CopyOpen, Goto, There, TypeDisk, TypePlace
<1>5. CASE CopyBlock
  <2>1. /\ disk[file].text \in Seq(Item[file]) /\ Template[file] \in Seq(Item[file])
        /\ Len(Template[file]) - Len(disk[file].text) > 0
        /\ disk[file] \in [there : BOOLEAN, text : Seq(Item[file])]
    BY <1>5, TemplateAssumption DEF CopyBlock, Rest, TypeDisk, TypePlace
  <2>2. SubSeq(Template[file], 1, Len(disk[file].text) + 1) \in Seq(Item[file])
    <3>1. Len(disk[file].text) \in Nat /\ Len(Template[file]) \in Nat
      BY <2>1
    <3>2. Len(disk[file].text) < Len(Template[file])
      BY <2>1, <3>1, Smaller
    <3>3. QED
      BY <2>1, <3>1, <3>2, LongerCopy
  <2>3. disk' = [disk EXCEPT ![file] = There(SubSeq(Template[file], 1, Len(disk[file].text) + 1))]
    BY <1>5 DEF CopyBlock
  <2>4. QED
    BY <2>1, <2>2, <2>3 DEF TypeDisk, TypePlace, There
<1>6. CASE CopyShort
  BY <1>6 DEF CopyShort, Goto, reader, policy, copied, TypeDisk
<1>7. CASE CopyDone
  BY <1>7 DEF CopyDone, Goto, reader, policy, copied, TypeDisk
<1>8. CASE IniOpen
  BY <1>8 DEF IniOpen, Goto, reader, policy, copied, TypeDisk
<1>9. CASE IniComment
  BY <1>9 DEF IniComment, MoreLines, NextLine, process, reader, policy, copied, TypeDisk
<1>10. CASE IniContinuation
  BY <1>10 DEF IniContinuation, MoreLines, NextLine, process, reader, policy, copied, TypeDisk
<1>11. CASE IniSection
  BY <1>11 DEF IniSection, MoreLines, NextLine, process, reader, policy, copied, TypeDisk
<1>12. CASE IniPair
  BY <1>12 DEF IniPair, MoreLines, NextLine, process, reader, policy, copied, TypeDisk
<1>13. CASE IniJunk
  BY <1>13 DEF IniJunk, MoreLines, NextLine, process, reader, policy, copied, TypeDisk
<1>14. CASE IniEnd
  BY <1>14 DEF IniEnd, NextFile, reader, policy, copied, TypeDisk
<1>15. CASE WordCreate
  BY <1>15 DEF WordCreate, NextFile, reader, policy, copied, TypeDisk
<1>16. CASE WordCrash
  BY <1>16 DEF WordCrash, Goto, reader, policy, copied, TypeDisk
<1>17. CASE RegexOpen
  BY <1>17 DEF RegexOpen, Goto, reader, policy, copied, TypeDisk
<1>18. CASE ScanLine
  BY <1>18 DEF ScanLine, Goto, reader, policy, copied, TypeDisk
<1>19. CASE ScanStuck
  BY <1>19 DEF ScanStuck, Goto, reader, policy, copied, TypeDisk
<1>20. CASE ScanEnd
  BY <1>20 DEF ScanEnd, Goto, reader, policy, copied, TypeDisk
<1>21. CASE RulesMalloc
  BY <1>21 DEF RulesMalloc, Allocate, Goto, reader, policy, copied, TypeDisk
<1>22. CASE OptNew
  BY <1>22 DEF OptNew, Allocate, Goto, reader, policy, copied, TypeDisk
<1>23. CASE SetNew
  BY <1>23 DEF SetNew, Allocate, Goto, reader, policy, copied, TypeDisk
<1>24. CASE SetAdd
  BY <1>24 DEF SetAdd, Goto, reader, policy, copied, TypeDisk
<1>25. CASE SetCompile
  BY <1>25 DEF SetCompile, Goto, reader, policy, copied, TypeDisk
<1>26. CASE Fail
  BY <1>26 DEF Fail, reader, policy, copied, TypeDisk
<1>27. CASE Stop
  BY <1>27 DEF Stop, Goto, reader, policy, copied, TypeDisk
<1>28. CASE UNCHANGED vars
  BY <1>28 DEF vars, process, reader, policy, copied, TypeDisk
<1>29. QED
  BY <1>1, <1>2, <1>3, <1>4, <1>5, <1>6, <1>7, <1>8, <1>9, <1>10, <1>11, <1>12, <1>13, <1>14,
     <1>15, <1>16, <1>17, <1>18, <1>19, <1>20, <1>21, <1>22, <1>23, <1>24, <1>25, <1>26, <1>27,
     <1>28 DEF Next, Work, Copy, LoadConfig, IniLine, WordPolicy, RegexPolicy

\* The place, and what goes with it.
LEMMA TypePlaceStep == IInv /\ [Next]_vars => TypePlace'
<1> SUFFICES ASSUME IInv, [Next]_vars PROVE TypePlace'
  OBVIOUS
<1> USE DEF IInv
<1>1. CASE Start
  <2>1. starts' \in 0 .. MaxStart
    <3>1. starts \in 0 .. MaxStart /\ starts < MaxStart /\ starts' = starts + 1
      BY <1>1 DEF Start, TypePlace
    <3>2. QED
      BY <3>1, MaxStartAssumption
  <2>2. lines' \in Seq(Seq(Item["regex"]))
    <3>1. lines' = <<>>
      BY <1>1 DEF Start
    <3>2. QED
      BY <3>1
  <2>3. pc' = "access" /\ file' = "ini" /\ at' = 1 /\ overrun' = FALSE /\ held' = {}
        /\ UNCHANGED <<meant, broken>>
    BY <1>1 DEF Start, copied
  <2>4. pc' \in Place /\ file' \in File
    BY <2>3 DEF Place, File
  <2>5. at' \in Nat \ {0} /\ overrun' \in BOOLEAN /\ held' \subseteq ErrPath \cup {"patterns"}
    <3>1. at' \in Nat \ {0}
      BY <2>3
    <3>2. overrun' \in BOOLEAN
      BY <2>3
    <3>3. held' \subseteq ErrPath \cup {"patterns"}
      BY <2>3
    <3>4. QED
      BY <3>1, <3>2, <3>3
  <2>6. DOMAIN meant' = File /\ broken' \subseteq File
    BY <2>3 DEF TypePlace
  <2>7. QED
    BY <2>1, <2>2, <2>4, <2>5, <2>6 DEF TypePlace
<1>2. CASE Kill
  BY <1>2 DEF Kill, reader, policy, copied, TypePlace, Place
<1>3. CASE Access
  BY <1>3 DEF Access, Goto, reader, policy, copied, TypePlace, Place
<1>4. CASE CopyOpen
  BY <1>4 DEF CopyOpen, Goto, reader, policy, copied, TypePlace, Place
<1>5. CASE CopyBlock
  BY <1>5 DEF CopyBlock, Goto, reader, policy, copied, TypePlace, Place
<1>6. CASE CopyShort
  BY <1>6 DEF CopyShort, Goto, reader, policy, copied, TypePlace, Place
<1>7. CASE CopyDone
  BY <1>7 DEF CopyDone, Goto, reader, policy, copied, TypePlace, Place
<1>8. CASE IniOpen
  BY <1>8 DEF IniOpen, Goto, reader, policy, copied, TypePlace, Place
<1>9. CASE IniComment
  BY <1>9 DEF IniComment, MoreLines, NextLine, process, reader, policy, copied, TypePlace, Place
<1>10. CASE IniContinuation
  BY <1>10 DEF IniContinuation, MoreLines, NextLine, process, reader, policy, copied, TypePlace,
     Place
<1>11. CASE IniSection
  <2>1. /\ UNCHANGED <<pc, file, held, overrun, starts, meant, broken, lines>>
        /\ at' = at + 1
    BY <1>11 DEF IniSection, NextLine, process, policy, copied
  <2>2. QED
    BY <2>1 DEF TypePlace
<1>12. CASE IniPair
  BY <1>12 DEF IniPair, MoreLines, NextLine, process, reader, policy, copied, TypePlace, Place
<1>13. CASE IniJunk
  BY <1>13 DEF IniJunk, MoreLines, NextLine, process, reader, policy, copied, TypePlace, Place
<1>14. CASE IniEnd
  BY <1>14 DEF IniEnd, NextFile, reader, policy, copied, TypePlace, Place, File
<1>15. CASE WordCreate
  BY <1>15 DEF WordCreate, NextFile, reader, policy, copied, TypePlace, Place, File, ErrPath
<1>16. CASE WordCrash
  BY <1>16 DEF WordCrash, Goto, reader, policy, copied, TypePlace, Place
<1>17. CASE RegexOpen
  BY <1>17 DEF RegexOpen, Goto, reader, policy, copied, TypePlace, Place
<1>18. CASE ScanLine
  BY <1>18, ScanLineStep DEF ScanLine, Goto, reader, policy, copied, TypePlace, Place
<1>19. CASE ScanStuck
  BY <1>19 DEF ScanStuck, Goto, reader, policy, copied, TypePlace, Place
<1>20. CASE ScanEnd
  BY <1>20 DEF ScanEnd, Goto, reader, policy, copied, TypePlace, Place, ErrPath
<1>21. CASE RulesMalloc
  BY <1>21 DEF RulesMalloc, Allocate, Goto, reader, policy, copied, TypePlace, Place, ErrPath
<1>22. CASE OptNew
  BY <1>22 DEF OptNew, Allocate, Goto, reader, policy, copied, TypePlace, Place, ErrPath
<1>23. CASE SetNew
  BY <1>23 DEF SetNew, Allocate, Goto, reader, policy, copied, TypePlace, Place, ErrPath
<1>24. CASE SetAdd
  BY <1>24 DEF SetAdd, Goto, reader, policy, copied, TypePlace, Place
<1>25. CASE SetCompile
  BY <1>25 DEF SetCompile, Goto, reader, policy, copied, TypePlace, Place
<1>26. CASE Fail
  BY <1>26 DEF Fail, reader, policy, copied, TypePlace, Place
<1>27. CASE Stop
  BY <1>27 DEF Stop, Goto, reader, policy, copied, TypePlace, Place
<1>28. CASE UNCHANGED vars
  BY <1>28 DEF vars, process, reader, policy, copied, TypePlace, Place
<1>29. QED
  BY <1>1, <1>2, <1>3, <1>4, <1>5, <1>6, <1>7, <1>8, <1>9, <1>10, <1>11, <1>12, <1>13, <1>14,
     <1>15, <1>16, <1>17, <1>18, <1>19, <1>20, <1>21, <1>22, <1>23, <1>24, <1>25, <1>26, <1>27,
     <1>28 DEF Next, Work, Copy, LoadConfig, IniLine, WordPolicy, RegexPolicy

\* What a step does to struct config.
LEMMA ConfigSteps ==
    ASSUME [Next]_vars
    PROVE  \/ config' = config
           \/ Start /\ config' = Zero
           \/ (IniContinuation \/ IniPair)
                /\ \E o \in Option, v \in {Line.value, Line.whole} :
                      config' = [config EXCEPT ![o] = Stored(o, v)]
           \/ IniEnd /\ config' = Valid(config)
<1>1. CASE Start
  BY <1>1 DEF Start
<1>2. CASE IniContinuation \/ IniPair
  BY <1>2 DEF IniContinuation, IniPair, Handler
<1>3. CASE IniEnd
  BY <1>3 DEF IniEnd
<1>4. CASE Kill \/ Copy \/ Fail \/ Stop \/ UNCHANGED vars
  BY <1>4 DEF Kill, Copy, Access, CopyOpen, CopyBlock, CopyShort, CopyDone, Fail, Stop, vars
<1>5. CASE IniOpen \/ IniComment \/ IniSection \/ IniJunk \/ WordPolicy
  BY <1>5 DEF IniOpen, IniComment, IniSection, IniJunk, WordPolicy, WordCreate, WordCrash
<1>6. CASE RegexPolicy
  BY <1>6 DEF RegexPolicy, RegexOpen, ScanLine, ScanStuck, ScanEnd, RulesMalloc, OptNew, SetNew,
              Allocate, SetAdd, SetCompile
<1>7. QED
  BY <1>1, <1>2, <1>3, <1>4, <1>5, <1>6 DEF Next, Work, LoadConfig, IniLine

\* The fields of struct config.
LEMMA TypeConfigStep == IInv /\ [Next]_vars => TypeConfig'
<1> SUFFICES ASSUME IInv, [Next]_vars PROVE TypeFields(config')
  BY DEF TypeConfig
<1>0. TypeFields(config)
  BY DEF IInv, TypeConfig
<1>1. CASE config' = config
  BY <1>0, <1>1, Zenon
<1>2. CASE config' = Zero
  BY <1>2, ZeroTyped, Zenon
<1>3. CASE /\ IniContinuation \/ IniPair
           /\ \E o \in Option, v \in {Line.value, Line.whole} :
                 config' = [config EXCEPT ![o] = Stored(o, v)]
  <2>1. MoreLines
    BY <1>3 DEF IniContinuation, IniPair
  <2>2. Line.value.num \in Int /\ Line.whole.num \in Int
    BY <2>1, LineTyped DEF IInv, IsLine
  <2>3. PICK o \in Option, v \in {Line.value, Line.whole} :
               config' = [config EXCEPT ![o] = Stored(o, v)]
    BY <1>3
  <2>4. v.num \in Int
    BY <2>2
  <2>5. TypeFields([config EXCEPT ![o] = Stored(o, v)])
    BY <1>0, <2>4, StoredTyped, Zenon
  <2>6. QED
    BY <2>3, <2>5, Zenon
<1>4. CASE config' = Valid(config)
  BY <1>0, <1>4, ValidTyped, Zenon
<1>5. QED
  BY <1>1, <1>2, <1>3, <1>4, ConfigSteps, Zenon

\* The files hold what they should.
LEMMA CopyingStep == IInv /\ [Next]_vars => Copying'
<1> SUFFICES ASSUME IInv, [Next]_vars PROVE Copying'
  OBVIOUS
<1> USE DEF IInv
<1>1. CASE Start
  BY <1>1 DEF Start, copied, Copying, FilesAsMeant
<1>2. CASE Kill
  BY <1>2 DEF Kill, reader, policy, copied, Copying, FilesAsMeant
<1>3. CASE Access
  BY <1>3 DEF Access, Goto, reader, policy, copied, Copying, FilesAsMeant
<1>4. CASE CopyOpen
  <2>1. /\ pc = "open" /\ pc' = "copy" /\ ~disk[file].there /\ file \in File /\ file' = file
        /\ UNCHANGED <<meant, broken>> /\ meant[file] = Template[file]
    BY <1>4 DEF CopyOpen, Goto, Copying, TypePlace, copied
  <2>2. /\ disk'[file] = There(<<>>)
        /\ \A f \in File : f # file => disk'[f] = disk[f]
    BY <1>4, <2>1 DEF CopyOpen, TypeDisk
  <2>3. disk'[file].there /\ disk'[file].text = <<>>
    BY <2>2 DEF There
  <2>4. Template[file] \in Seq(Item[file])
    BY <2>1, TemplateAssumption
  <2>5. 0 <= Len(Template[file]) /\ SubSeq(Template[file], 1, 0) = <<>> /\ Len(<<>>) = 0
    BY <2>4
  <2>6. FilesAsMeant'
    BY <2>1, <2>2, <2>3 DEF Copying, FilesAsMeant
  <2>7. QED
    BY <2>1, <2>2, <2>3, <2>5, <2>6 DEF Copying
<1>5. CASE CopyBlock
  <2> DEFINE n == Len(disk[file].text) + 1
             s == SubSeq(Template[file], 1, n)
  <2>1. /\ pc = "copy" /\ pc' = "copy" /\ file \in File /\ file' = file
        /\ UNCHANGED <<meant, broken>> /\ meant[file] = Template[file]
    BY <1>5 DEF CopyBlock, Goto, Copying, TypePlace, copied
  <2>2. /\ disk'[file] = There(s)
        /\ \A f \in File : f # file => disk'[f] = disk[f]
    BY <1>5, <2>1 DEF CopyBlock, TypeDisk
  <2>3. disk'[file].there /\ disk'[file].text = s
    BY <2>2 DEF There
  <2>4. n <= Len(Template[file]) /\ Len(s) = n
    <3>1. Template[file] \in Seq(Item[file]) /\ disk[file].text \in Seq(Item[file])
      BY <2>1, TemplateAssumption DEF TypeDisk
    <3>2. Len(disk[file].text) \in Nat /\ Len(Template[file]) \in Nat
      BY <3>1
    <3>3. Len(Template[file]) - Len(disk[file].text) > 0
      BY <1>5 DEF CopyBlock, Rest
    <3>4. Len(disk[file].text) < Len(Template[file])
      BY <3>2, <3>3, Smaller
    <3>5. QED
      BY <3>1, <3>2, <3>4, LongerCopy
  <2> HIDE DEF n
  <2>5. FilesAsMeant'
    BY <2>1, <2>2, <2>3 DEF Copying, FilesAsMeant
  <2>6. QED
    BY <2>1, <2>2, <2>3, <2>4, <2>5 DEF Copying
<1>6. CASE CopyShort
  BY <1>6 DEF CopyShort, Goto, reader, policy, copied, Copying, FilesAsMeant
<1>7. CASE CopyDone
  <2>1. /\ pc = "copy" /\ pc' = "read" /\ file \in File /\ file' = file
        /\ UNCHANGED <<disk, meant, broken>> /\ disk[file].there /\ meant[file] = Template[file]
    BY <1>7 DEF CopyDone, Goto, Copying, TypePlace, copied
  <2>2. disk[file].text = Template[file]
    <3>1. Template[file] \in Seq(Item[file]) /\ disk[file].text \in Seq(Item[file])
      BY <2>1, TemplateAssumption DEF TypeDisk
    <3>2. Len(disk[file].text) = Len(Template[file])
      BY <1>7, <3>1 DEF CopyDone, Rest
    <3>3. disk[file].text = SubSeq(Template[file], 1, Len(Template[file]))
      BY <2>1, <3>2 DEF Copying
    <3>4. QED
      BY <3>1, <3>3
  <2>3. QED
    BY <2>1, <2>2 DEF Copying, FilesAsMeant
<1>8. CASE IniOpen
  BY <1>8 DEF IniOpen, Goto, reader, policy, copied, Copying, FilesAsMeant
<1>9. CASE IniComment
  BY <1>9 DEF IniComment, MoreLines, NextLine, process, reader, policy, copied, Copying,
     FilesAsMeant
<1>10. CASE IniContinuation
  BY <1>10 DEF IniContinuation, MoreLines, NextLine, process, reader, policy, copied, Copying,
     FilesAsMeant
<1>11. CASE IniSection
  BY <1>11 DEF IniSection, MoreLines, NextLine, process, reader, policy, copied, Copying,
     FilesAsMeant
<1>12. CASE IniPair
  BY <1>12 DEF IniPair, MoreLines, NextLine, process, reader, policy, copied, Copying,
     FilesAsMeant
<1>13. CASE IniJunk
  BY <1>13 DEF IniJunk, MoreLines, NextLine, process, reader, policy, copied, Copying,
     FilesAsMeant
<1>14. CASE IniEnd
  BY <1>14 DEF IniEnd, NextFile, reader, policy, copied, Copying, FilesAsMeant, File
<1>15. CASE WordCreate
  BY <1>15 DEF WordCreate, NextFile, reader, policy, copied, Copying, FilesAsMeant, File
<1>16. CASE WordCrash
  BY <1>16 DEF WordCrash, Goto, reader, policy, copied, Copying, FilesAsMeant, File
<1>17. CASE RegexOpen
  BY <1>17 DEF RegexOpen, Goto, reader, policy, copied, Copying, FilesAsMeant
<1>18. CASE ScanLine
  BY <1>18 DEF ScanLine, Goto, reader, policy, copied, Copying, FilesAsMeant
<1>19. CASE ScanStuck
  BY <1>19 DEF ScanStuck, Goto, reader, policy, copied, Copying, FilesAsMeant
<1>20. CASE ScanEnd
  BY <1>20 DEF ScanEnd, Goto, reader, policy, copied, Copying, FilesAsMeant
<1>21. CASE RulesMalloc
  BY <1>21 DEF RulesMalloc, Allocate, Goto, reader, policy, copied, Copying, FilesAsMeant
<1>22. CASE OptNew
  BY <1>22 DEF OptNew, Allocate, Goto, reader, policy, copied, Copying, FilesAsMeant
<1>23. CASE SetNew
  BY <1>23 DEF SetNew, Allocate, Goto, reader, policy, copied, Copying, FilesAsMeant
<1>24. CASE SetAdd
  BY <1>24 DEF SetAdd, Goto, reader, policy, copied, Copying, FilesAsMeant
<1>25. CASE SetCompile
  BY <1>25 DEF SetCompile, Goto, reader, policy, copied, Copying, FilesAsMeant
<1>26. CASE Fail
  BY <1>26 DEF Fail, reader, policy, copied, Copying, FilesAsMeant
<1>27. CASE Stop
  BY <1>27 DEF Stop, Goto, reader, policy, copied, Copying, FilesAsMeant
<1>28. CASE UNCHANGED vars
  BY <1>28 DEF vars, process, reader, policy, copied, Copying, FilesAsMeant
<1>29. QED
  BY <1>1, <1>2, <1>3, <1>4, <1>5, <1>6, <1>7, <1>8, <1>9, <1>10, <1>11, <1>12, <1>13, <1>14,
     <1>15, <1>16, <1>17, <1>18, <1>19, <1>20, <1>21, <1>22, <1>23, <1>24, <1>25, <1>26, <1>27,
     <1>28 DEF Next, Work, Copy, LoadConfig, IniLine, WordPolicy, RegexPolicy

\* What is allocated.
LEMMA AllocatedStep == IInv /\ [Next]_vars => Allocated'
<1> SUFFICES ASSUME IInv, [Next]_vars PROVE Allocated'
  OBVIOUS
<1> USE DEF IInv
<1>1. CASE Start
  BY <1>1 DEF Start, reader, policy, copied, Allocated, Opening, FailureReleases, TypePlace
<1>2. CASE Kill
  BY <1>2 DEF Kill, reader, policy, copied, Allocated, Opening, FailureReleases
<1>3. CASE Access
  BY <1>3 DEF Access, Goto, reader, policy, copied, Allocated, Opening, FailureReleases
<1>4. CASE CopyOpen
  BY <1>4 DEF CopyOpen, Goto, reader, policy, copied, Allocated, Opening, FailureReleases
<1>5. CASE CopyBlock
  BY <1>5 DEF CopyBlock, Goto, reader, policy, copied, Allocated, Opening, FailureReleases
<1>6. CASE CopyShort
  BY <1>6 DEF CopyShort, Goto, reader, policy, copied, Allocated, Opening, FailureReleases
<1>7. CASE CopyDone
  BY <1>7 DEF CopyDone, Goto, reader, policy, copied, Allocated, Opening, FailureReleases
<1>8. CASE IniOpen
  BY <1>8 DEF IniOpen, Goto, reader, policy, copied, Allocated, Opening, FailureReleases
<1>9. CASE IniComment
  BY <1>9 DEF IniComment, MoreLines, NextLine, process, reader, policy, copied, Allocated,
     Opening, FailureReleases
<1>10. CASE IniContinuation
  BY <1>10 DEF IniContinuation, MoreLines, NextLine, process, reader, policy, copied, Allocated,
     Opening, FailureReleases
<1>11. CASE IniSection
  BY <1>11 DEF IniSection, MoreLines, NextLine, process, reader, policy, copied, Allocated,
     Opening, FailureReleases
<1>12. CASE IniPair
  BY <1>12 DEF IniPair, MoreLines, NextLine, process, reader, policy, copied, Allocated, Opening,
     FailureReleases
<1>13. CASE IniJunk
  BY <1>13 DEF IniJunk, MoreLines, NextLine, process, reader, policy, copied, Allocated, Opening,
     FailureReleases
<1>14. CASE IniEnd
  BY <1>14 DEF IniEnd, NextFile, reader, policy, copied, Allocated, Opening, FailureReleases,
     File
<1>15. CASE WordCreate
  BY <1>15 DEF WordCreate, NextFile, reader, policy, copied, Allocated, Opening, FailureReleases
<1>16. CASE WordCrash
  BY <1>16 DEF WordCrash, Goto, reader, policy, copied, Allocated, Opening, FailureReleases
<1>17. CASE RegexOpen
  BY <1>17 DEF RegexOpen, Goto, reader, policy, copied, Allocated, Opening, FailureReleases
<1>18. CASE ScanLine
  BY <1>18 DEF ScanLine, Goto, reader, policy, copied, Allocated, Opening, FailureReleases
<1>19. CASE ScanStuck
  BY <1>19 DEF ScanStuck, Goto, reader, policy, copied, Allocated, Opening, FailureReleases
<1>20. CASE ScanEnd
  BY <1>20 DEF ScanEnd, Goto, reader, policy, copied, Allocated, Opening, FailureReleases
<1>21. CASE RulesMalloc
  BY <1>21 DEF RulesMalloc, Allocate, Goto, reader, policy, copied, Allocated, Opening,
     FailureReleases
<1>22. CASE OptNew
  BY <1>22 DEF OptNew, Allocate, Goto, reader, policy, copied, Allocated, Opening,
     FailureReleases
<1>23. CASE SetNew
  BY <1>23 DEF SetNew, Allocate, Goto, reader, policy, copied, Allocated, Opening,
     FailureReleases
<1>24. CASE SetAdd
  BY <1>24 DEF SetAdd, Goto, reader, policy, copied, Allocated, Opening, FailureReleases
<1>25. CASE SetCompile
  BY <1>25 DEF SetCompile, Goto, reader, policy, copied, Allocated, Opening, FailureReleases
<1>26. CASE Fail
  BY <1>26 DEF Fail, reader, policy, copied, Allocated, Opening, FailureReleases, ErrPath
<1>27. CASE Stop
  BY <1>27 DEF Stop, Goto, reader, policy, copied, Allocated, Opening, FailureReleases
<1>28. CASE UNCHANGED vars
  BY <1>28 DEF vars, process, reader, policy, copied, Allocated, Opening, FailureReleases
<1>29. QED
  BY <1>1, <1>2, <1>3, <1>4, <1>5, <1>6, <1>7, <1>8, <1>9, <1>10, <1>11, <1>12, <1>13, <1>14,
     <1>15, <1>16, <1>17, <1>18, <1>19, <1>20, <1>21, <1>22, <1>23, <1>24, <1>25, <1>26, <1>27,
     <1>28 DEF Next, Work, Copy, LoadConfig, IniLine, WordPolicy, RegexPolicy

-----------------------------------------------------------------------------
(***************************************************************************)
(* The readers.                                                            *)
(***************************************************************************)

\* The reader takes a line for a continuation if it is one.
LEMMA ContinuesRight ==
    ASSUME NEW t, NEW a \in Nat \ {0}, NEW s, NEW p, ReaderAt(t, a - 1, s, p)
    PROVE  /\ p # "" <=> Open(t, a)
           /\ p # "" => p = LastName(t, a - 1, "pair")
           /\ s = LastName(t, a - 1, "section")
<1>1. (a - 1) + 1 = a
  OBVIOUS
<1>2. QED
  BY <1>1 DEF ReaderAt

\* Behind the name p the line l is another value.
Goes(l, p) == l.kind # "comment" /\ l.indent /\ p # ""

\* What a line is to the reader, behind the name p, and to LastName.
LEMMA RealRight ==
    ASSUME NEW t, NEW a \in Nat \ {0}, NEW s, NEW p, ReaderAt(t, a - 1, s, p),
           NEW l, l = t[a],
           NEW more \in BOOLEAN, more <=> Goes(l, p)
    PROVE  /\ more <=> Continued(t, a)
           /\ Real(t, a, "section") <=> l.kind = "section" /\ ~more
           /\ Real(t, a, "pair") <=> l.kind = "pair" /\ ~more
           /\ LastName(t, a, "section") = IF Real(t, a, "section") THEN l.name ELSE s
           /\ Real(t, a, "pair") => LastName(t, a, "pair") = l.name
           /\ ~Real(t, a, "pair") => LastName(t, a, "pair") = LastName(t, a - 1, "pair")
<1>1. (p # "" <=> Open(t, a)) /\ s = LastName(t, a - 1, "section")
  BY ContinuesRight
<1>2. more <=> Continued(t, a)
  BY <1>1 DEF Continued, Goes
<1>3. /\ Real(t, a, "section") <=> l.kind = "section" /\ ~more
      /\ Real(t, a, "pair") <=> l.kind = "pair" /\ ~more
  BY <1>2 DEF Real
<1>4. LastName(t, a, "section") =
        IF Real(t, a, "section") THEN t[a].name ELSE LastName(t, a - 1, "section")
  BY LastNext
<1>5. LastName(t, a, "pair") =
        IF Real(t, a, "pair") THEN t[a].name ELSE LastName(t, a - 1, "pair")
  BY LastNext
<1>6. LastName(t, a, "section") = IF Real(t, a, "section") THEN l.name ELSE s
  BY <1>1, <1>4
<1>7. /\ Real(t, a, "pair") => LastName(t, a, "pair") = l.name
      /\ ~Real(t, a, "pair") => LastName(t, a, "pair") = LastName(t, a - 1, "pair")
  BY <1>5
<1>8. QED
  BY <1>2, <1>3, <1>6, <1>7

\* What the reader does with each kind of line.
LEMMA ReaderNext ==
    ASSUME NEW t, NEW a \in Nat \ {0}, NEW s, NEW p, ReaderAt(t, a - 1, s, p),
           NEW l, l = t[a],
           NEW more \in BOOLEAN, more <=> Goes(l, p),
           NEW s2, NEW p2,
           \/ (l.kind \in {"comment", "junk"} \/ more) /\ s2 = s /\ p2 = p
           \/ l.kind = "section" /\ ~more /\ s2 = l.name /\ p2 = ""
           \/ l.kind = "pair" /\ ~more /\ s2 = s /\ p2 = l.name
    PROVE  ReaderAt(t, a, s2, p2)
<1>1. /\ p # "" <=> Open(t, a)
      /\ p # "" => p = LastName(t, a - 1, "pair")
  BY ContinuesRight
<1>2. /\ Real(t, a, "section") <=> l.kind = "section" /\ ~more
      /\ Real(t, a, "pair") <=> l.kind = "pair" /\ ~more
      /\ LastName(t, a, "section") = IF Real(t, a, "section") THEN l.name ELSE s
      /\ Real(t, a, "pair") => LastName(t, a, "pair") = l.name
      /\ ~Real(t, a, "pair") => LastName(t, a, "pair") = LastName(t, a - 1, "pair")
  BY RealRight
<1>3. Open(t, a + 1) <=> Names(l) \/ (Open(t, a) /\ (Closes(l) => l.indent))
  BY OpenNext
<1>4. /\ Names(l) <=> l.kind = "pair" /\ l.name # ""
      /\ Closes(l) <=> l.kind = "section" \/ (l.kind = "pair" /\ l.name = "")
  BY DEF Names, Closes
<1>5. CASE (l.kind \in {"comment", "junk"} \/ more) /\ s2 = s /\ p2 = p
  <2>1. l.kind # "comment" /\ l.kind # "junk" => l.indent /\ p # "" /\ more
    BY <1>5 DEF Goes
  <2>2. ~Real(t, a, "section") /\ ~Real(t, a, "pair")
    BY <1>2, <1>5
  <2>3. Open(t, a + 1) <=> Open(t, a)
    BY <1>1, <1>3, <1>4, <1>5, <2>1
  <2>4. QED
    BY <1>1, <1>2, <1>5, <2>2, <2>3 DEF ReaderAt
<1>6. CASE l.kind = "section" /\ ~more /\ s2 = l.name /\ p2 = ""
  <2>1. LastName(t, a, "section") = s2
    BY <1>2, <1>6
  <2>2. ~Open(t, a + 1)
    BY <1>1, <1>3, <1>4, <1>6 DEF Goes
  <2>3. QED
    BY <1>6, <2>1, <2>2 DEF ReaderAt
<1>7. CASE l.kind = "pair" /\ ~more /\ s2 = s /\ p2 = l.name
  <2>1. LastName(t, a, "section") = s2 /\ LastName(t, a, "pair") = p2
    BY <1>2, <1>7
  <2>2. Open(t, a + 1) <=> p2 # ""
    BY <1>1, <1>3, <1>4, <1>7 DEF Goes
  <2>3. QED
    BY <2>1, <2>2 DEF ReaderAt
<1>8. QED
  BY <1>5, <1>6, <1>7

\* What ini_callback makes of a value.
Told(c, s, n, v) ==
    IF <<s, n>> \in Option THEN [c EXCEPT ![<<s, n>>] = Stored(<<s, n>>, v)] ELSE c

\* If the line gives an option a value it is that one, and the value.
LEMMA ToldRight ==
    ASSUME NEW t, NEW a \in Nat \ {0}, NEW s, NEW n, NEW v, v = ValueOf(t, a),
           \A o : Assigns(t, a, o) <=> o = <<s, n>>
    PROVE  Told(Meaning(t, a - 1), s, n, v) = Meaning(t, a)
<1> DEFINE c == Meaning(t, a - 1)
           M == Meaning(t, a)
<1>1. M = [o \in Option |-> IF Assigns(t, a, o) THEN Stored(o, ValueOf(t, a)) ELSE c[o]]
  BY MeaningNext
<1>2. c = [o \in Option |-> c[o]]
  BY DEF Meaning
<1> HIDE DEF c, M
<1>3. CASE <<s, n>> \in Option
  <2>1. Told(c, s, n, v) = [o \in Option |-> IF o = <<s, n>> THEN Stored(<<s, n>>, v) ELSE c[o]]
    BY <1>2, <1>3 DEF Told
  <2>2. QED
    BY <1>1, <2>1 DEF c, M
<1>4. CASE <<s, n>> \notin Option
  <2>1. Told(c, s, n, v) = c
    BY <1>4 DEF Told
  <2>2. \A o \in Option : ~Assigns(t, a, o)
    BY <1>4
  <2>3. QED
    BY <1>1, <1>2, <2>1, <2>2 DEF c, M
<1>5. QED
  BY <1>3, <1>4

\* What ini_callback is told: the last value of the option, if the line gives
\* one.
LEMMA MeaningRight ==
    ASSUME NEW t, NEW a \in Nat \ {0}, NEW s, NEW p, ReaderAt(t, a - 1, s, p),
           NEW l, l = t[a],
           NEW more \in BOOLEAN, more <=> Goes(l, p),
           NEW d,
           \/ more /\ d = Told(Meaning(t, a - 1), s, p, l.whole)
           \/ l.kind = "pair" /\ ~more /\ d = Told(Meaning(t, a - 1), s, l.name, l.value)
           \/ l.kind # "pair" /\ ~more /\ d = Meaning(t, a - 1)
    PROVE  d = Meaning(t, a)
<1>1. p # "" => p = LastName(t, a - 1, "pair")
  BY ContinuesRight
<1>2. /\ more <=> Continued(t, a)
      /\ Real(t, a, "section") <=> l.kind = "section" /\ ~more
      /\ Real(t, a, "pair") <=> l.kind = "pair" /\ ~more
      /\ LastName(t, a, "section") = IF Real(t, a, "section") THEN l.name ELSE s
      /\ Real(t, a, "pair") => LastName(t, a, "pair") = l.name
      /\ ~Real(t, a, "pair") => LastName(t, a, "pair") = LastName(t, a - 1, "pair")
  BY RealRight
<1>3. \A o : Assigns(t, a, o) <=>
               /\ Real(t, a, "pair") \/ Continued(t, a)
               /\ o = <<LastName(t, a, "section"), LastName(t, a, "pair")>>
  BY DEF Assigns
<1>4. CASE more /\ d = Told(Meaning(t, a - 1), s, p, l.whole)
  <2>1. LastName(t, a, "section") = s /\ LastName(t, a, "pair") = p /\ Continued(t, a)
    BY <1>1, <1>2, <1>4 DEF Goes
  <2>2. \A o : Assigns(t, a, o) <=> o = <<s, p>>
    BY <1>3, <2>1, Zenon
  <2>3. l.whole = ValueOf(t, a)
    BY <2>1 DEF ValueOf
  <2>4. QED
    BY <1>4, <2>2, <2>3, ToldRight
<1>5. CASE l.kind = "pair" /\ ~more /\ d = Told(Meaning(t, a - 1), s, l.name, l.value)
  <2>1. /\ LastName(t, a, "section") = s /\ LastName(t, a, "pair") = l.name
        /\ Real(t, a, "pair") /\ ~Continued(t, a)
    BY <1>2, <1>5
  <2>2. \A o : Assigns(t, a, o) <=> o = <<s, l.name>>
    BY <1>3, <2>1, Zenon
  <2>3. l.value = ValueOf(t, a)
    BY <2>1 DEF ValueOf
  <2>4. QED
    BY <1>5, <2>2, <2>3, ToldRight
<1>6. CASE l.kind # "pair" /\ ~more /\ d = Meaning(t, a - 1)
  <2>1. \A o : ~Assigns(t, a, o)
    BY <1>2, <1>3, <1>6
  <2>2. Meaning(t, a) = [o \in Option |-> Meaning(t, a - 1)[o]]
    BY <2>1, MeaningNext
  <2>3. Meaning(t, a - 1) = [o \in Option |-> Meaning(t, a - 1)[o]]
    BY DEF Meaning
  <2>4. QED
    BY <1>6, <2>2, <2>3
<1>7. QED
  BY <1>4, <1>5, <1>6

\* A line of the ini file is read.
LEMMA IniLineReads == IInv /\ IniLine => Reading'
<1> SUFFICES ASSUME IInv, IniLine PROVE Reading'
  OBVIOUS
<1> USE DEF IInv
<1> DEFINE t == IniText
           l == Line
           more == Goes(l, prev_name)
<1>1. /\ MoreLines /\ pc = "line" /\ UNCHANGED <<pc, file, disk>> /\ at' = at + 1
  BY DEF IniLine, IniComment, IniContinuation, IniSection, IniPair, IniJunk, MoreLines, NextLine,
         process
<1>2. /\ at \in 1 .. Len(t) /\ Line = t[at] /\ IsLine(Line)
  BY <1>1, LineTyped
<1>3. /\ at \in Nat \ {0} /\ at' - 1 = at /\ at' <= Len(t) + 1
  BY <1>1, <1>2 DEF TypePlace
<1>4. /\ file = "ini" /\ ReaderAt(t, at - 1, section, prev_name) /\ config = Meaning(t, at - 1)
  BY <1>1 DEF Reading
<1>5. Continues <=> more
  BY DEF Continues, Goes
<1>6. /\ \/ (l.kind \in {"comment", "junk"} \/ more) /\ section' = section /\ prev_name' = prev_name
         \/ l.kind = "section" /\ ~more /\ section' = l.name /\ prev_name' = ""
         \/ l.kind = "pair" /\ ~more /\ section' = section /\ prev_name' = l.name
      /\ \/ more /\ config' = Told(config, section, prev_name, l.whole)
         \/ l.kind = "pair" /\ ~more /\ config' = Told(config, section, l.name, l.value)
         \/ l.kind # "pair" /\ ~more /\ config' = config
  <2>1. CASE IniComment
    BY <2>1 DEF IniComment, Goes
  <2>2. CASE IniContinuation
    BY <1>5, <2>2 DEF IniContinuation, Handler, Told
  <2>3. CASE IniSection
    BY <1>5, <2>3 DEF IniSection
  <2>4. CASE IniPair
    BY <1>5, <2>4 DEF IniPair, Handler, Told
  <2>5. CASE IniJunk
    BY <1>5, <2>5 DEF IniJunk
  <2>6. QED
    BY <2>1, <2>2, <2>3, <2>4, <2>5 DEF IniLine
<1> HIDE DEF t, l, more
<1>7. l = t[at] /\ more \in BOOLEAN /\ (more <=> Goes(l, prev_name))
  BY <1>2 DEF l, more, Goes
<1>8. ReaderAt(t, at, section', prev_name')
  BY <1>3, <1>4, <1>6, <1>7, ReaderNext
<1>9. config' = Meaning(t, at)
  <2>1. \/ more /\ config' = Told(Meaning(t, at - 1), section, prev_name, l.whole)
        \/ l.kind = "pair" /\ ~more /\ config' = Told(Meaning(t, at - 1), section, l.name, l.value)
        \/ l.kind # "pair" /\ ~more /\ config' = Meaning(t, at - 1)
    BY <1>4, <1>6
  <2> DEFINE d == config'
             a == at
  <2> HIDE DEF d, a
  <2>2. \/ more /\ d = Told(Meaning(t, a - 1), section, prev_name, l.whole)
        \/ l.kind = "pair" /\ ~more /\ d = Told(Meaning(t, a - 1), section, l.name, l.value)
        \/ l.kind # "pair" /\ ~more /\ d = Meaning(t, a - 1)
    BY <2>1 DEF d, a
  <2>3. a \in Nat \ {0} /\ ReaderAt(t, a - 1, section, prev_name) /\ l = t[a]
    BY <1>3, <1>4, <1>7 DEF a
  <2>4. d = Meaning(t, a)
    BY <1>7, <2>2, <2>3, MeaningRight
  <2>5. QED
    BY <2>4 DEF d, a
<1>10. IniText' = t
  BY <1>1 DEF IniText, t
<1>11. QED
  BY <1>1, <1>3, <1>4, <1>8, <1>9, <1>10 DEF Reading, Opening

\* What was read of the ini file.
LEMMA ReadingStep == IInv /\ [Next]_vars => Reading'
<1> SUFFICES ASSUME IInv, [Next]_vars PROVE Reading'
  OBVIOUS
<1> USE DEF IInv
<1>1. CASE Start
  BY <1>1 DEF Start, reader, policy, copied, Reading, Opening, IniText
<1>2. CASE Kill
  BY <1>2 DEF Kill, reader, policy, copied, Reading, Opening, IniText
<1>3. CASE Access
  BY <1>3 DEF Access, Goto, reader, policy, copied, Reading, Opening, IniText
<1>4. CASE CopyOpen
  <2>1. /\ pc \in Opening /\ pc' \in Opening /\ UNCHANGED <<file, section, prev_name, config>>
    BY <1>4 DEF CopyOpen, Goto, Opening, reader
  <2>2. file # "ini" => IniText' = IniText
    BY <1>4 DEF CopyOpen, IniText, TypeDisk, File
  <2>3. QED
    BY <2>1, <2>2 DEF Reading, Opening
<1>5. CASE CopyBlock
  <2>1. /\ pc \in Opening /\ pc' \in Opening /\ UNCHANGED <<file, section, prev_name, config>>
    BY <1>5 DEF CopyBlock, Goto, Opening, reader
  <2>2. file # "ini" => IniText' = IniText
    BY <1>5 DEF CopyBlock, IniText, TypeDisk, File
  <2>3. QED
    BY <2>1, <2>2 DEF Reading, Opening
<1>6. CASE CopyShort
  BY <1>6 DEF CopyShort, Goto, reader, policy, copied, Reading, Opening, IniText
<1>7. CASE CopyDone
  BY <1>7 DEF CopyDone, Goto, reader, policy, copied, Reading, Opening, IniText
<1>8. CASE IniOpen
  <2>1. /\ pc = "read" /\ pc' = "line" /\ file = "ini" /\ UNCHANGED <<disk, file, at, section, prev_name, config>>
    BY <1>8 DEF IniOpen, Goto, reader
  <2>2. at = 1 /\ section = "" /\ prev_name = "" /\ config = Zero
    BY <2>1 DEF Reading, Scanning, Opening
  <2>3. IniText' = IniText /\ IniText \in Seq(Item["ini"])
    BY <2>1 DEF IniText, TypeDisk, File
  <2>4. at' - 1 = 0 /\ at' <= Len(IniText) + 1
    <3>1. Len(IniText) \in Nat
      BY <2>3
    <3>2. at' = 1
      BY <2>1, <2>2
    <3>3. QED
      BY <3>1, <3>2
  <2>5. Meaning(IniText, 0) = Zero /\ ReaderAt(IniText, 0, "", "")
    BY MeaningBegins
  <2>6. QED
    BY <2>1, <2>2, <2>3, <2>4, <2>5 DEF Reading, Opening
<1>9. CASE IniComment
  BY <1>9, IniLineReads DEF IniLine
<1>10. CASE IniContinuation
  BY <1>10, IniLineReads DEF IniLine
<1>11. CASE IniSection
  BY <1>11, IniLineReads DEF IniLine
<1>12. CASE IniPair
  BY <1>12, IniLineReads DEF IniLine
<1>13. CASE IniJunk
  BY <1>13, IniLineReads DEF IniLine
<1>14. CASE IniEnd
  <2>1. /\ pc = "line" /\ pc' = "access" /\ file' = "word" /\ UNCHANGED disk /\ config' = Valid(config)
        /\ at > Len(IniText)
    BY <1>14 DEF IniEnd, NextFile, IniText
  <2>2. IniText' = IniText /\ IniText \in Seq(Item["ini"])
    BY <2>1 DEF IniText, TypeDisk, File
  <2>3. at <= Len(IniText) + 1 /\ config = Meaning(IniText, at - 1)
    BY <2>1 DEF Reading
  <2>4. at - 1 = Len(IniText)
    <3>1. at \in Nat /\ Len(IniText) \in Nat
      BY <2>2 DEF TypePlace
    <3>2. QED
      BY <2>1, <2>3, <3>1
  <2>5. config[Threads] \in Int
    BY OptionKinds DEF TypeConfig, TypeFields
  <2>6. Valid(config) = ConfigOf(IniText)
    <3>1. (config[Threads] <= 0 \/ config[Threads] > PARSER_THREAD_MAX)
             <=> config[Threads] \notin 1 .. PARSER_THREAD_MAX
      BY <2>5 DEF PARSER_THREAD_MAX
    <3>2. Meaning(IniText, Len(IniText)) = config
      BY <2>3, <2>4
    <3>3. QED
      BY <3>1, <3>2 DEF Valid, ConfigOf
  <2>7. QED
    BY <2>1, <2>2, <2>6 DEF Reading, Opening
<1>15. CASE WordCreate
  BY <1>15 DEF WordCreate, NextFile, reader, policy, copied, Reading, Opening, IniText
<1>16. CASE WordCrash
  BY <1>16 DEF WordCrash, Goto, reader, policy, copied, Reading, Opening, IniText
<1>17. CASE RegexOpen
  BY <1>17 DEF RegexOpen, Goto, reader, policy, copied, Reading, Opening, IniText
<1>18. CASE ScanLine
  BY <1>18 DEF ScanLine, Goto, reader, policy, copied, Reading, Opening, IniText
<1>19. CASE ScanStuck
  BY <1>19 DEF ScanStuck, Goto, reader, policy, copied, Reading, Opening, IniText
<1>20. CASE ScanEnd
  BY <1>20 DEF ScanEnd, Goto, reader, policy, copied, Reading, Opening, IniText
<1>21. CASE RulesMalloc
  BY <1>21 DEF RulesMalloc, Allocate, Goto, reader, policy, copied, Reading, Opening, IniText
<1>22. CASE OptNew
  BY <1>22 DEF OptNew, Allocate, Goto, reader, policy, copied, Reading, Opening, IniText
<1>23. CASE SetNew
  BY <1>23 DEF SetNew, Allocate, Goto, reader, policy, copied, Reading, Opening, IniText
<1>24. CASE SetAdd
  BY <1>24 DEF SetAdd, Goto, reader, policy, copied, Reading, Opening, IniText
<1>25. CASE SetCompile
  BY <1>25 DEF SetCompile, Goto, reader, policy, copied, Reading, Opening, IniText
<1>26. CASE Fail
  BY <1>26 DEF Fail, reader, policy, copied, Reading, Opening, IniText
<1>27. CASE Stop
  BY <1>27 DEF Stop, Goto, reader, policy, copied, Reading, Opening, IniText
<1>28. CASE UNCHANGED vars
  BY <1>28 DEF vars, process, reader, policy, copied, Reading, Opening, IniText
<1>29. QED
  BY <1>1, <1>2, <1>3, <1>4, <1>5, <1>6, <1>7, <1>8, <1>9, <1>10, <1>11, <1>12, <1>13, <1>14,
     <1>15, <1>16, <1>17, <1>18, <1>19, <1>20, <1>21, <1>22, <1>23, <1>24, <1>25, <1>26, <1>27,
     <1>28 DEF Next, Work, Copy, LoadConfig, IniLine, WordPolicy, RegexPolicy

\* A line is longer than the buffer if it is the whole of a file without a newline.
LEMMA WholeFile ==
    ASSUME NEW T, NEW c \in Seq(T), NEW a \in 1 .. Len(c), Overruns(c, LineAt(c, a))
    PROVE  \A i \in DOMAIN c : c[i] # "n"
<1>1. Len(c) \in Nat /\ a \in 1 .. Len(c) + 1 /\ DOMAIN c = 1 .. Len(c)
  OBVIOUS
<1> DEFINE e == Eol(c, a)
<1>2. e \in a .. Len(c) + 1 /\ \A k \in a .. e - 1 : c[k] # "n"
  BY <1>1, EolIs
<1> HIDE DEF e
<1>3. Len(LineAt(c, a)) = e - a
  <2>1. a \in Nat /\ e - 1 \in Int /\ \A i \in a .. e - 1 : c[i] \in T
    BY <1>1, <1>2
  <2>2. Len(SubSeq(c, a, e - 1)) = IF a <= e - 1 THEN (e - 1) - a + 1 ELSE 0
    BY <2>1, SubSeqProperties
  <2>3. Len(SubSeq(c, a, e - 1)) = e - a
    BY <1>1, <1>2, <2>2
  <2>4. QED
    BY <2>3 DEF LineAt, e
<1>4. e - a + 1 > Len(c)
  BY <1>3 DEF Overruns
<1>5. a = 1 /\ e = Len(c) + 1
  BY <1>1, <1>2, <1>4
<1>6. QED
  BY <1>1, <1>2, <1>5

\* What was read of the regex file.
LEMMA ScanningStep == IInv /\ [Next]_vars => Scanning'
<1> SUFFICES ASSUME IInv, [Next]_vars PROVE Scanning'
  OBVIOUS
<1> USE DEF IInv
<1>1. CASE Start
  BY <1>1 DEF Start, reader, policy, copied, Scanning, Opening, Making, RegexText
<1>2. CASE Kill
  BY <1>2 DEF Kill, reader, policy, copied, Scanning, Opening, Making, RegexText
<1>3. CASE Access
  BY <1>3 DEF Access, Goto, reader, policy, copied, Scanning, Opening, Making, RegexText
<1>4. CASE CopyOpen
  BY <1>4 DEF CopyOpen, Goto, reader, policy, copied, Scanning, Opening, Making, RegexText
<1>5. CASE CopyBlock
  BY <1>5 DEF CopyBlock, Goto, reader, policy, copied, Scanning, Opening, Making, RegexText
<1>6. CASE CopyShort
  BY <1>6 DEF CopyShort, Goto, reader, policy, copied, Scanning, Opening, Making, RegexText
<1>7. CASE CopyDone
  BY <1>7 DEF CopyDone, Goto, reader, policy, copied, Scanning, Opening, Making, RegexText
<1>8. CASE IniOpen
  BY <1>8 DEF IniOpen, Goto, reader, policy, copied, Scanning, Opening, Making, RegexText
<1>9. CASE IniComment
  BY <1>9 DEF IniComment, MoreLines, NextLine, process, reader, policy, copied, Scanning,
     Opening, Making, RegexText
<1>10. CASE IniContinuation
  BY <1>10 DEF IniContinuation, MoreLines, NextLine, process, reader, policy, copied, Scanning,
     Opening, Making, RegexText
<1>11. CASE IniSection
  BY <1>11 DEF IniSection, MoreLines, NextLine, process, reader, policy, copied, Scanning,
     Opening, Making, RegexText
<1>12. CASE IniPair
  BY <1>12 DEF IniPair, MoreLines, NextLine, process, reader, policy, copied, Scanning, Opening,
     Making, RegexText
<1>13. CASE IniJunk
  BY <1>13 DEF IniJunk, MoreLines, NextLine, process, reader, policy, copied, Scanning, Opening,
     Making, RegexText
<1>14. CASE IniEnd
  BY <1>14 DEF IniEnd, NextFile, reader, policy, copied, Scanning, Opening, Making, RegexText
<1>15. CASE WordCreate
  BY <1>15 DEF WordCreate, NextFile, reader, policy, copied, Scanning, Opening, Making, RegexText
<1>16. CASE WordCrash
  BY <1>16 DEF WordCrash, Goto, reader, policy, copied, Scanning, Opening, Making, RegexText
<1>17. CASE RegexOpen
  <2>1. /\ pc = "read" /\ pc' = "scan" /\ file = "regex"
        /\ UNCHANGED <<disk, file, at, lines, overrun>>
    BY <1>17 DEF RegexOpen, Goto, reader, policy
  <2>2. at = 1 /\ lines = <<>> /\ ~overrun
    BY <2>1 DEF Scanning, Opening
  <2>3. RegexText' = RegexText /\ RegexText \in Seq(Item["regex"])
    BY <2>1 DEF RegexText, TypeDisk, File
  <2>4. AreLines(<<>>, RegexText, 1)
    BY <2>3, NoLines
  <2>5. QED
    BY <2>1, <2>2, <2>3, <2>4 DEF Scanning, Opening, Making
<1>18. CASE ScanLine
  <2>1. /\ at \in Begins(RegexText)
        /\ at' = Len(RegexText) + 1 \/ at' \in Begins(RegexText)
        /\ AreLines(lines', RegexText, at')
    BY <1>18, ScanLineStep
  <2>2. /\ pc = "scan" /\ pc' = "scan" /\ UNCHANGED <<file, disk>>
        /\ overrun' = (overrun \/ Overruns(RegexText, LineAt(RegexText, at)))
    BY <1>18 DEF ScanLine, Goto, RegexText, LineAt
  <2>3. file = "regex" /\ (overrun => \A i \in DOMAIN RegexText : RegexText[i] # "n")
    BY <2>2 DEF Scanning
  <2>4. RegexText' = RegexText /\ RegexText \in Seq(Item["regex"])
    BY <2>2 DEF RegexText, TypeDisk, File
  <2>5. at \in 1 .. Len(RegexText)
    BY <2>1, <2>4 DEF Begins
  <2>6. overrun' => \A i \in DOMAIN RegexText : RegexText[i] # "n"
    BY <2>2, <2>3, <2>4, <2>5, WholeFile
  <2>7. QED
    BY <2>1, <2>2, <2>3, <2>4, <2>6 DEF Scanning, Opening, Making
<1>19. CASE ScanStuck
  BY <1>19 DEF ScanStuck, Goto, reader, policy, copied, Scanning, Opening, Making, RegexText
<1>20. CASE ScanEnd
  <2>1. /\ pc = "scan" /\ pc' = "rules" /\ UNCHANGED <<disk, file, lines, overrun>>
        /\ at > Len(RegexText)
    BY <1>20 DEF ScanEnd, Goto, policy, RegexText
  <2>2. /\ file = "regex" /\ at \in {1, Len(RegexText) + 1} \cup Begins(RegexText)
        /\ AreLines(lines, RegexText, at)
    BY <2>1 DEF Scanning
  <2>3. RegexText' = RegexText /\ RegexText \in Seq(Item["regex"])
    BY <2>1 DEF RegexText, TypeDisk, File
  <2>4. at = Len(RegexText) + 1
    <3>1. Len(RegexText) \in Nat /\ at \notin Begins(RegexText)
      BY <2>1, <2>3 DEF Begins
    <3>2. QED
      BY <2>1, <2>2, <3>1
  <2>5. QED
    BY <2>1, <2>2, <2>3, <2>4 DEF Scanning, Opening, Making
<1>21. CASE RulesMalloc
  BY <1>21 DEF RulesMalloc, Allocate, Goto, reader, policy, copied, Scanning, Opening, Making,
     RegexText
<1>22. CASE OptNew
  BY <1>22 DEF OptNew, Allocate, Goto, reader, policy, copied, Scanning, Opening, Making,
     RegexText
<1>23. CASE SetNew
  BY <1>23 DEF SetNew, Allocate, Goto, reader, policy, copied, Scanning, Opening, Making,
     RegexText
<1>24. CASE SetAdd
  BY <1>24 DEF SetAdd, Goto, reader, policy, copied, Scanning, Opening, Making, RegexText
<1>25. CASE SetCompile
  BY <1>25 DEF SetCompile, Goto, reader, policy, copied, Scanning, Opening, Making, RegexText
<1>26. CASE Fail
  BY <1>26 DEF Fail, reader, policy, copied, Scanning, Opening, Making, RegexText
<1>27. CASE Stop
  BY <1>27 DEF Stop, Goto, reader, policy, copied, Scanning, Opening, Making, RegexText
<1>28. CASE UNCHANGED vars
  BY <1>28 DEF vars, process, reader, policy, copied, Scanning, Opening, Making, RegexText
<1>29. QED
  BY <1>1, <1>2, <1>3, <1>4, <1>5, <1>6, <1>7, <1>8, <1>9, <1>10, <1>11, <1>12, <1>13, <1>14,
     <1>15, <1>16, <1>17, <1>18, <1>19, <1>20, <1>21, <1>22, <1>23, <1>24, <1>25, <1>26, <1>27,
     <1>28 DEF Next, Work, Copy, LoadConfig, IniLine, WordPolicy, RegexPolicy

-----------------------------------------------------------------------------
(***************************************************************************)
(* The invariant, and what follows from it.                                *)
(***************************************************************************)

\* The files may be as an administrator has left them; nothing has run.
LEMMA InitIInv == Init => IInv
<1> SUFFICES ASSUME Init PROVE IInv
  OBVIOUS
<1>1. disk \in Given /\ meant = [f \in File |-> IF disk[f].there THEN disk[f].text ELSE Template[f]]
  BY DEF Init
<1>2. /\ DOMAIN disk = File
      /\ \A f \in File : disk[f] = Missing \/ (disk[f] = There(disk[f].text) /\ disk[f].text \in Seq(Item[f]))
  BY <1>1, GivenAssumption
<1>3. TypeDisk
  <2>1. ASSUME NEW f \in File PROVE disk[f] \in [there : BOOLEAN, text : Seq(Item[f])]
    <3>1. CASE disk[f] = Missing
      <4>1. <<>> \in Seq(Item[f])
        OBVIOUS
      <4>2. QED
        BY <3>1, <4>1 DEF Missing
    <3>2. CASE disk[f] = There(disk[f].text) /\ disk[f].text \in Seq(Item[f])
      <4> DEFINE x == disk[f].text
      <4>1. disk[f] = There(x) /\ x \in Seq(Item[f])
        BY <3>2
      <4> HIDE DEF x
      <4>2. QED
        BY <4>1 DEF There
    <3>3. QED
      BY <1>2, <3>1, <3>2
  <2>2. QED
    BY <1>2, <2>1 DEF TypeDisk
<1>4. TypePlace
  <2>1. pc \in Place /\ file \in File
    BY DEF Init, Place, File
  <2>2. lines \in Seq(Seq(Item["regex"]))
    <3>1. lines = <<>>
      BY DEF Init
    <3>2. QED
      BY <3>1
  <2>3. starts \in 0 .. MaxStart
    <3>1. starts = 0
      BY DEF Init
    <3>2. QED
      BY <3>1, MaxStartAssumption
  <2>4. at \in Nat \ {0}
    <3>1. at = 1
      BY DEF Init
    <3>2. QED
      BY <3>1
  <2>5. held \subseteq ErrPath \cup {"patterns"} /\ overrun \in BOOLEAN /\ broken \subseteq File
    BY DEF Init
  <2>6. DOMAIN meant = File
    BY <1>1
  <2>7. QED
    BY <2>1, <2>2, <2>3, <2>4, <2>5, <2>6 DEF TypePlace
<1>5. TypeConfig
  BY ZeroTyped, Zenon DEF Init, TypeConfig
<1>6. Copying
  <2>1. pc = "down" /\ file = "ini" /\ broken = {}
    BY DEF Init
  <2>2. QED
    BY <1>1, <2>1 DEF Copying, FilesAsMeant
<1>7. Allocated /\ Reading /\ Scanning
  BY DEF Init, Allocated, FailureReleases, Opening, Reading, Scanning, Making
<1>8. QED
  BY <1>3, <1>4, <1>5, <1>6, <1>7 DEF IInv

\* Every state of the process has the invariant.
LEMMA Inductive == Spec => []IInv
<1>1. IInv /\ [Next]_vars => IInv'
  BY TypeDiskStep, TypePlaceStep, TypeConfigStep, CopyingStep, AllocatedStep, ReadingStep,
     ScanningStep DEF IInv
<1>2. QED
  BY InitIInv, <1>1, PTL DEF Spec

\* Behind load_config, struct config is what the ini file means: of each option
\* the last value given in its section, and the number of threads in its range.
THEOREM LoadsTheMeaning == Spec => []ConfigRight
<1>1. ASSUME IInv PROVE ConfigRight
  <2> USE <1>1 DEF IInv
  <2>1. ConfigIsMeaning
    BY DEF Reading, ConfigIsMeaning, Configured, ConfigOf, IniText
  <2>2. \A f \in File : disk[f].there \in BOOLEAN /\ disk[f].text \in Seq(Item[f])
    BY DEF TypeDisk
  <2>3. QED
    BY <2>1, <2>2 DEF TypePlace, TypeConfig, TypeFields, TypeOK, ConfigRight
<1>2. QED
  BY Inductive, <1>1, PTL

\* The rules of the policy are the lines of the regex file, in its order, and
\* only a file without a newline fills more than the line buffer.
THEOREM LinesAreRules == Spec => []RulesAreTheLines
<1>1. ASSUME IInv PROVE RulesAreTheLines
  BY <1>1 DEF IInv, Scanning, RulesAreTheLines, RegexText
<1>2. QED
  BY Inductive, <1>1, PTL

\* A start that fails or is killed leaves no file half copied, but those in
\* broken, and nothing allocated but the copies of the expressions.
THEOREM CleanFailure == Spec => []FailureIsClean
<1>1. ASSUME IInv PROVE FailureIsClean
  BY <1>1 DEF IInv, Copying, Allocated, FailureIsClean
<1>2. QED
  BY Inductive, <1>1, PTL
=============================================================================
