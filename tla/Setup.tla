--------------------------------- MODULE Setup ---------------------------------
(***************************************************************************)
(* The files a process reads before it starts its threads: load_config     *)
(* (apptpl/myconfig.c, lib/load_config.c, lib/inih-r62/ini.c), then        *)
(* word_policy_create and re_policy_create, called by parser_create.  A    *)
(* file that is missing is copied from its template first.  A process may  *)
(* be killed anywhere, fail anywhere, and be started again.                *)
(*                                                                         *)
(* Data.  The ini file is a sequence of lines; a line is a record of what  *)
(* the reader finds in it.  The regex file is a sequence of characters:    *)
(* "n" the newline, "s" the space, "(" alone an invalid expression.  Of    *)
(* the word file only its length matters.                                  *)
(***************************************************************************)
EXTENDS Integers, Sequences, FiniteSets, FiniteSetsExt

CONSTANTS
    Item,              \* what each of the three files is a sequence of
    Template,          \* their template files
    Given,             \* the files, as an administrator may have left them
    MaxStart           \* bound on the starts of a process

File == {"ini", "word", "regex"}

\* What the ini reader finds in a line: a name and its value, or a section's
\* name; and what the value is if the whole line is one.
IsLine(l) ==
    /\ l.kind \in {"comment", "section", "pair", "junk"} /\ l.indent \in BOOLEAN
    /\ l.value.num \in Int /\ l.whole.num \in Int

\* A file: there or not, and what is in it.
Missing == [there |-> FALSE, text |-> <<>>]
There(text) == [there |-> TRUE, text |-> text]

ASSUME ItemAssumption == \A l \in Item["ini"] : IsLine(l)
ASSUME TemplateAssumption ==
    \A f \in File : Template[f] \in Seq(Item[f]) /\ Template[f] # <<>>
ASSUME GivenAssumption ==
    \A d \in Given :
        /\ DOMAIN d = File
        /\ \A f \in File : d[f] = Missing \/ (d[f] = There(d[f].text) /\ d[f].text \in Seq(Item[f]))
ASSUME MaxStartAssumption == MaxStart \in Nat \ {0}

VARIABLES
    disk,              \* the three files
    pc, file,          \* where the process is, and with which file
    at,                \* the next line of the ini, character of the regex file
    section, prev_name,\* of the ini reader
    config,            \* struct config, by section and name
    lines,             \* the expressions found in the regex file
    rules,             \* those of struct re_policy
    held,              \* what is allocated
    overrun,           \* a line was written past its buffer
    starts,
    meant,             \* what each file should hold: what it held in the
                       \* beginning, or its template
    broken             \* files whose copy was cut short

reader  == <<at, section, prev_name>>
policy  == <<lines, rules, overrun>>
process == <<pc, file>>
copied  == <<meant, broken>>
vars    == <<disk, process, reader, config, policy, held, starts, copied>>
-----------------------------------------------------------------------------
(***************************************************************************)
(* struct config and ini_callback.  A value is what atoi makes of it and   *)
(* what it is as text.                                                     *)
(***************************************************************************)

Port == {<<"http", "port">>, <<"zmq", "port">>}
Switch == {<<"http", "enable_ssl">>}
Threads == <<"parser", "thread_num">>
Number == {<<"pcap", "snaplen">>, <<"pcap", "buffer_size">>, Threads}
Text == {<<"global", "version">>, <<"http", "crt_file">>, <<"http", "key_file">>,
         <<"pcap", "device">>, <<"pcap", "filter">>,
         <<"word_policy", "word_file">>, <<"regex_policy", "regex_file">>}
Option == Port \cup Switch \cup Number \cup Text

\* memset
Zero == [o \in Option |-> IF o \in Text THEN "" ELSE 0]

\* Mutant: the field is as wide as an int.
StoredWide(o, v) ==
    CASE o \in Port   -> v.num
      [] o \in Switch -> IF v.text \in {"true", "1"} THEN 1 ELSE 0
      [] o \in Number -> v.num
      [] o \in Text   -> v.text

\* What a field holds: ports are uint16_t.
Stored(o, v) ==
    CASE o \in Port   -> v.num % 65536
      [] o \in Switch -> IF v.text \in {"true", "1"} THEN 1 ELSE 0
      [] o \in Number -> v.num
      [] o \in Text   -> v.text

\* An option nobody knows is reported and leaves config alone.
Handler(name, v) ==
    LET o == <<section, name>>
    IN  config' = IF o \in Option THEN [config EXCEPT ![o] = Stored(o, v)] ELSE config

PARSER_THREAD_MAX == 256
PARSER_THREAD_DEFAULT == 4

Valid(c) ==
    [c EXCEPT ![Threads] = IF @ <= 0 \/ @ > PARSER_THREAD_MAX
                           THEN PARSER_THREAD_DEFAULT ELSE @]
-----------------------------------------------------------------------------
Init ==
    /\ disk \in Given
    /\ pc = "down" /\ file = "ini"
    /\ at = 1 /\ section = "" /\ prev_name = ""
    /\ config = Zero
    /\ lines = <<>> /\ rules = <<>> /\ overrun = FALSE
    /\ held = {}
    /\ starts = 0
    /\ meant = [f \in File |-> IF disk[f].there THEN disk[f].text ELSE Template[f]]
    /\ broken = {}

Goto(from, to) == pc = from /\ pc' = to /\ UNCHANGED file
NextFile(from, f) == pc = from /\ pc' = "access" /\ file' = f

Start ==
    /\ pc \in {"down", "crashed"} /\ starts < MaxStart
    /\ starts' = starts + 1
    /\ pc' = "access" /\ file' = "ini"
    /\ at' = 1 /\ section' = "" /\ prev_name' = ""
    /\ config' = Zero
    /\ lines' = <<>> /\ rules' = <<>> /\ overrun' = FALSE
    /\ held' = {}
    /\ UNCHANGED <<disk, copied>>

Kill ==
    /\ pc \notin {"down", "crashed"}
    /\ pc' = "down" /\ held' = {}
    /\ broken' = IF pc = "copy" /\ disk[file].text # Template[file]
                 THEN broken \cup {file} ELSE broken
    /\ UNCHANGED <<disk, file, reader, config, policy, starts, meant>>
-----------------------------------------------------------------------------
(***************************************************************************)
(* load_config_ini, copy_file_from_tpl and copy_file.  A template that     *)
(* cannot be read and a file that cannot be made end the start; a block    *)
(* that cannot be written ends the copy, which has succeeded all the same. *)
(***************************************************************************)

Access ==
    /\ Goto("access", IF disk[file].there THEN "read" ELSE "open")
    /\ UNCHANGED <<disk, reader, config, policy, held, starts, copied>>

CopyOpen ==
    /\ Goto("open", "copy")
    /\ disk' = [disk EXCEPT ![file] = There(<<>>)]
    /\ UNCHANGED <<reader, config, policy, held, starts, copied>>

Rest == Len(Template[file]) - Len(disk[file].text)

CopyBlock ==
    /\ Rest > 0
    /\ Goto("copy", "copy")
    /\ disk' = [disk EXCEPT ![file] = There(SubSeq(Template[file], 1, Len(@.text) + 1))]
    /\ UNCHANGED <<reader, config, policy, held, starts, copied>>

CopyShort ==
    /\ Rest > 0
    /\ Goto("copy", "read")
    /\ broken' = broken \cup {file}
    /\ UNCHANGED <<disk, reader, config, policy, held, starts, meant>>

\* Mutant: the last block, which is no full one, is not written.
CopyDoneEarly ==
    /\ Rest <= 1
    /\ Goto("copy", "read")
    /\ UNCHANGED <<disk, reader, config, policy, held, starts, copied>>

CopyDone ==
    /\ Rest = 0
    /\ Goto("copy", "read")
    /\ UNCHANGED <<disk, reader, config, policy, held, starts, copied>>
-----------------------------------------------------------------------------
(***************************************************************************)
(* ini_parse_stream, one line a step.  Errors are counted, and ignored by  *)
(* load_config as long as the file could be opened.                        *)
(***************************************************************************)

IniOpen ==
    /\ file = "ini"
    /\ Goto("read", "line")
    /\ UNCHANGED <<disk, reader, config, policy, held, starts, copied>>

MoreLines == pc = "line" /\ at <= Len(disk["ini"].text)
Line == disk["ini"].text[at]

NextLine ==
    /\ at' = at + 1
    /\ UNCHANGED <<disk, process, policy, held, starts, copied>>

\* An indented line is another value of the name before, whatever it looks like.
Continues == Line.kind # "comment" /\ Line.indent /\ prev_name # ""

\* Also an empty line.
IniComment ==
    /\ MoreLines /\ Line.kind = "comment"
    /\ NextLine
    /\ UNCHANGED <<section, prev_name, config>>

IniContinuation ==
    /\ MoreLines /\ Continues
    /\ Handler(prev_name, Line.whole)
    /\ NextLine
    /\ UNCHANGED <<section, prev_name>>

\* Mutant: the name before is kept.
IniSectionKeeps ==
    /\ MoreLines /\ ~Continues /\ Line.kind = "section"
    /\ section' = Line.name
    /\ NextLine
    /\ UNCHANGED <<prev_name, config>>

IniSection ==
    /\ MoreLines /\ ~Continues /\ Line.kind = "section"
    /\ section' = Line.name /\ prev_name' = ""
    /\ NextLine
    /\ UNCHANGED config

IniPair ==
    /\ MoreLines /\ ~Continues /\ Line.kind = "pair"
    /\ prev_name' = Line.name
    /\ Handler(Line.name, Line.value)
    /\ NextLine
    /\ UNCHANGED section

\* Neither "=" nor ":", or "[" without "]".
IniJunk ==
    /\ MoreLines /\ ~Continues /\ Line.kind = "junk"
    /\ NextLine
    /\ UNCHANGED <<section, prev_name, config>>

IniEnd ==
    /\ at > Len(disk["ini"].text)
    /\ NextFile("line", "word")
    /\ config' = Valid(config)
    /\ at' = 1
    /\ UNCHANGED <<disk, section, prev_name, policy, held, starts, copied>>
-----------------------------------------------------------------------------
(***************************************************************************)
(* word_policy_create.                                                     *)
(***************************************************************************)

WordCreate ==
    /\ file = "word" /\ disk["word"].text # <<>>
    /\ NextFile("read", "regex")
    /\ held' = {"words"}
    /\ UNCHANGED <<disk, reader, config, policy, starts, copied>>

\* slurp ends the text of an empty file through a null pointer.
WordCrash ==
    /\ file = "word" /\ disk["word"].text = <<>>
    /\ Goto("read", "crashed")
    /\ UNCHANGED <<disk, reader, config, policy, held, starts, copied>>
-----------------------------------------------------------------------------
(***************************************************************************)
(* re_policy_load: fscanf with "%[^\n] " reads to the end of the line and  *)
(* skips all white space behind it.                                        *)
(***************************************************************************)

RegexOpen ==
    /\ file = "regex"
    /\ Goto("read", "scan")
    /\ UNCHANGED <<disk, reader, config, policy, held, starts, copied>>

\* The end of the line that begins at i, the places behind it from which the
\* next one may begin.
Eol(c, i) == Min({k \in i .. Len(c) + 1 : k = Len(c) + 1 \/ c[k] = "n"})

\* Mutant: only newlines are skipped.
SkipNewlines(c, i) == Min({k \in i .. Len(c) + 1 : k = Len(c) + 1 \/ c[k] # "n"})
\* Mutant: nothing is skipped.
SkipNothing(c, i) == i
Skip(c, i) == Min({k \in i .. Len(c) + 1 : k = Len(c) + 1 \/ c[k] \notin {"n", "s"}})

\* cre2_new accepts it.
Regular(line) == \A k \in DOMAIN line : line[k] # "("

\* The line and its zero against malloc(st_size).
Overruns(c, line) == Len(line) + 1 > Len(c)

ScanLine ==
    LET c == disk["regex"].text
        line == SubSeq(c, at, Eol(c, at) - 1)
    IN  /\ at <= Len(c) /\ c[at] # "n"
        /\ Goto("scan", "scan")
        /\ overrun' = (overrun \/ Overruns(c, line))
        /\ lines' = IF Regular(line) THEN Append(lines, line) ELSE lines
        /\ at' = Skip(c, Eol(c, at))
        /\ UNCHANGED <<disk, section, prev_name, config, rules, held, starts, copied>>

\* At a newline nothing is read, and the loop goes round for ever.
ScanStuck ==
    /\ at <= Len(disk["regex"].text) /\ disk["regex"].text[at] = "n"
    /\ Goto("scan", "stuck")
    /\ UNCHANGED <<disk, reader, config, policy, held, starts, copied>>

ScanEnd ==
    /\ at > Len(disk["regex"].text)
    /\ Goto("scan", "rules")
    /\ held' = held \cup {"lines"}
    /\ UNCHANGED <<disk, reader, config, policy, starts, copied>>
-----------------------------------------------------------------------------
(***************************************************************************)
(* re_policy_create, and what releases its parts.                          *)
(***************************************************************************)

Allocate(from, part, to) ==
    /\ Goto(from, to)
    /\ held' = held \cup {part}
    /\ UNCHANGED <<disk, reader, config, policy, starts, copied>>

RulesMalloc == Allocate("rules", "rules", "opt")
OptNew == Allocate("opt", "opt", "set")
SetNew == Allocate("set", "set", "add")

\* Each expression is copied and added to the set.
SetAdd ==
    /\ Goto("add", "compile")
    /\ rules' = lines
    /\ held' = IF lines = <<>> THEN held ELSE held \cup {"patterns"}
    /\ UNCHANGED <<disk, reader, config, lines, overrun, starts, copied>>

SetCompile ==
    /\ Goto("compile", "up")
    /\ held' = held \ {"lines"}
    /\ UNCHANGED <<disk, reader, config, policy, starts, copied>>

\* Mutant: the lines are forgotten.
ErrPathLines == {"set", "opt", "rules", "words"}

\* What the code behind err: and parser_create's word_policy_destroy release.
ErrPath == {"set", "opt", "lines", "rules", "words"}

\* A call fails.  The process gives up.
Fail ==
    /\ pc \in {"open", "read", "rules", "opt", "set", "compile"}
    /\ pc' = "down"
    /\ held' = held \ ErrPath
    /\ UNCHANGED <<disk, file, reader, config, policy, starts, copied>>

\* parser_destroy at the end of the process.
Stop ==
    /\ Goto("up", "down")
    /\ held' = held \ {"words", "set", "opt", "patterns", "rules"}
    /\ UNCHANGED <<disk, reader, config, policy, starts, copied>>
-----------------------------------------------------------------------------
Copy == Access \/ CopyOpen \/ CopyBlock \/ CopyShort \/ CopyDone

IniLine == IniComment \/ IniContinuation \/ IniSection \/ IniPair \/ IniJunk

LoadConfig == IniOpen \/ IniLine \/ IniEnd

WordPolicy == WordCreate \/ WordCrash

RegexPolicy ==
    \/ RegexOpen \/ ScanLine \/ ScanStuck \/ ScanEnd
    \/ RulesMalloc \/ OptNew \/ SetNew \/ SetAdd \/ SetCompile

Work == Copy \/ LoadConfig \/ WordPolicy \/ RegexPolicy \/ Fail

Next == Start \/ Kill \/ Work \/ Stop

Spec == Init /\ [][Next]_vars

\* The process runs on.
FairSpec == Spec /\ WF_vars(Work)
-----------------------------------------------------------------------------
(***************************************************************************)
(* Properties.                                                             *)
(***************************************************************************)

Place == {"down", "crashed", "access", "open", "copy", "read", "line", "scan", "stuck",
          "rules", "opt", "set", "add", "compile", "up"}

uint16_t == 0 .. 65535

\* Types, with the widths of the fields of struct config.
TypeOK ==
    /\ \A f \in File : disk[f].there \in BOOLEAN /\ disk[f].text \in Seq(Item[f])
    /\ pc \in Place /\ file \in File
    /\ at \in Nat \ {0}
    /\ DOMAIN config = Option
    /\ \A o \in Port : config[o] \in uint16_t
    /\ \A o \in Switch : config[o] \in {0, 1}
    /\ \A o \in Number : config[o] \in Int
    /\ held \subseteq ErrPath \cup {"patterns"}
    /\ overrun \in BOOLEAN
    /\ starts \in 0 .. MaxStart
    /\ DOMAIN meant = File /\ broken \subseteq File

\* load_config is done.
Configured == file # "ini"

\* What an ini file t means, line by line without the reader's state.  A name is
\* open before line i if a pair with a name precedes it and between them is no
\* header, and no pair without a name, but indented ones.
Names(l) == l.kind = "pair" /\ l.name # ""
Closes(l) == l.kind = "section" \/ (l.kind = "pair" /\ l.name = "")
Open(t, i) ==
    \E j \in 1 .. i - 1 :
        /\ Names(t[j])
        /\ \A k \in j + 1 .. i - 1 : Closes(t[k]) => t[k].indent
Continued(t, i) == t[i].indent /\ t[i].kind # "comment" /\ Open(t, i)
Real(t, i, kind) == t[i].kind = kind /\ ~Continued(t, i)
LastName(t, n, kind) ==
    LET S == {i \in 1 .. n : Real(t, i, kind)} IN IF S = {} THEN "" ELSE t[Max(S)].name
Assigns(t, i, o) ==
    /\ Real(t, i, "pair") \/ Continued(t, i)
    /\ o = <<LastName(t, i, "section"), LastName(t, i, "pair")>>
ValueOf(t, i) == IF Continued(t, i) THEN t[i].whole ELSE t[i].value

\* What its first n lines mean: of each option the last value given.
Meaning(t, n) ==
    [o \in Option |->
        LET S == {i \in 1 .. n : Assigns(t, i, o)}
        IN  IF S = {} THEN Zero[o] ELSE Stored(o, ValueOf(t, Max(S)))]

\* The reader and ini_callback leave in struct config what the file means: of
\* each option the last value given in its section.  Whatever that is, the
\* threads main creates are at least one and fit its array of thread ids.
ConfigIsMeaning ==
    LET t == disk["ini"].text
        M == Meaning(t, Len(t))
    IN  Configured =>
            config = [M EXCEPT ![Threads] = IF @ \in 1 .. PARSER_THREAD_MAX THEN @
                                            ELSE PARSER_THREAD_DEFAULT]

\* struct config has the values, and the widths, that the file gives it.
ConfigRight == TypeOK /\ ConfigIsMeaning

\* What a regex file c means: its lines without leading white space (but for the
\* first one), those that are valid expressions.
Begins(c) ==
    {i \in DOMAIN c :
        /\ c[i] # "n"
        /\ \/ i = 1
           \/ /\ c[i] # "s"
              /\ \E j \in 1 .. i - 1 : c[j] = "n" /\ \A k \in j + 1 .. i - 1 : c[k] = "s"}
LineAt(c, i) == SubSeq(c, i, Eol(c, i) - 1)
RegularAt(c) == {i \in Begins(c) : Regular(LineAt(c, i))}

\* Those that begin before end, in the order of the file.
AreLines(ls, c, end) ==
    LET R == {i \in RegularAt(c) : i < end}
    IN  /\ Len(ls) = Cardinality(R)
        /\ \A i \in R : ls[Cardinality({j \in R : j <= i})] = LineAt(c, i)

\* Each valid line of the regex file is one rule, in the order of the file, so
\* that the index RE2 reports names its rule.  The line buffer, as large as the
\* file, is too small for a file that is one line without a newline only.
RulesAreTheLines ==
    LET c == disk["regex"].text
    IN  /\ pc = "up" => AreLines(rules, c, Len(c) + 1)
        /\ overrun => \A i \in DOMAIN c : c[i] # "n"

\* On every start, a file that was missing is the whole template when it is
\* read, and one that was there is as it was: whatever was killed or failed
\* before, but for a file whose copy was cut short.  No other word file is empty.
FilesAsMeant ==
    /\ \A f \in File \ broken :
        (disk[f].there /\ ~(pc = "copy" /\ file = f)) => disk[f].text = meant[f]
    /\ pc = "crashed" => "word" \in broken \/ meant["word"] = <<>>

\* A start that fails has released everything, but the copies of the
\* expressions when their set does not compile.
FailureReleases ==
    (pc = "down" /\ starts > 0) => held = {} \/ (held = {"patterns"} /\ rules # <<>>)

\* A start that does not get through leaves nothing behind, on disk or in
\* memory, that the next one must not find.
FailureIsClean == FilesAsMeant /\ FailureReleases

\* A start ends, unless the regex file begins with a newline.
StartEnds ==
    pc = "access" ~> (\/ pc \in {"up", "down", "crashed"}
                      \/ disk["regex"].text # <<>> /\ disk["regex"].text[1] = "n")
=============================================================================
