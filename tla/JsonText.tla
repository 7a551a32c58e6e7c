------------------------------ MODULE JsonText ------------------------------
(***************************************************************************)
(* cJSON between texts and values: the recursive descent of cJSON_Parse... *)
(* and the growing buffer of cJSON_Print...  A text is a sequence of       *)
(* symbols; a literal, and a string with its quotes, is one symbol.  A     *)
(* value is <<"null">>, <<"num", n>>, <<"str", s>>, <<"arr", values>> or   *)
(* <<"obj", members>> with members <<key, value>>.                         *)
(***************************************************************************)
EXTENDS Integers, Sequences, FiniteSets, SequencesExt

CONSTANTS Strings,      \* symbols of strings
          Width(_),     \* the bytes of a symbol
          NestingLimit, \* CJSON_NESTING_LIMIT
          IntMax,       \* INT_MAX
          DefaultSize   \* default_buffer_size of print

ASSUME JsonTextAssumption == {NestingLimit, IntMax, DefaultSize} \subseteq Nat

Fail   == <<"fail">>
Blanks == {" ", "\t", "\n", "nul"}
Nat2(b) == IF b THEN 1 ELSE 0

-----------------------------------------------------------------------------
(***************************************************************************)
(* Parsing.  s is the parse_buffer: off and depth, how many allocations    *)
(* still succeed, and the blocks in use.                                   *)
(***************************************************************************)
CanRead(t, s) == s.off < Len(t)
Is(t, s, c)   == CanRead(t, s) /\ t[s.off + 1] = c
Move(s, n)    == [s EXCEPT !.off = @ + n]
Take(s)       == [s EXCEPT !.left = @ - 1, !.mem = @ + 1]
Give(s, n)    == [s EXCEPT !.mem = @ - n]
Parsed(s, v)  == [s |-> s, v |-> v]

(* the blocks of a value: an item, its string, its children, their keys *)
RECURSIVE Blocks(_), BlocksOf(_, _)
BlocksOf(list, keys) == IF list = <<>> THEN 0
    ELSE keys + Blocks(IF keys = 1 THEN list[1][2] ELSE list[1]) + BlocksOf(Tail(list), keys)
Blocks(v) == CASE v[1] = "str" -> 2
               [] v[1] = "arr" -> 1 + BlocksOf(v[2], 0)
               [] v[1] = "obj" -> 1 + BlocksOf(v[2], 1)
               [] OTHER        -> 1

(* buffer_skip_whitespace: at the end of the text, back to its last symbol *)
Skip(t, s) ==
    LET stops == {j \in s.off .. Len(t) - 1 : t[j + 1] \notin Blanks} IN
    IF ~CanRead(t, s) THEN s
    ELSE [s EXCEPT !.off = IF stops = {} THEN Len(t) - 1
                           ELSE CHOOSE j \in stops : \A i \in stops : j <= i]

(* parse_string: the block of a string that is well formed *)
ParseString(t, s) ==
    IF t[s.off + 1] \in Strings /\ s.left > 0
    THEN Parsed(Move(Take(s), 1), <<"str", t[s.off + 1]>>)
    ELSE Parsed(Move(s, 1), Fail)

(* parse_number: the run of its characters is copied, strtod reads a part of it *)
ParseNumber(t, s) ==
    LET sign   == Nat2(Is(t, s, "-"))
        digits == {n \in 0 .. Len(t) - s.off - sign :
                     \A j \in 1 .. n : t[s.off + sign + j] = "1"}
        n      == CHOOSE n \in digits : \A m \in digits : m <= n
    IN  IF s.left = 0 THEN Parsed(s, Fail)
        ELSE IF n = 0 THEN Parsed([s EXCEPT !.left = @ - 1], Fail)
        ELSE Parsed([Move(s, sign + n) EXCEPT !.left = @ - 1], <<"num", IF sign = 1 THEN 0 - n ELSE n>>)

(* Mutant of ListFails: the element that failed is not released *)
ListFailsKeeps(s, list, keys, partial) == Parsed(Give(s, BlocksOf(list, keys)), Fail)

(* the end of a list: what follows its last element, or its failure *)
ListFails(s, list, keys, partial) == Parsed(Give(s, BlocksOf(list, keys) + partial), Fail)

RECURSIVE ParseValue(_, _), ParseElements(_, _, _), ParseMembers(_, _, _)
ParseElements(t, s, list) ==
    LET r == ParseValue(t, Skip(t, Move(Take(s), 1)))
        e == Skip(t, r.s)
    IN  IF s.left = 0 THEN ListFails(s, list, 0, 0)
        ELSE IF r.v = Fail THEN ListFails(r.s, list, 0, 1)
        ELSE IF Is(t, e, ",") THEN ParseElements(t, e, Append(list, r.v))
        ELSE IF Is(t, e, "]")
        THEN Parsed([Move(e, 1) EXCEPT !.depth = @ - 1], <<"arr", Append(list, r.v)>>)
        ELSE ListFails(e, Append(list, r.v), 0, 0)

ParseMembers(t, s, list) ==
    LET k == ParseString(t, Skip(t, Move(Take(s), 1)))
        c == Skip(t, k.s)
        r == ParseValue(t, Skip(t, Move(c, 1)))
        e == Skip(t, r.s)
        m == Append(list, <<k.v[2], r.v>>)
    IN  IF s.left = 0 THEN ListFails(s, list, 1, 0)
        ELSE IF s.off + 1 >= Len(t) THEN ListFails(Take(s), list, 1, 1)
        ELSE IF k.v = Fail THEN ListFails(k.s, list, 1, 1)
        ELSE IF ~Is(t, c, ":") THEN ListFails(c, list, 1, 2)
        ELSE IF r.v = Fail THEN ListFails(r.s, list, 1, 2)
        ELSE IF Is(t, e, ",") THEN ParseMembers(t, e, m)
        ELSE IF Is(t, e, "}") THEN Parsed([Move(e, 1) EXCEPT !.depth = @ - 1], <<"obj", m>>)
        ELSE ListFails(e, m, 1, 0)

(* what parse_array and parse_object do before their first element *)
ParseList(t, s, close, empty) ==
    LET b == Skip(t, Move([s EXCEPT !.depth = @ + 1], 1)) IN
    IF s.depth >= NestingLimit THEN Parsed(s, Fail)
    ELSE IF Is(t, b, close) THEN Parsed([Move(b, 1) EXCEPT !.depth = @ - 1], empty)
    ELSE IF ~CanRead(t, b) THEN Parsed(Move(b, -1), Fail)
    ELSE IF close = "]" THEN ParseElements(t, Move(b, -1), <<>>)
    ELSE ParseMembers(t, Move(b, -1), <<>>)

ParseValue(t, s) ==
    CASE ~CanRead(t, s)                       -> Parsed(s, Fail)
      [] t[s.off + 1] = "null"                -> Parsed(Move(s, 1), <<"null">>)
      [] t[s.off + 1] \in Strings             -> ParseString(t, s)
      [] t[s.off + 1] \in {"-", "1"}          -> ParseNumber(t, s)
      [] t[s.off + 1] = "["                   -> ParseList(t, s, "]", <<"arr", <<>>>>)
      [] t[s.off + 1] = "{"                   -> ParseList(t, s, "}", <<"obj", <<>>>>)
      [] OTHER                                -> Parsed(s, Fail)

(* skip_utf8_bom: the mark has three bytes, and two have to follow it *)
SkipBom(t, s) == IF Len(t) >= 3 /\ t[1] = "bom" THEN Move(s, 1) ELSE s

(* cJSON_ParseWithLengthOpts: the value, where it ends or went wrong, blocks in use *)
Accepted(s, v) == [v |-> v, end |-> s.off, mem |-> s.mem]
Rejected(t, s, blocks) ==
    [v |-> Fail, end |-> IF s.off < Len(t) THEN s.off ELSE Len(t) - 1, mem |-> s.mem - blocks]

Terminated(t, s, v) == IF Is(t, s, "nul") THEN Accepted(s, v) ELSE Rejected(t, s, Blocks(v))

Outcome(t, require, r) ==
    IF r.v = Fail THEN Rejected(t, r.s, 1)
    ELSE IF require THEN Terminated(t, Skip(t, r.s), r.v)
    ELSE Accepted(r.s, r.v)

ParseText(t, require, left) ==
    IF t = <<>> \/ left = 0 THEN [v |-> Fail, end |-> 0, mem |-> 0]
    ELSE LET s0 == [off |-> 0, depth |-> 0, left |-> left, mem |-> 0] IN
         Outcome(t, require, ParseValue(t, Skip(t, SkipBom(t, Take(s0)))))

-----------------------------------------------------------------------------
(***************************************************************************)
(* Printing.  p is the printbuffer: what stands before the offset, what    *)
(* was written behind it and is zero-terminated, the length, whether the   *)
(* buffer may grow, the allocations that still succeed.  inside is FALSE   *)
(* once a byte was written or copied that is not in the buffer.            *)
(***************************************************************************)
RECURSIVE Bytes(_)
Bytes(t) == IF t = <<>> THEN 0 ELSE Width(t[1]) + Bytes(Tail(t))

Lost(p) == [p EXCEPT !.ok = FALSE]

(* Mutant of Ensure: what stands before the offset is not counted *)
EnsureFromStart(p, n) ==
    LET needed == n + 1
        size   == IF needed > IntMax \div 2 THEN IntMax ELSE 2 * needed
    IN  IF ~p.ok \/ needed <= p.length THEN p
        ELSE IF p.noalloc \/ needed > IntMax \/ p.left = 0 THEN Lost(p)
        ELSE [p EXCEPT !.length = size, !.left = @ - 1]

(* ensure: room for n bytes and a zero behind the offset *)
Ensure(p, n) ==
    LET off    == Bytes(p.done)
        needed == n + off + 1
        size   == IF needed > IntMax \div 2 THEN IntMax ELSE 2 * needed
    IN  IF ~p.ok THEN p
        ELSE IF (p.length > 0 /\ off >= p.length) \/ n > IntMax THEN Lost(p)
        ELSE IF needed <= p.length THEN p
        ELSE IF p.noalloc \/ needed > IntMax \/ p.left = 0 THEN Lost(p)
        ELSE [p EXCEPT !.length = size, !.left = @ - 1,
                       !.inside = @ /\ (p.realloc \/ off < p.length)]

(* a text behind the offset, with its zero *)
Write(p, n, t) ==
    LET q == Ensure(p, n) IN
    IF ~q.ok THEN q
    ELSE [q EXCEPT !.rest = t, !.inside = @ /\ Bytes(q.done) + Bytes(t) + 1 <= q.length]

(* update_offset, and the additions to offset that stand for it *)
Update(p) == IF p.ok THEN [p EXCEPT !.done = @ \o p.rest, !.rest = <<>>] ELSE p

(* a text that is not terminated, behind which the offset moves *)
Emit(p, n, t) ==
    LET q == Ensure(p, n) IN
    IF ~q.ok THEN q
    ELSE [q EXCEPT !.done = @ \o t, !.rest = <<>>, !.inside = @ /\ Bytes(q.done) + Bytes(t) <= q.length]

Tabs(n) == [i \in 1 .. n |-> "\t"]
Digits(n) == IF n < 0 THEN <<"-">> \o [i \in 1 .. 0 - n |-> "1"] ELSE [i \in 1 .. n |-> "1"]

RECURSIVE PrintValue(_, _, _, _), PrintElements(_, _, _, _), PrintMembers(_, _, _, _)
PrintElements(p, list, format, depth) ==
    LET q == Update(PrintValue(p, list[1], format, depth))
        c == IF format THEN <<",", " ">> ELSE <<",">>
    IN  IF list = <<>> THEN p
        ELSE IF Len(list) = 1 THEN q
        ELSE PrintElements(Update(Write(q, Len(c) + 1, c)), Tail(list), format, depth)

PrintArray(p, list, format, depth) ==
    Write(PrintElements(Emit(p, 1, <<"[">>), list, format, depth + 1), 2, <<"]">>)

PrintMembers(p, list, format, depth) ==
    LET tab   == IF format THEN Emit(p, depth, Tabs(depth)) ELSE p
        key   == Update(Write(tab, Width(list[1][1]) + 1, <<list[1][1]>>))
        colon == IF format THEN <<":", "\t">> ELSE <<":">>
        value == Update(PrintValue(Emit(key, Len(colon), colon), list[1][2], format, depth))
        comma == (IF Len(list) > 1 THEN <<",">> ELSE <<>>) \o (IF format THEN <<"\n">> ELSE <<>>)
    IN  IF list = <<>> THEN p
        ELSE PrintMembers(Update(Write(value, Len(comma) + 1, comma)), Tail(list), format, depth)

PrintObject(p, list, format, depth) ==
    LET open == IF format THEN <<"{", "\n">> ELSE <<"{">>
        all  == PrintMembers(Emit(p, Len(open) + 1, open), list, format, depth + 1)
    IN  IF format THEN Write(all, depth + 2, Tabs(depth) \o <<"}">>) ELSE Write(all, 2, <<"}">>)

PrintValue(p, v, format, depth) ==
    CASE v[1] = "null" -> Write(p, 5, <<"null">>)
      [] v[1] = "num"  -> Update(Write(p, Len(Digits(v[2])) + 1, Digits(v[2])))
      [] v[1] = "str"  -> Write(p, Width(v[2]) + 1, <<v[2]>>)
      [] v[1] = "arr"  -> PrintArray(p, v[2], format, depth)
      [] v[1] = "obj"  -> PrintObject(p, v[2], format, depth)

Buffer(length, noalloc, realloc, left) ==
    [done |-> <<>>, rest |-> <<>>, length |-> length, noalloc |-> noalloc, realloc |-> realloc,
     left |-> left, ok |-> TRUE, inside |-> TRUE]

Printed(p) == [ok |-> p.ok, text |-> p.done \o p.rest, inside |-> p.inside, length |-> p.length]

(* print: the buffer is cut to the text in the end, which may fail *)
PrintAll(v, format, realloc, left) ==
    IF left = 0 THEN Printed(Lost(Buffer(0, FALSE, realloc, 0)))
    ELSE LET p == Update(PrintValue(Buffer(DefaultSize, FALSE, realloc, left - 1), v, format, 0)) IN
         IF p.ok /\ p.left > 0 THEN Printed([p EXCEPT !.length = Bytes(p.done) + 1]) ELSE Printed(Lost(p))

(* cJSON_PrintBuffered, cJSON_PrintPreallocated *)
PrintBuffered(v, size, format, realloc, left) ==
    IF left = 0 THEN Printed(Lost(Buffer(0, FALSE, realloc, 0)))
    ELSE Printed(PrintValue(Buffer(size, FALSE, realloc, left - 1), v, format, 0))
PrintPreallocated(v, size, format) ==
    Printed(PrintValue(Buffer(size, TRUE, TRUE, 0), v, format, 0))
=============================================================================
