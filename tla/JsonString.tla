----------------------------- MODULE JsonString -----------------------------
(***************************************************************************)
(* The strings of cJSON, byte by byte: how print_string_ptr escapes them,  *)
(* how parse_string reads them back into a block whose size it estimates   *)
(* first, and how cJSON_Minify finds its way around them.  Characters are  *)
(* their codes.                                                            *)
(***************************************************************************)
EXTENDS Integers, Sequences, FiniteSets, SequencesExt

Quote  == 34
Escape == 92
Slash  == 47
Star   == 42

(* the characters with an escape of two characters, and that escape *)
Short == (8 :> 98) @@ (9 :> 116) @@ (10 :> 110) @@ (12 :> 102) @@ (13 :> 114)
         @@ (Quote :> Quote) @@ (Escape :> Escape)

HexDigit(n) == IF n < 10 THEN 48 + n ELSE 87 + n

Escaped(c) ==
    CASE c \in DOMAIN Short -> <<Escape, Short[c]>>
      [] c \notin DOMAIN Short /\ c < 32 -> <<Escape, 117, 48, 48, HexDigit(c \div 16), HexDigit(c % 16)>>
      [] OTHER -> <<c>>

(* Mutant of Extra: an escape of a control character has five characters *)
ExtraShort(c) == CASE c \in DOMAIN Short -> 1 [] c \notin DOMAIN Short /\ c < 32 -> 4 [] OTHER -> 0

(* what an escape adds to the length *)
Extra(c) == CASE c \in DOMAIN Short -> 1 [] c \notin DOMAIN Short /\ c < 32 -> 5 [] OTHER -> 0

RECURSIVE ExtraOf(_)
ExtraOf(b) == IF b = <<>> THEN 0 ELSE Extra(b[1]) + ExtraOf(Tail(b))

(* print_string_ptr: the closing quote is placed by the length computed first *)
PrintString(b) ==
    LET length == Len(b) + ExtraOf(b)
        body   == <<Quote>> \o FlattenSeq([i \in DOMAIN b |-> Escaped(b[i])])
    IN  [text |-> [i \in 1 .. length + 2 |-> IF i = length + 2 THEN Quote ELSE body[i]],
         written |-> Len(body), reserved |-> length + 3]

-----------------------------------------------------------------------------
Hex(c) == CASE c \in 48 .. 57  -> c - 48
            [] c \in 65 .. 70  -> c - 55
            [] c \in 97 .. 102 -> c - 87
            [] OTHER           -> -1

(* parse_hex4: 0 also stands for something that is no number *)
Hex4(t, i) ==
    LET h == [j \in 0 .. 3 |-> Hex(t[i + j])] IN
    IF \E j \in 0 .. 3 : h[j] < 0 THEN 0 ELSE ((h[0] * 16 + h[1]) * 16 + h[2]) * 16 + h[3]

(* the encoding of utf16_literal_to_utf8 *)
Trail(c) == 128 + (c % 64)
Utf8(c) ==
    IF c < 128 THEN <<c>>
    ELSE IF c < 2048 THEN <<192 + c \div 64, Trail(c)>>
    ELSE IF c < 65536 THEN <<224 + c \div 4096, Trail(c \div 64), Trail(c)>>
    ELSE <<240 + c \div 262144, Trail(c \div 4096), Trail(c \div 64), Trail(c)>>

(* Mutant of Literal: the second half of a pair is not looked at *)
LiteralUnpaired(t, i, end) ==
    LET first == Hex4(t, i + 2)
        next  == Hex4(t, i + 8)
    IN  IF end - i < 6 \/ first \in 56320 .. 57343 THEN [length |-> 0, bytes |-> <<>>]
        ELSE IF first \notin 55296 .. 56319 THEN [length |-> 6, bytes |-> Utf8(first)]
        ELSE IF end - i < 12 THEN [length |-> 0, bytes |-> <<>>]
        ELSE [length |-> 12, bytes |-> Utf8(65536 + ((first % 1024) * 1024) + (next % 1024))]

(* utf16_literal_to_utf8 at i, in a string whose closing quote is at end *)
Literal(t, i, end) ==
    LET first == Hex4(t, i + 2)
        pair  == first \in 55296 .. 56319
        again == end - (i + 6) >= 6 /\ t[i + 6] = Escape /\ t[i + 7] = 117
        next  == Hex4(t, i + 8)
        none  == [length |-> 0, bytes |-> <<>>]
    IN  IF end - i < 6 THEN none
        ELSE IF first \in 56320 .. 57343 THEN none
        ELSE IF ~pair THEN [length |-> 6, bytes |-> Utf8(first)]
        ELSE IF ~again THEN none
        ELSE IF next \notin 56320 .. 57343 THEN none
        ELSE [length |-> 12, bytes |-> Utf8(65536 + ((first % 1024) * 1024) + (next % 1024))]

(* the first pass of parse_string: the closing quote, and the escapes before it *)
RECURSIVE Scan(_, _, _)
Scan(t, i, skipped) ==
    IF i > Len(t) THEN [end |-> 0, skipped |-> 0]
    ELSE IF t[i] = Quote THEN [end |-> i, skipped |-> skipped]
    ELSE IF t[i] # Escape THEN Scan(t, i + 1, skipped)
    ELSE IF i = Len(t) THEN [end |-> 0, skipped |-> 0]
    ELSE Scan(t, i + 2, skipped + 1)

Plain(c) == CHOOSE b \in DOMAIN Short : Short[b] = c

(* the second pass: the bytes up to the closing quote, or NoBytes *)
NoBytes == <<-1>>
RECURSIVE Decode(_, _, _, _)
Decode(t, i, end, out) ==
    IF i >= end THEN out
    ELSE IF t[i] # Escape THEN Decode(t, i + 1, end, Append(out, t[i]))
    ELSE IF t[i + 1] = 117
    THEN LET u == Literal(t, i, end) IN
         IF u.length = 0 THEN NoBytes ELSE Decode(t, i + u.length, end, out \o u.bytes)
    ELSE IF t[i + 1] = Slash THEN Decode(t, i + 2, end, Append(out, Slash))
    ELSE IF \E b \in DOMAIN Short : Short[b] = t[i + 1]
    THEN Decode(t, i + 2, end, Append(out, Plain(t[i + 1])))
    ELSE NoBytes

(* parse_string, on a text that begins with a quote *)
ParseBytes(t) ==
    LET s   == Scan(t, 2, 0)
        out == Decode(t, 2, s.end, <<>>)
    IN  IF s.end = 0 \/ out = NoBytes THEN [ok |-> FALSE, bytes |-> <<>>, size |-> 0, next |-> 0]
        ELSE [ok |-> TRUE, bytes |-> out, size |-> s.end - 1 - s.skipped + 1, next |-> s.end + 1]

-----------------------------------------------------------------------------
(* cJSON_Minify: r is where it reads and what it has written *)
At(t, i) == IF i <= Len(t) THEN t[i] ELSE 0
On(i, out) == [i |-> i, out |-> out]

(* skip_oneline_comment, skip_multiline_comment: the place behind *)
FirstFrom(t, i, P(_)) ==
    LET hits == {j \in i .. Len(t) : P(j)} IN
    IF hits = {} THEN Len(t) + 1 ELSE CHOOSE j \in hits : \A k \in hits : j <= k
BehindLine(t, i) ==
    LET j == FirstFrom(t, i + 2, LAMBDA k : t[k] = 10) IN IF j > Len(t) THEN j ELSE j + 1
BehindComment(t, i) ==
    LET j == FirstFrom(t, i + 2, LAMBDA k : t[k] = Star /\ At(t, k + 1) = Slash) IN
    IF j > Len(t) THEN j ELSE j + 2

(* Mutant of CopyString: a quote ends a string even if it is escaped *)
CopyStringShort(t, r) ==
    LET quotes == {k \in r.i .. Len(t) : t[k] = Quote}
        end    == IF quotes = {} THEN Len(t) ELSE CHOOSE k \in quotes : \A j \in quotes : k <= j
    IN  On(end + 1, r.out \o SubSeq(t, r.i, end))

(* minify_string, behind the opening quote *)
RECURSIVE CopyString(_, _)
CopyString(t, r) ==
    IF r.i > Len(t) THEN r
    ELSE IF t[r.i] = Quote THEN On(r.i + 1, Append(r.out, Quote))
    ELSE IF t[r.i] = Escape /\ At(t, r.i + 1) = Quote
    THEN CopyString(t, On(r.i + 2, r.out \o <<Escape, Quote>>))
    ELSE CopyString(t, On(r.i + 1, Append(r.out, t[r.i])))

RECURSIVE Minify(_, _)
Minify(t, r) ==
    LET c == At(t, r.i) IN
    IF c = 0 THEN r.out
    ELSE IF c \in {32, 9, 13, 10} THEN Minify(t, On(r.i + 1, r.out))
    ELSE IF c = Slash
    THEN Minify(t, On(IF At(t, r.i + 1) = Slash THEN BehindLine(t, r.i)
                      ELSE IF At(t, r.i + 1) = Star THEN BehindComment(t, r.i)
                      ELSE r.i + 1, r.out))
    ELSE IF c = Quote THEN Minify(t, CopyString(t, On(r.i + 1, Append(r.out, Quote))))
    ELSE Minify(t, On(r.i + 1, Append(r.out, c)))

MinifyText(t) == Minify(t, On(1, <<>>))
=============================================================================
