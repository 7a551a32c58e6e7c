----------------------------- MODULE Algorithms -----------------------------
(***************************************************************************)
(* The algorithms that keep no state, on every input up to a size: an      *)
(* input of a kind grows by one piece a step, and the invariants compare   *)
(* what the code makes of it with what it means.                           *)
(***************************************************************************)
EXTENDS JsonText, JsonString, AhoCorasick, UtHashSort

CONSTANTS Pieces(_),  \* the pieces an input of a kind is made of
          Longest(_), \* how many at most
          Limit(_),   \* the most allocations that are let succeed
          Texts       \* the texts that are searched for words

VARIABLES kind, input

Kinds == {"text", "value", "string", "escapes", "minify", "words", "table"}

Init == kind \in Kinds /\ input = <<>>

Grow == /\ Len(input) < Longest(kind)
        /\ \E p \in Pieces(kind) : input' = Append(input, p)
        /\ UNCHANGED kind

Spec == Init /\ [][Grow]_<<kind, input>>

(* the text of pieces that are texts, and of pieces that have a text *)
Joined == FlattenSeq(input)
Text == FlattenSeq([j \in DOMAIN input |-> input[j].text])

-----------------------------------------------------------------------------
(* the value that a text means, found from the outside in, or Fail *)
Core(t) ==
    LET marks == {j \in DOMAIN t : t[j] \notin Blanks} IN
    IF marks = {} THEN <<>>
    ELSE SubSeq(t, CHOOSE a \in marks : \A j \in marks : a <= j, CHOOSE b \in marks : \A j \in marks : b >= j)

RECURSIVE Meant(_, _), MeantList(_, _, _)
MeantMember(t, deep) ==
    LET colons == {j \in DOMAIN t : t[j] = ":"}
        c      == CHOOSE j \in colons : \A i \in colons : j <= i
        key    == Core(SubSeq(t, 1, c - 1))
        v      == Meant(SubSeq(t, c + 1, Len(t)), deep)
    IN  IF colons = {} THEN Fail
        ELSE IF Len(key) # 1 \/ v = Fail THEN Fail
        ELSE IF key[1] \notin Strings THEN Fail ELSE <<key[1], v>>

MeantList(t, deep, member) ==
    LET One(u) == IF member THEN MeantMember(u, deep) ELSE Meant(u, deep)
        cuts   == {j \in DOMAIN t : /\ t[j] = ","
                                    /\ One(SubSeq(t, 1, j - 1)) # Fail
                                    /\ MeantList(SubSeq(t, j + 1, Len(t)), deep, member) # Fail}
        c      == CHOOSE j \in cuts : TRUE
    IN  IF One(t) # Fail THEN <<One(t)>>
        ELSE IF cuts = {} THEN Fail
        ELSE <<One(SubSeq(t, 1, c - 1))>> \o MeantList(SubSeq(t, c + 1, Len(t)), deep, member)

MeantNumber(u) ==
    LET digits == IF u[1] = "-" THEN Tail(u) ELSE u IN
    IF digits = <<>> \/ ToSet(digits) # {"1"} THEN Fail
    ELSE <<"num", IF u[1] = "-" THEN 0 - Len(digits) ELSE Len(digits)>>

Meant(t, deep) ==
    LET u      == Core(t)
        within == SubSeq(u, 2, Len(u) - 1)
        list   == MeantList(within, deep + 1, u[1] = "{")
        type   == IF u[1] = "[" THEN "arr" ELSE "obj"
        pair   == <<u[1], u[Len(u)]>> \in {<<"[", "]">>, <<"{", "}">>}
    IN  CASE u = <<>>       -> Fail
          [] u = <<"null">> -> u
          [] Len(u) = 1 /\ u[1] \in Strings -> <<"str", u[1]>>
          [] Len(u) > 1 /\ pair /\ deep < NestingLimit ->
               IF Core(within) = <<>> THEN <<type, <<>>>>
               ELSE IF list = Fail THEN Fail ELSE <<type, list>>
          [] OTHER -> IF u = <<>> THEN Fail ELSE MeantNumber(u)

(* blocks in use, and a value that does not depend on the memory there is *)
Frugal(t, v, r) ==
    /\ r.mem = IF r.v = Fail THEN 0 ELSE Blocks(r.v)
    /\ r.v \in {Fail, v}
    /\ r.end <= Len(t)

(* the ends of the parts of t that mean a value; all and term are what the parser gives *)
Agree(t, values, all, term) ==
    LET ends   == {e \in DOMAIN values : values[e] # Fail}
        closed == /\ \A j \in all.end + 1 .. Len(t) : t[j] \in Blanks
                  /\ all.end < Len(t) /\ \E j \in {all.end + 1, Len(t)} : t[j] = "nul"
    IN  /\ IF ends = {} THEN all.v = Fail
           ELSE all.v = values[Max(ends)] /\ all.end = Max(ends)
        /\ term.v \in {Fail, all.v}
        /\ ends # {} /\ closed /\ t[Len(t)] = "nul" => term.v = all.v
        /\ term.v # Fail => closed \/ t[term.end + 1] = "nul"
        /\ \A left \in 0 .. Limit(kind) :
             Frugal(t, all.v, ParseText(t, FALSE, left)) /\ Frugal(t, term.v, ParseText(t, TRUE, left))

(***************************************************************************)
(* cJSON_Parse... accepts a text exactly when it begins with one that      *)
(* means a value (the longest such), with require_null_terminated when     *)
(* nothing but blanks and the end follow it, and returns that value and    *)
(* the place behind it.  What it holds afterwards are the blocks of that   *)
(* value: nothing, when the text is malformed or any allocation fails.     *)
(* A byte order mark counts only when two more bytes follow.               *)
(***************************************************************************)
ParseIsGrammar ==
    kind = "text" =>
        LET t    == Joined
            skip == IF Len(t) >= 3 /\ t[1] = "bom" THEN 1 ELSE 0
        IN  Agree(t, [e \in {e \in skip + 1 .. Len(t) : t[e] \notin Blanks} |->
                         Meant(SubSeq(t, skip + 1, e), 0)],
                  ParseText(t, FALSE, Limit(kind)), ParseText(t, TRUE, Limit(kind)))

-----------------------------------------------------------------------------
(* the values that can be made of the pieces of an input *)
Pair == IF Len(input) > 1 THEN {<<"obj", <<<<"x", input[1]>>, <<"x", input[2]>>>>>>} ELSE {}
ValuesOf == {<<"arr", input>>} \union {<<"arr", <<input[j]>>>> : j \in DOMAIN input} \union Pair
            \union {<<"obj", <<<<"x", <<"arr", <<input[j], input[j]>>>>>>>>>> : j \in DOMAIN input}
            \union ToSet(input)

Whole(v, p) == p.ok => Meant(p.text, 0 - Len(p.text)) = v /\ Bytes(p.text) + 1 <= p.length
Contained(v, p) == p.inside /\ Whole(v, p)

(* full is what is printed with memory enough *)
Prints(v, format, realloc, full) ==
    /\ PrintPreallocated(v, IntMax, format).ok => full.ok
    /\ full.ok /\ ~format => ToSet(full.text) \intersect Blanks = {}
    /\ full.ok => PrintPreallocated(v, Bytes(full.text) + 5, format).ok
    /\ \A left \in 0 .. Limit(kind) : Contained(v, PrintAll(v, format, realloc, left))
    /\ \A n \in 0 .. 12 :
         /\ Contained(v, PrintPreallocated(v, n, format))
         /\ \A left \in 0 .. 2 :
              IF n = 0 /\ ~realloc THEN Whole(v, PrintBuffered(v, n, format, realloc, left))
              ELSE Contained(v, PrintBuffered(v, n, format, realloc, left))

(***************************************************************************)
(* Whatever room a buffer has at first and whichever allocation fails,     *)
(* printing never writes outside the buffer, and a text it returns means   *)
(* the value, on one line without blanks unless it is formatted.  With     *)
(* memory enough it fails only when a buffer of INT_MAX bytes would not do *)
(* either, and the buffer of a caller is enough when it is five bytes      *)
(* longer than the text (cJSON.h).                                         *)
(* A buffer of no bytes that cannot be reallocated is the exception: its   *)
(* first byte is copied all the same.  Printing has no nesting limit.      *)
(***************************************************************************)
PrintIsInverse ==
    kind = "value" =>
        \A v \in ValuesOf, format, realloc \in BOOLEAN :
            Prints(v, format, realloc, PrintAll(v, format, realloc, 100))

-----------------------------------------------------------------------------
(***************************************************************************)
(* A string survives being printed and parsed, byte for byte: the length   *)
(* computed first places the closing quote where the escapes end, and both *)
(* stay within the room they reserved.                                     *)
(***************************************************************************)
StringSurvives ==
    kind = "string" =>
        LET p == PrintString(input)
            r == ParseBytes(p.text)
        IN  /\ r.ok /\ r.bytes = input
            /\ Len(p.text) + 1 <= p.reserved /\ p.written = Len(p.text) - 1
            /\ Len(r.bytes) + 1 <= r.size /\ r.next = Len(p.text) + 1
            /\ \A c \in ToSet(p.text) : c >= 32

(* the code points of bytes in UTF-8 *)
RECURSIVE CodePoints(_)
CodePoints(b) ==
    LET n    == CASE b[1] < 128 -> 1 [] b[1] \in 192 .. 223 -> 2 [] b[1] \in 224 .. 239 -> 3 [] OTHER -> 4
        head == CASE n = 1 -> b[1] [] n = 2 -> b[1] - 192 [] n = 3 -> b[1] - 224 [] OTHER -> b[1] - 240
        More(c, j) == IF n < j THEN c ELSE c * 64 + (b[j] - 128)
    IN  IF b = <<>> THEN <<>>
        ELSE <<More(More(More(head, 2), 3), 4)>> \o CodePoints(SubSeq(b, n + 1, Len(b)))

(* the code units that the pieces of a string stand for, and their code points *)
High(u) == u \div 1024 = 54
Low(u)  == u \div 1024 = 55
RECURSIVE Characters(_)
Characters(units) ==
    IF units = <<>> THEN <<>>
    ELSE IF High(units[1])
    THEN <<65536 + ((units[1] % 1024) * 1024) + (units[2] % 1024)>> \o Characters(SubSeq(units, 3, Len(units)))
    ELSE <<units[1]>> \o Characters(Tail(units))

(***************************************************************************)
(* An escaped string is read as the characters it stands for, in UTF-8,    *)
(* within the room estimated for it: \u with its four digits, the upper    *)
(* half of a pair only together with a lower one, and nothing else is let  *)
(* through but the short escapes.  Four characters that are no number are  *)
(* read as \u0000.                                                         *)
(***************************************************************************)
EscapesDecode ==
    kind = "escapes" =>
        LET units == [j \in DOMAIN input |-> input[j].unit]
            good  == \A j \in DOMAIN units :
                       /\ units[j] >= 0
                       /\ High(units[j]) => j < Len(units) /\ Low(units[j + 1])
                       /\ Low(units[j]) => j > 1 /\ High(units[j - 1])
            t     == <<Quote>> \o Text \o <<Quote>>
            r     == ParseBytes(t)
        IN  /\ r.ok = good
            /\ good => /\ CodePoints(r.bytes) = Characters(units)
                       /\ Len(r.bytes) + 1 <= r.size /\ r.next = Len(t) + 1

(***************************************************************************)
(* cJSON_Minify removes the blanks and the comments between the parts of a *)
(* text and nothing from within a string, whatever the strings and the     *)
(* comments look like; it loses its way only behind a string that ends in  *)
(* an escaped backslash.                                                   *)
(***************************************************************************)
MinifyKeepsTokens ==
    kind = "minify" /\ (\A j \in DOMAIN input : ~input[j].astray) =>
        MinifyText(Text) =
            FlattenSeq([j \in DOMAIN input |-> IF input[j].drop THEN <<>> ELSE input[j].text])
-----------------------------------------------------------------------------
(* the words that end at a place of a text, longest first; of equal ones the last *)
EndingAt(text, pos) ==
    LET Ends(w) == w # <<>> /\ Len(w) <= pos /\ SubSeq(text, pos - Len(w) + 1, pos) = w
        hits == {i \in DOMAIN input : Ends(input[i]) /\ \A k \in DOMAIN input : input[k] = input[i] => k <= i}
    IN  SetToSortSeq(hits, LAMBDA i, k : Len(input[i]) > Len(input[k]))
Matches(text) ==
    FlattenSeq([pos \in DOMAIN text |->
        LET e == EndingAt(text, pos) IN [j \in DOMAIN e |-> <<e[j] - 1, pos>>]])

(* a word that ends within another, where it is the longest part known, and ends there *)
Begun == UNION {Prefixes(input[i]) : i \in DOMAIN input}
GoesOn(p) == \E q \in Begun : Len(q) = Len(p) + 1 /\ SubSeq(q, 1, Len(p)) = p
Parts(p) == Suffixes(Tail(p)) \intersect Begun
Crossed == \E p \in Begun :
    /\ p # <<>> /\ GoesOn(p)
    /\ \E q \in Parts(p) : ~GoesOn(q) /\ \A r \in Parts(p) : Len(r) <= Len(q)

(***************************************************************************)
(* acism.h:54: for each match the callback is called.                      *)
(***************************************************************************)
EveryMatchReported ==
    kind = "words" =>
        LET Reports(m) == \A text \in Texts : ScanText(m, text).found = Matches(text) IN
        Reports(Machine(input))

(* r is what a scan of text with m gives *)
Reported(m, text, r) ==
    /\ r.reach < m.size + m.nsyms
    /\ r.reach < m.size =>
         /\ ToSet(r.found) \subseteq ToSet(Matches(text)) /\ IsInjective(r.found)
         /\ Crossed \/ r.found = Matches(text)
AllReported(m) == \A text \in Texts : Reported(m, text, ScanText(m, text))

(***************************************************************************)
(* A text is searched for all words at once and each occurrence reported,  *)
(* where it ends, the longest first, as long as no search reads behind the *)
(* table of transitions, and unless a word that does not go on lies within *)
(* another one: then some are missed, but what is reported is there.  And  *)
(* a search reads at most as many words behind the table as there are      *)
(* symbols.                                                                *)
(***************************************************************************)
WordsFound == kind = "words" => AllReported(Machine(input))

-----------------------------------------------------------------------------
(* an ordered dictionary: its items, as they are iterated over *)
Has(ref, x)     == x \in ToSet(ref)
Free(ref, key)  == \A y \in ToSet(ref) : KeyOf(y) # key
Without(ref, x) == SelectSeq(ref, LAMBDA y : y # x)
Ranked(ref)     == LET ranks == SetToSortSeq({Rank(y) : y \in ToSet(ref)}, <) IN
                   FlattenSeq([j \in DOMAIN ranks |-> SelectSeq(ref, LAMBDA y : Rank(y) = ranks[j])])
Inserted(ref, x) ==
    LET later == {j \in DOMAIN ref : Rank(ref[j]) > Rank(x)} IN
    IF later = {} THEN Append(ref, x)
    ELSE InsertAt(ref, CHOOSE j \in later : \A k \in later : j <= k, x)
OddRank == {x \in Items : Rank(x) % 2 = 1}

(* an operation on the table and on the dictionary; one that the caller may not ask for is none *)
Asked(s, o) ==
    LET table(t, ref) == [t |-> t, ref |-> ref, selected |-> FALSE] IN
    CASE o.op = "add" /\ Free(s.ref, KeyOf(o.x)) /\ ~s.selected ->
           table(Add(s.t, o.x), Append(s.ref, o.x))
      [] o.op = "inorder" /\ Free(s.ref, KeyOf(o.x)) /\ ~s.selected ->
           table(AddInorder(s.t, o.x), Inserted(s.ref, o.x))
      [] o.op = "replace" /\ ~Has(s.ref, o.x) /\ ~s.selected ->
           table(Replace(s.t, o.x), Append(SelectSeq(s.ref, LAMBDA y : KeyOf(y) # KeyOf(o.x)), o.x))
      [] o.op = "delete" /\ Has(s.ref, o.x) /\ ~s.selected ->
           table(Delete(s.t, o.x), Without(s.ref, o.x))
      [] o.op = "sort"   -> table(Sort(s.t), Ranked(s.ref))
      [] o.op = "clear"  -> table(Clear(s.t), <<>>)
      [] o.op = "select" /\ s.t.head # NoItem ->
           LET t == Select(s.t, OddRank) IN
           [t |-> t, ref |-> IF ToSet(Order(t)) = ToSet(s.ref) \intersect OddRank THEN Order(t) ELSE <<NoItem>>,
            selected |-> TRUE]
      [] OTHER -> s
Ask(ops) == FoldLeft(Asked, [t |-> NoTable, ref |-> <<>>, selected |-> FALSE], ops)

(***************************************************************************)
(* After any additions, deletions, replacements, sorts, selections and     *)
(* clearings, a table of uthash.h finds exactly the items it should, goes  *)
(* over them in the order it should, and its counts and both its lists     *)
(* agree (HASH_FSCK), however many keys have the same hash and however     *)
(* often it was expanded; and no chain is longer than the expansion allows *)
(* unless it was given up.  A selection can be searched, gone over, sorted *)
(* and cleared, but not added to or deleted from before it was sorted: its *)
(* tail is not its last item.                                              *)
(***************************************************************************)
TableIsDictionary ==
    kind = "table" =>
        LET s == Ask(Joined) IN
        /\ Fsck(s.t) /\ Order(s.t) = s.ref
        /\ s.ref # <<>> => s.selected \/ s.t.tail = s.ref[Len(s.ref)]
        /\ \A x \in Items :
             LET hits == SelectSeq(s.ref, LAMBDA y : KeyOf(y) = KeyOf(x)) IN
             FindKey(s.t, KeyOf(x)) = IF hits = <<>> THEN NoItem ELSE hits[1]
        /\ \A b \in DOMAIN s.t.chain :
             s.t.noexpand \/ Len(s.t.chain[b]) <= (s.t.mult[b] + 1) * Threshold
=============================================================================
