---------------------------- MODULE MCAlgorithms ----------------------------
(***************************************************************************)
(* Pieces that tell the cases of each algorithm apart.                     *)
(***************************************************************************)
EXTENDS Algorithms

MCWidth(c) == CASE c = "null" -> 4 [] c = "x" -> 3 [] OTHER -> 1

Values == {<<"null">>, <<"num", -2>>, <<"str", "x">>, <<"arr", <<>>>>, <<"obj", <<>>>>,
           <<"arr", <<<<"num", 1>>>>>>}

(* pieces of strings and texts, as the codes of their characters *)
Unit(u, t) == [unit |-> u, text |-> t]
U(a, b, c, d) == <<Escape, 117, a, b, c, d>>
MCEscapes == {Unit(97, <<97>>), Unit(10, <<92, 110>>), Unit(47, <<92, 47>>), Unit(-1, <<92, 120>>),
              Unit(65, U(48, 48, 52, 49)), Unit(233, U(48, 48, 69, 57)), Unit(8364, U(50, 48, 65, 67)),
              Unit(55357, U(68, 56, 51, 68)), Unit(56832, U(68, 101, 48, 48)),
              Unit(0, U(48, 71, 48, 48)), Unit(65535, U(102, 70, 70, 102))}

Part(t)   == [text |-> t, drop |-> FALSE, astray |-> FALSE]
Space(t)  == [text |-> t, drop |-> TRUE, astray |-> FALSE]
Astray(t) == [text |-> t, drop |-> FALSE, astray |-> TRUE]
MCMinify == {Part(<<97>>), Part(<<34, 32, 97, 34>>), Part(<<34, 92, 34, 32, 34>>), Part(<<34, 47, 47, 34>>),
             Space(<<32>>), Space(<<10>>), Space(<<47, 47, 34, 10>>), Space(<<47, 42, 34, 47, 42, 32, 42, 47>>),
             Astray(<<34, 92, 92, 34>>)}

MCWords == {<<>>, <<1>>, <<2>>, <<1, 2>>, <<2, 1>>, <<2, 2>>, <<3, 2>>, <<1, 1, 2>>, <<1, 2, 2>>,
            <<2, 1, 2>>, <<1, 1, 2, 2>>, <<1, 2, 1, 3>>}
MCTexts == [1 .. 5 -> 1 .. 3]

(* items of a table: four whose hashes never part, one apart, and one more with the key of the first *)
Op(o, x) == <<[op |-> o, x |-> x]>>
MCItems == {"a", "b", "c", "d", "e", "f"}
MCKeyOf(x) == IF x = "f" THEN "a" ELSE x
MCHashOf(key) == CASE key = "a" -> 0 [] key = "b" -> 32 [] key = "c" -> 64 [] key = "d" -> 96 [] OTHER -> 1
MCRank(x) == CASE x \in {"a", "e"} -> 3 [] x = "b" -> 1 [] x = "d" -> 5 [] OTHER -> 2
Fill(s) == FlattenSeq([j \in DOMAIN s |-> Op("add", s[j])])
MCOps == {Fill(<<"a", "b", "c", "d", "e">>), Fill(<<"d", "e", "b">>), Op("add", "e"), Op("add", "a"),
          Op("inorder", "c"), Op("inorder", "d"), Op("replace", "f"), Op("replace", "e"),
          Op("delete", "a"), Op("delete", "d"), Op("delete", "e"),
          Op("sort", ""), Op("select", ""), Op("clear", "")}

MCPieces(k) ==
    CASE k = "text"    -> {<<c>> : c \in {"[", "]", "{", "}", ",", ":", " ", "1", "x", "nul", "bom"}}
                         \union {<<"x", ":", "1">>, <<",", "x", ":">>, <<"{", "x", ":">>,
                                 <<"[", "[">>, <<"]", "]">>, <<",", "1">>}
      [] k = "value"   -> Values
      [] k = "string"  -> {1, 10, 31, 34, 92, 65, 127, 195}
      [] k = "escapes" -> MCEscapes
      [] k = "minify"  -> MCMinify
      [] k = "words"   -> MCWords
      [] k = "table"   -> MCOps

MCLongest(k) == CASE k = "value" -> 2 [] k \in {"text", "string", "table"} -> 4 [] OTHER -> 3
MCLimit(k)   == IF k = "text" THEN 8 ELSE 4
=============================================================================
