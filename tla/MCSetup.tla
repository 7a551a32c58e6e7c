-------------------------------- MODULE MCSetup --------------------------------
(***************************************************************************)
(* An instance of Setup for TLC: every file of an administrator that can   *)
(* be made of a few lines, or characters, beside files that are missing.   *)
(***************************************************************************)
EXTENDS Setup, SequencesExt

V(num, text) == [num |-> num, text |-> text]
Rec(kind, indent, name, value, whole) ==
    [kind |-> kind, indent |-> indent, name |-> name, value |-> value, whole |-> whole]

Other == V(0, "other")
Section(name) == Rec("section", FALSE, name, Other, Other)
Pair(name, v) == Rec("pair", FALSE, name, v, Other)
Indented(l) == [l EXCEPT !.indent = TRUE]

Parser == Section("parser")
Http == Section("http")

\* Lines: headers, options with a range, and each kind of indented line.
IniLines ==
    {Parser, Http, Pair("thread_num", V(300, "300")), Pair("port", V(70000, "70000")),
     Indented(Pair("thread_num", V(9, "9"))),
     Pair("", V(5, "5")), Indented(Rec("junk", FALSE, "", Other, V(7, "7"))), Indented(Http)}

\* A comment, a line that is none, and an option nobody knows.
Ineffective ==
    <<Rec("comment", FALSE, "", Other, Other), Rec("junk", FALSE, "", Other, Other),
      Pair("unknown", Other)>>

Chars == {"a", "(", "n", "s"}

MCItem ==
    [ini   |-> IniLines \cup {Ineffective[i] : i \in DOMAIN Ineffective} \cup
               {Pair("thread_num", V(4, "4")), Pair("enable_ssl", V(0, "true"))},
     word  |-> {"w"},
     regex |-> Chars]

MCTemplate ==
    [ini   |-> <<Parser, Pair("thread_num", V(4, "4")), Http, Pair("enable_ssl", V(0, "true"))>>,
     word  |-> <<"w", "w">>,
     regex |-> <<"a", "n", "a", "a", "n">>]

AllMissing == [f \in File |-> Missing]
AllThere == [f \in File |-> There(MCTemplate[f])]

MCGiven ==
    {AllMissing, [AllMissing EXCEPT !["word"] = There(<<"w">>)],
     [AllThere EXCEPT !["ini"] = There(<<Parser>> \o Ineffective)]}
    \cup {[AllThere EXCEPT !["ini"] = There(<<h>> \o s)] :
             h \in {Parser, Http}, s \in BoundedSeq(IniLines, 3)}
    \cup {[AllThere EXCEPT !["regex"] = There(s)] :
             s \in BoundedSeq(Chars, 4)}
=============================================================================
