----------------------------- MODULE AhoCorasick -----------------------------
(***************************************************************************)
(* The matcher of the word policy: acism_create turns the words into a     *)
(* tree with back links and the tree into one table of transitions, where  *)
(* the nodes lie interleaved, followed by a hash table with the numbers of *)
(* the words that go on; acism_more walks it along a text.  Words are      *)
(* sequences of characters, and a node is the path of symbols to it.       *)
(***************************************************************************)
EXTENDS Integers, Sequences, FiniteSets, SequencesExt, FiniteSetsExt

NoNode == <<0>>
Root   == <<>>

(* fill_symv: the symbols of the characters, 1 for the most frequent one *)
Frequency(words, c) == Len(SelectSeq(FlattenSeq(words), LAMBDA x : x = c))
Symbol(words) ==
    LET chars == ToSet(FlattenSeq(words))
        Before(c, d) == \/ Frequency(words, c) > Frequency(words, d)
                        \/ Frequency(words, c) = Frequency(words, d) /\ c >= d
    IN  [c \in chars |-> Cardinality({d \in chars : Before(d, c)})]

(* create_tree: the paths of the nodes in the order they are made *)
Tree(words, symv) ==
    FoldLeft(LAMBDA nodes, w :
               LET path == [j \in DOMAIN w |-> symv[w[j]]]
                   all  == [j \in DOMAIN w |-> SubSeq(path, 1, j)]
               IN  nodes \o SelectSeq(all, LAMBDA p : p \notin ToSet(nodes)),
             <<Root>>, words)

Kids(nodes, p) == SetToSortSeq({q \in nodes : q # Root /\ Front(q) = p}, LAMBDA q, r : Last(q) < Last(r))

(* the number of the word that ends at a node, from 1; the last of equal ones *)
MatchOf(words, symv, p) ==
    LET same == {i \in DOMAIN words : p = [j \in DOMAIN words[i] |-> symv[words[i][j]]]} IN
    IF same = {} THEN 0 ELSE CHOOSE i \in same : \A k \in same : k <= i

(* add_backlinks: along the links of the parent to a node with the same child; *)
(* the link of a leaf goes to that node, the link of another to the child      *)
Inner(nodes, p) == \E q \in nodes : q # Root /\ Front(q) = p

RECURSIVE Useful(_, _, _, _)
Useful(nodes, back, tp, sym) ==
    IF tp = NoNode THEN NoNode
    ELSE IF Append(tp, sym) \in nodes THEN tp
    ELSE Useful(nodes, back, back[tp], sym)

Backlinks(nodes) ==
    LET back[p \in nodes] ==
          IF p = Root THEN NoNode
          ELSE IF Len(p) = 1 THEN Root
          ELSE LET tp == Useful(nodes, back, back[Front(p)], Last(p)) IN
               IF tp = NoNode THEN Root
               ELSE IF Inner(nodes, p) THEN Append(tp, Last(p)) ELSE tp
    IN  back

(* Mutant of SuffixFlags: only a word that ends one link away counts *)
SuffixOnce(nodes, back, match) ==
    [p \in nodes |->
        Len(p) > 1 /\ LET tp == Useful(nodes, back, back[Front(p)], Last(p)) IN
                      tp # NoNode /\ match[Append(tp, Last(p))] > 0]

(* is_suffix: some word ends here besides the word of the path itself *)
SuffixFlags(nodes, back, match) ==
    LET suffix[p \in nodes] ==
          /\ Len(p) > 1
          /\ LET tp == Useful(nodes, back, back[Front(p)], Last(p))
                 bp == IF tp = NoNode THEN Root ELSE Append(tp, Last(p))
             IN  match[bp] > 0 \/ suffix[bp]
    IN  suffix

(* the nodes level by level *)
RECURSIVE Levels(_, _)
Levels(nodes, level) ==
    IF level = <<>> THEN <<>>
    ELSE level \o Levels(nodes, FlattenSeq([j \in DOMAIN level |-> Kids(nodes, level[j])]))

Linked(back, p) == back[p] \notin {NoNode, Root}

(* interleave: where the search for a place begins, under the symbol that is farthest *)
Start(a, syms, back1) ==
    CHOOSE key \in {<<syms[j], back1>> : j \in DOMAIN syms} :
        \A j \in DOMAIN syms :
            LET other == <<syms[j], back1>> IN
            \/ a.start[key] > a.start[other]
            \/ a.start[key] = a.start[other] /\ key[1] <= syms[j]

(* a place where the base, the back link if there is one, and the children find free slots *)
Fits(a, syms, back1, x) ==
    /\ x \notin a.base /\ (back1 => x \notin a.used)
    /\ \A j \in DOMAIN syms : x + syms[j] \notin a.used

Settle(a, p, syms, back1, key, pos) ==
    [a EXCEPT !.state[p] = pos,
              !.base  = @ \union {pos},
              !.used  = @ \union {pos + syms[j] : j \in DOMAIN syms} \union (IF back1 THEN {pos} ELSE {}),
              !.start[key] = @ + (pos - @) \div Len(syms),
              !.last  = Max({@, pos + Last(syms)})]

(* the first of them *)
FirstFit(a, p, syms, back1, key) ==
    Settle(a, p, syms, back1, key,
           Min({x \in a.start[key] .. a.start[key] + a.last + 1 : Fits(a, syms, back1, x)}))

Placed(a, p, syms, back1) ==
    IF syms = <<>> THEN a ELSE FirstFit(a, p, syms, back1, Start(a, syms, back1))

Place(nodes, back, a, p) ==
    Placed(a, p, [j \in DOMAIN Kids(nodes, p) |-> Last(Kids(nodes, p)[j])], Linked(back, p))

Layout(nodes, back, nsyms) ==
    FoldLeft(LAMBDA a, p : Place(nodes, back, a, p),
             [state |-> [p \in nodes |-> 0], base |-> {}, used |-> {}, last |-> 0,
              start |-> [k \in (1 .. nsyms) \X BOOLEAN |-> 0]],
             Levels(nodes, <<Root>>))

(* a word of the table: TRAN *)
Tran(sym, match, suffix, next) == [sym |-> sym, match |-> match, suffix |-> suffix, next |-> next]

(* fill_tranv, and the mark of the root *)
Transitions(nodes, back, match, suffix, lay) ==
    LET size   == lay.last + 1
        inner  == {p \in nodes : Inner(nodes, p)}
        kid(x) == {c \in nodes \ {Root} : lay.state[Front(c)] + Last(c) = x}
        base(x) == {p \in inner : Linked(back, p) /\ lay.state[p] = x}
        Entry(c) == Tran(Last(c), match[c] > 0, suffix[c],
                         IF c \in inner THEN lay.state[c] ELSE match[c] - 1 + size)
    IN  [x \in 0 .. lay.last |->
           IF x = 0 THEN Tran(1, FALSE, FALSE, 0)
           ELSE IF base(x) # {} THEN Tran(0, FALSE, FALSE, lay.state[back[CHOOSE p \in base(x) : TRUE]])
           ELSE IF kid(x) # {} THEN Entry(CHOOSE c \in kid(x) : TRUE)
           ELSE Tran(0, FALSE, FALSE, 0)]

(* fill_hashv: a pass without collisions, then those that collided, last first *)
Empty == [state |-> 0, strno |-> 0]
Hash(s, mod) == (s * 107) % mod
Probe(hashv, i) == CHOOSE k \in i .. i + Cardinality(DOMAIN hashv) :
    hashv[k].state = 0 /\ \A j \in i .. k - 1 : hashv[j].state # 0

FirstPass(entries, mod) ==
    FoldLeft(LAMBDA a, e :
               LET i == Hash(e.state, mod) IN
               IF a.hashv[i].state = 0 THEN [a EXCEPT !.hashv[i] = e] ELSE [a EXCEPT !.rest = <<e>> \o @],
             [hashv |-> [i \in 0 .. mod + Len(entries) - 1 |-> Empty], rest |-> <<>>], entries)

SecondPass(a, mod) ==
    FoldLeft(LAMBDA h, e : [h EXCEPT ![Probe(h, Hash(e.state, mod))] = e], a.hashv, a.rest)

(* up to the last entry before the first empty slot behind the hashes *)
Trimmed(all, mod) ==
    LET end == Min({k \in DOMAIN all : k >= mod /\ all[k].state = 0}) IN
    [k \in 0 .. Max({j \in 0 .. end - 1 : all[j].state # 0}) |-> all[k]]

HashTable(entries, mod) ==
    IF entries = <<>> THEN <<>> ELSE Trimmed(SecondPass(FirstPass(entries, mod), mod), mod)

RECURSIVE WidthOf(_)
WidthOf(u) == IF u = 0 THEN 0 ELSE 1 + WidthOf(u \div 2)

(* the words that go on, with the places of their last transitions *)
Going(nodev, nodes, match) ==
    FlattenSeq([i \in DOMAIN nodev |->
        SelectSeq(Kids(nodes, nodev[i]), LAMBDA c : match[c] > 0 /\ Inner(nodes, c))])
Entries(going, match, lay) ==
    [i \in DOMAIN going |-> [state |-> lay.state[Front(going[i])] + Last(going[i]),
                             strno |-> match[going[i]] - 1]]

(* acism_create: what each stage makes is handed to the next one *)
Table(symv, nsyms, tranv, mod, hashv) ==
    [symv |-> symv, nsyms |-> nsyms, range |-> 2 ^ WidthOf(nsyms),
     tranv |-> tranv, size |-> Cardinality(DOMAIN tranv),
     mod |-> mod, hashv |-> hashv, hsize |-> Cardinality(DOMAIN hashv)]

Hashed(symv, nsyms, tranv, entries) ==
    LET mod == (Len(entries) * 5) \div 4 + 1 IN
    Table(symv, nsyms, tranv, mod, HashTable(entries, mod))

LaidOut(symv, nsyms, nodev, nodes, match, back, lay) ==
    Hashed(symv, nsyms, Transitions(nodes, back, match, SuffixFlags(nodes, back, match), lay),
           Entries(Going(nodev, nodes, match), match, lay))

Matched(symv, nsyms, nodev, nodes, match, back) ==
    LaidOut(symv, nsyms, nodev, nodes, match, back, Layout(nodes, back, nsyms))

Planted(words, symv, nsyms, nodev, nodes) ==
    Matched(symv, nsyms, nodev, nodes, [p \in nodes |-> MatchOf(words, symv, p)], Backlinks(nodes))

Rooted(words, symv, nodev) ==
    Planted(words, symv, Cardinality(DOMAIN symv) + 1, nodev, ToSet(nodev))

Spelled(words, symv) == Rooted(words, symv, Tree(words, symv))

Machine(words) == Spelled(words, Symbol(words))

-----------------------------------------------------------------------------
(* p_tran: the table is not as long as its last node may reach: what is read  *)
(* behind it are words of the hash table, or words that are not the machine's *)
Outside(m, x) == x >= m.size + 2 * m.hsize
Word(m, x) ==
    LET k == x - m.size
        e == m.hashv[k \div 2]
        w == IF k % 2 = 0 THEN e.state ELSE e.strno
    IN  IF x < m.size THEN m.tranv[x]
        ELSE IF Outside(m, x) THEN Tran(-1, FALSE, FALSE, 0)
        ELSE Tran(w % m.range, FALSE, FALSE, w \div m.range)

Valid(m, s, sym) == Word(m, s + sym).sym = sym
IsLeaf(m, w)     == w.next >= m.size
BackOf(m, s)     == IF Valid(m, s, 0) THEN Word(m, s).next ELSE 0

(* a state and those its back links lead to, down to the root *)
RECURSIVE Backs(_, _)
Backs(m, s) == IF s = 0 THEN <<0>> ELSE <<s>> \o Backs(m, BackOf(m, s))

(* the search for a transition *)
Seek(m, state, sym) ==
    LET path == Backs(m, state)
        hits == {j \in DOMAIN path : Valid(m, path[j], sym)}
    IN  IF hits = {} THEN 0 ELSE path[CHOOSE j \in hits : \A k \in hits : j <= k]

StrNo(m, ss) ==
    LET w    == Word(m, ss)
        hits == {i \in 0 .. m.hsize - 1 : i >= Hash(ss, m.mod) /\ m.hashv[i].state = ss}
    IN  IF IsLeaf(m, w) THEN w.next - m.size
        ELSE m.hashv[CHOOSE i \in hits : \A j \in hits : i <= j].strno

(* the matches along the back links, and the first state with a way on *)
RECURSIVE Chain(_, _, _, _, _)
Chain(m, s, sym, state, found) ==
    LET w     == Word(m, s + sym)
        valid == Valid(m, s, sym)
        more  == IF valid /\ w.match THEN Append(found, StrNo(m, s + sym)) ELSE found
        next  == IF valid /\ state = 0 /\ ~IsLeaf(m, w) THEN w.next ELSE state
    IN  IF (valid /\ next # 0 /\ ~w.suffix) \/ s = 0 THEN [state |-> next, found |-> more]
        ELSE Chain(m, BackOf(m, s), sym, next, more)

(* acism_more, for one character *)
OneCharacter(m, state, c) ==
    LET sym   == m.symv[c]
        s     == Seek(m, state, sym)
        w     == Word(m, s + sym)
    IN  IF c \notin DOMAIN m.symv THEN [state |-> 0, found |-> <<>>]
        ELSE IF ~Valid(m, s, sym) THEN [state |-> s, found |-> <<>>]
        ELSE IF ~w.match /\ ~w.suffix THEN [state |-> w.next, found |-> <<>>]
        ELSE Chain(m, s, sym, IF IsLeaf(m, w) THEN 0 ELSE w.next, <<>>)

(* the farthest place that a character may have it read at *)
Reach(m, state, c) ==
    IF c \notin DOMAIN m.symv THEN 0
    ELSE m.symv[c] + Max({0} \union ToSet(Backs(m, state)))

(* acism_scan: what word_policy_match is called back with for each match *)
ScanText(m, text) ==
    FoldLeft(LAMBDA a, c :
               LET r == OneCharacter(m, a.state, c) IN
               [state |-> r.state, pos |-> a.pos + 1,
                reach |-> Max({a.reach, Reach(m, a.state, c)}),
                found |-> a.found \o [j \in DOMAIN r.found |-> <<r.found[j], a.pos + 1>>]],
             [state |-> 0, pos |-> 0, reach |-> 0, found |-> <<>>], text)
=============================================================================
