---------------------------- MODULE JsonListProofs ----------------------------
(***************************************************************************)
(* The list surgery of cJSON is the surgery of sequences: when the         *)
(* children of c are the sequence s, then after each operation they are    *)
(* the sequence that its name says, linked in both directions again, and   *)
(* no other list is touched.  For heaps and lists of any size.             *)
(*                                                                         *)
(* Each proof goes from the stores of the operation, one at a time, to     *)
(* what it leaves in each link (the lemmas named ...Stores), and from      *)
(* there to the places of the new sequence.                                *)
(***************************************************************************)
EXTENDS JsonList, SequenceTheorems, TLAPS

\* What an item says besides its links.
Rest(x) == <<x.type, x.isref, x.const, x.key, x.val, x.of, x.keymem, x.valmem>>

\* The heap g is h after one store to a link of item i.
NextStored(g, h, i, v) ==
    /\ g \in Heap
    /\ \A n \in Nodes : /\ g[n].next = (IF n = i THEN v ELSE h[n].next)
                        /\ g[n].prev = h[n].prev /\ g[n].child = h[n].child
                        /\ Rest(g[n]) = Rest(h[n])
PrevStored(g, h, i, v) ==
    /\ g \in Heap
    /\ \A n \in Nodes : /\ g[n].prev = (IF n = i THEN v ELSE h[n].prev)
                        /\ g[n].next = h[n].next /\ g[n].child = h[n].child
                        /\ Rest(g[n]) = Rest(h[n])
ChildStored(g, h, i, v) ==
    /\ g \in Heap
    /\ \A n \in Nodes : /\ g[n].child = (IF n = i THEN v ELSE h[n].child)
                        /\ g[n].next = h[n].next /\ g[n].prev = h[n].prev
                        /\ Rest(g[n]) = Rest(h[n])

\* A store to a field of an item changes that field of that item.
LEMMA StoreNext ==
    ASSUME NEW h \in Heap, NEW i \in Nodes, NEW v \in Link
    PROVE  NextStored([h EXCEPT ![i].next = v], h, i, v)
  BY DEF Heap, Item, Rest, NextStored
\* The same of a store to prev.
LEMMA StorePrev ==
    ASSUME NEW h \in Heap, NEW i \in Nodes, NEW v \in Link
    PROVE  PrevStored([h EXCEPT ![i].prev = v], h, i, v)
  BY DEF Heap, Item, Rest, PrevStored
\* The same of a store to child.
LEMMA StoreChild ==
    ASSUME NEW h \in Heap, NEW i \in Nodes, NEW v \in Link
    PROVE  ChildStored([h EXCEPT ![i].child = v], h, i, v)
  BY DEF Heap, Item, Rest, ChildStored

\* The links of a heap lead to items or nowhere.
LEMMA LinksType ==
    ASSUME NEW h \in Heap, NEW n \in Nodes
    PROVE  h[n].next \in Link /\ h[n].prev \in Link /\ h[n].child \in Link
  BY DEF Heap, Item

\* NULL is no item.
LEMMA NullType == /\ NULL \notin Nodes /\ NULL \in Link
                  /\ \A x : x \in Link <=> x \in Nodes \/ x = NULL
  BY DEF Nodes, NULL, Link

\* What Append makes of a sequence, place by place.
LEMMA Appended ==
    ASSUME NEW S, NEW s \in Seq(S), NEW i \in S, NEW t, t = Append(s, i)
    PROVE  /\ t \in Seq(S) /\ Len(t) = Len(s) + 1
           /\ \A j \in 1 .. Len(t) : t[j] = IF j = Len(t) THEN i ELSE s[j]
  OBVIOUS
\* The items of a sequence joined of two.
LEMMA Joined ==
    ASSUME NEW S, NEW a \in Seq(S), NEW b \in Seq(S), NEW t, t = a \o b
    PROVE  /\ t \in Seq(S) /\ Len(t) = Len(a) + Len(b)
           /\ \A j \in 1 .. Len(a) + Len(b) : t[j] = IF j <= Len(a) THEN a[j] ELSE b[j - Len(a)]
  BY ConcatProperties
\* What RemoveAt leaves: the items behind the k-th move up by one.
LEMMA Removed ==
    ASSUME NEW S, NEW s \in Seq(S), NEW k \in 1 .. Len(s)
    PROVE  LET t == RemoveAt(s, k) IN
           /\ t \in Seq(S) /\ Len(t) = Len(s) - 1
           /\ \A j \in 1 .. Len(t) : t[j] = IF j < k THEN s[j] ELSE s[j + 1]
<1>1. PICK a : a = SubSeq(s, 1, k - 1)
  OBVIOUS
<1>2. PICK b : b = SubSeq(s, k + 1, Len(s))
  OBVIOUS
<1>3. a \in Seq(S) /\ Len(a) = k - 1 /\ \A j \in 1 .. k - 1 : a[j] = s[j]
  BY <1>1, SubSeqProperties
<1>4. b \in Seq(S) /\ Len(b) = Len(s) - k /\ \A j \in 1 .. Len(s) - k : b[j] = s[k + j]
  BY <1>2, SubSeqProperties
<1>5. PICK t : t = RemoveAt(s, k)
  OBVIOUS
<1>6. t = a \o b
  BY <1>1, <1>2, <1>5 DEF RemoveAt
<1>7. /\ t \in Seq(S) /\ Len(t) = Len(s) - 1
      /\ \A j \in 1 .. Len(s) - 1 : t[j] = IF j <= k - 1 THEN a[j] ELSE b[j - (k - 1)]
  <2>1. /\ t \in Seq(S) /\ Len(t) = Len(a) + Len(b)
        /\ \A j \in 1 .. Len(a) + Len(b) : t[j] = IF j <= Len(a) THEN a[j] ELSE b[j - Len(a)]
    <3>1. a \in Seq(S) /\ b \in Seq(S)
      BY <1>3, <1>4
    <3>2. QED
      BY <1>6, <3>1, Joined
  <2>2. Len(a) = k - 1 /\ Len(a) + Len(b) = Len(s) - 1
    BY <1>3, <1>4
  <2>3. QED
    BY <2>1, <2>2
<1>8. ASSUME NEW j \in 1 .. Len(s) - 1, j >= k
      PROVE  b[j - (k - 1)] = s[j + 1]
  <2>1. j - (k - 1) \in 1 .. Len(s) - k /\ k + (j - (k - 1)) = j + 1
    BY <1>8
  <2>2. QED
    BY <1>4, <2>1
<1>9. QED
  BY <1>3, <1>5, <1>7, <1>8
\* InsertAt makes a sequence longer by one.
LEMMA InsertedLength ==
    ASSUME NEW S, NEW s \in Seq(S), NEW k \in 1 .. Len(s), NEW i \in S,
           NEW t, t = InsertAt(s, k, i)
    PROVE  t \in Seq(S) /\ Len(t) = Len(s) + 1
<1>1. PICK a : a = SubSeq(s, 1, k - 1)
  OBVIOUS
<1>2. PICK b : b = SubSeq(s, k, Len(s))
  OBVIOUS
<1>3. a \in Seq(S) /\ Len(a) = k - 1 /\ b \in Seq(S) /\ Len(b) = Len(s) - k + 1
  BY <1>1, <1>2, SubSeqProperties
<1>4. t = a \o <<i>> \o b
  BY <1>1, <1>2 DEF InsertAt
<1>5. a \o <<i>> \in Seq(S) /\ Len(a \o <<i>>) = k
  BY <1>3, ConcatProperties
<1>6. t \in Seq(S) /\ Len(t) = Len(a \o <<i>>) + Len(b)
  BY <1>3, <1>4, <1>5, ConcatProperties
<1>7. Len(s) \in Nat /\ k \in Nat
  OBVIOUS
<1>8. Len(t) = Len(s) + 1
  <2>1. Len(t) = k + (Len(s) - k + 1)
    BY <1>3, <1>5, <1>6
  <2>2. QED
    BY <1>7, <2>1
<1>9. QED
  BY <1>6, <1>8
\* Where the items are after InsertAt.
LEMMA Inserted ==
    ASSUME NEW S, NEW s \in Seq(S), NEW k \in 1 .. Len(s), NEW i \in S,
           NEW t, t = InsertAt(s, k, i)
    PROVE  /\ \A j \in 1 .. k - 1 : t[j] = s[j]
           /\ t[k] = i
           /\ \A j \in k + 1 .. Len(s) + 1 : t[j] = s[j - 1]
<1>1. PICK a : a = SubSeq(s, 1, k - 1)
  OBVIOUS
<1>2. PICK b : b = SubSeq(s, k, Len(s))
  OBVIOUS
<1>3. a \in Seq(S) /\ Len(a) = k - 1 /\ \A j \in 1 .. k - 1 : a[j] = s[j]
  BY <1>1, SubSeqProperties
<1>4. b \in Seq(S) /\ Len(b) = Len(s) - k + 1 /\ \A j \in 1 .. Len(s) - k + 1 : b[j] = s[k + j - 1]
  BY <1>2, SubSeqProperties
<1>5. PICK d : d = a \o <<i>>
  OBVIOUS
<1>6. d \in Seq(S) /\ Len(d) = k /\ d[k] = i /\ \A j \in 1 .. k - 1 : d[j] = s[j]
  BY <1>3, <1>5, ConcatProperties
<1>7. t = d \o b
  BY <1>1, <1>2, <1>5 DEF InsertAt
<1>8. \A j \in 1 .. Len(s) + 1 : t[j] = IF j <= k THEN d[j] ELSE b[j - k]
  <2>1. \A j \in 1 .. Len(d) + Len(b) : t[j] = IF j <= Len(d) THEN d[j] ELSE b[j - Len(d)]
    BY <1>4, <1>6, <1>7, Joined
  <2>2. Len(d) = k /\ Len(d) + Len(b) = Len(s) + 1
    BY <1>4, <1>6
  <2>3. QED
    BY <2>1, <2>2
<1>9. ASSUME NEW j \in 1 .. k PROVE t[j] = d[j]
  <2>1. j \in 1 .. Len(s) + 1 /\ j <= k
    OBVIOUS
  <2>2. QED
    BY <1>8, <2>1
<1>10. ASSUME NEW j \in k + 1 .. Len(s) + 1 PROVE t[j] = s[j - 1]
  <2>1. j \in 1 .. Len(s) + 1 /\ ~(j <= k) /\ j - k \in 1 .. Len(s) - k + 1 /\ k + (j - k) - 1 = j - 1
    OBVIOUS
  <2>2. QED
    BY <1>4, <1>8, <2>1
<1>11. QED
  BY <1>6, <1>9, <1>10
-----------------------------------------------------------------------------
ItemsOf(s) == {s[j] : j \in DOMAIN s}

\* From h to g only the links of the items in S and the child of c have changed.
Within(g, h, c, S) ==
    /\ g \in Heap
    /\ \A n \in Nodes : /\ n \notin S => g[n].next = h[n].next /\ g[n].prev = h[n].prev
                        /\ n # c => g[n].child = h[n].child
                        /\ Rest(g[n]) = Rest(h[n])

\* The parts of Linked, by places.
Ring(h, c, s, n) ==
    /\ s \in Seq(Nodes) /\ n \in Nat /\ Len(s) = n
    /\ \A j \in 1 .. n : s[j] \in Nodes
    /\ \A j, k \in 1 .. n : s[j] = s[k] => j = k
    /\ n = 0 => h[c].child = NULL
    /\ n > 0 => h[c].child = s[1] /\ h[s[n]].next = NULL /\ h[s[1]].prev = s[n]
    /\ \A j \in 1 .. n - 1 : h[s[j]].next = s[j + 1]
    /\ \A j \in 2 .. n : h[s[j]].prev = s[j - 1]

\* Linked is Ring.
LEMMA LinkedRing ==
    ASSUME NEW h, NEW c, NEW s
    PROVE  Linked(h, c, s) <=> Ring(h, c, s, Len(s))
<1>1. ASSUME Linked(h, c, s) PROVE Ring(h, c, s, Len(s))
  <2>1. s \in Seq(Nodes) /\ Len(s) \in Nat /\ (s = <<>> <=> Len(s) = 0)
    BY <1>1 DEF Linked, Chained
  <2>2. \A j \in 1 .. Len(s) : s[j] \in Nodes
    BY <2>1
  <2>3. ASSUME NEW j \in 2 .. Len(s) PROVE h[s[j]].prev = s[j - 1]
    <3>1. j - 1 \in 1 .. Len(s) - 1 /\ (j - 1) + 1 = j
      BY <2>1
    <3>2. QED
      BY <1>1, <3>1 DEF Linked, Chained
  <2>4. /\ \A j, k \in 1 .. Len(s) : s[j] = s[k] => j = k
        /\ s = <<>> => h[c].child = NULL
        /\ s # <<>> => h[c].child = s[1] /\ h[s[Len(s)]].next = NULL /\ h[s[1]].prev = s[Len(s)]
        /\ \A j \in 1 .. Len(s) - 1 : h[s[j]].next = s[j + 1]
    BY <1>1 DEF Linked, Chained
  <2>5. QED
    BY <2>1, <2>2, <2>3, <2>4 DEF Ring
<1>2. ASSUME Ring(h, c, s, Len(s)) PROVE Linked(h, c, s)
  <2>1. s \in Seq(Nodes) /\ Len(s) \in Nat /\ (s = <<>> <=> Len(s) = 0)
    BY <1>2 DEF Ring
  <2>2. ASSUME NEW j \in 1 .. Len(s) - 1 PROVE h[s[j + 1]].prev = s[j]
    <3>1. j + 1 \in 2 .. Len(s) /\ (j + 1) - 1 = j
      BY <2>1
    <3>2. QED
      BY <1>2, <3>1 DEF Ring
  <2>3. /\ \A j, k \in 1 .. Len(s) : s[j] = s[k] => j = k
        /\ Len(s) = 0 => h[c].child = NULL
        /\ Len(s) > 0 => h[c].child = s[1] /\ h[s[Len(s)]].next = NULL /\ h[s[1]].prev = s[Len(s)]
        /\ \A j \in 1 .. Len(s) - 1 : h[s[j]].next = s[j + 1]
    BY <1>2 DEF Ring
  <2>4. QED
    BY <2>1, <2>2, <2>3 DEF Linked, Chained
<1>3. QED
  BY <1>1, <1>2

\* What there is to show of a new list.
LEMMA RingMade ==
    ASSUME NEW h, NEW c, NEW s, NEW n \in Nat, s \in Seq(Nodes), Len(s) = n,
           \A j \in 1 .. n : s[j] \in Nodes,
           \A j, k \in 1 .. n : s[j] = s[k] => j = k,
           n = 0 => h[c].child = NULL,
           n > 0 => h[c].child = s[1] /\ h[s[n]].next = NULL /\ h[s[1]].prev = s[n],
           \A j \in 1 .. n - 1 : h[s[j]].next = s[j + 1],
           \A j \in 2 .. n : h[s[j]].prev = s[j - 1]
    PROVE  Ring(h, c, s, n)
  BY DEF Ring

\* A list that shares nothing with what an operation touched is as it was.
THEOREM OthersKeep ==
    ASSUME NEW h \in Heap, NEW g, NEW c \in Nodes, NEW S, Within(g, h, c, S),
           NEW d \in Nodes \ {c}, NEW t, Linked(h, d, t), ItemsOf(t) \cap S = {}
    PROVE  Linked(g, d, t)
<1>1. Ring(h, d, t, Len(t))
  BY LinkedRing
<1>2. \A j \in 1 .. Len(t) : t[j] \in Nodes /\ t[j] \notin S
  BY <1>1 DEF ItemsOf, Ring
<1>3. Ring(g, d, t, Len(t))
  BY <1>1, <1>2 DEF Ring, Within
<1>4. QED
  BY <1>3, LinkedRing
-----------------------------------------------------------------------------
\* What the append to an empty list leaves in the links.
LEMMA FirstStores ==
    ASSUME NEW h \in Heap, NEW c \in Nodes, NEW i \in Nodes, h[c].child = NULL
    PROVE  LET g == AddToList(h, c, i) IN
           /\ g \in Heap
           /\ \A n \in Nodes :
                /\ g[n].next = (IF n = i THEN NULL ELSE h[n].next)
                /\ g[n].prev = (IF n = i THEN i ELSE h[n].prev)
                /\ g[n].child = (IF n = c THEN i ELSE h[n].child)
                /\ Rest(g[n]) = Rest(h[n])
<1> DEFINE h1 == [h EXCEPT ![c].child = i]
           h2 == [h1 EXCEPT ![i].prev = i]
           h3 == [h2 EXCEPT ![i].next = NULL]
<1>1. AddToList(h, c, i) = h3
  BY DEF AddToList
<1> HIDE DEF h1, h2, h3
<1>2. ChildStored(h1, h, c, i)
  BY StoreChild, NullType DEF h1
<1>3. PrevStored(h2, h1, i, i)
  BY <1>2, StorePrev, NullType DEF h2, ChildStored
<1>4. NextStored(h3, h2, i, NULL)
  BY <1>3, StoreNext, NullType DEF h3, PrevStored
<1>5. QED
  BY <1>1, <1>2, <1>3, <1>4 DEF ChildStored, PrevStored, NextStored

\* What the append behind a last item leaves in the links: the last is found
\* through the prev of the first.
LEMMA AddStores ==
    ASSUME NEW h \in Heap, NEW c \in Nodes, NEW i \in Nodes,
           h[c].child \in Nodes, h[h[c].child].prev \in Nodes
    PROVE  LET g == AddToList(h, c, i)
               f == h[c].child
               p == h[f].prev
           IN  /\ g \in Heap
               /\ \A n \in Nodes :
                    /\ g[n].next = (IF n = p THEN i ELSE h[n].next)
                    /\ g[n].prev = (IF n = f THEN i ELSE IF n = i THEN p ELSE h[n].prev)
                    /\ g[n].child = h[n].child
                    /\ Rest(g[n]) = Rest(h[n])
<1> DEFINE f == h[c].child
           p == h[f].prev
           h1 == [h EXCEPT ![p].next = i]
           h2 == [h1 EXCEPT ![i].prev = p]
           h3 == [h2 EXCEPT ![f].prev = i]
<1>1. AddToList(h, c, i) = h3
  <2>1. f # NULL /\ p # NULL
    BY NullType
  <2>2. AddToList(h, c, i) = [Suffix(h, p, i) EXCEPT ![f].prev = i]
    BY <2>1 DEF AddToList
  <2>3. Suffix(h, p, i) = h2
    BY DEF Suffix
  <2>4. QED
    BY <2>2, <2>3
<1>2. f \in Nodes /\ p \in Nodes
  OBVIOUS
<1> HIDE DEF f, p, h1, h2, h3
<1>3. NextStored(h1, h, p, i)
  BY <1>2, StoreNext, NullType DEF h1
<1>4. PrevStored(h2, h1, i, p)
  BY <1>2, <1>3, StorePrev, NullType DEF h2, NextStored
<1>5. PrevStored(h3, h2, f, i)
  <2>1. h2 \in Heap
    BY <1>4 DEF PrevStored
  <2>2. QED
    BY <1>2, <2>1, StorePrev, NullType DEF h3
<1>6. /\ h3 \in Heap
      /\ \A n \in Nodes :
           /\ h3[n].next = (IF n = p THEN i ELSE h[n].next)
           /\ h3[n].prev = (IF n = f THEN i ELSE IF n = i THEN p ELSE h[n].prev)
           /\ h3[n].child = h[n].child
           /\ Rest(h3[n]) = Rest(h[n])
  BY <1>3, <1>4, <1>5 DEF NextStored, PrevStored
<1>7. QED
  BY <1>1, <1>6 DEF f, p

\* add_item_to_array: the children of c are s with i at the end.
THEOREM AppendsItem ==
    ASSUME NEW h \in Heap, NEW c \in Nodes, NEW s, Linked(h, c, s),
           NEW i \in Nodes \ ItemsOf(s), h[i].next = NULL
    PROVE  /\ Linked(AddToList(h, c, i), c, Append(s, i))
           /\ Within(AddToList(h, c, i), h, c, ItemsOf(s) \cup {i})
<1>1. PICK g : g = AddToList(h, c, i)
  OBVIOUS
<1>2. PICK t : t = Append(s, i)
  OBVIOUS
<1>3. PICK m : m = Len(s)
  OBVIOUS
<1>4. Ring(h, c, s, m) /\ m \in Nat
  BY <1>3, LinkedRing DEF Ring
<1>5. /\ t \in Seq(Nodes) /\ Len(t) = m + 1
      /\ t[m + 1] = i /\ \A j \in 1 .. m : t[j] = s[j]
  BY <1>2, <1>4, Appended DEF Ring
<1>6. \A j \in 1 .. m : s[j] \in ItemsOf(s) /\ s[j] # i
  BY <1>4 DEF ItemsOf, Ring
<1>7. \A j, k \in 1 .. m + 1 : t[j] \in Nodes /\ (t[j] = t[k] => j = k)
  BY <1>4, <1>5, <1>6 DEF Ring
<1>8. CASE m = 0
  <2>1. /\ g \in Heap
        /\ \A n \in Nodes :
             /\ g[n].next = (IF n = i THEN NULL ELSE h[n].next)
             /\ g[n].prev = (IF n = i THEN i ELSE h[n].prev)
             /\ g[n].child = (IF n = c THEN i ELSE h[n].child)
             /\ Rest(g[n]) = Rest(h[n])
    BY <1>1, <1>4, <1>8, FirstStores DEF Ring
  <2>2. Ring(g, c, t, m + 1)
    BY <1>5, <1>7, <1>8, <2>1 DEF Ring
  <2>3. Within(g, h, c, ItemsOf(s) \cup {i})
    BY <2>1 DEF Within
  <2>4. QED
    BY <1>1, <1>2, <1>5, <2>2, <2>3, LinkedRing
<1>9. CASE m > 0
  <2>1. s[1] \in Nodes /\ s[m] \in Nodes /\ h[c].child = s[1] /\ h[s[1]].prev = s[m]
    BY <1>4, <1>9 DEF Ring
  <2>2. /\ g \in Heap
        /\ \A n \in Nodes :
             /\ g[n].next = (IF n = s[m] THEN i ELSE h[n].next)
             /\ g[n].prev = (IF n = s[1] THEN i ELSE IF n = i THEN s[m] ELSE h[n].prev)
             /\ g[n].child = h[n].child
             /\ Rest(g[n]) = Rest(h[n])
    BY <1>1, <2>1, AddStores
  <2>3. ASSUME NEW j \in 1 .. m PROVE g[t[j]].next = t[j + 1]
    <3>1. s[j] \in Nodes /\ (s[j] = s[m] <=> j = m) /\ (j < m => h[s[j]].next = s[j + 1])
      BY <1>4, <1>9 DEF Ring
    <3>2. QED
      BY <1>4, <1>5, <2>2, <3>1
  <2>4. ASSUME NEW j \in 2 .. m + 1 PROVE g[t[j]].prev = t[j - 1]
    <3>1. CASE j = m + 1
      BY <1>4, <1>5, <1>6, <1>9, <2>1, <2>2, <3>1
    <3>2. CASE j \in 2 .. m
      <4>1. s[j] \in Nodes /\ s[j] # s[1] /\ s[j] # i /\ h[s[j]].prev = s[j - 1]
        BY <1>4, <1>6, <1>9, <3>2 DEF Ring
      <4>2. QED
        BY <1>4, <1>5, <2>2, <3>2, <4>1
    <3>3. QED
      BY <1>4, <3>1, <3>2
  <2>5. g[c].child = t[1] /\ g[t[m + 1]].next = NULL /\ g[t[1]].prev = t[m + 1]
    BY <1>4, <1>5, <1>6, <1>9, <2>1, <2>2
  <2>6. Ring(g, c, t, m + 1)
    BY <1>4, <1>5, <1>7, <2>3, <2>4, <2>5 DEF Ring
  <2>7. Within(g, h, c, ItemsOf(s) \cup {i})
    BY <1>4, <1>6, <1>9, <2>2 DEF Within
  <2>8. QED
    BY <1>1, <1>2, <1>5, <2>6, <2>7, LinkedRing
<1>10. QED
  BY <1>4, <1>8, <1>9
-----------------------------------------------------------------------------
\* What the detachment leaves in the links.
LEMMA DetachStores ==
    ASSUME NEW h \in Heap, NEW c \in Nodes, NEW i \in Nodes,
           h[c].child \in Nodes, h[i].prev \in Nodes
    PROVE  LET g == Detach(h, c, i)
               f == h[c].child
               p == h[i].prev
               q == h[i].next
           IN  /\ g \in Heap
               /\ \A n \in Nodes :
                    /\ g[n].next = (IF n = i THEN NULL ELSE IF i # f /\ n = p THEN q ELSE h[n].next)
                    /\ g[n].prev = (IF n = i THEN NULL
                                    ELSE IF n = q \/ (i # f /\ q = NULL /\ n = f) THEN p
                                    ELSE h[n].prev)
                    /\ g[n].child = (IF i = f /\ n = c THEN q ELSE h[n].child)
                    /\ Rest(g[n]) = Rest(h[n])
<1> DEFINE f == h[c].child
           p == h[i].prev
           q == h[i].next
           h1 == IF i = f THEN h ELSE [h EXCEPT ![p].next = q]
           h2 == IF q = NULL THEN h1 ELSE [h1 EXCEPT ![q].prev = p]
           h3 == IF i = f THEN [h2 EXCEPT ![c].child = q]
                 ELSE IF q = NULL THEN [h2 EXCEPT ![h2[c].child].prev = p]
                 ELSE h2
           h4 == [h3 EXCEPT ![i].prev = NULL]
           h5 == [h4 EXCEPT ![i].next = NULL]
<1>1. Detach(h, c, i) = h5
  BY DEF Detach
<1>2. f \in Nodes /\ p \in Nodes /\ q \in Link /\ (q # NULL => q \in Nodes)
  BY LinksType, NullType
<1> HIDE DEF f, p, q, h1, h2, h3, h4, h5
<1>3. /\ h1 \in Heap
      /\ \A n \in Nodes :
           /\ h1[n].next = (IF i # f /\ n = p THEN q ELSE h[n].next)
           /\ h1[n].prev = h[n].prev /\ h1[n].child = h[n].child /\ Rest(h1[n]) = Rest(h[n])
  <2>1. CASE i = f
    BY <2>1 DEF h1
  <2>2. CASE i # f
    <3>1. NextStored(h1, h, p, q)
      BY <1>2, <2>2, StoreNext DEF h1
    <3>2. QED
      BY <2>2, <3>1 DEF NextStored
  <2>3. QED
    BY <2>1, <2>2
<1>4. /\ h2 \in Heap
      /\ \A n \in Nodes :
           /\ h2[n].prev = (IF n = q THEN p ELSE h1[n].prev)
           /\ h2[n].next = h1[n].next /\ h2[n].child = h1[n].child /\ Rest(h2[n]) = Rest(h1[n])
  <2>1. CASE q = NULL
    BY <1>3, <2>1, NullType DEF h2
  <2>2. CASE q # NULL
    <3>1. h1 \in Heap /\ q \in Nodes /\ p \in Link
      BY <1>2, <1>3, <2>2, NullType
    <3>2. PrevStored(h2, h1, q, p)
      BY <2>2, <3>1, StorePrev DEF h2
    <3>3. QED
      BY <3>2 DEF PrevStored
  <2>3. QED
    BY <2>1, <2>2
<1>5. /\ h3 \in Heap
      /\ \A n \in Nodes :
           /\ h3[n].prev = (IF i # f /\ q = NULL /\ n = f THEN p ELSE h2[n].prev)
           /\ h3[n].child = (IF i = f /\ n = c THEN q ELSE h2[n].child)
           /\ h3[n].next = h2[n].next /\ Rest(h3[n]) = Rest(h2[n])
  <2>1. CASE i = f
    <3>1. h2 \in Heap
      BY <1>4
    <3>2. ChildStored(h3, h2, c, q)
      BY <1>2, <2>1, <3>1, StoreChild DEF h3
    <3>3. QED
      BY <2>1, <3>2 DEF ChildStored
  <2>2. CASE i # f /\ q = NULL
    <3>1. h2 \in Heap /\ h2[c].child = f /\ p \in Link
      BY <1>2, <1>3, <1>4, NullType DEF f
    <3>2. PrevStored(h3, h2, f, p)
      BY <1>2, <2>2, <3>1, StorePrev DEF h3
    <3>3. QED
      BY <2>2, <3>2 DEF PrevStored
  <2>3. CASE i # f /\ q # NULL
    BY <1>4, <2>3 DEF h3
  <2>4. QED
    BY <2>1, <2>2, <2>3
<1>6. PrevStored(h4, h3, i, NULL)
  <2>1. h3 \in Heap
    BY <1>5
  <2>2. QED
    BY <2>1, StorePrev, NullType DEF h4
<1>7. NextStored(h5, h4, i, NULL)
  <2>1. h4 \in Heap
    BY <1>6 DEF PrevStored
  <2>2. QED
    BY <2>1, StoreNext, NullType DEF h5
<1>8. h5 \in Heap
  BY <1>7 DEF NextStored
<1>9. ASSUME NEW n \in Nodes
      PROVE  /\ h5[n].next = (IF n = i THEN NULL ELSE IF i # f /\ n = p THEN q ELSE h[n].next)
             /\ h5[n].prev = (IF n = i THEN NULL
                              ELSE IF n = q \/ (i # f /\ q = NULL /\ n = f) THEN p
                              ELSE h[n].prev)
             /\ h5[n].child = (IF i = f /\ n = c THEN q ELSE h[n].child)
             /\ Rest(h5[n]) = Rest(h[n])
  BY <1>3, <1>4, <1>5, <1>6, <1>7 DEF PrevStored, NextStored
<1>10. QED
  BY <1>1, <1>8, <1>9 DEF f, p, q

\* cJSON_DetachItemViaPointer: the children of c are s without the k-th, which
\* points nowhere.
THEOREM DetachesItem ==
    ASSUME NEW h \in Heap, NEW c \in Nodes, NEW s, Linked(h, c, s), NEW k \in 1 .. Len(s)
    PROVE  LET g == Detach(h, c, s[k]) IN
           /\ Linked(g, c, RemoveAt(s, k))
           /\ g[s[k]].next = NULL /\ g[s[k]].prev = NULL
           /\ Within(g, h, c, ItemsOf(s))
<1>1. PICK g : g = Detach(h, c, s[k])
  OBVIOUS
<1>2. PICK t : t = RemoveAt(s, k)
  OBVIOUS
<1>3. PICK m : m = Len(s)
  OBVIOUS
<1>4. Ring(h, c, s, m) /\ m \in Nat /\ k \in 1 .. m
  BY <1>3, LinkedRing DEF Ring
<1>5. PICK l : l = m - 1
  OBVIOUS
<1>6. l \in Nat /\ m = l + 1 /\ (k = m <=> k = l + 1)
  BY <1>4, <1>5
<1>7. /\ t \in Seq(Nodes) /\ Len(t) = l
      /\ \A j \in 1 .. l : t[j] = IF j < k THEN s[j] ELSE s[j + 1]
  BY <1>2, <1>3, <1>4, <1>5, Removed DEF Ring
<1>8. PICK i : i = s[k]
  OBVIOUS
<1>9. \A j \in 1 .. m : s[j] \in Nodes /\ s[j] \in ItemsOf(s) /\ (s[j] = i <=> j = k)
  BY <1>4, <1>8 DEF ItemsOf, Ring
<1>10. ASSUME NEW j \in 1 .. l PROVE t[j] \in Nodes /\ t[j] # i
  <2>1. CASE j < k
    BY <1>4, <1>6, <1>7, <1>9, <2>1
  <2>2. CASE j >= k
    <3>1. j + 1 \in 1 .. m /\ j + 1 # k /\ t[j] = s[j + 1]
      BY <1>4, <1>6, <1>7, <2>2
    <3>2. QED
      BY <1>9, <3>1
  <2>3. QED
    BY <1>4, <2>1, <2>2
<1>11. ASSUME NEW j \in 1 .. l, NEW n \in 1 .. l, t[j] = t[n] PROVE j = n
  <2>1. \A a \in 1 .. l : t[a] = s[IF a < k THEN a ELSE a + 1]
    BY <1>7
  <2>2. \A a \in 1 .. l : (IF a < k THEN a ELSE a + 1) \in 1 .. m
    BY <1>4, <1>6
  <2>3. (IF j < k THEN j ELSE j + 1) = (IF n < k THEN n ELSE n + 1)
    BY <1>4, <1>11, <2>1, <2>2 DEF Ring
  <2>4. QED
    BY <1>4, <1>6, <2>3
<1>10a. \A j \in 1 .. l : t[j] \in Nodes
  BY <1>10
<1>11a. \A j, n \in 1 .. l : t[j] = t[n] => j = n
  BY <1>11
<1>12. /\ h[c].child = s[1] /\ s[1] \in Nodes /\ i \in Nodes
       /\ h[i].prev = (IF k = 1 THEN s[m] ELSE s[k - 1])
       /\ h[i].next = (IF k = m THEN NULL ELSE s[k + 1])
  BY <1>4, <1>8, <1>9 DEF Ring
<1>13. /\ g \in Heap
       /\ \A n \in Nodes :
            /\ g[n].next = (IF n = i THEN NULL
                            ELSE IF i # s[1] /\ n = h[i].prev THEN h[i].next ELSE h[n].next)
            /\ g[n].prev = (IF n = i THEN NULL
                            ELSE IF n = h[i].next \/ (i # s[1] /\ h[i].next = NULL /\ n = s[1])
                            THEN h[i].prev ELSE h[n].prev)
            /\ g[n].child = (IF i = s[1] /\ n = c THEN h[i].next ELSE h[n].child)
            /\ Rest(g[n]) = Rest(h[n])
  <2>1. h[i].prev \in Nodes
    BY <1>4, <1>9, <1>12
  <2>2. QED
    BY <1>1, <1>8, <1>12, <2>1, DetachStores
<1>14. Within(g, h, c, ItemsOf(s))
  BY <1>4, <1>9, <1>12, <1>13, NullType DEF Within
<1>15. g[i].next = NULL /\ g[i].prev = NULL
  BY <1>12, <1>13
<1>16. ASSUME k = 1 PROVE Ring(g, c, t, l)
  <2>1. \A n \in Nodes \ {i} :
          /\ g[n].next = h[n].next
          /\ g[n].prev = (IF m > 1 /\ n = s[2] THEN s[m] ELSE h[n].prev)
    BY <1>4, <1>8, <1>9, <1>12, <1>13, <1>16, NullType
  <2>2. ASSUME NEW j \in 1 .. l
        PROVE  t[j] = s[j + 1] /\ j + 1 \in 1 .. m /\ s[j + 1] \in Nodes \ {i} /\ (j + 1 = m <=> j = l)
    BY <1>6, <1>7, <1>9, <1>16
  <2>3. l = 0 => g[c].child = NULL
    BY <1>4, <1>6, <1>8, <1>12, <1>13, <1>16
  <2>4. l > 0 => g[c].child = t[1] /\ g[t[l]].next = NULL /\ g[t[1]].prev = t[l]
    BY <1>4, <1>6, <1>8, <1>12, <1>13, <1>16, <2>1, <2>2 DEF Ring
  <2>5. ASSUME NEW j \in 1 .. l - 1 PROVE g[t[j]].next = t[j + 1]
    <3>1. t[j] = s[j + 1] /\ s[j + 1] \in Nodes \ {i} /\ t[j + 1] = s[j + 2]
      <4>1. j \in 1 .. l /\ j + 1 \in 1 .. l /\ (j + 1) + 1 = j + 2
        BY <1>6
      <4>2. QED
        BY <2>2, <4>1
    <3>2. h[s[j + 1]].next = s[j + 2]
      BY <1>4, <1>6 DEF Ring
    <3>3. QED
      BY <2>1, <3>1, <3>2
  <2>6. ASSUME NEW j \in 2 .. l PROVE g[t[j]].prev = t[j - 1]
    <3>1. t[j] = s[j + 1] /\ s[j + 1] \in Nodes \ {i} /\ t[j - 1] = s[j]
      <4>1. j \in 1 .. l /\ j - 1 \in 1 .. l /\ (j - 1) + 1 = j
        BY <1>6
      <4>2. QED
        BY <2>2, <4>1
    <3>2. h[s[j + 1]].prev = s[j]
      <4>1. j + 1 \in 2 .. m /\ (j + 1) - 1 = j
        BY <1>6
      <4>2. QED
        BY <1>4, <4>1 DEF Ring
    <3>3. s[j + 1] # s[2]
      BY <1>4, <1>6 DEF Ring
    <3>4. QED
      BY <2>1, <3>1, <3>2, <3>3
  <2>7. QED
    BY <1>6, <1>7, <1>10a, <1>11a, <2>3, <2>4, <2>5, <2>6, RingMade
<1>17. ASSUME k # 1, k # m PROVE Ring(g, c, t, l)
  <2>1. \A n \in Nodes \ {i} :
          /\ g[n].next = (IF n = s[k - 1] THEN s[k + 1] ELSE h[n].next)
          /\ g[n].prev = (IF n = s[k + 1] THEN s[k - 1] ELSE h[n].prev)
    BY <1>4, <1>8, <1>9, <1>12, <1>13, <1>17, NullType
  <2>2. g[c].child = s[1] /\ t[1] = s[1] /\ t[l] = s[m] /\ l > 0
    <3>1. 1 \in 1 .. l /\ l \in 1 .. l /\ 1 < k /\ ~(l < k) /\ l + 1 = m /\ l > 0
      BY <1>4, <1>6, <1>17
    <3>2. t[1] = s[1] /\ t[l] = s[m]
      BY <1>7, <3>1
    <3>3. 1 \in 1 .. m /\ s[1] # i
      BY <1>4, <1>9, <1>17
    <3>4. g[c].child = s[1]
      <4>1. c \in Nodes
        OBVIOUS
      <4>2. QED
        BY <1>12, <1>13, <3>3, <4>1
    <3>5. QED
      BY <3>1, <3>2, <3>4
  <2>3. s[1] # s[k + 1] /\ s[m] # s[k - 1] /\ s[1] \in Nodes \ {i} /\ s[m] \in Nodes \ {i}
    BY <1>4, <1>6, <1>9, <1>17 DEF Ring
  <2>4. g[t[l]].next = NULL /\ g[t[1]].prev = t[l]
    BY <1>4, <1>6, <2>1, <2>2, <2>3 DEF Ring
  <2>5. ASSUME NEW j \in 1 .. l - 1 PROVE g[t[j]].next = t[j + 1]
    <3>1. CASE j < k - 1
      <4>1. t[j] = s[j] /\ t[j + 1] = s[j + 1] /\ h[s[j]].next = s[j + 1]
        BY <1>4, <1>6, <1>7, <3>1 DEF Ring
      <4>2. s[j] # s[k - 1] /\ s[j] \in Nodes \ {i}
        BY <1>4, <1>6, <1>9, <1>17, <3>1 DEF Ring
      <4>3. QED
        BY <2>1, <4>1, <4>2
    <3>2. CASE j = k - 1
      <4>1. t[j] = s[k - 1] /\ t[j + 1] = s[k + 1] /\ s[k - 1] \in Nodes \ {i}
        BY <1>4, <1>6, <1>7, <1>9, <1>17, <3>2
      <4>2. QED
        BY <2>1, <4>1
    <3>3. CASE j > k - 1
      <4>1. t[j] = s[j + 1] /\ t[j + 1] = s[j + 2] /\ h[s[j + 1]].next = s[j + 2]
        BY <1>4, <1>6, <1>7, <3>3 DEF Ring
      <4>2. s[j + 1] # s[k - 1] /\ s[j + 1] \in Nodes \ {i}
        BY <1>4, <1>6, <1>9, <1>17, <3>3 DEF Ring
      <4>3. QED
        BY <2>1, <4>1, <4>2
    <3>4. QED
      BY <1>4, <3>1, <3>2, <3>3
  <2>6. ASSUME NEW j \in 2 .. l PROVE g[t[j]].prev = t[j - 1]
    <3>1. CASE j < k
      <4>1. t[j] = s[j] /\ t[j - 1] = s[j - 1] /\ h[s[j]].prev = s[j - 1]
        BY <1>4, <1>6, <1>7, <3>1 DEF Ring
      <4>2. s[j] # s[k + 1] /\ s[j] \in Nodes \ {i}
        BY <1>4, <1>6, <1>9, <1>17, <3>1 DEF Ring
      <4>3. QED
        BY <2>1, <4>1, <4>2
    <3>2. CASE j = k
      <4>1. t[j] = s[k + 1] /\ t[j - 1] = s[k - 1] /\ s[k + 1] \in Nodes \ {i}
        BY <1>4, <1>6, <1>7, <1>9, <1>17, <3>2
      <4>2. QED
        BY <2>1, <4>1
    <3>3. CASE j > k
      <4>1. j \in 1 .. l /\ j - 1 \in 1 .. l /\ ~(j < k) /\ ~(j - 1 < k) /\ (j - 1) + 1 = j
        BY <1>4, <1>6, <3>3
      <4>2. t[j] = s[j + 1] /\ t[j - 1] = s[j]
        BY <1>7, <4>1
      <4>3. j + 1 \in 2 .. m /\ (j + 1) - 1 = j
        BY <1>6
      <4>4. h[s[j + 1]].prev = s[j]
        BY <1>4, <4>3 DEF Ring
      <4>5. j + 1 \in 1 .. m /\ k + 1 \in 1 .. m /\ j + 1 # k + 1 /\ j + 1 # k
        BY <1>4, <1>6, <1>17, <3>3
      <4>6. s[j + 1] # s[k + 1] /\ s[j + 1] \in Nodes \ {i}
        BY <1>4, <1>9, <4>5 DEF Ring
      <4>7. QED
        BY <2>1, <4>2, <4>4, <4>6
    <3>4. QED
      BY <1>4, <3>1, <3>2, <3>3
  <2>7. l > 0 => g[c].child = t[1] /\ g[t[l]].next = NULL /\ g[t[1]].prev = t[l]
    BY <2>2, <2>4
  <2>8. l = 0 => g[c].child = NULL
    BY <1>6, <2>2
  <2>9. QED
    BY <1>6, <1>7, <1>10a, <1>11a, <2>5, <2>6, <2>7, <2>8, RingMade
<1>18. ASSUME k # 1, k = m PROVE Ring(g, c, t, l)
  <2>1. \A n \in Nodes \ {i} :
          /\ g[n].next = (IF n = s[l] THEN NULL ELSE h[n].next)
          /\ g[n].prev = (IF n = s[1] THEN s[l] ELSE h[n].prev)
    BY <1>4, <1>5, <1>8, <1>9, <1>12, <1>13, <1>18, NullType
  <2>2. ASSUME NEW j \in 1 .. l
        PROVE  t[j] = s[j] /\ s[j] \in Nodes \ {i} /\ j \in 1 .. m
    BY <1>6, <1>7, <1>9, <1>18
  <2>3. g[c].child = s[1] /\ l > 0
    BY <1>4, <1>6, <1>9, <1>12, <1>13, <1>18
  <2>4. g[t[l]].next = NULL /\ g[t[1]].prev = t[l] /\ t[1] = s[1]
    <3>1. 1 \in 1 .. l /\ l \in 1 .. l
      BY <1>6, <2>3
    <3>2. t[1] = s[1] /\ s[1] \in Nodes \ {i} /\ t[l] = s[l] /\ s[l] \in Nodes \ {i}
      BY <2>2, <3>1
    <3>3. QED
      BY <2>1, <3>2
  <2>5. ASSUME NEW j \in 1 .. l - 1 PROVE g[t[j]].next = t[j + 1]
    <3>1. t[j] = s[j] /\ s[j] \in Nodes \ {i} /\ t[j + 1] = s[j + 1]
      <4>1. j \in 1 .. l /\ j + 1 \in 1 .. l
        BY <1>6
      <4>2. QED
        BY <2>2, <4>1
    <3>2. h[s[j]].next = s[j + 1] /\ s[j] # s[l]
      <4>1. j \in 1 .. m - 1 /\ j \in 1 .. m /\ l \in 1 .. m /\ j # l
        BY <1>6
      <4>2. QED
        BY <1>4, <4>1 DEF Ring
    <3>3. QED
      BY <2>1, <3>1, <3>2
  <2>6. ASSUME NEW j \in 2 .. l PROVE g[t[j]].prev = t[j - 1]
    <3>1. t[j] = s[j] /\ s[j] \in Nodes \ {i} /\ t[j - 1] = s[j - 1]
      <4>1. j \in 1 .. l /\ j - 1 \in 1 .. l
        BY <1>6
      <4>2. QED
        BY <2>2, <4>1
    <3>2. h[s[j]].prev = s[j - 1] /\ s[j] # s[1]
      BY <1>4, <1>6 DEF Ring
    <3>3. QED
      BY <2>1, <3>1, <3>2
  <2>7. l > 0 => g[c].child = t[1] /\ g[t[l]].next = NULL /\ g[t[1]].prev = t[l]
    BY <2>3, <2>4
  <2>8. l = 0 => g[c].child = NULL
    BY <1>6, <2>3
  <2>9. QED
    BY <1>6, <1>7, <1>10a, <1>11a, <2>5, <2>6, <2>7, <2>8, RingMade
<1>19. Ring(g, c, t, l)
  <2>1. k = 1 \/ (k # 1 /\ k # m) \/ (k # 1 /\ k = m)
    OBVIOUS
  <2>2. QED
    BY <1>16, <1>17, <1>18, <2>1
<1>20. QED
  BY <1>1, <1>2, <1>7, <1>8, <1>14, <1>15, <1>19, LinkedRing
-----------------------------------------------------------------------------
\* What the insertion leaves in the links.
LEMMA InsertStores ==
    ASSUME NEW h \in Heap, NEW c \in Nodes, NEW a \in Nodes, NEW i \in Nodes, i # a,
           h[a].prev \in Nodes
    PROVE  LET g == InsertBefore(h, c, a, i)
               f == h[c].child
               p == h[a].prev
           IN  /\ g \in Heap
               /\ \A n \in Nodes :
                    /\ g[n].next = (IF a # f /\ n = p THEN i ELSE IF n = i THEN a ELSE h[n].next)
                    /\ g[n].prev = (IF n = i THEN p ELSE IF n = a THEN i ELSE h[n].prev)
                    /\ g[n].child = (IF a = f /\ n = c THEN i ELSE h[n].child)
                    /\ Rest(g[n]) = Rest(h[n])
<1> DEFINE f == h[c].child
           p == h[a].prev
           h1 == [h EXCEPT ![i].next = a]
           h2 == [h1 EXCEPT ![i].prev = p]
           h3 == [h2 EXCEPT ![a].prev = i]
           h4 == IF a = f THEN [h3 EXCEPT ![c].child = i] ELSE [h3 EXCEPT ![h3[i].prev].next = i]
<1>1. InsertBefore(h, c, a, i) = h4
  BY DEF InsertBefore
<1>2. f \in Link /\ p \in Nodes /\ p \in Link /\ a \in Link /\ i \in Link
  BY LinksType, NullType
<1> HIDE DEF f, p, h1, h2, h3, h4
<1>3. NextStored(h1, h, i, a)
  BY <1>2, StoreNext DEF h1
<1>4. PrevStored(h2, h1, i, p)
  <2>1. h1 \in Heap
    BY <1>3 DEF NextStored
  <2>2. QED
    BY <1>2, <2>1, StorePrev DEF h2
<1>5. PrevStored(h3, h2, a, i)
  <2>1. h2 \in Heap
    BY <1>4 DEF PrevStored
  <2>2. QED
    BY <1>2, <2>1, StorePrev DEF h3
<1>6. h3 \in Heap /\ h3[i].prev = p
  BY <1>4, <1>5 DEF PrevStored
<1>7. /\ h4 \in Heap
      /\ \A n \in Nodes :
           /\ h4[n].next = (IF a # f /\ n = p THEN i ELSE h3[n].next)
           /\ h4[n].prev = h3[n].prev
           /\ h4[n].child = (IF a = f /\ n = c THEN i ELSE h3[n].child)
           /\ Rest(h4[n]) = Rest(h3[n])
  <2>1. CASE a = f
    <3>1. ChildStored(h4, h3, c, i)
      BY <1>2, <1>6, <2>1, StoreChild DEF h4
    <3>2. QED
      BY <2>1, <3>1 DEF ChildStored
  <2>2. CASE a # f
    <3>1. NextStored(h4, h3, p, i)
      BY <1>2, <1>6, <2>2, StoreNext DEF h4
    <3>2. QED
      BY <2>2, <3>1 DEF NextStored
  <2>3. QED
    BY <2>1, <2>2
<1>8. ASSUME NEW n \in Nodes
      PROVE  /\ h4[n].next = (IF a # f /\ n = p THEN i ELSE IF n = i THEN a ELSE h[n].next)
             /\ h4[n].prev = (IF n = i THEN p ELSE IF n = a THEN i ELSE h[n].prev)
             /\ h4[n].child = (IF a = f /\ n = c THEN i ELSE h[n].child)
             /\ Rest(h4[n]) = Rest(h[n])
  BY <1>3, <1>4, <1>5, <1>7 DEF PrevStored, NextStored
<1>9. QED
  BY <1>1, <1>7, <1>8 DEF f, p

\* cJSON_InsertItemInArray: the new item is the k-th, and what was there from
\* k on is behind it.
THEOREM InsertsItem ==
    ASSUME NEW h \in Heap, NEW c \in Nodes, NEW s, Linked(h, c, s), NEW k \in 1 .. Len(s),
           NEW i \in Nodes \ ItemsOf(s)
    PROVE  /\ Linked(InsertBefore(h, c, s[k], i), c, InsertAt(s, k, i))
           /\ Within(InsertBefore(h, c, s[k], i), h, c, ItemsOf(s) \cup {i})
<1>1. PICK g : g = InsertBefore(h, c, s[k], i)
  OBVIOUS
<1>2. PICK t : t = InsertAt(s, k, i)
  OBVIOUS
<1>3. PICK m : m = Len(s)
  OBVIOUS
<1>4. Ring(h, c, s, m) /\ m \in Nat /\ k \in 1 .. m
  BY <1>3, LinkedRing DEF Ring
<1>5. /\ t \in Seq(Nodes) /\ Len(t) = m + 1
      /\ \A j \in 1 .. k - 1 : t[j] = s[j]
      /\ t[k] = i
      /\ \A j \in k + 1 .. m + 1 : t[j] = s[j - 1]
  <2>1. s \in Seq(Nodes) /\ k \in 1 .. Len(s) /\ i \in Nodes
    BY <1>4 DEF Ring
  <2>2. t \in Seq(Nodes) /\ Len(t) = Len(s) + 1
    BY <1>2, <2>1, InsertedLength
  <2>3. /\ \A j \in 1 .. k - 1 : t[j] = s[j]
        /\ t[k] = i
        /\ \A j \in k + 1 .. Len(s) + 1 : t[j] = s[j - 1]
    BY <1>2, <2>1, Inserted
  <2>4. QED
    BY <1>3, <2>2, <2>3
<1>6. \A j \in 1 .. m : s[j] \in Nodes /\ s[j] \in ItemsOf(s) /\ s[j] # i
  BY <1>4 DEF ItemsOf, Ring
<1>7. \A j \in 1 .. m : s[j] = s[k] <=> j = k
  BY <1>4 DEF Ring
<1>8. /\ \A j \in 1 .. k - 1 : t[j] = s[j] /\ j \in 1 .. m
      /\ t[k] = i
      /\ \A j \in k + 1 .. m + 1 : t[j] = s[j - 1] /\ j - 1 \in 1 .. m
  BY <1>4, <1>5
<1>9. \A j \in 1 .. m + 1 : t[j] \in Nodes
  BY <1>5
<1>10. ASSUME NEW j \in 1 .. m + 1, NEW n \in 1 .. m + 1, t[j] = t[n] PROVE j = n
  <2>1. ASSUME NEW a \in 1 .. m + 1, a # k
        PROVE  \E o \in 1 .. m : t[a] = s[o] /\ t[a] # i /\ o = (IF a < k THEN a ELSE a - 1)
    <3>1. CASE a < k
      BY <1>4, <1>6, <1>8, <3>1
    <3>2. CASE a > k
      BY <1>4, <1>6, <1>8, <3>2
    <3>3. QED
      BY <1>4, <2>1, <3>1, <3>2
  <2>2. CASE j = k \/ n = k
    BY <1>8, <1>10, <2>1, <2>2
  <2>3. CASE j # k /\ n # k
    <3>1. PICK o \in 1 .. m : t[j] = s[o] /\ o = (IF j < k THEN j ELSE j - 1)
      BY <2>1, <2>3
    <3>2. PICK p \in 1 .. m : t[n] = s[p] /\ p = (IF n < k THEN n ELSE n - 1)
      BY <2>1, <2>3
    <3>3. s[o] = s[p]
      BY <1>10, <3>1, <3>2
    <3>4. o = p
      BY <1>4, <3>3 DEF Ring
    <3>5. QED
      BY <1>4, <2>3, <3>1, <3>2, <3>4
  <2>4. QED
    BY <2>2, <2>3
<1>11. \A j, n \in 1 .. m + 1 : t[j] = t[n] => j = n
  BY <1>10
<1>12. /\ h[c].child = s[1] /\ s[1] \in Nodes /\ s[m] \in Nodes /\ h[s[m]].next = NULL
       /\ h[s[k]].prev = (IF k = 1 THEN s[m] ELSE s[k - 1])
  BY <1>4, <1>6 DEF Ring
<1>13. s[k] \in Nodes /\ s[k] # i /\ h[s[k]].prev \in Nodes /\ (s[k] = s[1] <=> k = 1)
  BY <1>4, <1>6, <1>7, <1>12
<1>14. /\ g \in Heap
       /\ \A n \in Nodes :
            /\ g[n].next = (IF s[k] # s[1] /\ n = h[s[k]].prev THEN i
                            ELSE IF n = i THEN s[k] ELSE h[n].next)
            /\ g[n].prev = (IF n = i THEN h[s[k]].prev ELSE IF n = s[k] THEN i ELSE h[n].prev)
            /\ g[n].child = (IF s[k] = s[1] /\ n = c THEN i ELSE h[n].child)
            /\ Rest(g[n]) = Rest(h[n])
  <2>1. PICK a : a = s[k]
    OBVIOUS
  <2>2. /\ a \in Nodes /\ i \in Nodes /\ i # a /\ h[a].prev \in Nodes /\ h[c].child = s[1]
        /\ g = InsertBefore(h, c, a, i)
    BY <1>1, <1>12, <1>13, <2>1
  <2>3. /\ g \in Heap
        /\ \A n \in Nodes :
             /\ g[n].next = (IF a # h[c].child /\ n = h[a].prev THEN i ELSE IF n = i THEN a ELSE h[n].next)
             /\ g[n].prev = (IF n = i THEN h[a].prev ELSE IF n = a THEN i ELSE h[n].prev)
             /\ g[n].child = (IF a = h[c].child /\ n = c THEN i ELSE h[n].child)
             /\ Rest(g[n]) = Rest(h[n])
    BY <2>2, InsertStores
  <2>4. QED
    BY <2>1, <2>2, <2>3
<1>15. ASSUME NEW n \in 1 .. m
       PROVE  /\ g[s[n]].next = (IF n = k - 1 THEN i ELSE h[s[n]].next)
              /\ g[s[n]].prev = (IF n = k THEN i ELSE h[s[n]].prev)
  <2>1. s[n] \in Nodes /\ s[n] # i /\ (s[n] = s[k] <=> n = k)
    BY <1>6, <1>7
  <2>2. s[k] # s[1] => (s[n] = h[s[k]].prev <=> n = k - 1)
    <3>1. SUFFICES ASSUME k # 1 PROVE s[n] = s[k - 1] <=> n = k - 1
      BY <1>12, <1>13
    <3>2. k - 1 \in 1 .. m
      BY <1>4, <3>1
    <3>3. QED
      BY <1>4, <3>2 DEF Ring
  <2>3. k = 1 => n # k - 1
    OBVIOUS
  <2>4. QED
    BY <1>13, <1>14, <2>1, <2>2, <2>3
<1>16. /\ g[i].next = s[k]
       /\ g[i].prev = (IF k = 1 THEN s[m] ELSE s[k - 1])
       /\ g[c].child = (IF k = 1 THEN i ELSE s[1])
  <2>1. h[s[k]].prev # i
    BY <1>4, <1>6, <1>12
  <2>2. QED
    BY <1>12, <1>13, <1>14, <2>1
<1>17. ASSUME NEW j \in 1 .. (m + 1) - 1 PROVE g[t[j]].next = t[j + 1]
  <2>1. CASE j < k - 1
    <3>1. j \in 1 .. k - 1 /\ j + 1 \in 1 .. k - 1 /\ j \in 1 .. m - 1 /\ j \in 1 .. m /\ j # k - 1
      BY <1>4, <2>1
    <3>2. t[j] = s[j] /\ t[j + 1] = s[j + 1] /\ h[s[j]].next = s[j + 1]
      BY <1>4, <1>8, <3>1 DEF Ring
    <3>3. QED
      BY <1>15, <3>1, <3>2
  <2>2. CASE j = k - 1
    <3>1. j \in 1 .. k - 1 /\ j \in 1 .. m /\ j + 1 = k
      BY <1>4, <2>2
    <3>2. QED
      BY <1>8, <1>15, <2>2, <3>1
  <2>3. CASE j = k
    <3>1. j + 1 \in k + 1 .. m + 1 /\ (j + 1) - 1 = k
      BY <1>4, <2>3
    <3>2. QED
      BY <1>8, <1>16, <2>3, <3>1
  <2>4. CASE j > k
    <3>1. /\ j \in k + 1 .. m + 1 /\ j + 1 \in k + 1 .. m + 1 /\ (j + 1) - 1 = j
          /\ j - 1 \in 1 .. m - 1 /\ j - 1 \in 1 .. m /\ (j - 1) + 1 = j /\ j - 1 # k - 1
      BY <1>4, <2>4
    <3>2. t[j] = s[j - 1] /\ t[j + 1] = s[j] /\ h[s[j - 1]].next = s[j]
      BY <1>4, <1>8, <3>1 DEF Ring
    <3>3. QED
      BY <1>15, <3>1, <3>2
  <2>5. QED
    BY <1>4, <2>1, <2>2, <2>3, <2>4
<1>18. ASSUME NEW j \in 2 .. m + 1 PROVE g[t[j]].prev = t[j - 1]
  <2>1. CASE j < k
    <3>1. j \in 1 .. k - 1 /\ j - 1 \in 1 .. k - 1 /\ j \in 2 .. m /\ j \in 1 .. m /\ j # k
      BY <1>4, <2>1
    <3>2. t[j] = s[j] /\ t[j - 1] = s[j - 1] /\ h[s[j]].prev = s[j - 1]
      BY <1>4, <1>8, <3>1 DEF Ring
    <3>3. QED
      BY <1>15, <3>1, <3>2
  <2>2. CASE j = k
    <3>1. j - 1 \in 1 .. k - 1 /\ k # 1
      BY <1>4, <2>2
    <3>2. QED
      BY <1>8, <1>16, <2>2, <3>1
  <2>3. CASE j = k + 1
    <3>1. j \in k + 1 .. m + 1 /\ j - 1 = k
      BY <1>4, <2>3
    <3>2. QED
      BY <1>4, <1>8, <1>15, <3>1
  <2>4. CASE j > k + 1
    <3>1. /\ j \in k + 1 .. m + 1 /\ j - 1 \in k + 1 .. m + 1
          /\ j - 1 \in 2 .. m /\ j - 1 \in 1 .. m /\ j - 1 # k
      BY <1>4, <2>4
    <3>2. t[j] = s[j - 1] /\ t[j - 1] = s[(j - 1) - 1] /\ h[s[j - 1]].prev = s[(j - 1) - 1]
      BY <1>4, <1>8, <3>1 DEF Ring
    <3>3. QED
      BY <1>15, <3>1, <3>2
  <2>5. QED
    BY <1>4, <2>1, <2>2, <2>3, <2>4
<1>19. m + 1 > 0 => g[c].child = t[1] /\ g[t[m + 1]].next = NULL /\ g[t[1]].prev = t[m + 1]
  <2>1. m + 1 \in k + 1 .. m + 1 /\ (m + 1) - 1 = m /\ m \in 1 .. m /\ m # k - 1 /\ 1 \in 1 .. m
    BY <1>4
  <2>2. t[m + 1] = s[m] /\ g[t[m + 1]].next = NULL
    BY <1>8, <1>12, <1>15, <2>1
  <2>3. CASE k = 1
    BY <1>8, <1>16, <2>2, <2>3
  <2>4. CASE k # 1
    <3>1. 1 \in 1 .. k - 1
      BY <1>4, <2>4
    <3>2. t[1] = s[1] /\ h[s[1]].prev = s[m]
      BY <1>4, <1>8, <3>1 DEF Ring
    <3>3. QED
      BY <1>15, <1>16, <2>1, <2>2, <2>4, <3>2
  <2>5. QED
    BY <2>3, <2>4
<1>20. Ring(g, c, t, m + 1)
  <2>1. m + 1 \in Nat /\ m + 1 # 0
    BY <1>4
  <2>2. QED
    BY <1>5, <1>9, <1>11, <1>17, <1>18, <1>19, <2>1, RingMade
<1>21. Within(g, h, c, ItemsOf(s) \cup {i})
  <2>1. h[s[k]].prev \in ItemsOf(s) /\ s[k] \in ItemsOf(s)
    BY <1>4, <1>6, <1>12
  <2>2. QED
    BY <1>14, <2>1 DEF Within
<1>22. QED
  BY <1>1, <1>2, <1>5, <1>20, <1>21, LinkedRing
-----------------------------------------------------------------------------
\* What the exchange leaves in the links.
LEMMA ExchangeStores ==
    ASSUME NEW h \in Heap, NEW c \in Nodes, NEW i \in Nodes, NEW r \in Nodes \ {i},
           h[c].child \in Nodes \ {r}, h[i].prev \in Nodes \ {r}, h[i].next # r, h[i].next # i,
           h[i].next = NULL \/ h[i].prev # i
    PROVE  LET g == Exchange(h, c, i, r)
               f == h[c].child
               p == h[i].prev
               q == h[i].next
           IN  /\ g \in Heap
               /\ \A n \in Nodes :
                    /\ g[n].next = (IF n = i THEN NULL ELSE IF n = r THEN q
                                    ELSE IF i # f /\ n = p THEN r ELSE h[n].next)
                    /\ g[n].prev = (IF n = i THEN NULL
                                    ELSE IF n = r THEN (IF i = f /\ p = i THEN r ELSE p)
                                    ELSE IF n = q \/ (i # f /\ q = NULL /\ n = f) THEN r
                                    ELSE h[n].prev)
                    /\ g[n].child = (IF i = f /\ n = c THEN r ELSE h[n].child)
                    /\ Rest(g[n]) = Rest(h[n])
<1> DEFINE f == h[c].child
           p == h[i].prev
           q == h[i].next
           h0 == [h EXCEPT ![r].next = q]
           h1 == [h0 EXCEPT ![r].prev = p]
           h2 == IF q = NULL THEN h1 ELSE [h1 EXCEPT ![q].prev = r]
           ha == IF h2[i].prev = i THEN [h2 EXCEPT ![r].prev = r] ELSE h2
           hb == [ha EXCEPT ![c].child = r]
           hc == IF p = NULL THEN h2 ELSE [h2 EXCEPT ![p].next = r]
           hd == IF q = NULL THEN [hc EXCEPT ![hc[c].child].prev = r] ELSE hc
           h3 == IF f = i THEN hb ELSE hd
           h4 == [h3 EXCEPT ![i].next = NULL]
           h5 == [h4 EXCEPT ![i].prev = NULL]
<1>1. Exchange(h, c, i, r) = h5
  BY DEF Exchange
<1>2. /\ f \in Nodes /\ f # r /\ p \in Nodes /\ p # r /\ p # NULL /\ p \in Link
      /\ q \in Link /\ (q # NULL => q \in Nodes /\ p # i) /\ q # r /\ q # i
      /\ r \in Nodes /\ r \in Link /\ r # i /\ NULL \in Link
  BY LinksType, NullType
<1>3. h[i].prev = p /\ h[c].child = f
  OBVIOUS
<1> HIDE DEF f, p, q, h0, h1, h2, ha, hb, hc, hd, h3, h4, h5
<1>4. NextStored(h0, h, r, q)
  BY <1>2, StoreNext DEF h0
<1>5. PrevStored(h1, h0, r, p)
  <2>1. h0 \in Heap
    BY <1>4 DEF NextStored
  <2>2. QED
    BY <1>2, <2>1, StorePrev DEF h1
<1>6. /\ h2 \in Heap
      /\ \A n \in Nodes :
           /\ h2[n].prev = (IF n = q THEN r ELSE h1[n].prev)
           /\ h2[n].next = h1[n].next /\ h2[n].child = h1[n].child /\ Rest(h2[n]) = Rest(h1[n])
  <2>1. h1 \in Heap
    BY <1>5 DEF PrevStored
  <2>2. CASE q = NULL
    BY <2>1, <2>2, NullType DEF h2
  <2>3. CASE q # NULL
    <3>1. PrevStored(h2, h1, q, r)
      BY <1>2, <2>1, <2>3, StorePrev DEF h2
    <3>2. QED
      BY <3>1 DEF PrevStored
  <2>4. QED
    BY <2>2, <2>3
<1>7. h2[i].prev = p /\ h2[r].prev = p /\ h2[c].child = f
  BY <1>2, <1>3, <1>4, <1>5, <1>6 DEF NextStored, PrevStored
<1>8. /\ h3 \in Heap
      /\ \A n \in Nodes :
           /\ h3[n].next = (IF i # f /\ n = p THEN r ELSE h2[n].next)
           /\ h3[n].prev = (IF i = f /\ p = i /\ n = r THEN r
                            ELSE IF i # f /\ q = NULL /\ n = f THEN r ELSE h2[n].prev)
           /\ h3[n].child = (IF i = f /\ n = c THEN r ELSE h2[n].child)
           /\ Rest(h3[n]) = Rest(h2[n])
  <2>1. CASE i = f
    <3>1. /\ ha \in Heap
          /\ \A n \in Nodes :
               /\ ha[n].prev = (IF p = i /\ n = r THEN r ELSE h2[n].prev)
               /\ ha[n].next = h2[n].next /\ ha[n].child = h2[n].child /\ Rest(ha[n]) = Rest(h2[n])
      <4>1. CASE p = i
        <5>1. PrevStored(ha, h2, r, r)
          BY <1>2, <1>6, <1>7, <4>1, StorePrev DEF ha
        <5>2. QED
          BY <4>1, <5>1 DEF PrevStored
      <4>2. CASE p # i
        BY <1>6, <1>7, <4>2 DEF ha
      <4>3. QED
        BY <4>1, <4>2
    <3>4. ChildStored(hb, ha, c, r)
      BY <1>2, <3>1, StoreChild DEF hb
    <3>5. h3 = hb
      BY <2>1 DEF h3
    <3>6. QED
      BY <1>7, <2>1, <3>1, <3>4, <3>5 DEF ChildStored
  <2>2. CASE i # f
    <3>1. NextStored(hc, h2, p, r)
      BY <1>2, <1>6, StoreNext DEF hc
    <3>2. hc \in Heap /\ hc[c].child = f
      BY <1>7, <3>1 DEF NextStored
    <3>3. h3 = hd
      BY <2>2 DEF h3
    <3>4. CASE q = NULL
      <4>1. PrevStored(hd, hc, f, r)
        BY <1>2, <3>2, <3>4, StorePrev DEF hd
      <4>2. QED
        BY <2>2, <3>1, <3>3, <3>4, <4>1 DEF NextStored, PrevStored
    <3>5. CASE q # NULL
      <4>1. hd = hc
        BY <3>5 DEF hd
      <4>2. QED
        BY <2>2, <3>1, <3>3, <3>5, <4>1 DEF NextStored
    <3>6. QED
      BY <3>4, <3>5
  <2>3. QED
    BY <2>1, <2>2
<1>9. NextStored(h4, h3, i, NULL)
  BY <1>2, <1>8, StoreNext DEF h4
<1>10. PrevStored(h5, h4, i, NULL)
  <2>1. h4 \in Heap
    BY <1>9 DEF NextStored
  <2>2. QED
    BY <1>2, <2>1, StorePrev DEF h5
<1>11. h5 \in Heap
  BY <1>10 DEF PrevStored
<1>12. ASSUME NEW n \in Nodes
       PROVE  /\ h5[n].next = (IF n = i THEN NULL ELSE IF n = r THEN q
                               ELSE IF i # f /\ n = p THEN r ELSE h[n].next)
              /\ h5[n].child = (IF i = f /\ n = c THEN r ELSE h[n].child)
              /\ Rest(h5[n]) = Rest(h[n])
  BY <1>2, <1>4, <1>5, <1>6, <1>8, <1>9, <1>10 DEF NextStored, PrevStored
<1>13. ASSUME NEW n \in Nodes
       PROVE  h5[n].prev = (IF n = i THEN NULL
                            ELSE IF n = r THEN (IF i = f /\ p = i THEN r ELSE p)
                            ELSE IF n = q \/ (i # f /\ q = NULL /\ n = f) THEN r
                            ELSE h[n].prev)
  BY <1>2, <1>4, <1>5, <1>6, <1>8, <1>9, <1>10 DEF NextStored, PrevStored
<1>14. QED
  BY <1>1, <1>11, <1>12, <1>13 DEF f, p, q
\* cJSON_ReplaceItemViaPointer, as far as the list goes: the new item is in
\* the place of the old one, which points nowhere.
THEOREM ExchangesItem ==
    ASSUME NEW h \in Heap, NEW c \in Nodes, NEW s, Linked(h, c, s), NEW k \in 1 .. Len(s),
           NEW r \in Nodes \ ItemsOf(s)
    PROVE  LET g == Exchange(h, c, s[k], r) IN
           /\ Linked(g, c, ReplaceAt(s, k, r))
           /\ g[s[k]].next = NULL /\ g[s[k]].prev = NULL
           /\ Within(g, h, c, ItemsOf(s) \cup {r})
<1>1. PICK g : g = Exchange(h, c, s[k], r)
  OBVIOUS
<1>2. PICK t : t = ReplaceAt(s, k, r)
  OBVIOUS
<1>3. PICK m : m = Len(s)
  OBVIOUS
<1>4. Ring(h, c, s, m) /\ m \in Nat /\ k \in 1 .. m
  BY <1>3, LinkedRing DEF Ring
<1>5. PICK i : i = s[k]
  OBVIOUS
<1>6. \A j \in 1 .. m : s[j] \in Nodes /\ s[j] \in ItemsOf(s) /\ s[j] # r /\ (s[j] = i <=> j = k)
  BY <1>4, <1>5 DEF ItemsOf, Ring
<1>7. /\ t \in Seq(Nodes) /\ Len(t) = m
      /\ \A j \in 1 .. m : t[j] = IF j = k THEN r ELSE s[j]
  <2>1. s \in Seq(Nodes) /\ k \in 1 .. Len(s) /\ r \in Nodes
    BY <1>4 DEF Ring
  <2>2. QED
    BY <1>2, <1>3, <2>1 DEF ReplaceAt
<1>8. \A j \in 1 .. m : t[j] \in Nodes
  BY <1>6, <1>7
<1>9. \A j, n \in 1 .. m : t[j] = t[n] => j = n
  BY <1>4, <1>6, <1>7 DEF Ring
<1>10. /\ h[c].child = s[1] /\ s[1] \in Nodes /\ i \in Nodes
       /\ h[i].prev = (IF k = 1 THEN s[m] ELSE s[k - 1])
       /\ h[i].next = (IF k = m THEN NULL ELSE s[k + 1])
       /\ (i = s[1] <=> k = 1)
  BY <1>4, <1>5, <1>6 DEF Ring
<1>11. h[i].prev \in Nodes \ {r}
  BY <1>4, <1>6, <1>10
<1>12. h[i].next # r /\ h[i].next # i
  BY <1>4, <1>6, <1>10, NullType
<1>13. h[i].next = NULL \/ h[i].prev # i
  <2>1. CASE k = m
    BY <1>10, <2>1
  <2>2. CASE k # m
    BY <1>4, <1>6, <1>10, <2>2
  <2>3. QED
    BY <2>1, <2>2
<1>14. /\ g \in Heap
       /\ \A n \in Nodes :
            /\ g[n].next = (IF n = i THEN NULL ELSE IF n = r THEN h[i].next
                            ELSE IF i # s[1] /\ n = h[i].prev THEN r ELSE h[n].next)
            /\ g[n].prev = (IF n = i THEN NULL
                            ELSE IF n = r THEN (IF i = s[1] /\ h[i].prev = i THEN r ELSE h[i].prev)
                            ELSE IF n = h[i].next \/ (i # s[1] /\ h[i].next = NULL /\ n = s[1]) THEN r
                            ELSE h[n].prev)
            /\ g[n].child = (IF i = s[1] /\ n = c THEN r ELSE h[n].child)
            /\ Rest(g[n]) = Rest(h[n])
  <2>1. r \in Nodes \ {i} /\ h[c].child \in Nodes \ {r} /\ g = Exchange(h, c, i, r)
    BY <1>1, <1>4, <1>5, <1>6, <1>10
  <2>2. QED
    BY <1>10, <1>11, <1>12, <1>13, <2>1, ExchangeStores
<1>15. ASSUME NEW n \in 1 .. m, n # k
       PROVE  /\ g[s[n]].next = (IF n = k - 1 THEN r ELSE h[s[n]].next)
              /\ g[s[n]].prev = (IF n = k + 1 \/ (k # 1 /\ k = m /\ n = 1) THEN r ELSE h[s[n]].prev)
  <2>1. s[n] \in Nodes /\ s[n] # i /\ s[n] # r /\ (s[n] = s[1] <=> n = 1)
    BY <1>4, <1>6, <1>15 DEF Ring
  <2>2. i # s[1] => (s[n] = h[i].prev <=> n = k - 1)
    <3>1. SUFFICES ASSUME k # 1 PROVE s[n] = s[k - 1] <=> n = k - 1
      BY <1>10
    <3>2. k - 1 \in 1 .. m
      BY <1>4, <3>1
    <3>3. QED
      BY <1>4, <3>2 DEF Ring
  <2>3. s[n] = h[i].next <=> n = k + 1
    <3>1. CASE k = m
      BY <1>4, <1>10, <2>1, <3>1, NullType
    <3>2. CASE k # m
      <4>1. k + 1 \in 1 .. m /\ h[i].next = s[k + 1]
        BY <1>4, <1>10, <3>2
      <4>2. QED
        BY <1>4, <4>1 DEF Ring
    <3>3. QED
      BY <3>1, <3>2
  <2>4. h[i].next = NULL <=> k = m
    BY <1>4, <1>6, <1>10, NullType
  <2>5. k = 1 => n # k - 1
    OBVIOUS
  <2>6. QED
    BY <1>10, <1>14, <2>1, <2>2, <2>3, <2>4, <2>5
<1>16. /\ g[r].next = (IF k = m THEN NULL ELSE s[k + 1])
       /\ g[r].prev = (IF k = 1 THEN (IF m = 1 THEN r ELSE s[m]) ELSE s[k - 1])
       /\ g[c].child = (IF k = 1 THEN r ELSE s[1])
       /\ g[i].next = NULL /\ g[i].prev = NULL
  <2>1. k = 1 => (h[i].prev = i <=> m = 1)
    BY <1>4, <1>6, <1>10
  <2>2. r # i
    BY <1>4, <1>6
  <2>3. QED
    BY <1>10, <1>14, <2>1, <2>2
<1>17. ASSUME NEW j \in 1 .. m - 1 PROVE g[t[j]].next = t[j + 1]
  <2>1. j \in 1 .. m /\ j + 1 \in 1 .. m /\ h[s[j]].next = s[j + 1]
    BY <1>4 DEF Ring
  <2>2. CASE j = k
    BY <1>4, <1>7, <1>16, <2>1, <2>2
  <2>3. CASE j # k
    <3>1. j + 1 = k <=> j = k - 1
      BY <1>4
    <3>2. QED
      BY <1>7, <1>15, <2>1, <2>3, <3>1
  <2>4. QED
    BY <2>2, <2>3
<1>18. ASSUME NEW j \in 2 .. m PROVE g[t[j]].prev = t[j - 1]
  <2>1. j \in 1 .. m /\ j - 1 \in 1 .. m /\ h[s[j]].prev = s[j - 1] /\ j # 1
    BY <1>4 DEF Ring
  <2>2. CASE j = k
    <3>1. j - 1 # k /\ k # 1
      BY <1>4, <2>1, <2>2
    <3>2. QED
      BY <1>7, <1>16, <2>1, <2>2, <3>1
  <2>3. CASE j # k
    <3>1. j - 1 = k <=> j = k + 1
      BY <1>4
    <3>2. QED
      BY <1>7, <1>15, <2>1, <2>3, <3>1
  <2>4. QED
    BY <2>2, <2>3
<1>19. m > 0 => g[c].child = t[1] /\ g[t[m]].next = NULL /\ g[t[1]].prev = t[m]
  <2>1. 1 \in 1 .. m /\ m \in 1 .. m /\ h[s[m]].next = NULL /\ h[s[1]].prev = s[m]
    BY <1>4 DEF Ring
  <2>2. g[c].child = t[1]
    BY <1>7, <1>16, <2>1
  <2>3. g[t[m]].next = NULL
    <3>1. k # m => m # k - 1
      BY <1>4
    <3>2. QED
      BY <1>7, <1>15, <1>16, <2>1, <3>1
  <2>4. g[t[1]].prev = t[m]
    <3>1. CASE k = 1
      BY <1>7, <1>16, <2>1, <3>1
    <3>2. CASE k # 1
      <4>1. 1 # k + 1
        BY <1>4
      <4>2. QED
        BY <1>7, <1>15, <2>1, <3>2, <4>1
    <3>3. QED
      BY <3>1, <3>2
  <2>5. QED
    BY <2>2, <2>3, <2>4
<1>20. Ring(g, c, t, m)
  <2>1. m = 0 => g[c].child = NULL
    BY <1>4
  <2>2. QED
    BY <1>4, <1>7, <1>8, <1>9, <1>17, <1>18, <1>19, <2>1, RingMade
<1>21. Within(g, h, c, ItemsOf(s) \cup {r})
  <2>1. h[i].prev \in ItemsOf(s) /\ s[1] \in ItemsOf(s) /\ i \in ItemsOf(s)
    BY <1>4, <1>6, <1>10
  <2>2. \A n \in Nodes : n = h[i].next => n \in ItemsOf(s)
    BY <1>4, <1>6, <1>10, NullType
  <2>3. QED
    BY <1>14, <2>1, <2>2 DEF Within
<1>22. QED
  BY <1>1, <1>2, <1>5, <1>7, <1>16, <1>20, <1>21, LinkedRing
-----------------------------------------------------------------------------
\* The parts of Growing, by places.
Row(h, c, s, n) ==
    /\ s \in Seq(Nodes) /\ n \in Nat /\ Len(s) = n
    /\ \A j, k \in 1 .. n : s[j] \in Nodes /\ (s[j] = s[k] => j = k)
    /\ n = 0 => h[c].child = NULL
    /\ n > 0 => h[c].child = s[1] /\ h[s[n]].next = NULL /\ h[s[1]].prev = NULL
    /\ \A j \in 1 .. n - 1 : h[s[j]].next = s[j + 1] /\ h[s[j + 1]].prev = s[j]

\* Growing is Row, and LastOf is its last item.
LEMMA GrowingRow ==
    ASSUME NEW h, NEW c, NEW s
    PROVE  /\ Growing(h, c, s) <=> Row(h, c, s, Len(s))
           /\ Growing(h, c, s) => LastOf(s) = IF Len(s) = 0 THEN NULL ELSE s[Len(s)]
<1>1. ASSUME s \in Seq(Nodes) PROVE Len(s) \in Nat /\ (s = <<>> <=> Len(s) = 0)
  BY <1>1
<1>2. Growing(h, c, s) => Row(h, c, s, Len(s))
  BY <1>1 DEF Growing, Chained, Row
<1>3. Row(h, c, s, Len(s)) => Growing(h, c, s)
  BY <1>1 DEF Growing, Chained, Row
<1>4. Growing(h, c, s) => LastOf(s) = IF Len(s) = 0 THEN NULL ELSE s[Len(s)]
  BY <1>1 DEF Growing, Chained, LastOf
<1>5. QED
  BY <1>2, <1>3, <1>4

\* cJSON_Duplicate_rec and cJSON_CreateIntArray and its like: a list that is
\* being built gets a new item at the end, with the last one at hand.
THEOREM AttachesItem ==
    ASSUME NEW h \in Heap, NEW c \in Nodes, NEW s, Growing(h, c, s),
           NEW i \in Nodes \ ItemsOf(s), h[i].next = NULL, h[i].prev = NULL
    PROVE  /\ Growing(Attach(h, c, LastOf(s), i), c, Append(s, i))
           /\ LastOf(Append(s, i)) = i
           /\ Within(Attach(h, c, LastOf(s), i), h, c, ItemsOf(s) \cup {i})
<1>1. PICK g : g = Attach(h, c, LastOf(s), i)
  OBVIOUS
<1>2. PICK t : t = Append(s, i)
  OBVIOUS
<1>3. PICK m : m = Len(s)
  OBVIOUS
<1>4. Row(h, c, s, m) /\ m \in Nat /\ LastOf(s) = IF m = 0 THEN NULL ELSE s[m]
  BY <1>3, GrowingRow DEF Row
<1>5. /\ t \in Seq(Nodes) /\ Len(t) = m + 1
      /\ t[m + 1] = i /\ \A j \in 1 .. m : t[j] = s[j]
  BY <1>2, <1>3, <1>4, Appended DEF Row
<1>6. \A j \in 1 .. m : s[j] \in Nodes /\ s[j] \in ItemsOf(s) /\ s[j] # i
  BY <1>4 DEF ItemsOf, Row
<1>7. \A j, k \in 1 .. m + 1 : t[j] \in Nodes /\ (t[j] = t[k] => j = k)
  BY <1>4, <1>5, <1>6 DEF Row
<1>8. LastOf(t) = i
  BY <1>4, <1>5 DEF LastOf
<1>9. CASE m = 0
  <2>1. ChildStored(g, h, c, i)
    BY <1>1, <1>4, <1>9, StoreChild, NullType DEF Attach
  <2>2. Row(g, c, t, m + 1)
    BY <1>5, <1>7, <1>9, <2>1 DEF Row, ChildStored
  <2>3. Within(g, h, c, ItemsOf(s) \cup {i})
    BY <2>1 DEF Within, ChildStored
  <2>4. QED
    BY <1>1, <1>2, <1>5, <1>8, <2>2, <2>3, GrowingRow
<1>10. CASE m > 0
  <2>1. PICK l : l = s[m]
    OBVIOUS
  <2>2. l \in Nodes /\ l # i /\ l \in ItemsOf(s) /\ LastOf(s) = l /\ l # NULL /\ l \in Link
    BY <1>4, <1>6, <1>10, <2>1, NullType
  <2>3. PICK h1 : h1 = [h EXCEPT ![l].next = i]
    OBVIOUS
  <2>4. NextStored(h1, h, l, i)
    BY <2>2, <2>3, StoreNext, NullType
  <2>5. h1 \in Heap /\ g = [h1 EXCEPT ![i].prev = l]
    BY <1>1, <2>2, <2>3, <2>4 DEF Attach, Suffix, NextStored
  <2>6. PrevStored(g, h1, i, l)
    BY <2>2, <2>5, StorePrev
  <2>7. /\ g \in Heap
        /\ \A n \in Nodes :
             /\ g[n].next = (IF n = l THEN i ELSE h[n].next)
             /\ g[n].prev = (IF n = i THEN l ELSE h[n].prev)
             /\ g[n].child = h[n].child
             /\ Rest(g[n]) = Rest(h[n])
    BY <2>4, <2>6 DEF NextStored, PrevStored
  <2>8. ASSUME NEW j \in 1 .. (m + 1) - 1 PROVE g[t[j]].next = t[j + 1] /\ g[t[j + 1]].prev = t[j]
    <3>1. j \in 1 .. m /\ t[j] = s[j] /\ s[j] \in Nodes /\ s[j] # i /\ (s[j] = l <=> j = m)
      BY <1>4, <1>5, <1>6, <1>10, <2>1 DEF Row
    <3>2. CASE j = m
      BY <1>5, <2>1, <2>7, <3>1, <3>2
    <3>3. CASE j # m
      <4>1. j \in 1 .. m - 1 /\ j + 1 \in 1 .. m
        BY <1>4, <3>3
      <4>2. h[s[j]].next = s[j + 1] /\ h[s[j + 1]].prev = s[j] /\ t[j + 1] = s[j + 1]
        BY <1>4, <1>5, <4>1 DEF Row
      <4>3. s[j + 1] \in Nodes /\ s[j + 1] # i
        BY <1>6, <4>1
      <4>4. QED
        BY <2>7, <3>1, <3>3, <4>2, <4>3
    <3>4. QED
      BY <3>2, <3>3
  <2>9. g[c].child = t[1] /\ g[t[m + 1]].next = NULL /\ g[t[1]].prev = NULL
    <3>1. 1 \in 1 .. m /\ h[c].child = s[1] /\ h[s[1]].prev = NULL
      BY <1>4, <1>10 DEF Row
    <3>2. s[1] \in Nodes /\ s[1] # i /\ t[1] = s[1] /\ t[m + 1] = i
      BY <1>5, <1>6, <3>1
    <3>3. QED
      BY <2>2, <2>7, <3>1, <3>2
  <2>10. Row(g, c, t, m + 1)
    BY <1>4, <1>5, <1>7, <2>8, <2>9 DEF Row
  <2>11. Within(g, h, c, ItemsOf(s) \cup {i})
    BY <2>2, <2>7 DEF Within
  <2>12. QED
    BY <1>1, <1>2, <1>5, <1>8, <2>10, <2>11, GrowingRow
<1>11. QED
  BY <1>4, <1>9, <1>10

\* At the end the first item is made to point back to the last one, and the
\* list is as the other calls expect it.
THEOREM ClosesList ==
    ASSUME NEW h \in Heap, NEW c \in Nodes, NEW s, Growing(h, c, s)
    PROVE  /\ Linked(CloseList(h, c, LastOf(s)), c, s)
           /\ Within(CloseList(h, c, LastOf(s)), h, c, ItemsOf(s))
<1>1. PICK g : g = CloseList(h, c, LastOf(s))
  OBVIOUS
<1>2. PICK m : m = Len(s)
  OBVIOUS
<1>3. Row(h, c, s, m) /\ m \in Nat /\ LastOf(s) = IF m = 0 THEN NULL ELSE s[m]
  BY <1>2, GrowingRow DEF Row
<1>4. \A j \in 1 .. m : s[j] \in Nodes /\ s[j] \in ItemsOf(s)
  BY <1>3 DEF ItemsOf, Row
<1>5. CASE m = 0
  <2>1. g = h
    BY <1>1, <1>3, <1>5 DEF CloseList, Row
  <2>2. s = <<>>
    <3>1. s \in Seq(Nodes) /\ Len(s) = 0
      BY <1>2, <1>3, <1>5 DEF Row
    <3>2. QED
      BY <3>1, EmptySeq
  <2>3. Linked(g, c, s)
    BY <2>1, <2>2 DEF Linked, Growing
  <2>4. QED
    BY <1>1, <2>1, <2>3 DEF Within
<1>6. CASE m > 0
  <2>1. s[1] \in Nodes /\ s[m] \in Nodes /\ s[1] \in ItemsOf(s) /\ h[c].child = s[1]
    BY <1>3, <1>4, <1>6 DEF Row
  <2>2. g = [h EXCEPT ![s[1]].prev = s[m]]
    <3>1. LastOf(s) = s[m] /\ h[c].child # NULL
      BY <1>3, <1>6, <2>1, NullType
    <3>2. g = [h EXCEPT ![h[c].child].prev = LastOf(s)]
      BY <1>1, <3>1 DEF CloseList
    <3>3. QED
      BY <2>1, <3>1, <3>2
  <2>3. PrevStored(g, h, s[1], s[m])
    BY <2>1, <2>2, StorePrev, NullType
  <2>4. \A j \in 2 .. m : s[j] # s[1] /\ h[s[j]].prev = s[j - 1]
    <3>1. ASSUME NEW j \in 2 .. m PROVE s[j] # s[1] /\ h[s[j]].prev = s[j - 1]
      <4>1. j - 1 \in 1 .. m - 1 /\ (j - 1) + 1 = j /\ j \in 1 .. m /\ 1 \in 1 .. m /\ j # 1
        BY <1>3
      <4>2. QED
        BY <1>3, <4>1 DEF Row
    <3>2. QED
      BY <3>1
  <2>5. ASSUME NEW j \in 1 .. m - 1 PROVE g[s[j]].next = s[j + 1]
    BY <1>3, <1>4, <2>3 DEF Row, PrevStored
  <2>6. ASSUME NEW j \in 2 .. m PROVE g[s[j]].prev = s[j - 1]
    <3>1. s[j] \in Nodes
      BY <1>3, <1>4
    <3>2. QED
      BY <2>3, <2>4, <3>1 DEF PrevStored
  <2>7. g[c].child = s[1] /\ g[s[m]].next = NULL /\ g[s[1]].prev = s[m]
    BY <1>3, <1>6, <2>1, <2>3 DEF Row, PrevStored
  <2>8. Ring(g, c, s, m)
    <3>1. /\ s \in Seq(Nodes) /\ Len(s) = m
          /\ \A j \in 1 .. m : s[j] \in Nodes
          /\ \A j, k \in 1 .. m : s[j] = s[k] => j = k
      BY <1>3 DEF Row
    <3>2. m = 0 => g[c].child = NULL
      BY <1>6
    <3>3. QED
      BY <1>3, <2>5, <2>6, <2>7, <3>1, <3>2, RingMade
  <2>9. Within(g, h, c, ItemsOf(s))
    BY <2>1, <2>3 DEF Within, PrevStored
  <2>10. QED
    BY <1>1, <1>2, <2>8, <2>9, LinkedRing
<1>7. QED
  BY <1>3, <1>5, <1>6
===============================================================================
