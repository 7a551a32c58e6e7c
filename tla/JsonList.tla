------------------------------ MODULE JsonList ------------------------------
(***************************************************************************)
(* The list surgery of cJSON: the children of an item are linked forward   *)
(* to NULL and backward in a circle, the prev of the first being the last, *)
(* so that an item is appended without a walk.  Each operator takes the    *)
(* heap h and returns the heap that the stores of the C code leave.        *)
(***************************************************************************)
EXTENDS Integers, Sequences, SequencesExt

CONSTANT N         \* items there can be at a time

ASSUME JsonListAssumption == N \in Nat

Nodes == 1 .. N
NULL  == 0
Link  == Nodes \cup {NULL}

(* struct cJSON, and what is counted of it *)
Item ==
    [type : STRING, isref : BOOLEAN, const : BOOLEAN, key : STRING, val : Nat,
     next : Link, prev : Link, child : Link,
     of : Link,      \* what a reference was made of
     keymem : Int,   \* copies of keys allocated for this item and not freed
     valmem : Int]   \* the same for its valuestring
Heap == [Nodes -> Item]

-----------------------------------------------------------------------------
(* an item that is taken for a damaged one: the calls below are refused *)
Corrupted(h, c, i) == i # h[c].child /\ h[i].prev = NULL

(* suffix_object *)
Suffix(h, prev, i) == [h EXCEPT ![prev].next = i, ![i].prev = prev]

(* add_item_to_array *)
AddToList(h, c, i) ==
    LET first == h[c].child IN
    IF first = NULL
    THEN [h EXCEPT ![c].child = i, ![i].prev = i, ![i].next = NULL]
    ELSE IF h[first].prev = NULL THEN h
    ELSE [Suffix(h, h[first].prev, i) EXCEPT ![first].prev = i]

(* Mutant of Detach: the first item goes on pointing to a last one that is gone *)
DetachKeepsLast(h, c, i) ==
    LET x     == h[i]
        front == i = h[c].child
        h1    == IF front THEN h ELSE [h EXCEPT ![x.prev].next = x.next]
        h2    == IF x.next = NULL THEN h1 ELSE [h1 EXCEPT ![x.next].prev = x.prev]
        h3    == IF front THEN [h2 EXCEPT ![c].child = x.next] ELSE h2
    IN  [h3 EXCEPT ![i].prev = NULL, ![i].next = NULL]

(* cJSON_DetachItemViaPointer *)
Detach(h, c, i) ==
    LET x     == h[i]
        front == i = h[c].child
        h1    == IF front THEN h ELSE [h EXCEPT ![x.prev].next = x.next]
        h2    == IF x.next = NULL THEN h1 ELSE [h1 EXCEPT ![x.next].prev = x.prev]
        h3    == IF front THEN [h2 EXCEPT ![c].child = x.next]
                 ELSE IF x.next = NULL THEN [h2 EXCEPT ![h2[c].child].prev = x.prev]
                 ELSE h2
    IN  [h3 EXCEPT ![i].prev = NULL, ![i].next = NULL]

(* cJSON_InsertItemInArray, before an item that is there *)
InsertBefore(h, c, after, i) ==
    LET h1 == [h EXCEPT ![i].next = after, ![i].prev = h[after].prev, ![after].prev = i] IN
    IF after = h[c].child THEN [h1 EXCEPT ![c].child = i]
    ELSE [h1 EXCEPT ![h1[i].prev].next = i]

(* cJSON_ReplaceItemViaPointer, as far as the links go *)
Exchange(h, c, i, r) ==
    LET x     == h[i]
        h1    == [h EXCEPT ![r].next = x.next, ![r].prev = x.prev]
        h2    == IF x.next = NULL THEN h1 ELSE [h1 EXCEPT ![x.next].prev = r]
        alone == IF h2[i].prev = i THEN [h2 EXCEPT ![r].prev = r] ELSE h2
        mid   == IF x.prev = NULL THEN h2 ELSE [h2 EXCEPT ![x.prev].next = r]
        h3    == IF h[c].child = i THEN [alone EXCEPT ![c].child = r]
                 ELSE IF x.next = NULL THEN [mid EXCEPT ![mid[c].child].prev = r]
                 ELSE mid
    IN  [h3 EXCEPT ![i].next = NULL, ![i].prev = NULL]

(* The lists of copies and of numbers are built with the last item at hand, and *)
(* closed at the end.                                                           *)
Attach(h, c, last, i) ==
    IF last = NULL THEN [h EXCEPT ![c].child = i] ELSE Suffix(h, last, i)
CloseList(h, c, last) ==
    IF h[c].child = NULL THEN h ELSE [h EXCEPT ![h[c].child].prev = last]

-----------------------------------------------------------------------------
(***************************************************************************)
(* The children of c are s, in this order, each of them once.  In a list   *)
(* that is closed the first points back to the last; in one that is still  *)
(* being built it points nowhere.                                          *)
(***************************************************************************)
Chained(h, c, s) ==
    /\ s \in Seq(Nodes)
    /\ \A j, k \in 1 .. Len(s) : s[j] = s[k] => j = k
    /\ IF s = <<>> THEN h[c].child = NULL
       ELSE h[c].child = s[1] /\ h[s[Len(s)]].next = NULL
    /\ \A j \in 1 .. Len(s) - 1 : h[s[j]].next = s[j + 1] /\ h[s[j + 1]].prev = s[j]

Linked(h, c, s)  == Chained(h, c, s) /\ (s # <<>> => h[s[1]].prev = s[Len(s)])
Growing(h, c, s) == Chained(h, c, s) /\ (s # <<>> => h[s[1]].prev = NULL)
LastOf(s) == IF s = <<>> THEN NULL ELSE s[Len(s)]
=============================================================================
