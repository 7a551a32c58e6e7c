------------------------------- MODULE UtHash -------------------------------
(***************************************************************************)
(* The hash table of uthash.h: items in a doubly linked list in the order  *)
(* they were added, and in buckets by the hash of their keys; the number   *)
(* of buckets doubles when a chain grows too long, until that has been     *)
(* found useless twice.  hh_next and hh_prev of a chain are a sequence     *)
(* here; the counts that are kept beside the lists are not.  An allocation *)
(* that fails is the end of the process (uthash_fatal).                    *)
(***************************************************************************)
EXTENDS Integers, SequencesExt

CONSTANTS Items, NoItem,
          KeyOf(_), HashOf(_), \* the key of an item, and the hash of a key
          Rank(_),           \* what cmpfcn compares
          InitialBuckets, Threshold

ASSUME UtHashAssumption ==
    /\ NoItem \notin Items /\ IsFiniteSet(Items)
    /\ InitialBuckets \in Nat \ {0} /\ Threshold \in Nat \ {0}
    /\ \A x \in Items : HashOf(KeyOf(x)) \in Nat

(* what a walk over s finds of the set T *)
Filter(s, T) ==
    LET found[k \in 0 .. Len(s)] ==
            IF k = 0 THEN <<>>
            ELSE IF s[k] \in T THEN Append(found[k - 1], s[k]) ELSE found[k - 1]
    IN  found[Len(s)]

Buckets(n) == 0 .. n - 1
Nobody == [x \in Items |-> NoItem]

(* (head) = NULL *)
NoTable == [head |-> NoItem, tail |-> NoItem, next |-> Nobody, prev |-> Nobody, items |-> 0,
            chain |-> <<>>, count |-> <<>>, mult |-> <<>>, ineff |-> 0, noexpand |-> FALSE]

(* HASH_MAKE_TABLE: the table of a first item *)
MakeTable(x) ==
    [NoTable EXCEPT !.head = x, !.tail = x,
                    !.chain = [b \in Buckets(InitialBuckets) |-> <<>>],
                    !.count = [b \in Buckets(InitialBuckets) |-> 0],
                    !.mult  = [b \in Buckets(InitialBuckets) |-> 0]]

(* HASH_TO_BKT: the low bits, as the number of buckets is a power of two *)
ToBkt(x, n) == HashOf(KeyOf(x)) % n
Size(t) == Cardinality(DOMAIN t.chain)

(* HASH_EXPAND_BUCKETS: a chain is reversed as it is dealt out to two *)
Ideal(t) == (t.items + 2 * Size(t) - 1) \div (2 * Size(t))
Multiple(count, ideal) ==
    LET m[c \in ideal .. count] ==
            IF c = ideal THEN 0 ELSE m[c - 1] + IF c > m[c - 1] * ideal THEN 1 ELSE 0
    IN  IF count > ideal THEN m[count] ELSE 0

ExpandBuckets(t) ==
    LET n        == 2 * Size(t)
        chain    == [b \in Buckets(n) |->
                       Reverse(Filter(t.chain[b % Size(t)], {x \in Items : ToBkt(x, n) = b}))]
        over     == [b \in Buckets(n) |-> IF Len(chain[b]) > Ideal(t) THEN Len(chain[b]) - Ideal(t) ELSE 0]
        nonideal == FoldFunction(+, 0, over)
        ineff    == IF nonideal > t.items \div 2 THEN t.ineff + 1 ELSE 0
    IN  [t EXCEPT !.chain    = chain,
                  !.count    = [b \in Buckets(n) |-> Len(chain[b])],
                  !.mult     = [b \in Buckets(n) |-> Multiple(Len(chain[b]), Ideal(t))],
                  !.ineff    = ineff,
                  !.noexpand = @ \/ ineff > 1]

AddToBkt(t, x) ==
    LET b == ToBkt(x, Size(t))
        u == [t EXCEPT !.chain[b] = <<x>> \o @, !.count[b] = @ + 1]
    IN  IF u.count[b] >= (u.mult[b] + 1) * Threshold /\ ~u.noexpand THEN ExpandBuckets(u) ELSE u

(* HASH_DEL_IN_BKT *)
DelInBkt(t, x) ==
    LET b == ToBkt(x, Size(t)) IN
    [t EXCEPT !.chain[b] = Filter(@, Items \ {x}), !.count[b] = @ - 1]

AddToTable(t, x) == AddToBkt([t EXCEPT !.items = @ + 1], x)

AppendList(t, x) ==
    [t EXCEPT !.next[x] = NoItem, !.prev[x] = t.tail, !.next[t.tail] = x, !.tail = x]

(* HASH_ADD *)
Add(t, x) == AddToTable(IF t.head = NoItem THEN MakeTable(x) ELSE AppendList(t, x), x)

(* HASH_ITER: the items from one on, and one more if the list never ends *)
Walk(t, x) ==
    LET w[k \in 0 .. Cardinality(Items)] ==
            IF k = 0 THEN x ELSE IF w[k - 1] = NoItem THEN NoItem ELSE t.next[w[k - 1]]
    IN  Filter([k \in 1 .. Cardinality(Items) + 1 |-> w[k - 1]], Items)
Order(t) == Walk(t, t.head)

(* HASH_ADD_INORDER: before the first that compares greater *)
InsertBefore(t, x, y) ==
    LET p == t.prev[y]
        u == [t EXCEPT !.next[x] = y, !.prev[x] = p, !.prev[y] = x]
    IN  IF p = NoItem THEN [u EXCEPT !.head = x] ELSE [u EXCEPT !.next[p] = x]

AddInorder(t, x) ==
    LET greater == Filter(Order(t), {y \in Items : Rank(y) > Rank(x)}) IN
    IF t.head = NoItem THEN Add(t, x)
    ELSE AddToTable(IF greater = <<>> THEN AppendList(t, x) ELSE InsertBefore(t, x, greater[1]), x)

(* Mutant: the tail stays when the last item of the list goes. *)
DeleteKeepsTail(t, x) ==
    LET p == t.prev[x]
        n == t.next[x]
        unlinked == [t EXCEPT !.head = IF p = NoItem THEN n ELSE @,
                              !.next = IF p = NoItem THEN @ ELSE [@ EXCEPT ![p] = n],
                              !.prev = IF n = NoItem THEN @ ELSE [@ EXCEPT ![n] = p]]
    IN  IF p = NoItem /\ n = NoItem THEN NoTable
        ELSE [DelInBkt(unlinked, x) EXCEPT !.items = @ - 1]

(* HASH_DELETE: with the last item the table is freed *)
Delete(t, x) ==
    LET p == t.prev[x]
        n == t.next[x]
        unlinked == [t EXCEPT !.tail = IF x = t.tail THEN p ELSE t.tail,
                              !.head = IF p = NoItem THEN n ELSE t.head,
                              !.next = IF p = NoItem THEN @ ELSE [@ EXCEPT ![p] = n],
                              !.prev = IF n = NoItem THEN @ ELSE [@ EXCEPT ![n] = p]]
    IN  IF p = NoItem /\ n = NoItem THEN NoTable
        ELSE [DelInBkt(unlinked, x) EXCEPT !.items = @ - 1]

(* HASH_FIND: the first of its chain with this key *)
FindInBkt(chain, key) ==
    LET found == Filter(chain, {x \in Items : KeyOf(x) = key}) IN
    IF found = <<>> THEN NoItem ELSE found[1]

FindKey(t, key) ==
    IF t.head = NoItem THEN NoItem ELSE FindInBkt(t.chain[HashOf(key) % Size(t)], key)

(* HASH_REPLACE: instead of the item with the same key, but at the end *)
Replace(t, x) ==
    LET old == FindKey(t, KeyOf(x)) IN
    Add(IF old = NoItem THEN t ELSE Delete(t, old), x)

(* HASH_SELECT: into a second table, bucket by bucket; its tail stays the first item *)
Selected(dst, x, last) ==
    LET u == IF dst.head = NoItem THEN MakeTable(x)
             ELSE [dst EXCEPT !.prev[x] = last, !.next[x] = NoItem, !.next[last] = x]
    IN  [AddToBkt(u, x) EXCEPT !.items = @ + 1]

Select(t, chosen) ==
    LET all == FlattenSeq([b \in 1 .. Size(t) |-> t.chain[b - 1]])
        Take(s, x) == IF x \in chosen THEN [dst |-> Selected(s.dst, x, s.last), last |-> x] ELSE s
    IN  FoldLeft(Take, [dst |-> NoTable, last |-> NoItem], all).dst

(* HASH_CLEAR *)
Clear(t) == NoTable

(* HASH_FSCK: what the developers of uthash check in a debug build *)
Places(t) == UNION {{b} \X (1 .. t.count[b]) : b \in DOMAIN t.count}
Fsck(t) ==
    LET order == Order(t) IN
    t.head # NoItem =>
        /\ \A b \in DOMAIN t.chain : t.count[b] = Len(t.chain[b])
        /\ t.items = Cardinality(Places(t))
        /\ \A i \in DOMAIN order : t.prev[order[i]] = IF i = 1 THEN NoItem ELSE order[i - 1]
        /\ t.items = Len(order)
=============================================================================
