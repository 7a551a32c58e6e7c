----------------------------- MODULE UtHashSort -----------------------------
(***************************************************************************)
(* HASH_SRT of uthash.h: a merge sort of the list of all items.  The       *)
(* buckets stay as they are.                                               *)
(***************************************************************************)
EXTENDS UtHash

(* HASH_SRT: runs of n items are merged, then of twice as many, until one is left *)
RECURSIVE Merge(_, _), Pass(_, _), MergeRuns(_, _)
Merge(p, q) ==
    IF p = <<>> \/ q = <<>> THEN p \o q
    ELSE IF Rank(p[1]) <= Rank(q[1]) THEN <<p[1]>> \o Merge(Tail(p), q)
    ELSE <<q[1]>> \o Merge(p, Tail(q))
Pass(s, n) ==
    LET Run(i) == SubSeq(s, (i - 1) * n + 1, IF i * n < Len(s) THEN i * n ELSE Len(s)) IN
    IF s = <<>> THEN <<>> ELSE Merge(Run(1), Run(2)) \o Pass(SubSeq(s, 2 * n + 1, Len(s)), n)
MergeRuns(s, n) == IF Len(s) <= 2 * n THEN Pass(s, n) ELSE MergeRuns(Pass(s, n), 2 * n)

Sort(t) ==
    LET s == MergeRuns(Order(t), 1)
        At(x) == CHOOSE i \in DOMAIN s : s[i] = x
        Neighbour(i) == IF i \in DOMAIN s THEN s[i] ELSE NoItem
        Linked(old, step) == [x \in Items |-> IF x \in ToSet(s) THEN Neighbour(At(x) + step) ELSE old[x]]
    IN  IF t.head = NoItem THEN t
        ELSE [t EXCEPT !.head = s[1], !.tail = s[Len(s)], !.next = Linked(@, 1), !.prev = Linked(@, -1)]
=============================================================================
