------------------------------- MODULE Forest -------------------------------
(***************************************************************************)
(* What the tree operations of cJSON promise.  Items are ordered trees:    *)
(* kids[n] is the sequence of the children of item n, label[n] what the    *)
(* item says.  A caller holds the roots it has to give back.  Each         *)
(* operator is the effect of one call that succeeds.                       *)
(***************************************************************************)
EXTENDS Naturals, Sequences, SequencesExt

CONSTANTS Nodes

VARIABLES held,   \* the roots the caller holds
          kids,   \* the children of each item, in order
          label   \* what each item says besides; <<"free">> when there is none

RECURSIVE Below(_)
Below(n) == {n} \union UNION {Below(k) : k \in ToSet(kids[n])}

Same(S) == \A n \in S : kids'[n] = kids[n] /\ label'[n] = label[n]

(* the children of c become s; nothing else is touched but what is in but *)
Becomes(c, s, but) == kids'[c] = s /\ label'[c] = label[c] /\ Same(Nodes \ ({c} \union but))

Gone(S) == \A n \in S : label'[n] = <<"free">> /\ kids'[n] = <<>>

(* i, which now says lab, is placed as the k-th child of c, or as the last *)
Insert(c, k, i, lab) ==
    /\ Becomes(c, IF k <= Len(kids[c]) THEN InsertAt(kids[c], k, i) ELSE Append(kids[c], i), {i})
    /\ kids'[i] = kids[i] /\ label'[i] = lab
    /\ held' = held \ {i}

TakeOut(c, k) == Becomes(c, RemoveAt(kids[c], k), {}) /\ held' = held \union {kids[c][k]}

Drop(c, k) ==
    LET gone == Below(kids[c][k]) IN
    Becomes(c, RemoveAt(kids[c], k), gone) /\ Gone(gone) /\ held' = held

Exchange(c, k, i, lab) ==
    LET gone == Below(kids[c][k]) IN
    /\ Becomes(c, ReplaceAt(kids[c], k, i), gone \union {i})
    /\ kids'[i] = kids[i] /\ label'[i] = lab
    /\ Gone(gone) /\ held' = held \ {i}

Discard(i) == Gone(Below(i)) /\ Same(Nodes \ Below(i)) /\ held' = held \ {i}
=============================================================================
