---------------------------- MODULE HttpApiProofs ----------------------------
(***************************************************************************)
(* Proofs about the management interface of HttpApi and about the hash     *)
(* table of UtHash, which holds its routes: for every set of clients, of   *)
(* requests and of items, every hash function, every number of buckets and *)
(* every threshold.                                                        *)
(*                                                                         *)
(* The table.  Holds(t, s) says that the table t holds the items of s in   *)
(* that order: its list links them, and each bucket has those that hash    *)
(* there.  Add and Delete keep it, whatever the buckets are doubled or     *)
(* not; it is all that Order, Fsck and FindKey depend on.                  *)
(*                                                                         *)
(* The program.  Each function of the model is a list of steps, so its     *)
(* runs are those of a small machine.  What it still has to do is Safe if  *)
(* there is a set of configurations, all of them good, that holds the      *)
(* present one and that no step leaves, whatever fails.  Good means that   *)
(* the next step may be taken (what it frees is held, what it links is not *)
(* in the table), and that a function that is done has given its answer    *)
(* and left nothing behind.  IInv, the inductive invariant, says that the  *)
(* present configuration is safe; a step of the program leads from one     *)
(* safe configuration to another, and a new request starts in one.         *)
(***************************************************************************)
EXTENDS HttpApi, FiniteSetTheorems, SequenceTheorems, WellFoundedInduction, TLAPS

-----------------------------------------------------------------------------
(***************************************************************************)
(* Numbers, and what a walk over a sequence finds.                         *)
(***************************************************************************)

\* A set of numbers that is not empty has a least one: what induction needs here.
LEMMA Least ==
    ASSUME NEW S, S \subseteq Nat, S # {}
    PROVE  \E x \in S : \A y \in S : x <= y
<1>1. PICK x \in S : \A y \in S : ~(<<y, x>> \in OpToRel(<, Nat))
  BY NatLessThanWellFounded, WFMin
<1>2. \A y \in S : ~(y < x)
  BY <1>1 DEF OpToRel
<1>3. QED
  BY <1>2

\* Induction up to a number, with the property as the set of the numbers that have it.
LEMMA UpTo ==
    ASSUME NEW n \in Nat, NEW P, 0 \in P,
           \A k \in 1 .. n : k - 1 \in P => k \in P
    PROVE  0 .. n \subseteq P
<1> DEFINE Bad == {k \in 0 .. n : k \notin P}
<1> SUFFICES ASSUME Bad # {} PROVE FALSE
  OBVIOUS
<1>1. Bad \subseteq Nat
  OBVIOUS
<1>2. PICK m \in Bad : \A y \in Bad : m <= y
  BY <1>1, Least
<1>3. m \in 1 .. n /\ m - 1 \in 0 .. n /\ ~(m <= m - 1)
  BY <1>2
<1>4. m - 1 \in P
  BY <1>2, <1>3
<1>5. QED
  BY <1>2, <1>3, <1>4

\* The walk behind Filter, from one item to the next.
FilterStep(f, s, T, k) == IF s[k] \in T THEN Append(f[k - 1], s[k]) ELSE f[k - 1]

\* Filter is the end of such a walk.
LEMMA FilterWalk ==
    ASSUME NEW s, NEW T, Len(s) \in Nat
    PROVE  \E f : /\ Filter(s, T) = f[Len(s)]
                  /\ f[0] = <<>>
                  /\ \A k \in 1 .. Len(s) : f[k] = FilterStep(f, s, T, k)
<1> DEFINE B(g, k) == IF k = 0 THEN <<>>
                      ELSE IF s[k] \in T THEN Append(g[k - 1], s[k]) ELSE g[k - 1]
           N == Len(s)
           Ok(g, n) == \A k \in 0 .. n : g[k] = B(g, k)
           P == {n \in 0 .. N : \E g : Ok(g, n)}
<1>1. 0 \in P
  <2> DEFINE g == [k \in 0 .. 0 |-> <<>>]
  <2>1. Ok(g, 0)
    OBVIOUS
  <2> HIDE DEF Ok, g
  <2>2. QED
    BY <2>1
<1>2. ASSUME NEW n \in 1 .. N, n - 1 \in P PROVE n \in P
  <2> HIDE DEF Ok
  <2>1. PICK g : Ok(g, n - 1)
    BY <1>2
  <2> USE DEF Ok
  <2> DEFINE h == [k \in 0 .. n |-> IF k = n THEN B(g, n) ELSE g[k]]
  <2>2. ASSUME NEW k \in 0 .. n PROVE h[k] = B(h, k)
    <3>1. CASE k = 0
      BY <2>1, <3>1
    <3>2. CASE k # 0
      <4>1. k - 1 \in 0 .. n - 1 /\ k - 1 # n /\ h[k - 1] = g[k - 1]
        BY <3>2
      <4>2. B(h, k) = B(g, k)
        BY <4>1
      <4>3. k # n => k \in 0 .. n - 1
        OBVIOUS
      <4>4. k # n => g[k] = B(g, k)
        BY <2>1, <4>3
      <4> HIDE DEF B
      <4>5. QED
        BY <4>2, <4>4
    <3>3. QED
      BY <3>1, <3>2
  <2> HIDE DEF B, h
  <2>3. Ok(h, n)
    BY <2>2
  <2> HIDE DEF Ok
  <2>4. QED
    BY <2>3
<1>3. N \in P
  <2> HIDE DEF P
  <2>1. 0 .. N \subseteq P
    BY <1>1, <1>2, UpTo
  <2>2. QED
    BY <2>1
<1>4. \E g : g = [k \in 0 .. N |-> B(g, k)]
  <2> HIDE DEF Ok
  <2>1. PICK g : Ok(g, N)
    BY <1>3
  <2> USE DEF Ok
  <2> DEFINE h == [k \in 0 .. N |-> g[k]]
  <2>2. ASSUME NEW k \in 0 .. N PROVE h[k] = B(h, k)
    BY <2>1
  <2> HIDE DEF B
  <2>3. h = [k \in 0 .. N |-> B(h, k)]
    BY <2>2
  <2>4. QED
    BY <2>3
<1> DEFINE f == CHOOSE g : g = [k \in 0 .. N |-> B(g, k)]
<1>5. Filter(s, T) = f[N]
  BY DEF Filter
<1>6. f = [k \in 0 .. N |-> B(f, k)]
  BY <1>4
<1> HIDE DEF f
<1> HIDE DEF B
<1>7. \A k \in 0 .. N : f[k] = B(f, k)
  BY <1>6
<1>8. f[0] = <<>>
  BY <1>7 DEF B
<1>9. ASSUME NEW k \in 1 .. N PROVE f[k] = FilterStep(f, s, T, k)
  BY <1>7 DEF B, FilterStep
<1>10. QED
  BY <1>5, <1>8, <1>9

\* What Filter returns: the items of the set, each once if s has each once.
LEMMA FilterIs ==
    ASSUME NEW S, NEW s \in Seq(S), NEW T
    PROVE  /\ Filter(s, T) \in Seq(S)
           /\ ToSet(Filter(s, T)) = ToSet(s) \cap T
           /\ IsInjective(s) => IsInjective(Filter(s, T))
<1>1. PICK f : /\ Filter(s, T) = f[Len(s)]
               /\ f[0] = <<>>
               /\ \A k \in 1 .. Len(s) : f[k] = FilterStep(f, s, T, k)
  BY FilterWalk
<1> DEFINE N == Len(s)
           Once(k) == IsInjective(s) => IsInjective(f[k])
           Got(k) == {s[i] : i \in 1 .. k} \cap T
           Ok(k) == f[k] \in Seq(S) /\ ToSet(f[k]) = Got(k) /\ Once(k)
           P == {k \in 0 .. N : Ok(k)}
<1>2. 0 \in P
  <2>1. f[0] \in Seq(S) /\ DOMAIN f[0] = {} /\ 1 .. 0 = {} /\ 0 \in 0 .. N
    BY <1>1
  <2>2. ToSet(f[0]) = {} /\ IsInjective(f[0])
    BY <2>1 DEF ToSet, IsInjective
  <2>3. Got(0) = {}
    BY <2>1
  <2>4. QED
    BY <2>1, <2>2, <2>3
<1>3. ASSUME NEW k \in 1 .. N, k - 1 \in P PROVE k \in P
  <2>1. f[k] = FilterStep(f, s, T, k) /\ k - 1 \in 0 .. N
    BY <1>1
  <2>2. f[k - 1] \in Seq(S) /\ ToSet(f[k - 1]) = Got(k - 1) /\ Once(k - 1)
    BY <1>3
  <2>3. \A i \in 1 .. k : i = k \/ i \in 1 .. k - 1
    OBVIOUS
  <2>4. 1 .. k - 1 \subseteq 1 .. k /\ s[k] \in S /\ k \in 1 .. k
    OBVIOUS
  <2>5. CASE s[k] \in T
    <3>1. f[k] = Append(f[k - 1], s[k])
      BY <2>1, <2>5 DEF FilterStep
    <3>2. /\ f[k] \in Seq(S) /\ Len(f[k]) = Len(f[k - 1]) + 1
          /\ \A i \in 1 .. Len(f[k - 1]) : f[k][i] = f[k - 1][i]
          /\ f[k][Len(f[k])] = s[k]
      BY <2>2, <2>4, <3>1, AppendProperties
    <3>3. DOMAIN f[k] = 1 .. Len(f[k]) /\ DOMAIN f[k - 1] = 1 .. Len(f[k - 1]) /\ Len(f[k - 1]) \in Nat
      BY <2>2, <3>2
    <3>4. ToSet(f[k]) = ToSet(f[k - 1]) \cup {s[k]}
      <4>1. /\ ToSet(f[k]) = {f[k][i] : i \in 1 .. Len(f[k - 1]) + 1}
            /\ ToSet(f[k - 1]) = {f[k - 1][i] : i \in 1 .. Len(f[k - 1])}
        BY <3>2, <3>3 DEF ToSet
      <4>2. \A i \in 1 .. Len(f[k - 1]) + 1 : i = Len(f[k - 1]) + 1 \/ i \in 1 .. Len(f[k - 1])
        BY <3>3
      <4>3. /\ 1 .. Len(f[k - 1]) \subseteq 1 .. Len(f[k - 1]) + 1
            /\ Len(f[k - 1]) + 1 \in 1 .. Len(f[k - 1]) + 1
        BY <3>3
      <4>4. ASSUME NEW y \in ToSet(f[k]) PROVE y \in ToSet(f[k - 1]) \cup {s[k]}
        <5>1. PICK i \in 1 .. Len(f[k - 1]) + 1 : y = f[k][i]
          BY <4>1, <4>4
        <5>2. i = Len(f[k - 1]) + 1 => y = s[k]
          BY <3>2, <5>1
        <5>3. i \in 1 .. Len(f[k - 1]) => y \in ToSet(f[k - 1])
          BY <3>2, <4>1, <5>1
        <5>4. QED
          BY <4>2, <5>2, <5>3
      <4>5. ASSUME NEW y \in ToSet(f[k - 1]) \cup {s[k]} PROVE y \in ToSet(f[k])
        <5>1. CASE y = s[k]
          BY <3>2, <4>1, <4>3, <5>1
        <5>2. CASE y \in ToSet(f[k - 1])
          <6>1. PICK i \in 1 .. Len(f[k - 1]) : y = f[k - 1][i]
            BY <4>1, <5>2
          <6>2. y = f[k][i] /\ i \in 1 .. Len(f[k - 1]) + 1
            BY <3>2, <4>3, <6>1
          <6>3. QED
            BY <4>1, <6>2
        <5>3. QED
          BY <4>5, <5>1, <5>2
      <4>6. QED
        BY <4>4, <4>5
    <3>5. Got(k) = Got(k - 1) \cup {s[k]}
      BY <2>3, <2>4, <2>5
    <3>6. ASSUME IsInjective(s) PROVE IsInjective(f[k])
      <4>1. s[k] \notin ToSet(f[k - 1])
        <5>1. \A i \in 1 .. k - 1 : s[i] # s[k]
          BY <3>6 DEF IsInjective
        <5>2. QED
          BY <2>2, <5>1
      <4>2. \A i \in 1 .. Len(f[k - 1]) : f[k - 1][i] # s[k]
        BY <3>3, <4>1 DEF ToSet
      <4>3. IsInjective(f[k - 1])
        BY <2>2, <3>6
      <4>4. \A i, j \in 1 .. Len(f[k - 1]) : f[k - 1][i] = f[k - 1][j] => i = j
        BY <3>3, <4>3 DEF IsInjective
      <4>5. \A i \in 1 .. Len(f[k]) : i = Len(f[k]) \/ i \in 1 .. Len(f[k - 1])
        BY <3>2, <3>3
      <4>6. \A i, j \in 1 .. Len(f[k]) : f[k][i] = f[k][j] => i = j
        BY <3>2, <4>2, <4>4, <4>5
      <4>7. QED
        BY <3>3, <4>6 DEF IsInjective
    <3>7. QED
      BY <2>2, <3>2, <3>4, <3>5, <3>6
  <2>6. CASE s[k] \notin T
    <3>1. f[k] = f[k - 1]
      BY <2>1, <2>6 DEF FilterStep
    <3>2. Got(k) = Got(k - 1)
      BY <2>3, <2>4, <2>6
    <3>3. QED
      BY <2>2, <3>1, <3>2
  <2>7. QED
    BY <2>5, <2>6
<1> HIDE DEF P
<1>4. N \in P
  <2>1. N \in Nat
    OBVIOUS
  <2> HIDE DEF N
  <2>2. 0 .. N \subseteq P
    BY <1>2, <1>3, <2>1, UpTo
  <2>3. QED
    BY <2>1, <2>2
<1>5. Ok(N)
  BY <1>4 DEF P
<1>6. Got(N) = ToSet(s) \cap T
  BY DEF ToSet
<1>7. QED
  BY <1>1, <1>5, <1>6

\* A walk that finds nothing behind a place returns what is before it.
LEMMA FilterPrefix ==
    ASSUME NEW S, NEW s \in Seq(S), NEW T, NEW m \in 0 .. Len(s),
           \A i \in 1 .. Len(s) : s[i] \in T <=> i <= m
    PROVE  Filter(s, T) = SubSeq(s, 1, m)
<1>1. PICK f : /\ Filter(s, T) = f[Len(s)]
               /\ f[0] = <<>>
               /\ \A k \in 1 .. Len(s) : f[k] = FilterStep(f, s, T, k)
  BY FilterWalk
<1> DEFINE N == Len(s)
           Upto(k) == IF k <= m THEN SubSeq(s, 1, k) ELSE SubSeq(s, 1, m)
           P == {k \in 0 .. N : f[k] = Upto(k)}
<1>2. 0 \in P
  <2>1. SubSeq(s, 1, 0) = <<>> /\ 0 <= m /\ 0 \in 0 .. N
    OBVIOUS
  <2>2. QED
    BY <1>1, <2>1
<1>3. ASSUME NEW k \in 1 .. N, k - 1 \in P PROVE k \in P
  <2>1. f[k] = FilterStep(f, s, T, k) /\ k - 1 \in 0 .. N /\ f[k - 1] = Upto(k - 1)
    BY <1>1, <1>3
  <2>2. CASE k <= m
    <3>1. f[k] = Append(SubSeq(s, 1, k - 1), s[k])
      BY <2>1, <2>2 DEF FilterStep
    <3>2. SubSeq(s, 1, k) = Append(SubSeq(s, 1, k - 1), s[k])
      BY <2>2, SubSeqRecursiveSecond
    <3>3. QED
      BY <2>2, <3>1, <3>2
  <2>3. CASE ~(k <= m)
    <3>1. f[k] = f[k - 1]
      BY <2>1, <2>3 DEF FilterStep
    <3>2. k - 1 <= m => k - 1 = m
      BY <2>3
    <3>3. Upto(k - 1) = SubSeq(s, 1, m) /\ Upto(k) = SubSeq(s, 1, m)
      BY <2>3, <3>2
    <3> HIDE DEF Upto
    <3>4. QED
      BY <2>1, <3>1, <3>3
  <2>4. QED
    BY <2>2, <2>3
<1> HIDE DEF P
<1>4. N \in P
  <2>1. N \in Nat
    OBVIOUS
  <2> HIDE DEF N
  <2>2. 0 .. N \subseteq P
    BY <1>2, <1>3, <2>1, UpTo
  <2>3. QED
    BY <2>1, <2>2
<1>5. f[N] = Upto(N)
  BY <1>4 DEF P
<1>6. m = N \/ ~(N <= m)
  OBVIOUS
<1>7. QED
  BY <1>1, <1>5, <1>6

\* Division of numbers.
LEMMA DivMod ==
    ASSUME NEW h \in Nat, NEW n \in Nat \ {0}
    PROVE  h % n \in 0 .. n - 1 /\ h \div n \in Nat /\ h = n * (h \div n) + (h % n)
OBVIOUS

\* There is one quotient and one rest.
LEMMA OneRest ==
    ASSUME NEW n \in Nat \ {0}, NEW p \in Int, NEW q \in Int,
           NEW a \in 0 .. n - 1, NEW b \in 0 .. n - 1, n * p + a = n * q + b
    PROVE  p = q /\ a = b
<1>1. n * (p - q) = b - a
  OBVIOUS
<1>2. CASE p > q
  <2>1. n * (p - q) >= n
    BY <1>2
  <2>2. QED BY <1>1, <2>1
<1>3. CASE p < q
  <2>1. n * (p - q) <= 0 - n
    BY <1>3
  <2>2. QED BY <1>1, <2>1
<1>4. QED BY <1>1, <1>2, <1>3

\* The bucket among n follows from the bucket among twice as many.
LEMMA HalfTheBuckets ==
    ASSUME NEW h \in Nat, NEW n \in Nat \ {0}
  PROVE (h % (2 * n)) % n = h % n
<1> DEFINE q == h \div (2 * n)
           r == h % (2 * n)
<1>1. q \in Nat /\ r \in Nat /\ r < 2 * n /\ h = (2 * n) * q + r
  <2>1. 2 * n \in Nat \ {0}
    OBVIOUS
  <2>2. \A m \in Nat \ {0} : h % m \in 0 .. m - 1 /\ h \div m \in Nat /\ h = m * (h \div m) + (h % m)
    BY DivMod
  <2>3. r \in 0 .. 2 * n - 1 /\ q \in Nat /\ h = (2 * n) * q + r
    BY <2>1, <2>2
  <2> HIDE DEF q, r
  <2>4. QED
    BY <2>3
<1>2. h % n \in 0 .. n - 1 /\ h \div n \in Nat /\ h = n * (h \div n) + (h % n)
  BY DivMod
<1>3. r % n \in 0 .. n - 1 /\ r \div n \in Nat /\ r = n * (r \div n) + (r % n)
  BY <1>1, DivMod
<1> HIDE DEF q, r
<1> DEFINE d == r \div n
           e == r % n
           f == h \div n
           g == h % n
<1>4. n * (2 * q + d) + e = n * f + g
  <2> HIDE DEF d, e, f, g
  <2>1. (2 * n) * q = n * (2 * q)
    BY <1>1
  <2>2. n * (2 * q + d) = n * (2 * q) + n * d
    BY <1>1, <1>3 DEF d
  <2>3. QED
    BY <1>1, <1>2, <1>3, <2>1, <2>2 DEF d, e, f, g
<1>5. 2 * q + d \in Int /\ f \in Int /\ e \in 0 .. n - 1 /\ g \in 0 .. n - 1
  BY <1>1, <1>2, <1>3
<1> HIDE DEF d, e, f, g
<1>6. e = g
  <2> DEFINE p == 2 * q + d
  <2>1. p \in Int /\ n * p + e = n * f + g
    BY <1>4, <1>5
  <2> HIDE DEF p
  <2>2. QED
    BY <1>5, <2>1, OneRest
<1>7. QED
  BY <1>6 DEF e, g, r

\* Reverse loses nothing.
LEMMA ReverseIs ==
    ASSUME NEW S, NEW s \in Seq(S)
    PROVE  /\ Reverse(s) \in Seq(S)
           /\ ToSet(Reverse(s)) = ToSet(s)
           /\ IsInjective(s) => IsInjective(Reverse(s))
<1> DEFINE n == Len(s)
           r == Reverse(s)
<1>1. n \in Nat /\ DOMAIN s = 1 .. n /\ \A i \in 1 .. n : s[i] \in S
  OBVIOUS
<1>2. r = [i \in 1 .. n |-> s[n - i + 1]]
  BY DEF Reverse
<1>3. \A i \in 1 .. n : n - i + 1 \in 1 .. n /\ n - (n - i + 1) + 1 = i
  BY <1>1
<1> HIDE DEF n, r
<1>4. r \in Seq(S) /\ DOMAIN r = 1 .. n /\ \A i \in 1 .. n : r[i] = s[n - i + 1]
  BY <1>1, <1>2, <1>3
<1>5. \A i \in 1 .. n : s[i] = r[n - i + 1]
  BY <1>3, <1>4
<1>6. ToSet(r) = ToSet(s)
  <2>1. ToSet(r) = {r[i] : i \in 1 .. n} /\ ToSet(s) = {s[i] : i \in 1 .. n}
    BY <1>1, <1>4 DEF ToSet
  <2>2. ASSUME NEW y \in ToSet(r) PROVE y \in ToSet(s)
    BY <1>3, <1>4, <2>1, <2>2
  <2>3. ASSUME NEW y \in ToSet(s) PROVE y \in ToSet(r)
    BY <1>3, <1>5, <2>1, <2>3
  <2>4. QED
    BY <2>2, <2>3
<1>7. ASSUME IsInjective(s) PROVE IsInjective(r)
  <2>1. \A i, j \in 1 .. n : s[i] = s[j] => i = j
    BY <1>1, <1>7 DEF IsInjective
  <2>2. ASSUME NEW i \in 1 .. n, NEW j \in 1 .. n, r[i] = r[j] PROVE i = j
    <3>1. n - i + 1 = n - j + 1
      BY <1>3, <1>4, <2>1, <2>2
    <3>2. QED
      BY <1>1, <3>1
  <2>3. QED
    BY <1>4, <2>2 DEF IsInjective
<1>8. QED
  BY <1>4, <1>6, <1>7 DEF r

-----------------------------------------------------------------------------
(***************************************************************************)
(* A table and the sequence of its items.                                  *)
(***************************************************************************)

\* A table as a record: what EXCEPT changes is a field of it.
Fields == {"head", "tail", "next", "prev", "items", "chain", "count", "mult", "ineff", "noexpand"}
IsTable(t) == t = [f \in Fields |-> t[f]]

\* The fields that the buckets have no part in.
SameList(t, u) ==
    /\ u.head = t.head /\ u.tail = t.tail /\ u.next = t.next /\ u.prev = t.prev
    /\ u.items = t.items

\* The list goes over s, in both directions.
Pointers == [Items -> Items \cup {NoItem}]
Links(t, s) ==
    /\ t.head = s[1] /\ t.tail = s[Len(s)]
    /\ t.next \in Pointers /\ t.prev \in Pointers
    /\ \A i \in 1 .. Len(s) :
         /\ t.next[s[i]] = IF i = Len(s) THEN NoItem ELSE s[i + 1]
         /\ t.prev[s[i]] = IF i = 1 THEN NoItem ELSE s[i - 1]

\* The n buckets hold the items of R, each once and where its hash says.
Hashed(R, n, b) == {x \in R : ToBkt(x, n) = b}
Chained(t, R, n) ==
    /\ n \in Nat \ {0}
    /\ DOMAIN t.chain = Buckets(n) /\ DOMAIN t.count = Buckets(n)
    /\ \A b \in Buckets(n) :
         /\ t.chain[b] \in Seq(Items) /\ IsInjective(t.chain[b])
         /\ ToSet(t.chain[b]) = Hashed(R, n, b)
         /\ t.count[b] = Len(t.chain[b])

\* The table t holds the items of s, in that order.
Holds(t, s) ==
    /\ s \in Seq(Items) /\ IsInjective(s)
    /\ IF s = <<>> THEN t = NoTable
       ELSE /\ IsTable(t) /\ Links(t, s) /\ t.items = Len(s)
            /\ \E n : Chained(t, ToSet(s), n)

\* The number of buckets.
LEMMA SizeIs ==
    ASSUME NEW t, NEW R, NEW n, Chained(t, R, n)
    PROVE  Size(t) = n /\ n \in Nat \ {0}
<1>1. n \in Nat \ {0} /\ DOMAIN t.chain = 0 .. n - 1
  BY DEF Chained, Buckets
<1>2. Cardinality(0 .. n - 1) = n
  BY <1>1, FS_Interval
<1>3. QED
  BY <1>1, <1>2 DEF Size

\* The bucket of an item.
LEMMA BucketIs ==
    ASSUME NEW x \in Items, NEW n \in Nat \ {0}
    PROVE  /\ ToBkt(x, n) \in Buckets(n)
           /\ ToBkt(x, 2 * n) \in Buckets(2 * n)
           /\ ToBkt(x, 2 * n) % n = ToBkt(x, n)
<1>1. HashOf(KeyOf(x)) \in Nat /\ 2 * n \in Nat \ {0}
  BY UtHashAssumption
<1>2. \A m \in Nat \ {0} : HashOf(KeyOf(x)) % m \in 0 .. m - 1
  BY <1>1, DivMod
<1>3. QED
  BY <1>1, <1>2, HalfTheBuckets DEF ToBkt, Buckets

\* HASH_EXPAND_BUCKETS: every item is in its bucket among twice as many.
LEMMA ExpandKeeps ==
    ASSUME NEW t, IsTable(t), NEW R, R \subseteq Items, NEW n, Chained(t, R, n)
    PROVE  LET u == ExpandBuckets(t) IN IsTable(u) /\ SameList(t, u) /\ Chained(u, R, 2 * n)
<1> DEFINE u == ExpandBuckets(t)
           To(b) == {x \in Items : ToBkt(x, 2 * n) = b}
           Dealt(b) == Filter(t.chain[b % n], To(b))
<1>1. Size(t) = n /\ n \in Nat \ {0}
  BY SizeIs
<1>2. /\ IsTable(u) /\ SameList(t, u)
      /\ u.chain = [b \in Buckets(2 * n) |-> Reverse(Dealt(b))]
      /\ u.count = [b \in Buckets(2 * n) |-> Len(Reverse(Dealt(b)))]
  <2>1. /\ u.chain = [b \in Buckets(2 * n) |-> Reverse(Dealt(b))]
        /\ u.count = [b \in Buckets(2 * n) |-> Len(Reverse(Dealt(b)))]
    BY <1>1 DEF ExpandBuckets, IsTable, Fields
  <2>2. SameList(t, u)
    BY DEF ExpandBuckets, IsTable, Fields, SameList
  <2>3. IsTable(u)
    BY DEF ExpandBuckets, IsTable, Fields
  <2>4. QED
    BY <2>1, <2>2, <2>3
<1>3. ASSUME NEW b \in Buckets(2 * n)
      PROVE  /\ Reverse(Dealt(b)) \in Seq(Items) /\ IsInjective(Reverse(Dealt(b)))
             /\ ToSet(Reverse(Dealt(b))) = Hashed(R, 2 * n, b)
  <2>1. b % n \in Buckets(n)
    BY <1>1, DivMod DEF Buckets
  <2>2. /\ t.chain[b % n] \in Seq(Items) /\ IsInjective(t.chain[b % n])
        /\ ToSet(t.chain[b % n]) = Hashed(R, n, b % n)
    BY <2>1 DEF Chained
  <2>3. /\ Dealt(b) \in Seq(Items) /\ IsInjective(Dealt(b))
        /\ ToSet(Dealt(b)) = Hashed(R, n, b % n) \cap To(b)
    BY <2>2, FilterIs
  <2>4. Hashed(R, n, b % n) \cap To(b) = Hashed(R, 2 * n, b)
    BY <1>1, BucketIs DEF Hashed
  <2> HIDE DEF Dealt
  <2>5. QED
    BY <2>3, <2>4, ReverseIs
<1> HIDE DEF u, Dealt
<1>4. Chained(u, R, 2 * n)
  BY <1>1, <1>2, <1>3 DEF Chained
<1>5. QED
  BY <1>2, <1>4 DEF u

\* HASH_ADD_TO_BKT: a new item is in its bucket, however many there are then.
LEMMA AddToBktKeeps ==
    ASSUME NEW t, IsTable(t), NEW R, R \subseteq Items, NEW n, Chained(t, R, n),
           NEW x \in Items \ R
    PROVE  LET u == AddToBkt(t, x) IN
           IsTable(u) /\ SameList(t, u) /\ \E m : Chained(u, R \cup {x}, m)
<1> DEFINE b == ToBkt(x, n)
           v == [t EXCEPT !.chain[b] = <<x>> \o @, !.count[b] = @ + 1]
<1>1. Size(t) = n /\ n \in Nat \ {0} /\ b \in Buckets(n)
  BY SizeIs, BucketIs
<1>2. /\ IsTable(v) /\ SameList(t, v)
      /\ v.chain = [t.chain EXCEPT ![b] = <<x>> \o @]
      /\ v.count = [t.count EXCEPT ![b] = @ + 1]
  BY DEF IsTable, Fields, SameList
<1>3. AddToBkt(t, x) = v \/ AddToBkt(t, x) = ExpandBuckets(v)
  BY <1>1 DEF AddToBkt
<1>4. /\ t.chain[b] \in Seq(Items) /\ IsInjective(t.chain[b])
      /\ ToSet(t.chain[b]) = Hashed(R, n, b) /\ t.count[b] = Len(t.chain[b])
  BY <1>1 DEF Chained
<1> DEFINE c == t.chain[b]
           d == <<x>> \o c
<1>5. /\ d \in Seq(Items) /\ Len(d) = Len(c) + 1 /\ d[1] = x
      /\ \A i \in 1 .. Len(c) : d[i + 1] = c[i]
      /\ \A i \in 2 .. Len(d) : d[i] = c[i - 1]
  BY <1>4, ConcatProperties
<1>6. x \notin ToSet(c)
  BY <1>4 DEF Hashed
<1> HIDE DEF c, d
<1>7. c \in Seq(Items) /\ Len(c) \in Nat /\ DOMAIN c = 1 .. Len(c) /\ DOMAIN d = 1 .. Len(d)
  BY <1>4, <1>5 DEF c
<1>8. ToSet(d) = ToSet(c) \cup {x}
  <2>1. \A i \in 1 .. Len(d) : i = 1 \/ i \in 2 .. Len(d)
    BY <1>5, <1>7
  <2>2. \A i \in 2 .. Len(d) : i - 1 \in 1 .. Len(c)
    BY <1>5, <1>7
  <2>3. \A i \in 1 .. Len(c) : i + 1 \in 1 .. Len(d)
    BY <1>5, <1>7
  <2>4. 1 \in 1 .. Len(d)
    BY <1>5, <1>7
  <2>5. ToSet(d) = {d[i] : i \in 1 .. Len(d)} /\ ToSet(c) = {c[i] : i \in 1 .. Len(c)}
    BY <1>7 DEF ToSet
  <2>6. ASSUME NEW y \in ToSet(d) PROVE y \in ToSet(c) \cup {x}
    BY <1>5, <2>1, <2>2, <2>5, <2>6
  <2>7. ASSUME NEW y \in ToSet(c) \cup {x} PROVE y \in ToSet(d)
    BY <1>5, <2>3, <2>4, <2>5, <2>7
  <2>8. QED
    BY <2>6, <2>7
<1>9. IsInjective(d)
  <2>1. \A i \in 1 .. Len(c) : c[i] # x
    BY <1>6, <1>7 DEF ToSet
  <2>2. \A i, j \in 1 .. Len(c) : c[i] = c[j] => i = j
    BY <1>4, <1>7 DEF IsInjective, c
  <2>3. \A i \in 1 .. Len(d) : i = 1 \/ (i \in 2 .. Len(d) /\ i - 1 \in 1 .. Len(c))
    BY <1>5, <1>7
  <2>4. ASSUME NEW i \in 1 .. Len(d), NEW j \in 1 .. Len(d), d[i] = d[j] PROVE i = j
    <3>1. CASE i = 1 \/ j = 1
      BY <1>5, <2>1, <2>3, <2>4, <3>1
    <3>2. CASE i # 1 /\ j # 1
      <4>1. c[i - 1] = c[j - 1] /\ i - 1 \in 1 .. Len(c) /\ j - 1 \in 1 .. Len(c)
        BY <1>5, <2>3, <2>4, <3>2
      <4>2. i - 1 = j - 1
        BY <2>2, <4>1
      <4>3. QED
        BY <4>2
    <3>3. QED
      BY <3>1, <3>2
  <2>5. QED
    BY <1>7, <2>4 DEF IsInjective
<1>10. Hashed(R \cup {x}, n, b) = Hashed(R, n, b) \cup {x}
  BY DEF Hashed
<1>11. \A a \in Buckets(n) : a # b => Hashed(R \cup {x}, n, a) = Hashed(R, n, a)
  BY DEF Hashed
<1> DEFINE Right(a) == /\ v.chain[a] \in Seq(Items) /\ IsInjective(v.chain[a])
                       /\ ToSet(v.chain[a]) = Hashed(R \cup {x}, n, a)
                       /\ v.count[a] = Len(v.chain[a])
<1> HIDE DEF v, b
<1>12. v.chain[b] = d /\ v.count[b] = Len(d)
  BY <1>1, <1>2, <1>4, <1>5 DEF Chained, c, d
<1>13. Right(b)
  BY <1>4, <1>5, <1>8, <1>9, <1>10, <1>12 DEF c
<1>14. ASSUME NEW a \in Buckets(n), a # b PROVE Right(a)
  <2>1. v.chain[a] = t.chain[a] /\ v.count[a] = t.count[a]
    BY <1>1, <1>2, <1>14 DEF Chained
  <2>2. /\ t.chain[a] \in Seq(Items) /\ IsInjective(t.chain[a])
        /\ ToSet(t.chain[a]) = Hashed(R, n, a) /\ t.count[a] = Len(t.chain[a])
    BY DEF Chained
  <2>3. QED
    BY <1>11, <1>14, <2>1, <2>2
<1>15. DOMAIN v.chain = Buckets(n) /\ DOMAIN v.count = Buckets(n)
  BY <1>2 DEF Chained
<1> HIDE DEF Right
<1>16. \A a \in Buckets(n) : Right(a)
  BY <1>13, <1>14
<1>17. Chained(v, R \cup {x}, n)
  BY <1>1, <1>15, <1>16 DEF Chained, Right
<1>18. LET u == ExpandBuckets(v) IN
       IsTable(u) /\ SameList(v, u) /\ Chained(u, R \cup {x}, 2 * n)
  BY <1>2, <1>17, ExpandKeeps
<1>19. QED
  BY <1>2, <1>3, <1>17, <1>18 DEF SameList

-----------------------------------------------------------------------------
(***************************************************************************)
(* HASH_ADD.                                                               *)
(***************************************************************************)
\* What is in a list is an item, each of them once.
LEMMA ListOf ==
    ASSUME NEW s \in Seq(Items), IsInjective(s)
    PROVE  /\ Len(s) \in Nat /\ DOMAIN s = 1 .. Len(s)
           /\ \A i \in 1 .. Len(s) : s[i] \in Items /\ s[i] \in ToSet(s) /\ s[i] # NoItem
           /\ ToSet(s) = {s[i] : i \in 1 .. Len(s)} /\ ToSet(s) \subseteq Items
           /\ \A i, j \in 1 .. Len(s) : s[i] = s[j] => i = j
<1>1. Len(s) \in Nat /\ DOMAIN s = 1 .. Len(s) /\ \A i \in 1 .. Len(s) : s[i] \in Items
  OBVIOUS
<1>2. ToSet(s) = {s[i] : i \in 1 .. Len(s)}
  BY <1>1 DEF ToSet
<1>3. \A i, j \in 1 .. Len(s) : s[i] = s[j] => i = j
  BY <1>1 DEF IsInjective
<1>4. QED
  BY <1>1, <1>2, <1>3, UtHashAssumption

\* The buckets do not matter to the list.
LEMMA LinksStay ==
    ASSUME NEW t, NEW u, NEW s, Links(t, s), SameList(t, u)
    PROVE  Links(u, s)
BY DEF Links, SameList

\* HASH_MAKE_TABLE: a list of one, and empty buckets.
LEMMA MakesTable ==
    ASSUME NEW x \in Items
    PROVE  LET u == [MakeTable(x) EXCEPT !.items = @ + 1] IN
           /\ IsTable(u) /\ Links(u, <<x>>) /\ u.items = 1
           /\ Chained(u, {}, InitialBuckets)
<1> DEFINE u == [MakeTable(x) EXCEPT !.items = @ + 1]
<1>1. /\ IsTable(u) /\ u.head = x /\ u.tail = x /\ u.next = Nobody /\ u.prev = Nobody
      /\ u.items = 1
      /\ u.chain = [b \in Buckets(InitialBuckets) |-> <<>>]
      /\ u.count = [b \in Buckets(InitialBuckets) |-> 0]
  <2>1. NoTable.next = Nobody /\ NoTable.prev = Nobody /\ NoTable.items = 0 /\ IsTable(NoTable)
    BY DEF NoTable, IsTable, Fields
  <2> DEFINE m == MakeTable(x)
  <2>2. /\ IsTable(m) /\ m.head = x /\ m.tail = x /\ m.next = NoTable.next /\ m.prev = NoTable.prev
        /\ m.items = NoTable.items
        /\ m.chain = [b \in Buckets(InitialBuckets) |-> <<>>]
        /\ m.count = [b \in Buckets(InitialBuckets) |-> 0]
    BY <2>1 DEF MakeTable, IsTable, Fields
  <2> HIDE DEF m
  <2>3. u = [m EXCEPT !.items = @ + 1]
    BY DEF m
  <2> HIDE DEF u
  <2>4. QED
    BY <2>1, <2>2, <2>3 DEF IsTable, Fields
<1> HIDE DEF u
<1>2. Links(u, <<x>>)
  BY <1>1 DEF Links, Pointers, Nobody
<1>3. <<>> \in Seq(Items) /\ IsInjective(<<>>) /\ ToSet(<<>>) = {} /\ Len(<<>>) = 0
  BY DEF IsInjective, ToSet
<1>4. \A b \in Buckets(InitialBuckets) : Hashed({}, InitialBuckets, b) = {}
  BY DEF Hashed
<1>5. \A b \in Buckets(InitialBuckets) : u.chain[b] = <<>> /\ u.count[b] = 0
  BY <1>1
<1>6. Chained(u, {}, InitialBuckets)
  BY <1>1, <1>3, <1>4, <1>5, UtHashAssumption DEF Chained
<1>7. QED
  BY <1>1, <1>2, <1>6 DEF u

\* A new item behind a list.
LEMMA Behind ==
    ASSUME NEW s \in Seq(Items), IsInjective(s), NEW x \in Items \ ToSet(s)
    PROVE  /\ Append(s, x) \in Seq(Items) /\ IsInjective(Append(s, x))
           /\ Len(Append(s, x)) = Len(s) + 1 /\ Append(s, x)[Len(s) + 1] = x
           /\ \A i \in 1 .. Len(s) : Append(s, x)[i] = s[i]
           /\ ToSet(Append(s, x)) = ToSet(s) \cup {x}
<1> DEFINE r == Append(s, x)
<1>1. /\ r \in Seq(Items) /\ Len(r) = Len(s) + 1 /\ r[Len(s) + 1] = x
      /\ \A i \in 1 .. Len(s) : r[i] = s[i]
  BY AppendProperties
<1> HIDE DEF r
<1>2. /\ Len(s) \in Nat /\ ToSet(s) = {s[i] : i \in 1 .. Len(s)}
      /\ \A i, j \in 1 .. Len(s) : s[i] = s[j] => i = j
  BY ListOf
<1>3. \A i \in 1 .. Len(r) : i = Len(s) + 1 \/ i \in 1 .. Len(s)
  BY <1>1, <1>2
<1>4. DOMAIN r = 1 .. Len(r) /\ 1 .. Len(s) \subseteq 1 .. Len(r) /\ Len(s) + 1 \in 1 .. Len(r)
  BY <1>1, <1>2
<1>5. ToSet(r) = {r[i] : i \in 1 .. Len(r)}
  BY <1>4 DEF ToSet
<1>6. ASSUME NEW y \in ToSet(r) PROVE y \in ToSet(s) \cup {x}
  BY <1>1, <1>2, <1>3, <1>5, <1>6
<1>7. ASSUME NEW y \in ToSet(s) \cup {x} PROVE y \in ToSet(r)
  BY <1>1, <1>2, <1>4, <1>5, <1>7
<1>8. \A i, j \in 1 .. Len(r) : r[i] = r[j] => i = j
  BY <1>1, <1>2, <1>3
<1>9. IsInjective(r)
  BY <1>4, <1>8 DEF IsInjective
<1>10. QED
  BY <1>1, <1>6, <1>7, <1>9 DEF r

\* HASH_APPEND_LIST: the list is one longer.
LEMMA AppendsList ==
    ASSUME NEW t, IsTable(t), NEW s \in Seq(Items), IsInjective(s), s # <<>>, Links(t, s),
           NEW x \in Items \ ToSet(s)
    PROVE  LET u == AppendList(t, x) IN
           /\ IsTable(u) /\ Links(u, Append(s, x)) /\ u.items = t.items
           /\ u.chain = t.chain /\ u.count = t.count
<1> DEFINE u == AppendList(t, x)
           r == Append(s, x)
           n == Len(s)
<1>1. /\ n \in Nat \ {0}
      /\ \A i \in 1 .. n : s[i] \in Items /\ s[i] # NoItem
      /\ \A i, j \in 1 .. n : s[i] = s[j] => i = j
      /\ \A i \in 1 .. n : s[i] # x
  BY ListOf
<1>2. /\ IsTable(u) /\ u.items = t.items /\ u.chain = t.chain /\ u.count = t.count
      /\ u.head = t.head /\ u.tail = x
      /\ u.next = [[t.next EXCEPT ![x] = NoItem] EXCEPT ![t.tail] = x]
      /\ u.prev = [t.prev EXCEPT ![x] = t.tail]
  BY DEF AppendList, IsTable, Fields
<1>3. /\ r \in Seq(Items) /\ Len(r) = n + 1 /\ r[n + 1] = x /\ \A i \in 1 .. n : r[i] = s[i]
  BY Behind
<1> HIDE DEF u, r, n
<1>4. /\ t.head = s[1] /\ t.tail = s[n] /\ t.next \in Pointers /\ t.prev \in Pointers
      /\ \A i \in 1 .. n : /\ t.next[s[i]] = IF i = n THEN NoItem ELSE s[i + 1]
                           /\ t.prev[s[i]] = IF i = 1 THEN NoItem ELSE s[i - 1]
  BY DEF Links, n
<1>5. u.next \in Pointers /\ u.prev \in Pointers
  <2>1. n \in 1 .. n
    BY <1>1
  <2>2. t.tail \in Items
    BY <1>1, <1>4, <2>1
  <2>3. QED
    BY <1>2, <1>4, <2>2 DEF Pointers
<1>6. ASSUME NEW i \in 1 .. n + 1
      PROVE  /\ u.next[r[i]] = IF i = n + 1 THEN NoItem ELSE r[i + 1]
             /\ u.prev[r[i]] = IF i = 1 THEN NoItem ELSE r[i - 1]
  <2>1. CASE i = n + 1
    <3>1. i - 1 = n /\ n \in 1 .. n /\ i # 1 /\ x # s[n]
      BY <1>1, <2>1
    <3>2. u.next[x] = NoItem /\ u.prev[x] = s[n]
      BY <1>1, <1>2, <1>4, <3>1 DEF Pointers
    <3>3. QED
      BY <1>3, <2>1, <3>1, <3>2
  <2>2. CASE i \in 1 .. n - 1
    <3>1. i \in 1 .. n /\ i # n /\ i + 1 \in 1 .. n /\ n \in 1 .. n /\ (i # 1 => i - 1 \in 1 .. n)
      BY <1>1, <2>2
    <3>2. u.next[s[i]] = t.next[s[i]] /\ u.prev[s[i]] = t.prev[s[i]]
      BY <1>1, <1>2, <1>4, <3>1 DEF Pointers
    <3>3. r[i] = s[i] /\ r[i + 1] = s[i + 1] /\ (i # 1 => r[i - 1] = s[i - 1])
      BY <1>3, <3>1
    <3>4. /\ t.next[s[i]] = s[i + 1]
          /\ t.prev[s[i]] = IF i = 1 THEN NoItem ELSE s[i - 1]
      BY <1>4, <3>1
    <3>5. i # n + 1
      BY <1>1, <3>1
    <3>6. QED
      BY <3>2, <3>3, <3>4, <3>5
  <2>3. CASE i = n
    <3>1. i \in 1 .. n /\ (i # 1 => i - 1 \in 1 .. n) /\ i # n + 1
      BY <1>1, <2>3
    <3>2. u.next[s[i]] = x /\ u.prev[s[i]] = t.prev[s[i]]
      BY <1>1, <1>2, <1>4, <2>3, <3>1 DEF Pointers
    <3>3. QED
      <4>1. r[i] = s[i] /\ r[i + 1] = x /\ (i # 1 => r[i - 1] = s[i - 1])
        BY <1>1, <1>3, <2>3, <3>1
      <4>2. t.prev[s[i]] = IF i = 1 THEN NoItem ELSE s[i - 1]
        BY <1>4, <3>1
      <4>3. QED
        BY <3>1, <3>2, <4>1, <4>2
  <2>4. QED
    BY <1>1, <2>1, <2>2, <2>3
<1>7. u.head = r[1] /\ u.tail = r[Len(r)]
  BY <1>1, <1>2, <1>3, <1>4
<1>8. Links(u, r)
  BY <1>3, <1>5, <1>6, <1>7 DEF Links
<1>9. QED
  BY <1>2, <1>8 DEF u, r

\* A table that holds items has a head.
LEMMA HasHead ==
    ASSUME NEW t, NEW s, Holds(t, s)
    PROVE  /\ s = <<>> => t = NoTable /\ t.head = NoItem
           /\ s # <<>> => t.head = s[1] /\ t.head # NoItem /\ 1 \in 1 .. Len(s)
<1>1. s \in Seq(Items) /\ IsInjective(s)
  BY DEF Holds
<1>2. CASE s = <<>>
  BY <1>2 DEF Holds, NoTable
<1>3. CASE s # <<>>
  <2>1. 1 \in 1 .. Len(s)
    BY <1>1, <1>3
  <2>2. QED
    BY <1>1, <1>3, <2>1, ListOf DEF Holds, Links
<1>4. QED
  BY <1>2, <1>3

\* HASH_ADD: the items, and the new one behind them.
THEOREM AddsItem ==
    ASSUME NEW t, NEW s, Holds(t, s), NEW x \in Items \ ToSet(s)
    PROVE  Holds(Add(t, x), Append(s, x))
<1>1. s \in Seq(Items) /\ IsInjective(s)
  BY DEF Holds
<1> DEFINE v == IF t.head = NoItem THEN MakeTable(x) ELSE AppendList(t, x)
           w == [v EXCEPT !.items = @ + 1]
           r == Append(s, x)
<1>2. Add(t, x) = AddToBkt(w, x)
  BY DEF Add, AddToTable
<1>3. /\ r \in Seq(Items) /\ IsInjective(r) /\ ToSet(r) = ToSet(s) \cup {x} /\ Len(r) = Len(s) + 1
      /\ ToSet(s) \subseteq Items
  BY <1>1, Behind, ListOf
<1>4. r # <<>>
  BY <1>1, <1>3
<1>5. IsTable(w) /\ Links(w, r) /\ w.items = Len(r) /\ \E n : Chained(w, ToSet(s), n)
  <2>1. CASE s = <<>>
    <3>1. v = MakeTable(x) /\ r = <<x>> /\ Len(r) = 1 /\ ToSet(s) = {}
      BY <1>1, <2>1, HasHead DEF ToSet
    <3> HIDE DEF v, r
    <3>2. /\ IsTable(w) /\ Links(w, <<x>>) /\ w.items = 1
          /\ Chained(w, {}, InitialBuckets)
      BY <3>1, MakesTable
    <3>3. QED
      BY <3>1, <3>2
  <2>2. CASE s # <<>>
    <3>1. /\ IsTable(t) /\ Links(t, s) /\ t.items = Len(s) /\ v = AppendList(t, x)
      BY <2>2, HasHead DEF Holds
    <3>2. PICK n : Chained(t, ToSet(s), n)
      BY <2>2 DEF Holds
    <3> HIDE DEF v, r
    <3>3. /\ IsTable(v) /\ Links(v, r) /\ v.items = t.items
          /\ v.chain = t.chain /\ v.count = t.count
      BY <1>1, <2>2, <3>1, AppendsList DEF r
    <3>4. /\ IsTable(w) /\ w.items = t.items + 1 /\ w.chain = t.chain /\ w.count = t.count
          /\ w.head = v.head /\ w.tail = v.tail /\ w.next = v.next /\ w.prev = v.prev
      BY <3>3 DEF IsTable, Fields
    <3> HIDE DEF w
    <3>5. Links(w, r)
      BY <3>3, <3>4 DEF Links
    <3>6. Chained(w, ToSet(s), n)
      BY <3>2, <3>4 DEF Chained
    <3>7. QED
      BY <1>3, <3>1, <3>4, <3>5, <3>6
  <2>3. QED
    BY <2>1, <2>2
<1> HIDE DEF v, w, r
<1>6. PICK n : Chained(w, ToSet(s), n)
  BY <1>5
<1> DEFINE u == AddToBkt(w, x)
<1>7. IsTable(u) /\ SameList(w, u) /\ \E m : Chained(u, ToSet(s) \cup {x}, m)
  BY <1>3, <1>5, <1>6, AddToBktKeeps
<1> HIDE DEF u
<1>8. Links(u, r) /\ u.items = Len(r)
  BY <1>5, <1>7, LinksStay DEF SameList
<1>9. Holds(u, r)
  BY <1>3, <1>4, <1>7, <1>8 DEF Holds
<1>10. QED
  BY <1>2, <1>9 DEF u, r

-----------------------------------------------------------------------------
(***************************************************************************)
(* HASH_DELETE and HASH_FIND.                                              *)
(***************************************************************************)
\* A list without one of its items.
LEMMA Without ==
    ASSUME NEW s \in Seq(Items), IsInjective(s), NEW i \in 1 .. Len(s)
    PROVE  LET r == RemoveAt(s, i) IN
           /\ r \in Seq(Items) /\ Len(r) = Len(s) - 1 /\ IsInjective(r)
           /\ \A j \in 1 .. Len(s) - 1 : r[j] = IF j < i THEN s[j] ELSE s[j + 1]
           /\ ToSet(r) = ToSet(s) \ {s[i]}
<1> DEFINE a == SubSeq(s, 1, i - 1)
           b == SubSeq(s, i + 1, Len(s))
           r == RemoveAt(s, i)
           n == Len(s)
<1>1. /\ n \in Nat \ {0} /\ i \in 1 .. n /\ \A k \in 1 .. n : s[k] \in Items
      /\ \A j, k \in 1 .. n : s[j] = s[k] => j = k
      /\ ToSet(s) = {s[k] : k \in 1 .. n}
  BY ListOf
<1>2. /\ a \in Seq(Items) /\ Len(a) = i - 1 /\ \A j \in 1 .. i - 1 : a[j] = s[j]
  BY <1>1
<1>3. /\ b \in Seq(Items) /\ Len(b) = n - i /\ \A j \in 1 .. n - i : b[j] = s[i + j]
  BY <1>1
<1>4. r = a \o b
  BY DEF RemoveAt
<1> HIDE DEF a, b, r, n
<1>5. /\ r \in Seq(Items) /\ Len(r) = n - 1
      /\ \A j \in 1 .. i - 1 : r[j] = s[j]
      /\ \A j \in i .. n - 1 : r[j] = b[j - (i - 1)]
  <2>1. /\ r \in Seq(Items) /\ Len(r) = (i - 1) + (n - i)
        /\ \A j \in 1 .. (i - 1) + (n - i) : r[j] = IF j <= i - 1 THEN a[j] ELSE b[j - (i - 1)]
    <3>1. /\ a \o b \in Seq(Items) /\ Len(a \o b) = Len(a) + Len(b)
          /\ \A j \in 1 .. Len(a) + Len(b) :
                (a \o b)[j] = IF j <= Len(a) THEN a[j] ELSE b[j - Len(a)]
      <4>1. a \in Seq(Items) /\ b \in Seq(Items)
        BY <1>2, <1>3
      <4>2. QED
        BY <4>1, ConcatProperties
    <3>2. Len(a) = i - 1 /\ Len(b) = n - i
      BY <1>2, <1>3
    <3>3. QED
      BY <1>4, <3>1, <3>2
  <2>2. (i - 1) + (n - i) = n - 1
    BY <1>1
  <2>3. \A j \in 1 .. i - 1 : j \in 1 .. n - 1 /\ j <= i - 1
    BY <1>1
  <2>4. \A j \in i .. n - 1 : j \in 1 .. n - 1 /\ ~(j <= i - 1)
    BY <1>1
  <2>5. QED
    BY <1>2, <2>1, <2>2, <2>3, <2>4
<1>6. \A j \in 1 .. n - 1 : r[j] = IF j < i THEN s[j] ELSE s[j + 1]
  <2>1. ASSUME NEW j \in i .. n - 1 PROVE r[j] = s[j + 1]
    <3>1. j - (i - 1) \in 1 .. n - i /\ i + (j - (i - 1)) = j + 1
      BY <1>1
    <3>2. QED
      BY <1>3, <1>5, <3>1
  <2>2. QED
    BY <1>1, <1>5, <2>1
<1>7. DOMAIN r = 1 .. n - 1
  BY <1>1, <1>5
<1>8. ToSet(r) = {r[j] : j \in 1 .. n - 1}
  BY <1>7 DEF ToSet
<1>9. ASSUME NEW y \in ToSet(r) PROVE y \in ToSet(s) \ {s[i]}
  <2>1. PICK j \in 1 .. n - 1 : y = r[j]
    BY <1>8, <1>9
  <2>2. j \in 1 .. n /\ j + 1 \in 1 .. n /\ (j < i => j # i) /\ (~(j < i) => j + 1 # i)
    BY <1>1
  <2>3. QED
    BY <1>1, <1>6, <2>1, <2>2
<1>10. ASSUME NEW y \in ToSet(s) \ {s[i]} PROVE y \in ToSet(r)
  <2>1. PICK k \in 1 .. n : y = s[k]
    BY <1>1
  <2>2. k # i
    BY <2>1
  <2>3. CASE k < i
    <3>1. k \in 1 .. n - 1
      BY <1>1, <2>3
    <3>2. QED
      BY <1>6, <1>8, <2>1, <2>3, <3>1
  <2>4. CASE ~(k < i)
    <3>1. k - 1 \in 1 .. n - 1 /\ ~(k - 1 < i) /\ (k - 1) + 1 = k
      BY <1>1, <2>2, <2>4
    <3>2. QED
      BY <1>6, <1>8, <2>1, <3>1
  <2>5. QED
    BY <2>3, <2>4
<1>11. \A j, k \in 1 .. n - 1 : r[j] = r[k] => j = k
  <2>1. SUFFICES ASSUME NEW j \in 1 .. n - 1, NEW k \in 1 .. n - 1, r[j] = r[k] PROVE j = k
    OBVIOUS
  <2> DEFINE A(m) == IF m < i THEN m ELSE m + 1
  <2>2. A(j) \in 1 .. n /\ A(k) \in 1 .. n /\ (A(j) = A(k) => j = k)
    BY <1>1
  <2>3. r[j] = s[A(j)] /\ r[k] = s[A(k)]
    BY <1>6
  <2> HIDE DEF A
  <2>4. QED
    BY <1>1, <2>1, <2>2, <2>3
<1>12. IsInjective(r)
  BY <1>7, <1>11 DEF IsInjective
<1>13. QED
  BY <1>5, <1>6, <1>9, <1>10, <1>12 DEF r, n

\* A list has as many items as places.
LEMMA Listed ==
    ASSUME NEW s \in Seq(Items), IsInjective(s)
    PROVE  IsFiniteSet(ToSet(s)) /\ Cardinality(ToSet(s)) = Len(s)
<1> DEFINE n == Len(s)
           T == ToSet(s)
<1>1. /\ n \in Nat /\ T = {s[i] : i \in 1 .. n}
      /\ \A i, j \in 1 .. n : s[i] = s[j] => i = j
  BY ListOf
<1>2. s = [i \in 1 .. n |-> s[i]]
  BY ListOf
<1> HIDE DEF n, T
<1>3. s \in [1 .. n -> T]
  BY <1>1, <1>2
<1>4. \A y \in T : \E i \in 1 .. n : s[i] = y
  BY <1>1
<1>5. s \in Bijection(1 .. n, T)
  BY <1>1, <1>3, <1>4 DEF Bijection, Injection, Surjection, IsInjective
<1>6. ExistsBijection(1 .. n, T)
  BY <1>5 DEF ExistsBijection
<1>7. QED
  BY <1>1, <1>6, FS_CountingElements, FS_NatBijection DEF n, T

\* HASH_DEL_IN_BKT: the item is in no bucket any more.
LEMMA DelInBktKeeps ==
    ASSUME NEW t, IsTable(t), NEW R, R \subseteq Items, NEW n, Chained(t, R, n), NEW x \in R
    PROVE  LET u == DelInBkt(t, x) IN IsTable(u) /\ SameList(t, u) /\ Chained(u, R \ {x}, n)
<1> DEFINE b == ToBkt(x, n)
           u == DelInBkt(t, x)
           d == Filter(t.chain[b], Items \ {x})
<1>1. Size(t) = n /\ n \in Nat \ {0} /\ b \in Buckets(n)
  BY SizeIs, BucketIs
<1>2. /\ IsTable(u) /\ SameList(t, u)
      /\ u.chain = [t.chain EXCEPT ![b] = d] /\ u.count = [t.count EXCEPT ![b] = @ - 1]
  BY <1>1 DEF DelInBkt, IsTable, Fields, SameList
<1> DEFINE c == t.chain[b]
<1>3. /\ c \in Seq(Items) /\ IsInjective(c) /\ ToSet(c) = Hashed(R, n, b)
      /\ t.count[b] = Len(c)
  BY <1>1 DEF Chained
<1>4. d \in Seq(Items) /\ IsInjective(d) /\ ToSet(d) = ToSet(c) \cap (Items \ {x})
  BY <1>3, FilterIs
<1> HIDE DEF u, b, c, d
<1>5. ToSet(d) = Hashed(R \ {x}, n, b) /\ ToSet(d) = ToSet(c) \ {x} /\ x \in ToSet(c)
  BY <1>3, <1>4 DEF Hashed, b
<1>6. Len(d) = Len(c) - 1
  <2>1. Cardinality(ToSet(c)) = Len(c) /\ Cardinality(ToSet(d)) = Len(d) /\ IsFiniteSet(ToSet(c))
    BY <1>3, <1>4, Listed
  <2>2. Cardinality(ToSet(c) \ {x}) = Cardinality(ToSet(c)) - 1
    BY <1>5, <2>1, FS_RemoveElement
  <2>3. QED
    BY <1>5, <2>1, <2>2
<1> DEFINE Right(a) == /\ u.chain[a] \in Seq(Items) /\ IsInjective(u.chain[a])
                       /\ ToSet(u.chain[a]) = Hashed(R \ {x}, n, a)
                       /\ u.count[a] = Len(u.chain[a])
<1>7. u.chain[b] = d /\ u.count[b] = Len(d)
  <2>1. u.chain[b] = d /\ u.count[b] = t.count[b] - 1
    BY <1>1, <1>2 DEF Chained
  <2>2. QED
    BY <1>3, <1>6, <2>1
<1>8. Right(b)
  BY <1>4, <1>5, <1>7
<1>9. ASSUME NEW a \in Buckets(n), a # b PROVE Right(a)
  <2>1. u.chain[a] = t.chain[a] /\ u.count[a] = t.count[a]
    BY <1>1, <1>2, <1>9 DEF Chained
  <2>2. /\ t.chain[a] \in Seq(Items) /\ IsInjective(t.chain[a])
        /\ ToSet(t.chain[a]) = Hashed(R, n, a) /\ t.count[a] = Len(t.chain[a])
    BY DEF Chained
  <2>3. Hashed(R \ {x}, n, a) = Hashed(R, n, a)
    BY <1>9 DEF Hashed, b
  <2>4. QED
    BY <2>1, <2>2, <2>3
<1>10. DOMAIN u.chain = Buckets(n) /\ DOMAIN u.count = Buckets(n)
  BY <1>2 DEF Chained
<1> HIDE DEF Right
<1>11. \A a \in Buckets(n) : Right(a)
  BY <1>8, <1>9
<1>12. Chained(u, R \ {x}, n)
  BY <1>1, <1>10, <1>11 DEF Chained, Right
<1>13. QED
  BY <1>2, <1>12 DEF u

\* HASH_DELETE: what is left, in the order in which it was.
THEOREM DeletesItem ==
    ASSUME NEW t, NEW s, Holds(t, s), NEW i \in 1 .. Len(s)
    PROVE  Holds(Delete(t, s[i]), RemoveAt(s, i))
<1> DEFINE n == Len(s)
           x == s[i]
           p == t.prev[x]
           q == t.next[x]
           v == [t EXCEPT !.tail = IF x = t.tail THEN p ELSE t.tail,
                          !.head = IF p = NoItem THEN q ELSE t.head,
                          !.next = IF p = NoItem THEN @ ELSE [@ EXCEPT ![p] = q],
                          !.prev = IF q = NoItem THEN @ ELSE [@ EXCEPT ![q] = p]]
           w == DelInBkt(v, x)
           u == [w EXCEPT !.items = @ - 1]
           r == RemoveAt(s, i)
<1>1. s \in Seq(Items) /\ IsInjective(s)
  BY DEF Holds
<1>2. /\ n \in Nat \ {0} /\ i \in 1 .. n /\ s # <<>>
      /\ \A k \in 1 .. n : s[k] \in Items /\ s[k] \in ToSet(s) /\ s[k] # NoItem
      /\ \A j, k \in 1 .. n : s[j] = s[k] => j = k
      /\ ToSet(s) \subseteq Items
  BY <1>1, ListOf
<1>3. /\ r \in Seq(Items) /\ Len(r) = n - 1 /\ IsInjective(r)
      /\ \A j \in 1 .. n - 1 : r[j] = IF j < i THEN s[j] ELSE s[j + 1]
      /\ ToSet(r) = ToSet(s) \ {x}
  BY <1>1, Without
<1>4. /\ IsTable(t) /\ t.items = n
      /\ t.head = s[1] /\ t.tail = s[n] /\ t.next \in Pointers /\ t.prev \in Pointers
      /\ \A k \in 1 .. n : /\ t.next[s[k]] = IF k = n THEN NoItem ELSE s[k + 1]
                           /\ t.prev[s[k]] = IF k = 1 THEN NoItem ELSE s[k - 1]
  BY <1>2 DEF Holds, Links
<1>5. Delete(t, x) = IF p = NoItem /\ q = NoItem THEN NoTable ELSE u
  BY DEF Delete
<1> HIDE DEF n, r
<1>6. /\ p = IF i = 1 THEN NoItem ELSE s[i - 1]
      /\ q = IF i = n THEN NoItem ELSE s[i + 1]
  BY <1>2, <1>4
<1>7. /\ (i # 1 => i - 1 \in 1 .. n /\ p = s[i - 1] /\ p # NoItem /\ p \in Items)
      /\ (i # n => i + 1 \in 1 .. n /\ q = s[i + 1] /\ q # NoItem /\ q \in Items)
      /\ (i = 1 => p = NoItem) /\ (i = n => q = NoItem)
  <2> HIDE DEF p, q
  <2>1. QED
    BY <1>2, <1>6
<1>8. CASE n = 1
  <2>1. i = 1 /\ i = n
    BY <1>8, <1>2
  <2>2. r = <<>>
    BY <1>3, <1>8
  <2>3. Delete(t, x) = NoTable
    BY <1>5, <1>7, <2>1
  <2>4. QED
    BY <1>3, <2>2, <2>3 DEF Holds, r
<1>9. CASE n # 1
  <2>1. n - 1 \in Nat \ {0} /\ ~(i = 1 /\ i = n) /\ n \in 1 .. n /\ 1 \in 1 .. n
    BY <1>2, <1>9
  <2>2. r # <<>>
    BY <1>3, <2>1
  <2> HIDE DEF p, q, x
  <2>3. Delete(t, x) = u
    BY <1>5, <1>7, <2>1
  <2>4. /\ IsTable(v) /\ v.items = n /\ v.chain = t.chain /\ v.count = t.count
        /\ v.tail = IF x = t.tail THEN p ELSE t.tail
        /\ v.head = IF p = NoItem THEN q ELSE t.head
        /\ v.next = IF p = NoItem THEN t.next ELSE [t.next EXCEPT ![p] = q]
        /\ v.prev = IF q = NoItem THEN t.prev ELSE [t.prev EXCEPT ![q] = p]
    BY <1>4 DEF IsTable, Fields
  <2> HIDE DEF v
  <2>5. v.next \in Pointers /\ v.prev \in Pointers
    <3>1. /\ p = NoItem \/ (p \in Items /\ q \in Items \cup {NoItem})
          /\ q = NoItem \/ (q \in Items /\ p \in Items \cup {NoItem})
      BY <1>2, <1>7
    <3>2. QED
      BY <1>4, <2>4, <3>1 DEF Pointers
  <2>6. x = s[i] /\ (x = t.tail <=> i = n)
    BY <1>2, <1>4, <2>1 DEF x
  <2>7. v.head = r[1] /\ v.tail = r[n - 1]
    <3>1. v.head = IF i = 1 THEN s[2] ELSE s[1]
      BY <1>4, <1>7, <2>1, <2>4
    <3>2. v.tail = IF i = n THEN s[n - 1] ELSE s[n]
      <4>1. i = n => p = s[n - 1]
        BY <1>7, <2>1
      <4>2. QED
        BY <1>4, <2>4, <2>6, <4>1
    <3>3. 1 \in 1 .. n - 1 /\ n - 1 \in 1 .. n - 1 /\ (1 < i <=> i # 1) /\ (n - 1 < i <=> i = n)
      BY <1>2, <2>1
    <3>4. r[1] = (IF i = 1 THEN s[2] ELSE s[1]) /\ r[n - 1] = IF i = n THEN s[n - 1] ELSE s[n]
      BY <1>2, <1>3, <3>3
    <3>5. QED
      BY <3>1, <3>2, <3>4
  <2>8. ASSUME NEW k \in 1 .. n, k # i
        PROVE  /\ v.next[s[k]] = IF i # 1 /\ k = i - 1 THEN q ELSE t.next[s[k]]
               /\ v.prev[s[k]] = IF i # n /\ k = i + 1 THEN p ELSE t.prev[s[k]]
    <3>1. s[k] \in Items /\ (s[k] = p <=> i # 1 /\ k = i - 1) /\ (s[k] = q <=> i # n /\ k = i + 1)
      BY <1>2, <1>7
    <3>2. (p = NoItem <=> i = 1) /\ (q = NoItem <=> i = n)
      BY <1>7
    <3>3. t.next \in [Items -> Items \cup {NoItem}] /\ t.prev \in [Items -> Items \cup {NoItem}]
      BY <1>4 DEF Pointers
    <3>4. v.next[s[k]] = IF p # NoItem /\ s[k] = p THEN q ELSE t.next[s[k]]
      BY <2>4, <3>1, <3>3
    <3>5. v.prev[s[k]] = IF q # NoItem /\ s[k] = q THEN p ELSE t.prev[s[k]]
      BY <2>4, <3>1, <3>3
    <3>6. QED
      BY <3>1, <3>2, <3>4, <3>5
  <2>9. ASSUME NEW j \in 1 .. n - 1
        PROVE  /\ v.next[r[j]] = IF j = n - 1 THEN NoItem ELSE r[j + 1]
               /\ v.prev[r[j]] = IF j = 1 THEN NoItem ELSE r[j - 1]
    <3> DEFINE k == IF j < i THEN j ELSE j + 1
    <3>1. k \in 1 .. n /\ k # i /\ r[j] = s[k]
      BY <1>2, <1>3
    <3>2. /\ v.next[r[j]] = IF i # 1 /\ k = i - 1 THEN q ELSE t.next[s[k]]
          /\ v.prev[r[j]] = IF i # n /\ k = i + 1 THEN p ELSE t.prev[s[k]]
      BY <2>8, <3>1
    <3>3. /\ t.next[s[k]] = IF k = n THEN NoItem ELSE s[k + 1]
          /\ t.prev[s[k]] = IF k = 1 THEN NoItem ELSE s[k - 1]
      BY <1>4, <3>1
    <3>4. /\ j # n - 1 => j + 1 \in 1 .. n - 1 /\ r[j + 1] = IF j + 1 < i THEN s[j + 1] ELSE s[j + 2]
          /\ j # 1 => j - 1 \in 1 .. n - 1 /\ r[j - 1] = IF j - 1 < i THEN s[j - 1] ELSE s[j]
      BY <1>2, <1>3
    <3>5. v.next[r[j]] = IF j = n - 1 THEN NoItem ELSE r[j + 1]
      BY <1>2, <1>6, <3>2, <3>3, <3>4
    <3>6. v.prev[r[j]] = IF j = 1 THEN NoItem ELSE r[j - 1]
      BY <1>2, <1>6, <3>2, <3>3, <3>4
    <3>7. QED
      BY <3>5, <3>6
  <2>10. Links(v, r)
    BY <1>3, <2>5, <2>7, <2>9 DEF Links
  <2>11. PICK m : Chained(t, ToSet(s), m)
    BY <1>2 DEF Holds
  <2>12. Chained(v, ToSet(s), m)
    BY <2>4, <2>11 DEF Chained
  <2>13. IsTable(w) /\ SameList(v, w) /\ Chained(w, ToSet(s) \ {x}, m)
    BY <1>2, <2>4, <2>6, <2>12, DelInBktKeeps
  <2> HIDE DEF w
  <2>14. /\ IsTable(u) /\ u.items = n - 1 /\ u.chain = w.chain /\ u.count = w.count
         /\ u.head = v.head /\ u.tail = v.tail /\ u.next = v.next /\ u.prev = v.prev
    BY <2>4, <2>13 DEF IsTable, Fields, SameList
  <2> HIDE DEF u
  <2>15. Links(u, r) /\ Chained(u, ToSet(r), m)
    <3>1. Links(u, r)
      BY <2>10, <2>14 DEF Links
    <3>2. Chained(u, ToSet(s) \ {x}, m)
      BY <2>13, <2>14 DEF Chained
    <3>3. QED
      BY <1>3, <3>1, <3>2
  <2>16. Holds(u, r)
    BY <1>3, <2>2, <2>14, <2>15 DEF Holds
  <2>17. QED
    BY <2>3, <2>16 DEF r, x
<1>10. QED
  BY <1>8, <1>9

\* HASH_FIND: an item with this key, if there is one.
THEOREM FindsItem ==
    ASSUME NEW t, NEW s, Holds(t, s), NEW key, HashOf(key) \in Nat
    PROVE  IF \E x \in ToSet(s) : KeyOf(x) = key
           THEN FindKey(t, key) \in ToSet(s) /\ KeyOf(FindKey(t, key)) = key
           ELSE FindKey(t, key) = NoItem
<1>1. s \in Seq(Items) /\ IsInjective(s)
  BY DEF Holds
<1>2. CASE s = <<>>
  <2>1. ToSet(s) = {} /\ FindKey(t, key) = NoItem
    BY <1>1, <1>2, HasHead DEF ToSet, FindKey
  <2>2. QED
    BY <2>1
<1>3. CASE s # <<>>
  <2>1. PICK n : Chained(t, ToSet(s), n)
    BY <1>3 DEF Holds
  <2>2. Size(t) = n /\ n \in Nat \ {0} /\ ToSet(s) \subseteq Items /\ t.head # NoItem
    BY <1>1, <1>3, <2>1, SizeIs, ListOf, HasHead
  <2> DEFINE b == HashOf(key) % n
             c == t.chain[b]
             T == {x \in Items : KeyOf(x) = key}
             f == Filter(c, T)
  <2>3. b \in Buckets(n)
    BY <2>2, DivMod DEF Buckets
  <2>4. c \in Seq(Items) /\ ToSet(c) = Hashed(ToSet(s), n, b)
    BY <2>1, <2>3 DEF Chained
  <2>5. f \in Seq(Items) /\ ToSet(f) = ToSet(c) \cap T
    BY <2>4, FilterIs
  <2>6. FindKey(t, key) = IF f = <<>> THEN NoItem ELSE f[1]
    BY <2>2 DEF FindKey, FindInBkt
  <2>7. ToSet(f) = {x \in ToSet(s) : KeyOf(x) = key}
    BY <2>2, <2>4, <2>5 DEF Hashed, ToBkt
  <2> HIDE DEF f
  <2>8. f = <<>> => ToSet(f) = {}
    BY <2>5 DEF ToSet
  <2>9. f # <<>> => f[1] \in ToSet(f)
    BY <2>5 DEF ToSet
  <2>10. QED
    BY <2>6, <2>7, <2>8, <2>9
<1>4. QED
  BY <1>2, <1>3

\* HASH_REPLACE puts an item that is not in the table at the end, in the place of the one
\* with the same key, if there is one.
THEOREM ReplacesItem ==
    ASSUME NEW t, NEW s, Holds(t, s), NEW x \in Items \ ToSet(s)
    PROVE  IF \E y \in ToSet(s) : KeyOf(y) = KeyOf(x)
           THEN \E i \in 1 .. Len(s) : /\ KeyOf(s[i]) = KeyOf(x)
                                       /\ Holds(Replace(t, x), Append(RemoveAt(s, i), x))
           ELSE Holds(Replace(t, x), Append(s, x))
<1> DEFINE old == FindKey(t, KeyOf(x))
<1>1. s \in Seq(Items) /\ IsInjective(s) /\ HashOf(KeyOf(x)) \in Nat
  BY UtHashAssumption DEF Holds
<1>2. ToSet(s) \subseteq Items /\ NoItem \notin Items
  BY <1>1, ListOf, UtHashAssumption
<1>3. IF \E y \in ToSet(s) : KeyOf(y) = KeyOf(x)
      THEN old \in ToSet(s) /\ KeyOf(old) = KeyOf(x) ELSE old = NoItem
  BY <1>1, FindsItem
<1>4. Replace(t, x) = Add(IF old = NoItem THEN t ELSE Delete(t, old), x)
  BY DEF Replace
<1> HIDE DEF old
<1>5. CASE \E y \in ToSet(s) : KeyOf(y) = KeyOf(x)
  <2>1. old \in ToSet(s) /\ KeyOf(old) = KeyOf(x) /\ old # NoItem
    BY <1>2, <1>3, <1>5
  <2>2. PICK i \in 1 .. Len(s) : s[i] = old
    BY <1>1, <2>1, ListOf
  <2>3. Holds(Delete(t, old), RemoveAt(s, i))
    BY <2>2, DeletesItem
  <2>4. x \notin ToSet(RemoveAt(s, i))
    <3>1. ToSet(RemoveAt(s, i)) \subseteq ToSet(s)
      BY <1>1, Without
    <3>2. QED
      BY <3>1
  <2>5. Holds(Add(Delete(t, old), x), Append(RemoveAt(s, i), x))
    BY <2>3, <2>4, AddsItem
  <2>6. Replace(t, x) = Add(Delete(t, old), x)
    BY <1>4, <2>1
  <2>7. KeyOf(s[i]) = KeyOf(x)
    BY <2>1, <2>2
  <2>8. QED
    BY <1>5, <2>5, <2>6, <2>7
<1>6. CASE ~\E y \in ToSet(s) : KeyOf(y) = KeyOf(x)
  <2>1. Replace(t, x) = Add(t, x)
    BY <1>3, <1>4, <1>6
  <2>2. Holds(Add(t, x), Append(s, x))
    BY AddsItem
  <2>3. QED
    BY <1>6, <2>1, <2>2
<1>7. QED
  BY <1>5, <1>6

-----------------------------------------------------------------------------
(***************************************************************************)
(* HASH_ITER and HASH_FSCK.                                                *)
(***************************************************************************)
\* HASH_ITER: the items in the order in which they were added.
THEOREM IteratesInOrder ==
    ASSUME NEW t, NEW s, Holds(t, s)
    PROVE  Order(t) = s
<1> DEFINE n == Len(s)
           C == Cardinality(Items)
           B(g, k) == IF k = 0 THEN t.head
                      ELSE IF g[k - 1] = NoItem THEN NoItem ELSE t.next[g[k - 1]]
           V(k) == IF k < n THEN s[k + 1] ELSE NoItem
           g == [k \in 0 .. C |-> V(k)]
           f == CHOOSE h : h = [k \in 0 .. C |-> B(h, k)]
           z == [k \in 1 .. C + 1 |-> f[k - 1]]
<1>1. s \in Seq(Items) /\ IsInjective(s)
  BY DEF Holds
<1>2. /\ n \in Nat /\ \A k \in 1 .. n : s[k] \in Items /\ s[k] # NoItem
      /\ ToSet(s) \subseteq Items
  BY <1>1, ListOf
<1>3. C \in Nat /\ n <= C
  <2>1. IsFiniteSet(Items) /\ Cardinality(ToSet(s)) = n
    BY <1>1, Listed, UtHashAssumption
  <2>2. QED
    BY <1>2, <2>1, FS_Subset, FS_CardinalityType
<1>4. t.head = V(0)
  <2>1. n = 0 <=> s = <<>>
    BY <1>1
  <2>2. QED
    BY <1>1, <1>2, <2>1, HasHead
<1>5. ASSUME NEW k \in 1 .. n PROVE t.next[s[k]] = V(k)
  <2>1. s # <<>>
    BY <1>1
  <2>2. QED
    BY <1>2, <2>1 DEF Holds, Links
<1> HIDE DEF n, C
<1>6. ASSUME NEW k \in 0 .. C PROVE B(g, k) = V(k)
  <2>1. CASE k = 0
    BY <1>4, <2>1
  <2>2. CASE k # 0
    <3>1. k - 1 \in 0 .. C /\ g[k - 1] = V(k - 1)
      BY <1>3, <2>2
    <3>2. CASE k - 1 < n
      <4>1. k \in 1 .. n /\ V(k - 1) = s[k] /\ s[k] # NoItem
        BY <1>2, <1>3, <2>2, <3>2
      <4>2. QED
        BY <1>5, <2>2, <3>1, <4>1
    <3>3. CASE ~(k - 1 < n)
      <4>1. V(k - 1) = NoItem /\ V(k) = NoItem
        BY <1>2, <1>3, <3>3
      <4>2. QED
        BY <2>2, <3>1, <4>1
    <3>4. QED
      BY <3>2, <3>3
  <2>3. QED
    BY <2>1, <2>2
<1>7. g = [k \in 0 .. C |-> B(g, k)]
  BY <1>6
<1>8. f = [k \in 0 .. C |-> B(f, k)]
  <2> HIDE DEF g, B
  <2>1. QED
    BY <1>7
<1>9. Order(t) = Filter(z, Items)
  BY DEF Order, Walk, C
<1> HIDE DEF f
<1> DEFINE P == {k \in 0 .. C : f[k] = V(k)}
<1>10. 0 \in P
  BY <1>3, <1>4, <1>8
<1>11. ASSUME NEW k \in 1 .. C, k - 1 \in P PROVE k \in P
  <2>1. f[k - 1] = g[k - 1] /\ k \in 0 .. C /\ k # 0
    BY <1>3, <1>11
  <2>2. B(f, k) = B(g, k)
    BY <2>1
  <2> HIDE DEF B
  <2>3. f[k] = B(f, k)
    BY <1>8, <2>1
  <2>4. QED
    BY <1>6, <2>1, <2>2, <2>3
<1> HIDE DEF P
<1>12. 0 .. C \subseteq P
  BY <1>3, <1>10, <1>11, UpTo
<1>13. \A k \in 1 .. C + 1 : z[k] = V(k - 1)
  <2>1. \A k \in 1 .. C + 1 : k - 1 \in 0 .. C
    BY <1>3
  <2>2. QED
    BY <1>12, <2>1 DEF P
<1>14. /\ z \in Seq(Items \cup {NoItem}) /\ Len(z) = C + 1
       /\ \A k \in 1 .. n : z[k] = s[k]
       /\ \A k \in 1 .. Len(z) : z[k] \in Items <=> k <= n
  <2>1. Len(z) = C + 1
    BY <1>3
  <2>2. ASSUME NEW k \in 1 .. C + 1
        PROVE z[k] = IF k <= n THEN s[k] ELSE NoItem
    BY <1>2, <1>3, <1>13
  <2>3. \A k \in 1 .. C + 1 : k <= n => k \in 1 .. n
    BY <1>2, <1>3
  <2>4. \A k \in 1 .. n : k \in 1 .. C + 1 /\ k <= n
    BY <1>2, <1>3
  <2>5. NoItem \notin Items
    BY UtHashAssumption
  <2>6. \A k \in 1 .. C + 1 : z[k] \in Items \cup {NoItem}
    BY <1>2, <2>2, <2>3
  <2>7. z \in Seq(Items \cup {NoItem})
    BY <1>3, <2>6
  <2> HIDE DEF z
  <2>8. QED
    BY <1>2, <2>1, <2>2, <2>3, <2>4, <2>5, <2>7
<1> HIDE DEF z
<1>15. n \in 0 .. Len(z)
  BY <1>2, <1>3, <1>14
<1>16. Filter(z, Items) = SubSeq(z, 1, n)
  <2> DEFINE S == Items \cup {NoItem}
  <2>1. z \in Seq(S)
    BY <1>14
  <2> HIDE DEF S
  <2>2. QED
    BY <1>14, <1>15, <2>1, FilterPrefix
<1>17. SubSeq(z, 1, n) = s
  <2> DEFINE r == SubSeq(z, 1, n)
  <2>1. /\ r \in Seq(Items \cup {NoItem}) /\ Len(r) = n
        /\ \A k \in 1 .. n : r[k] = z[k]
    BY <1>14, <1>15
  <2> HIDE DEF r
  <2>2. s \in Seq(Items \cup {NoItem}) /\ Len(s) = n
    BY <1>1, <1>2 DEF n
  <2>3. r = s
    BY <1>14, <2>1, <2>2, SeqEqual
  <2>4. QED
    BY <2>3 DEF r
<1>18. QED
  BY <1>9, <1>16, <1>17

\* HASH_FSCK finds nothing to complain about.
THEOREM FsckPasses ==
    ASSUME NEW t, NEW s, Holds(t, s)
    PROVE  Fsck(t)
<1>1. s \in Seq(Items) /\ IsInjective(s) /\ Order(t) = s
  BY IteratesInOrder DEF Holds
<1>2. CASE s = <<>>
  BY <1>2, HasHead DEF Fsck
<1>3. CASE s # <<>>
  <2>1. /\ Len(s) \in Nat /\ DOMAIN s = 1 .. Len(s)
        /\ Links(t, s) /\ t.items = Len(s)
    BY <1>1, <1>3, ListOf DEF Holds
  <2>2. PICK n : Chained(t, ToSet(s), n)
    BY <1>3 DEF Holds
  <2>3. /\ DOMAIN t.chain = Buckets(n) /\ DOMAIN t.count = Buckets(n)
        /\ \A b \in Buckets(n) :
             /\ t.chain[b] \in Seq(Items) /\ IsInjective(t.chain[b])
             /\ ToSet(t.chain[b]) = Hashed(ToSet(s), n, b)
             /\ t.count[b] = Len(t.chain[b])
    BY <2>2 DEF Chained
  <2> DEFINE Q == Places(t)
             R == ToSet(s)
             f == [q \in Q |-> t.chain[q[1]][q[2]]]
  <2>4. \A q : q \in Q <=> \E b \in Buckets(n) : \E i \in 1 .. Len(t.chain[b]) : q = <<b, i>>
    BY <2>3 DEF Places
  <2> HIDE DEF Q
  <2>5. ASSUME NEW q \in Q
        PROVE  /\ q = <<q[1], q[2]>> /\ q[1] \in Buckets(n) /\ q[2] \in 1 .. Len(t.chain[q[1]])
               /\ f[q] = t.chain[q[1]][q[2]]
               /\ f[q] \in R /\ ToBkt(f[q], n) = q[1]
    <3>0. PICK b \in Buckets(n) : \E i \in 1 .. Len(t.chain[b]) : q = <<b, i>>
      BY <2>4
    <3>1. PICK i \in 1 .. Len(t.chain[b]) : q = <<b, i>>
      BY <3>0
    <3>2. q[1] = b /\ q[2] = i
      BY <3>1
    <3>3. t.chain[b][i] \in ToSet(t.chain[b])
      BY <2>3, ListOf
    <3>4. t.chain[b][i] \in R /\ ToBkt(t.chain[b][i], n) = b
      BY <2>3, <3>3 DEF Hashed
    <3>5. QED
      BY <3>1, <3>2, <3>4
  <2>6. f \in [Q -> R]
    BY <2>5
  <2> HIDE DEF f
  <2>7. ASSUME NEW q \in Q, NEW r \in Q, f[q] = f[r] PROVE q = r
    <3>1. q[1] = r[1]
      BY <2>5, <2>7
    <3> DEFINE c == t.chain[q[1]]
    <3>2. \A i, j \in 1 .. Len(c) : c[i] = c[j] => i = j
      BY <2>3, <2>5, ListOf
    <3>3. c[q[2]] = c[r[2]] /\ q[2] \in 1 .. Len(c) /\ r[2] \in 1 .. Len(c)
      BY <2>5, <2>7, <3>1
    <3> HIDE DEF c
    <3>4. q[2] = r[2]
      BY <3>2, <3>3
    <3>5. QED
      BY <2>5, <3>1, <3>4
  <2>8. ASSUME NEW x \in R PROVE \E q \in Q : f[q] = x
    <3> DEFINE b == ToBkt(x, n)
    <3>1. x \in Items /\ b \in Buckets(n)
      BY <1>1, <2>2, ListOf, SizeIs, BucketIs
    <3>2. x \in ToSet(t.chain[b])
      BY <2>3, <3>1 DEF Hashed
    <3>3. PICK i \in 1 .. Len(t.chain[b]) : x = t.chain[b][i]
      BY <2>3, <3>1, <3>2, ListOf
    <3> HIDE DEF b
    <3>4. <<b, i>> \in Q
      BY <2>4, <3>1
    <3>5. f[<<b, i>>] = x
      BY <2>5, <3>3, <3>4
    <3>6. QED
      BY <3>4, <3>5
  <2>9. f \in Bijection(Q, R)
    BY <2>6, <2>7, <2>8 DEF Bijection, Injection, Surjection, IsInjective
  <2>10. ExistsBijection(Q, R)
    BY <2>9 DEF ExistsBijection
  <2>11. IsFiniteSet(R) /\ Cardinality(R) = Len(s)
    BY <1>1, Listed
  <2>12. Cardinality(Q) = Len(s)
    <3>1. f \in Injection(Q, R)
      BY <2>9 DEF Bijection
    <3>2. IsFiniteSet(Q)
      BY <2>11, <3>1, FS_Injection
    <3>3. QED
      BY <2>10, <2>11, <3>2, FS_Bijection
  <2>13. t.items = Cardinality(Places(t))
    BY <2>1, <2>12 DEF Q
  <2>14. \A i \in DOMAIN s : t.prev[s[i]] = IF i = 1 THEN NoItem ELSE s[i - 1]
    BY <2>1 DEF Links
  <2>15. \A b \in DOMAIN t.chain : t.count[b] = Len(t.chain[b])
    BY <2>3
  <2>16. QED
    BY <1>1, <2>1, <2>13, <2>14, <2>15 DEF Fsck
<1>4. QED
  BY <1>2, <1>3

-----------------------------------------------------------------------------
(***************************************************************************)
(* The machine of one function: what its steps do to what is held, to the  *)
(* routes that the table holds and to the answer of the request r, in the  *)
(* program p.  A configuration is safe if it is one of a set of            *)
(* configurations that are all good and whose steps do not lead out of it. *)
(***************************************************************************)
Programs  == {"apptpl", "apptpl2", "cpptpl"}
NoRequest == [cmd |-> "", path |-> ""]

K(ph, td, h, ls, co, fa) ==
    [phase |-> ph, todo |-> td, held |-> h, list |-> ls, codes |-> co, failed |-> fa]

Follow(p, r, ph, td, h, ls, co, fa) ==
    LET s == td[1]
        t == Tail(td)
    IN  CASE s.op = "get"   -> {K(ph, t, h \cup {s.x}, ls, co, fa), K(ph, s.otherwise, h, ls, co, TRUE)}
          [] s.op = "need"  -> {K(ph, t, h \cup {s.x}, ls, co, fa), K("crashed", <<>>, h, ls, co, fa)}
          [] s.op = "try"   -> {K(ph, t, h \cup {s.x}, ls, co, fa), K(ph, t, h, ls, co, fa)}
          [] s.op = "check" -> {K(ph, t, h, ls, co, fa), K(ph, s.otherwise, h, ls, co, TRUE)}
          [] s.op = "grow"  -> {K(ph, t, h, ls, co, fa),
                                K(ph, s.otherwise, (h \ {s.x}) \cup {"lost"}, ls, co, TRUE)}
          [] s.op \in {"free", "drop"} -> {K(ph, t, h \ {s.x}, ls, co, fa)}
          [] s.op = "send"  -> {K(ph, t, h, ls, Append(co, s.code), fa)}
          [] s.op = "link"  -> {K(ph, t, h, Append(ls, s.x), co, fa), K("crashed", <<>>, h, ls, co, fa)}
          [] s.op = "unlink" ->
               {IF ls = <<>> THEN K(ph, t, h, ls, co, fa)
                ELSE K(ph, <<Unlink(IF Len(ls) = 1 THEN NoItem ELSE ls[2])>> \o t,
                       h \ {ls[1]}, Tail(ls), co, fa)}
          [] s.op = "only"  -> {K(ph, IF r.cmd = "GET" THEN t ELSE s.otherwise, h, ls, co, fa)}
          [] s.op = "find"  ->
               {K(ph, IF r.path \in ToSet(RoutesOf(p)) THEN Callback(p, r.path) ELSE NotFound,
                  h, ls, co, fa)}
          [] s.op = "loop"  -> {K("loop", t, h, ls, co, fa)}
          [] s.op = "close" -> {K("end", t, h, ls, co, fa)}
          [] s.op = "join"  -> {K(ph, t, h, ls, co, fa)}
          [] s.op = "exit"  -> {K("exited", <<>>, h, ls, co, fa)}
          [] OTHER -> {}

Succ(p, r, k) ==
    IF k.todo = <<>> THEN {}
    ELSE Follow(p, r, k.phase, k.todo, k.held, k.list, k.codes, k.failed)

\* What is left from a request, what a running program keeps, and what it may hold beside that.
ForgottenOf(p) == {"lost"} \cup (IF p = "apptpl2" THEN {"text"} ELSE {})
KeptOf(p)  == Server \cup ToSet(RoutesOf(p)) \cup (IF p = "apptpl2" THEN {"chan"} ELSE {})
ExtraOf(p) == {"ssl"} \cup (IF p = "apptpl2" THEN {"redis"} ELSE {})
Steady(p, h) == KeptOf(p) \subseteq h /\ h \subseteq KeptOf(p) \cup ForgottenOf(p) \cup ExtraOf(p)
Registered == {"sigint", "sigterm", "timer", "httpd", "redis"}

\* The answer that a request has in the end.
RightAnswer(p, r) ==
    IF Has(p, r.path) /\ (r.cmd = "GET" \/ TakesHead(p, r.path)) THEN 200 ELSE 404
Right(p, r, co, fa) ==
    IF r.cmd \notin {"GET", "HEAD"} THEN co = <<>>
    ELSE /\ Len(co) = 1
         /\ IF fa THEN co[1] \in {400, 404, 500} ELSE co = <<RightAnswer(p, r)>>

Ready(k) ==
    LET s == k.todo[1] IN
    /\ s.op = "free" => s.x \in k.held
    /\ s.op \in {"send", "only", "find", "grow"} => k.phase = "loop"
    /\ s.op = "link" => s.x \in Items \ ToSet(k.list)
    /\ s.op = "unlink" => s.x \in {"head", IF k.list = <<>> THEN NoItem ELSE k.list[1]}
    /\ s.op = "loop" => Tail(k.todo) = <<>>
    /\ s.op = "close" => k.phase = "start"

FirstOf(p, n) == SubSeq(RoutesOf(p), 1, n)
RestOf(p, n) == SubSeq(RoutesOf(p), n + 1, Len(RoutesOf(p)))
Some(p)    == 0 .. Len(RoutesOf(p))

Good(p, r, k) ==
    /\ k.phase \in {"start", "loop", "end", "exited", "crashed"}
    /\ k.phase \in {"exited", "crashed"} => k.todo = <<>>
    /\ k.todo # <<>> => Ready(k)
    /\ k.phase = "loop" => KeptOf(p) \subseteq k.held /\ k.list = RoutesOf(p)
    /\ k.phase = "loop" /\ k.todo = <<>> => Steady(p, k.held) /\ Right(p, r, k.codes, k.failed)
    /\ k.phase = "exited" => /\ k.held \subseteq ForgottenOf(p) \cup Items
                             /\ k.list = <<>> => k.held \subseteq ForgottenOf(p)
    /\ k.held \cap Registered # {} => "base" \in k.held
    /\ ToSet(k.list) \subseteq k.held
    /\ IF k.phase = "end" THEN \E n \in Some(p) : k.list = RestOf(p, n)
                          ELSE \E n \in Some(p) : k.list = FirstOf(p, n)

Closed(p, r, C) == \A k \in C : Good(p, r, k) /\ Succ(p, r, k) \subseteq C
Safe(p, r, k) == \E C : k \in C /\ Closed(p, r, C)

\* What is safe is good, and stays safe.
LEMMA SafeSteps ==
    ASSUME NEW p, NEW r, NEW k, Safe(p, r, k)
    PROVE  Good(p, r, k) /\ \A l \in Succ(p, r, k) : Safe(p, r, l)
BY DEF Safe, Closed

\* What is good and leads to what is safe is safe.
LEMMA SafeBefore ==
    ASSUME NEW p, NEW r, NEW k, Good(p, r, k), \A l \in Succ(p, r, k) : Safe(p, r, l)
    PROVE  Safe(p, r, k)
<1> DEFINE W(l) == CHOOSE C : l \in C /\ Closed(p, r, C)
           D == {k} \cup UNION {W(l) : l \in Succ(p, r, k)}
<1>1. ASSUME NEW l \in Succ(p, r, k) PROVE l \in W(l) /\ Closed(p, r, W(l))
  BY DEF Safe
<1> HIDE DEF W
<1>2. Succ(p, r, k) \subseteq D
  BY <1>1
<1>3. ASSUME NEW m \in D PROVE Good(p, r, m) /\ Succ(p, r, m) \subseteq D
  <2>1. CASE m = k
    BY <1>2, <2>1
  <2>2. CASE m # k
    <3>1. PICK l \in Succ(p, r, k) : m \in W(l)
      BY <2>2
    <3>2. Good(p, r, m) /\ Succ(p, r, m) \subseteq W(l)
      BY <1>1, <3>1 DEF Closed
    <3>3. QED
      BY <3>2
  <2>3. QED
    BY <2>1, <2>2
<1> HIDE DEF D
<1>4. Closed(p, r, D)
  BY <1>3 DEF Closed
<1>5. k \in D
  BY DEF D
<1>6. QED
  BY <1>4, <1>5 DEF Safe

\* The same, one step of a list at a time.
LEMMA SafeStep ==
    ASSUME NEW p, NEW r, NEW ph, NEW td, NEW h, NEW ls, NEW co, NEW fa, td # <<>>,
           Good(p, r, K(ph, td, h, ls, co, fa)),
           \A l \in Follow(p, r, ph, td, h, ls, co, fa) : Safe(p, r, l)
    PROVE  Safe(p, r, K(ph, td, h, ls, co, fa))
<1> DEFINE k == K(ph, td, h, ls, co, fa)
<1>1. /\ k.phase = ph /\ k.todo = td /\ k.held = h /\ k.list = ls /\ k.codes = co
      /\ k.failed = fa
  BY DEF K
<1> HIDE DEF k
<1>2. Succ(p, r, k) = Follow(p, r, ph, td, h, ls, co, fa)
  BY <1>1 DEF Succ
<1>3. Good(p, r, k)
  BY DEF k
<1>4. Safe(p, r, k)
  BY <1>2, <1>3, SafeBefore
<1>5. QED
  BY <1>4 DEF k

\* A function that is done.
LEMMA SafeEnd ==
    ASSUME NEW p, NEW r, NEW ph, NEW h, NEW ls, NEW co, NEW fa,
           Good(p, r, K(ph, <<>>, h, ls, co, fa))
    PROVE  Safe(p, r, K(ph, <<>>, h, ls, co, fa))
<1>1. Succ(p, r, K(ph, <<>>, h, ls, co, fa)) = {}
  BY DEF Succ, K
<1>2. QED
  BY <1>1, SafeBefore

\* The routes of a program are different items.
LEMMA RoutesAre ==
    ASSUME NEW p \in Programs
    PROVE  /\ RoutesOf(p) \in Seq(Items) /\ IsInjective(RoutesOf(p)) /\ RoutesOf(p) # <<>>
           /\ ToSet(RoutesOf(p)) \subseteq {"/", "/help", "/status", "/version", "/stats", "/config", "/dump"}
           /\ {"/", "/status", "/version", "/stats", "/config"} \subseteq ToSet(RoutesOf(p))
           /\ p = "apptpl" => {"/help", "/dump"} \subseteq ToSet(RoutesOf(p))
           /\ p = "apptpl2" => ToSet(RoutesOf(p)) \cap {"/help", "/dump"} = {}
           /\ p = "cpptpl" => "/dump" \in ToSet(RoutesOf(p)) /\ "/help" \notin ToSet(RoutesOf(p))
<1> DEFINE R == RoutesOf(p)
<1>1. ToSet(R) \subseteq Items
  BY HttpApiAssumption DEF Programs
<1>2. CASE p = "apptpl"
  <2>1. R = <<"/", "/help", "/status", "/version", "/stats", "/config", "/dump">>
    BY <1>2 DEF RoutesOf, ApptplRoutes
  <2> HIDE DEF R
  <2>2. ToSet(R) = {"/", "/help", "/status", "/version", "/stats", "/config", "/dump"}
    BY <2>1 DEF ToSet
  <2>3. IsInjective(R)
    BY <2>1 DEF IsInjective
  <2>4. R \in Seq(Items) /\ R # <<>>
    BY <1>1, <2>1, <2>2
  <2>5. QED
    BY <1>2, <2>2, <2>3, <2>4 DEF R
<1>3. CASE p = "apptpl2"
  <2>1. R = <<"/", "/status", "/version", "/stats", "/config">>
    BY <1>3 DEF RoutesOf, Apptpl2Routes
  <2> HIDE DEF R
  <2>2. ToSet(R) = {"/", "/status", "/version", "/stats", "/config"}
    BY <2>1 DEF ToSet
  <2>3. IsInjective(R)
    BY <2>1 DEF IsInjective
  <2>4. R \in Seq(Items) /\ R # <<>>
    BY <1>1, <2>1, <2>2
  <2>5. QED
    BY <1>3, <2>2, <2>3, <2>4 DEF R
<1>4. CASE p = "cpptpl"
  <2>1. R = <<"/", "/status", "/version", "/stats", "/config", "/dump">>
    BY <1>4 DEF RoutesOf, CppRoutes
  <2> HIDE DEF R
  <2>2. ToSet(R) = {"/", "/status", "/version", "/stats", "/config", "/dump"}
    BY <2>1 DEF ToSet
  <2>3. IsInjective(R)
    BY <2>1 DEF IsInjective
  <2>4. R \in Seq(Items) /\ R # <<>>
    BY <1>1, <2>1, <2>2
  <2>5. QED
    BY <1>4, <2>2, <2>3, <2>4 DEF R
<1>5. QED
  BY <1>2, <1>3, <1>4 DEF Programs

\* All of the routes are a beginning of them.
LEMMA AllRoutes ==
    ASSUME NEW p \in Programs
    PROVE  \E n \in Some(p) : RoutesOf(p) = FirstOf(p, n)
<1> DEFINE R == RoutesOf(p)
<1>1. R \in Seq(Items)
  BY RoutesAre
<1> HIDE DEF R
<1>2. Len(R) \in 0 .. Len(R) /\ SubSeq(R, 1, Len(R)) = R
  BY <1>1, SubSeqFull
<1>3. QED
  BY <1>2 DEF R, FirstOf, Some

-----------------------------------------------------------------------------
(***************************************************************************)
(* Requests.                                                               *)
(***************************************************************************)
InLoop(p, r, td, h, co, fa) == Safe(p, r, K("loop", td, h, RoutesOf(p), co, fa))

\* Between two requests.
LEMMA Waits ==
    ASSUME NEW p \in Programs, NEW r, NEW h, NEW co, NEW fa,
           Steady(p, h), Right(p, r, co, fa)
    PROVE  InLoop(p, r, <<>>, h, co, fa)
<1>1. Good(p, r, K("loop", <<>>, h, RoutesOf(p), co, fa))
  <2>1. KeptOf(p) \subseteq h /\ "base" \in h /\ ToSet(RoutesOf(p)) \subseteq h
    BY DEF Steady, KeptOf, Server
  <2>2. QED
    BY <2>1, AllRoutes DEF Good, K
<1>2. QED
  BY <1>1, SafeEnd DEF InLoop

\* A process that crashes while it serves.
LEMMA Crashes ==
    ASSUME NEW p \in Programs, NEW r, NEW h, NEW co, NEW fa, KeptOf(p) \subseteq h
    PROVE  Safe(p, r, K("crashed", <<>>, h, RoutesOf(p), co, fa))
<1>1. Good(p, r, K("crashed", <<>>, h, RoutesOf(p), co, fa))
  <2>1. "base" \in h /\ ToSet(RoutesOf(p)) \subseteq h
    BY DEF KeptOf, Server
  <2>2. QED
    BY <2>1, AllRoutes DEF Good, K
<1>2. QED
  BY <1>1, SafeEnd

\* One step of a request.
LEMMA InLoopStep ==
    ASSUME NEW p \in Programs, NEW r, NEW td, NEW h, NEW co, NEW fa,
           td # <<>>, KeptOf(p) \subseteq h,
           td[1].op = "free" => td[1].x \in h,
           td[1].op \notin {"link", "unlink", "loop", "close"},
           \A l \in Follow(p, r, "loop", td, h, RoutesOf(p), co, fa) : Safe(p, r, l)
    PROVE  InLoop(p, r, td, h, co, fa)
<1>1. "base" \in h /\ ToSet(RoutesOf(p)) \subseteq h
  BY DEF KeptOf, Server
<1>2. Good(p, r, K("loop", td, h, RoutesOf(p), co, fa))
  BY <1>1, AllRoutes DEF Good, K, Ready
<1>3. QED
  BY <1>2, SafeStep DEF InLoop

\* Its steps, by what they do.
LEMMA LoopGet ==
    ASSUME NEW p \in Programs, NEW r, NEW td, NEW h, NEW co, NEW fa, NEW x, NEW other,
           td # <<>>, KeptOf(p) \subseteq h, td[1] = Get(x, other),
           InLoop(p, r, Tail(td), h \cup {x}, co, fa), InLoop(p, r, other, h, co, TRUE)
    PROVE  InLoop(p, r, td, h, co, fa)
<1>1. Follow(p, r, "loop", td, h, RoutesOf(p), co, fa) =
        {K("loop", Tail(td), h \cup {x}, RoutesOf(p), co, fa), K("loop", other, h, RoutesOf(p), co, TRUE)}
  BY DEF Follow, Get
<1>2. td[1].op = "get"
  BY DEF Get
<1>3. \A l \in Follow(p, r, "loop", td, h, RoutesOf(p), co, fa) : Safe(p, r, l)
  BY <1>1 DEF InLoop
<1>4. QED
  BY <1>2, <1>3, InLoopStep

\* An allocation that is not checked.
LEMMA LoopNeed ==
    ASSUME NEW p \in Programs, NEW r, NEW td, NEW h, NEW co, NEW fa, NEW x,
           td # <<>>, KeptOf(p) \subseteq h, td[1] = Need(x),
           InLoop(p, r, Tail(td), h \cup {x}, co, fa)
    PROVE  InLoop(p, r, td, h, co, fa)
<1>1. Follow(p, r, "loop", td, h, RoutesOf(p), co, fa) =
        {K("loop", Tail(td), h \cup {x}, RoutesOf(p), co, fa),
         K("crashed", <<>>, h, RoutesOf(p), co, fa)}
  BY DEF Follow, Need
<1>2. td[1].op = "need"
  BY DEF Need
<1>3. \A l \in Follow(p, r, "loop", td, h, RoutesOf(p), co, fa) : Safe(p, r, l)
  BY <1>1, Crashes DEF InLoop
<1>4. QED
  BY <1>2, <1>3, InLoopStep

\* Memory that should grow.
LEMMA LoopGrow ==
    ASSUME NEW p \in Programs, NEW r, NEW td, NEW h, NEW co, NEW fa, NEW x, NEW other,
           td # <<>>, KeptOf(p) \subseteq h, td[1] = Grow(x, other),
           InLoop(p, r, Tail(td), h, co, fa),
           InLoop(p, r, other, (h \ {x}) \cup {"lost"}, co, TRUE)
    PROVE  InLoop(p, r, td, h, co, fa)
<1>1. Follow(p, r, "loop", td, h, RoutesOf(p), co, fa) =
        {K("loop", Tail(td), h, RoutesOf(p), co, fa),
         K("loop", other, (h \ {x}) \cup {"lost"}, RoutesOf(p), co, TRUE)}
  BY DEF Follow, Grow
<1>2. td[1].op = "grow"
  BY DEF Grow
<1>3. \A l \in Follow(p, r, "loop", td, h, RoutesOf(p), co, fa) : Safe(p, r, l)
  BY <1>1 DEF InLoop
<1>4. QED
  BY <1>2, <1>3, InLoopStep

\* What is released.
LEMMA LoopFree ==
    ASSUME NEW p \in Programs, NEW r, NEW td, NEW h, NEW co, NEW fa, NEW x,
           td # <<>>, KeptOf(p) \subseteq h, td[1] = Free(x), x \in h,
           InLoop(p, r, Tail(td), h \ {x}, co, fa)
    PROVE  InLoop(p, r, td, h, co, fa)
<1>1. td[1].op \in {"free", "drop"} /\ td[1].x = x /\ (td[1].op = "free" => x \in h)
  BY DEF Free, Drop
<1>2. Follow(p, r, "loop", td, h, RoutesOf(p), co, fa) =
        {K("loop", Tail(td), h \ {x}, RoutesOf(p), co, fa)}
  BY <1>1 DEF Follow
<1>3. \A l \in Follow(p, r, "loop", td, h, RoutesOf(p), co, fa) : Safe(p, r, l)
  BY <1>2 DEF InLoop
<1>4. QED
  BY <1>1, <1>3, InLoopStep

\* What is released if it is there.
LEMMA LoopDrop ==
    ASSUME NEW p \in Programs, NEW r, NEW td, NEW h, NEW co, NEW fa, NEW x,
           td # <<>>, KeptOf(p) \subseteq h, td[1] = Drop(x),
           InLoop(p, r, Tail(td), h \ {x}, co, fa)
    PROVE  InLoop(p, r, td, h, co, fa)
<1>1. td[1].op \in {"free", "drop"} /\ td[1].x = x /\ (td[1].op = "free" => x \in h)
  BY DEF Free, Drop
<1>2. Follow(p, r, "loop", td, h, RoutesOf(p), co, fa) =
        {K("loop", Tail(td), h \ {x}, RoutesOf(p), co, fa)}
  BY <1>1 DEF Follow
<1>3. \A l \in Follow(p, r, "loop", td, h, RoutesOf(p), co, fa) : Safe(p, r, l)
  BY <1>2 DEF InLoop
<1>4. QED
  BY <1>1, <1>3, InLoopStep

\* An answer.
LEMMA LoopSend ==
    ASSUME NEW p \in Programs, NEW r, NEW td, NEW h, NEW fa, NEW code,
           td # <<>>, KeptOf(p) \subseteq h, td[1] = Send(code),
           InLoop(p, r, Tail(td), h, <<code>>, fa)
    PROVE  InLoop(p, r, td, h, <<>>, fa)
<1>1. Append(<<>>, code) = <<code>>
  OBVIOUS
<1>2. Follow(p, r, "loop", td, h, RoutesOf(p), <<>>, fa) =
        {K("loop", Tail(td), h, RoutesOf(p), <<code>>, fa)}
  BY <1>1 DEF Follow, Send
<1>3. td[1].op = "send"
  BY DEF Send
<1>4. \A l \in Follow(p, r, "loop", td, h, RoutesOf(p), <<>>, fa) : Safe(p, r, l)
  BY <1>2 DEF InLoop
<1>5. QED
  BY <1>3, <1>4, InLoopStep

\* A command that a page may take or not.
LEMMA LoopOnly ==
    ASSUME NEW p \in Programs, NEW r, NEW td, NEW h, NEW co, NEW fa, NEW other,
           td # <<>>, KeptOf(p) \subseteq h, td[1] = Only(other),
           r.cmd = "GET" => InLoop(p, r, Tail(td), h, co, fa),
           r.cmd # "GET" => InLoop(p, r, other, h, co, fa)
    PROVE  InLoop(p, r, td, h, co, fa)
<1>1. Follow(p, r, "loop", td, h, RoutesOf(p), co, fa) =
        {K("loop", IF r.cmd = "GET" THEN Tail(td) ELSE other, h, RoutesOf(p), co, fa)}
  BY DEF Follow, Only
<1>2. QED
  BY <1>1, InLoopStep DEF InLoop, Only

\* The page for a path.
LEMMA LoopFind ==
    ASSUME NEW p \in Programs, NEW r, NEW td, NEW h, NEW co, NEW fa,
           td # <<>>, KeptOf(p) \subseteq h, td[1] = Find,
           r.path \in ToSet(RoutesOf(p)) => InLoop(p, r, Callback(p, r.path), h, co, fa),
           r.path \notin ToSet(RoutesOf(p)) => InLoop(p, r, NotFound, h, co, fa)
    PROVE  InLoop(p, r, td, h, co, fa)
<1>1. Follow(p, r, "loop", td, h, RoutesOf(p), co, fa) =
        {K("loop", IF r.path \in ToSet(RoutesOf(p)) THEN Callback(p, r.path) ELSE NotFound,
           h, RoutesOf(p), co, fa)}
  BY DEF Follow, Find
<1>2. QED
  BY <1>1, InLoopStep DEF InLoop, Find

\* 1 steps and 2.
LEMMA Join1and2 ==
    ASSUME NEW a, NEW b, NEW c
    PROVE  <<a>> \o <<b, c>> = <<a, b, c>>
<1> DEFINE X == {a, b, c}
           y == <<a>> \o <<b, c>>
           z == <<a, b, c>>
<1>1. <<a>> \in Seq(X) /\ <<b, c>> \in Seq(X) /\ z \in Seq(X) /\ Len(z) = 3
  OBVIOUS
<1>2. y \in Seq(X) /\ Len(y) = 3
  BY <1>1, ConcatProperties
<1>3. \A k \in 1 .. 3 : y[k] = z[k]
  BY <1>1, ConcatProperties
<1> HIDE DEF X, y, z
<1>4. y = z
  BY <1>1, <1>2, <1>3, SeqEqual
<1>5. QED
  BY <1>4 DEF y, z

\* 2 steps and 2.
LEMMA Join2and2 ==
    ASSUME NEW a, NEW b, NEW c, NEW d
    PROVE  <<a, b>> \o <<c, d>> = <<a, b, c, d>>
<1> DEFINE X == {a, b, c, d}
           y == <<a, b>> \o <<c, d>>
           z == <<a, b, c, d>>
<1>1. <<a, b>> \in Seq(X) /\ <<c, d>> \in Seq(X) /\ z \in Seq(X) /\ Len(z) = 4
  OBVIOUS
<1>2. y \in Seq(X) /\ Len(y) = 4
  BY <1>1, ConcatProperties
<1>3. \A k \in 1 .. 4 : y[k] = z[k]
  BY <1>1, ConcatProperties
<1> HIDE DEF X, y, z
<1>4. y = z
  BY <1>1, <1>2, <1>3, SeqEqual
<1>5. QED
  BY <1>4 DEF y, z

\* 3 steps and 2.
LEMMA Join3and2 ==
    ASSUME NEW a, NEW b, NEW c, NEW d, NEW e
    PROVE  <<a, b, c>> \o <<d, e>> = <<a, b, c, d, e>>
<1> DEFINE X == {a, b, c, d, e}
           y == <<a, b, c>> \o <<d, e>>
           z == <<a, b, c, d, e>>
<1>1. <<a, b, c>> \in Seq(X) /\ <<d, e>> \in Seq(X) /\ z \in Seq(X) /\ Len(z) = 5
  OBVIOUS
<1>2. y \in Seq(X) /\ Len(y) = 5
  BY <1>1, ConcatProperties
<1>3. \A k \in 1 .. 5 : y[k] = z[k]
  BY <1>1, ConcatProperties
<1> HIDE DEF X, y, z
<1>4. y = z
  BY <1>1, <1>2, <1>3, SeqEqual
<1>5. QED
  BY <1>4 DEF y, z

\* 5 steps and 2.
LEMMA Join5and2 ==
    ASSUME NEW a, NEW b, NEW c, NEW d, NEW e, NEW f, NEW g
    PROVE  <<a, b, c, d, e>> \o <<f, g>> = <<a, b, c, d, e, f, g>>
<1> DEFINE X == {a, b, c, d, e, f, g}
           y == <<a, b, c, d, e>> \o <<f, g>>
           z == <<a, b, c, d, e, f, g>>
<1>1. <<a, b, c, d, e>> \in Seq(X) /\ <<f, g>> \in Seq(X) /\ z \in Seq(X) /\ Len(z) = 7
  OBVIOUS
<1>2. y \in Seq(X) /\ Len(y) = 7
  BY <1>1, ConcatProperties
<1>3. \A k \in 1 .. 7 : y[k] = z[k]
  BY <1>1, ConcatProperties
<1> HIDE DEF X, y, z
<1>4. y = z
  BY <1>1, <1>2, <1>3, SeqEqual
<1>5. QED
  BY <1>4 DEF y, z

\* 6 steps and 2.
LEMMA Join6and2 ==
    ASSUME NEW a, NEW b, NEW c, NEW d, NEW e, NEW f, NEW g, NEW h
    PROVE  <<a, b, c, d, e, f>> \o <<g, h>> = <<a, b, c, d, e, f, g, h>>
<1> DEFINE X == {a, b, c, d, e, f, g, h}
           y == <<a, b, c, d, e, f>> \o <<g, h>>
           z == <<a, b, c, d, e, f, g, h>>
<1>1. <<a, b, c, d, e, f>> \in Seq(X) /\ <<g, h>> \in Seq(X) /\ z \in Seq(X) /\ Len(z) = 8
  OBVIOUS
<1>2. y \in Seq(X) /\ Len(y) = 8
  BY <1>1, ConcatProperties
<1>3. \A k \in 1 .. 8 : y[k] = z[k]
  BY <1>1, ConcatProperties
<1> HIDE DEF X, y, z
<1>4. y = z
  BY <1>1, <1>2, <1>3, SeqEqual
<1>5. QED
  BY <1>4 DEF y, z

\* 7 steps and 2.
LEMMA Join7and2 ==
    ASSUME NEW a, NEW b, NEW c, NEW d, NEW e, NEW f, NEW g, NEW h, NEW i
    PROVE  <<a, b, c, d, e, f, g>> \o <<h, i>> = <<a, b, c, d, e, f, g, h, i>>
<1> DEFINE X == {a, b, c, d, e, f, g, h, i}
           y == <<a, b, c, d, e, f, g>> \o <<h, i>>
           z == <<a, b, c, d, e, f, g, h, i>>
<1>1. <<a, b, c, d, e, f, g>> \in Seq(X) /\ <<h, i>> \in Seq(X) /\ z \in Seq(X) /\ Len(z) = 9
  OBVIOUS
<1>2. y \in Seq(X) /\ Len(y) = 9
  BY <1>1, ConcatProperties
<1>3. \A k \in 1 .. 9 : y[k] = z[k]
  BY <1>1, ConcatProperties
<1> HIDE DEF X, y, z
<1>4. y = z
  BY <1>1, <1>2, <1>3, SeqEqual
<1>5. QED
  BY <1>4 DEF y, z

\* 10 steps and 2.
LEMMA Join10and2 ==
    ASSUME NEW a, NEW b, NEW c, NEW d, NEW e, NEW f, NEW g, NEW h, NEW i, NEW j, NEW l, NEW m
    PROVE  <<a, b, c, d, e, f, g, h, i, j>> \o <<l, m>> = <<a, b, c, d, e, f, g, h, i, j, l, m>>
<1> DEFINE X == {a, b, c, d, e, f, g, h, i, j, l, m}
           y == <<a, b, c, d, e, f, g, h, i, j>> \o <<l, m>>
           z == <<a, b, c, d, e, f, g, h, i, j, l, m>>
<1>1. <<a, b, c, d, e, f, g, h, i, j>> \in Seq(X) /\ <<l, m>> \in Seq(X) /\ z \in Seq(X) /\ Len(z) = 12
  OBVIOUS
<1>2. y \in Seq(X) /\ Len(y) = 12
  BY <1>1, ConcatProperties
<1>3. \A k \in 1 .. 12 : y[k] = z[k]
  BY <1>1, ConcatProperties
<1> HIDE DEF X, y, z
<1>4. y = z
  BY <1>1, <1>2, <1>3, SeqEqual
<1>5. QED
  BY <1>4 DEF y, z

\* 1 steps and 5.
LEMMA Join1and5 ==
    ASSUME NEW a, NEW b, NEW c, NEW d, NEW e, NEW f
    PROVE  <<a>> \o <<b, c, d, e, f>> = <<a, b, c, d, e, f>>
<1> DEFINE X == {a, b, c, d, e, f}
           y == <<a>> \o <<b, c, d, e, f>>
           z == <<a, b, c, d, e, f>>
<1>1. <<a>> \in Seq(X) /\ <<b, c, d, e, f>> \in Seq(X) /\ z \in Seq(X) /\ Len(z) = 6
  OBVIOUS
<1>2. y \in Seq(X) /\ Len(y) = 6
  BY <1>1, ConcatProperties
<1>3. \A k \in 1 .. 6 : y[k] = z[k]
  BY <1>1, ConcatProperties
<1> HIDE DEF X, y, z
<1>4. y = z
  BY <1>1, <1>2, <1>3, SeqEqual
<1>5. QED
  BY <1>4 DEF y, z

\* 7 steps and 3.
LEMMA Join7and3 ==
    ASSUME NEW a, NEW b, NEW c, NEW d, NEW e, NEW f, NEW g, NEW h, NEW i, NEW j
    PROVE  <<a, b, c, d, e, f, g>> \o <<h, i, j>> = <<a, b, c, d, e, f, g, h, i, j>>
<1> DEFINE X == {a, b, c, d, e, f, g, h, i, j}
           y == <<a, b, c, d, e, f, g>> \o <<h, i, j>>
           z == <<a, b, c, d, e, f, g, h, i, j>>
<1>1. <<a, b, c, d, e, f, g>> \in Seq(X) /\ <<h, i, j>> \in Seq(X) /\ z \in Seq(X) /\ Len(z) = 10
  OBVIOUS
<1>2. y \in Seq(X) /\ Len(y) = 10
  BY <1>1, ConcatProperties
<1>3. \A k \in 1 .. 10 : y[k] = z[k]
  BY <1>1, ConcatProperties
<1> HIDE DEF X, y, z
<1>4. y = z
  BY <1>1, <1>2, <1>3, SeqEqual
<1>5. QED
  BY <1>4 DEF y, z

\* What a request may use is not what the program holds between two requests.
Asking(p, u) == Steady(p, u \ {"uri", "path"})

\* What a program keeps stays, and what a request uses is not there yet.
LEMMA Clean ==
    ASSUME NEW p \in Programs, NEW u, Asking(p, u)
    PROVE  /\ KeptOf(p) \subseteq u
           /\ "buf" \notin u /\ "root" \notin u /\ "json" \notin u /\ "dump" \notin u
           /\ p # "apptpl2" => "text" \notin u
BY RoutesAre DEF Steady, Asking, KeptOf, ForgottenOf, ExtraOf, Server

\* The end of every page.
LEMMA SafeDone ==
    ASSUME NEW p \in Programs, NEW r, NEW u, Asking(p, u), NEW co, NEW fa, Right(p, r, co, fa)
    PROVE  InLoop(p, r, Done, u, co, fa)
<1> DEFINE t1 == <<Drop("uri"), Drop("path")>>
           t2 == <<Drop("path")>>
           h  == u \ {"uri", "path"}
           v  == u \ {"uri"}
<1>1. /\ t1 # <<>> /\ t1[1] = Drop("uri") /\ Tail(t1) = t2 /\ Done = t1
      /\ t2 # <<>> /\ t2[1] = Drop("path") /\ Tail(t2) = <<>>
  BY DEF Done
<1>2. Steady(p, h) /\ v \ {"path"} = h
  BY DEF Asking
<1>3. KeptOf(p) \subseteq u /\ KeptOf(p) \subseteq v
  BY <1>2 DEF Steady
<1> HIDE DEF t1, t2, h, v
<1>4. InLoop(p, r, <<>>, h, co, fa)
  BY <1>2, Waits
<1>5. InLoop(p, r, t2, v, co, fa)
  BY <1>1, <1>2, <1>3, <1>4, LoopDrop
<1>6. InLoop(p, r, t1, u, co, fa)
  BY <1>1, <1>3, <1>5, LoopDrop DEF v
<1>7. QED
  BY <1>1, <1>6

\* No such page, or no memory to look for it.
LEMMA SafeNotFound ==
    ASSUME NEW p \in Programs, NEW r, NEW u, Asking(p, u), NEW fa,
           Right(p, r, << 404 >>, fa)
    PROVE  InLoop(p, r, NotFound, u, <<>>, fa)
<1> DEFINE t1 == <<Send(404), Drop("uri"), Drop("path")>>
           c == << 404 >>
<1>1. t1 # <<>> /\ t1[1] = Send(404) /\ Tail(t1) = Done
  BY DEF Done
<1>2. NotFound = t1
  BY Join1and2 DEF NotFound, Done
<1>3. KeptOf(p) \subseteq u
  BY Clean
<1> HIDE DEF t1, c
<1>4. InLoop(p, r, Done, u, c, fa)
  BY SafeDone DEF c
<1>5. InLoop(p, r, t1, u, <<>>, fa)
  <2>1. InLoop(p, r, Tail(t1), u, << 404 >>, fa)
    BY <1>1, <1>4 DEF c
  <2>2. QED
    BY <1>1, <1>3, <2>1, LoopSend
<1>6. QED
  BY <1>2, <1>5

\* An answer that says that something failed.
LEMMA SafeFailing ==
    ASSUME NEW p \in Programs, NEW r, NEW u, Asking(p, u), NEW fa, Right(p, r, << 500 >>, fa)
    PROVE  InLoop(p, r, Failing, u, <<>>, fa)
<1> DEFINE t1 == <<Send(500), Drop("uri"), Drop("path")>>
           c == << 500 >>
<1>1. t1 # <<>> /\ t1[1] = Send(500) /\ Tail(t1) = Done
  BY DEF Done
<1>2. Failing = t1
  BY Join1and2 DEF Failing, Done
<1>3. KeptOf(p) \subseteq u
  BY Clean
<1> HIDE DEF t1, c
<1>4. InLoop(p, r, Done, u, c, fa)
  BY SafeDone DEF c
<1>5. InLoop(p, r, t1, u, <<>>, fa)
  <2>1. InLoop(p, r, Tail(t1), u, << 500 >>, fa)
    BY <1>1, <1>4 DEF c
  <2>2. QED
    BY <1>1, <1>3, <2>1, LoopSend
<1>6. QED
  BY <1>2, <1>5

\* A page with a fixed text.
LEMMA SafePage ==
    ASSUME NEW p \in Programs, NEW r, NEW u, Asking(p, u), NEW fa,
           Right(p, r, << 200 >>, fa)
    PROVE  InLoop(p, r, Page, u, <<>>, fa)
<1> DEFINE t1 == <<Need("buf"), Send(200), Free("buf"), Drop("uri"), Drop("path")>>
           t2 == <<Send(200), Free("buf"), Drop("uri"), Drop("path")>>
           t3 == <<Free("buf"), Drop("uri"), Drop("path")>>
           c == << 200 >>
           v1 == u \cup {"buf"}
<1>1. t1 # <<>> /\ t1[1] = Need("buf") /\ Tail(t1) = t2
  OBVIOUS
<1>2. t2 # <<>> /\ t2[1] = Send(200) /\ Tail(t2) = t3
  OBVIOUS
<1>3. t3 # <<>> /\ t3[1] = Free("buf") /\ Tail(t3) = Done
  BY DEF Done
<1>4. Page = t1
  BY Join3and2 DEF Page, Done
<1>5. KeptOf(p) \subseteq u /\ KeptOf(p) \subseteq v1
  BY Clean
<1>6. /\ u \cup {"buf"} = v1
      /\ v1 \ {"buf"} = u /\ "buf" \in v1
  BY Clean
<1> HIDE DEF t1, t2, t3, c, v1
<1>7. InLoop(p, r, Done, u, c, fa)
  BY SafeDone DEF c
<1>8. InLoop(p, r, t3, v1, c, fa)
  BY <1>3, <1>5, <1>6, <1>7, LoopFree
<1>9. InLoop(p, r, t2, v1, <<>>, fa)
  <2>1. InLoop(p, r, Tail(t2), v1, << 200 >>, fa)
    BY <1>2, <1>8 DEF c
  <2>2. QED
    BY <1>2, <1>5, <2>1, LoopSend
<1>10. InLoop(p, r, t1, u, <<>>, fa)
  BY <1>1, <1>5, <1>6, <1>9, LoopNeed
<1>11. QED
  BY <1>4, <1>10

\* The help of apptpl.
LEMMA SafeHelp ==
    ASSUME NEW p \in Programs, NEW r, NEW u, Asking(p, u), NEW fa,
           Right(p, r, << 200 >>, fa)
    PROVE  InLoop(p, r, ApptplHelp, u, <<>>, fa)
<1> DEFINE t1 == <<Need("buf"), Send(200), Drop("buf"), Drop("uri"), Drop("path")>>
           t2 == <<Send(200), Drop("buf"), Drop("uri"), Drop("path")>>
           t3 == <<Drop("buf"), Drop("uri"), Drop("path")>>
           c == << 200 >>
           v1 == u \cup {"buf"}
<1>1. t1 # <<>> /\ t1[1] = Need("buf") /\ Tail(t1) = t2
  OBVIOUS
<1>2. t2 # <<>> /\ t2[1] = Send(200) /\ Tail(t2) = t3
  OBVIOUS
<1>3. t3 # <<>> /\ t3[1] = Drop("buf") /\ Tail(t3) = Done
  BY DEF Done
<1>4. ApptplHelp = t1
  BY Join3and2 DEF ApptplHelp, Done
<1>5. KeptOf(p) \subseteq u /\ KeptOf(p) \subseteq v1
  BY Clean
<1>6. /\ u \cup {"buf"} = v1
      /\ v1 \ {"buf"} = u
  BY Clean
<1> HIDE DEF t1, t2, t3, c, v1
<1>7. InLoop(p, r, Done, u, c, fa)
  BY SafeDone DEF c
<1>8. InLoop(p, r, t3, v1, c, fa)
  BY <1>3, <1>5, <1>6, <1>7, LoopDrop
<1>9. InLoop(p, r, t2, v1, <<>>, fa)
  <2>1. InLoop(p, r, Tail(t2), v1, << 200 >>, fa)
    BY <1>2, <1>8 DEF c
  <2>2. QED
    BY <1>2, <1>5, <2>1, LoopSend
<1>10. InLoop(p, r, t1, u, <<>>, fa)
  BY <1>1, <1>5, <1>6, <1>9, LoopNeed
<1>11. QED
  BY <1>4, <1>10

\* What a status answers without memory.
StatusFailing == <<Send(500), Drop("buf")>> \o Done

\* It is an error, and leaves nothing.
LEMMA SafeStatusFailing ==
    ASSUME NEW p \in Programs, NEW r, NEW u, Asking(p, u), NEW fa, Right(p, r, << 500 >>, fa)
    PROVE  InLoop(p, r, StatusFailing, u, <<>>, fa)
<1> DEFINE t1 == <<Send(500), Drop("buf"), Drop("uri"), Drop("path")>>
           t2 == <<Drop("buf"), Drop("uri"), Drop("path")>>
           c == << 500 >>
<1>1. t1 # <<>> /\ t1[1] = Send(500) /\ Tail(t1) = t2
  OBVIOUS
<1>2. t2 # <<>> /\ t2[1] = Drop("buf") /\ Tail(t2) = Done
  BY DEF Done
<1>3. StatusFailing = t1
  BY Join2and2 DEF StatusFailing, Done
<1>4. KeptOf(p) \subseteq u
  BY Clean
<1>5. u \ {"buf"} = u
  BY Clean
<1> HIDE DEF t1, t2, c
<1>6. InLoop(p, r, Done, u, c, fa)
  BY SafeDone DEF c
<1>7. InLoop(p, r, t2, u, c, fa)
  BY <1>2, <1>4, <1>5, <1>6, LoopDrop
<1>8. InLoop(p, r, t1, u, <<>>, fa)
  <2>1. InLoop(p, r, Tail(t1), u, << 500 >>, fa)
    BY <1>1, <1>7 DEF c
  <2>2. QED
    BY <1>1, <1>4, <2>1, LoopSend
<1>9. QED
  BY <1>3, <1>8

\* The status of apptpl.
LEMMA SafeApptplStatus ==
    ASSUME NEW p \in Programs, NEW r, NEW u, Asking(p, u), p # "apptpl2", NEW fa,
           Right(p, r, << 200 >>, fa), Right(p, r, << 500 >>, TRUE)
    PROVE  InLoop(p, r, ApptplStatus, u, <<>>, fa)
<1> DEFINE t1 == <<Get("root", StatusFailing), Need("text"), Need("buf"), Send(200),
                 Free("text"), Free("root"), Drop("buf"), Drop("uri"), Drop("path")>>
           t2 == <<Need("text"), Need("buf"), Send(200), Free("text"), Free("root"), Drop("buf"),
                 Drop("uri"), Drop("path")>>
           t3 == <<Need("buf"), Send(200), Free("text"), Free("root"), Drop("buf"), Drop("uri"),
                 Drop("path")>>
           t4 == <<Send(200), Free("text"), Free("root"), Drop("buf"), Drop("uri"), Drop("path")>>
           t5 == <<Free("text"), Free("root"), Drop("buf"), Drop("uri"), Drop("path")>>
           t6 == <<Free("root"), Drop("buf"), Drop("uri"), Drop("path")>>
           t7 == <<Drop("buf"), Drop("uri"), Drop("path")>>
           c == << 200 >>
           v1 == u \cup {"root"}
           v2 == u \cup {"root", "text"}
           v3 == u \cup {"root", "text", "buf"}
           v4 == u \cup {"root", "buf"}
           v5 == u \cup {"buf"}
<1>1. t1 # <<>> /\ t1[1] = Get("root", StatusFailing) /\ Tail(t1) = t2
  OBVIOUS
<1>2. t2 # <<>> /\ t2[1] = Need("text") /\ Tail(t2) = t3
  OBVIOUS
<1>3. t3 # <<>> /\ t3[1] = Need("buf") /\ Tail(t3) = t4
  OBVIOUS
<1>4. t4 # <<>> /\ t4[1] = Send(200) /\ Tail(t4) = t5
  OBVIOUS
<1>5. t5 # <<>> /\ t5[1] = Free("text") /\ Tail(t5) = t6
  OBVIOUS
<1>6. t6 # <<>> /\ t6[1] = Free("root") /\ Tail(t6) = t7
  OBVIOUS
<1>7. t7 # <<>> /\ t7[1] = Drop("buf") /\ Tail(t7) = Done
  BY DEF Done
<1>8. ApptplStatus = t1
  BY Join7and2 DEF ApptplStatus, StatusFailing, Done
<1>9. /\ KeptOf(p) \subseteq u
      /\ KeptOf(p) \subseteq v1
      /\ KeptOf(p) \subseteq v2
      /\ KeptOf(p) \subseteq v3
      /\ KeptOf(p) \subseteq v4
      /\ KeptOf(p) \subseteq v5
  BY Clean
<1>10. /\ u \cup {"root"} = v1
      /\ v1 \cup {"text"} = v2
      /\ v2 \cup {"buf"} = v3
      /\ v3 \ {"text"} = v4 /\ "text" \in v3
      /\ v4 \ {"root"} = v5 /\ "root" \in v4
      /\ v5 \ {"buf"} = u
  BY Clean
<1> HIDE DEF t1, t2, t3, t4, t5, t6, t7, c, v1, v2, v3, v4, v5
<1>11. InLoop(p, r, Done, u, c, fa)
  BY SafeDone DEF c
<1>12. InLoop(p, r, t7, v5, c, fa)
  <2>1. KeptOf(p) \subseteq v5 /\ v5 \ {"buf"} = u
    BY <1>9, <1>10
  <2>2. QED
    BY <1>7, <1>11, <2>1, LoopDrop
<1>13. InLoop(p, r, t6, v4, c, fa)
  <2>1. KeptOf(p) \subseteq v4 /\ v4 \ {"root"} = v5 /\ "root" \in v4
    BY <1>9, <1>10
  <2>2. QED
    BY <1>6, <1>12, <2>1, LoopFree
<1>14. InLoop(p, r, t5, v3, c, fa)
  <2>1. KeptOf(p) \subseteq v3 /\ v3 \ {"text"} = v4 /\ "text" \in v3
    BY <1>9, <1>10
  <2>2. QED
    BY <1>5, <1>13, <2>1, LoopFree
<1>15. InLoop(p, r, t4, v3, <<>>, fa)
  <2>1. InLoop(p, r, Tail(t4), v3, << 200 >>, fa)
    BY <1>4, <1>14 DEF c
  <2>2. QED
    BY <1>4, <1>9, <2>1, LoopSend
<1>16. InLoop(p, r, t3, v2, <<>>, fa)
  BY <1>3, <1>9, <1>10, <1>15, LoopNeed
<1>17. InLoop(p, r, t2, v1, <<>>, fa)
  BY <1>2, <1>9, <1>10, <1>16, LoopNeed
<1>18. InLoop(p, r, StatusFailing, u, <<>>, TRUE)
  BY SafeStatusFailing
<1>19. InLoop(p, r, t1, u, <<>>, fa)
  BY <1>1, <1>9, <1>10, <1>17, <1>18, LoopGet
<1>20. QED
  BY <1>8, <1>19

\* The status of cpptpl.
LEMMA SafeCppStatus ==
    ASSUME NEW p \in Programs, NEW r, NEW u, Asking(p, u), p # "apptpl2", NEW fa,
           Right(p, r, << 200 >>, fa), Right(p, r, << 500 >>, TRUE)
    PROVE  InLoop(p, r, CppStatus, u, <<>>, fa)
<1> DEFINE t1 == <<Get("root", StatusFailing), Need("text"), Need("buf"), Send(200),
                 Free("text"), Free("root"), Drop("buf"), Drop("uri"), Drop("path")>>
           t2 == <<Need("text"), Need("buf"), Send(200), Free("text"), Free("root"), Drop("buf"),
                 Drop("uri"), Drop("path")>>
           t3 == <<Need("buf"), Send(200), Free("text"), Free("root"), Drop("buf"), Drop("uri"),
                 Drop("path")>>
           t4 == <<Send(200), Free("text"), Free("root"), Drop("buf"), Drop("uri"), Drop("path")>>
           t5 == <<Free("text"), Free("root"), Drop("buf"), Drop("uri"), Drop("path")>>
           t6 == <<Free("root"), Drop("buf"), Drop("uri"), Drop("path")>>
           t7 == <<Drop("buf"), Drop("uri"), Drop("path")>>
           c == << 200 >>
           v1 == u \cup {"root"}
           v2 == u \cup {"root", "text"}
           v3 == u \cup {"root", "text", "buf"}
           v4 == u \cup {"root", "buf"}
           v5 == u \cup {"buf"}
<1>1. t1 # <<>> /\ t1[1] = Get("root", StatusFailing) /\ Tail(t1) = t2
  OBVIOUS
<1>2. t2 # <<>> /\ t2[1] = Need("text") /\ Tail(t2) = t3
  OBVIOUS
<1>3. t3 # <<>> /\ t3[1] = Need("buf") /\ Tail(t3) = t4
  OBVIOUS
<1>4. t4 # <<>> /\ t4[1] = Send(200) /\ Tail(t4) = t5
  OBVIOUS
<1>5. t5 # <<>> /\ t5[1] = Free("text") /\ Tail(t5) = t6
  OBVIOUS
<1>6. t6 # <<>> /\ t6[1] = Free("root") /\ Tail(t6) = t7
  OBVIOUS
<1>7. t7 # <<>> /\ t7[1] = Drop("buf") /\ Tail(t7) = Done
  BY DEF Done
<1>8. CppStatus = t1
  BY Join7and2 DEF CppStatus, StatusFailing, Done
<1>9. /\ KeptOf(p) \subseteq u
      /\ KeptOf(p) \subseteq v1
      /\ KeptOf(p) \subseteq v2
      /\ KeptOf(p) \subseteq v3
      /\ KeptOf(p) \subseteq v4
      /\ KeptOf(p) \subseteq v5
  BY Clean
<1>10. /\ u \cup {"root"} = v1
      /\ v1 \cup {"text"} = v2
      /\ v2 \cup {"buf"} = v3
      /\ v3 \ {"text"} = v4 /\ "text" \in v3
      /\ v4 \ {"root"} = v5 /\ "root" \in v4
      /\ v5 \ {"buf"} = u
  BY Clean
<1> HIDE DEF t1, t2, t3, t4, t5, t6, t7, c, v1, v2, v3, v4, v5
<1>11. InLoop(p, r, Done, u, c, fa)
  BY SafeDone DEF c
<1>12. InLoop(p, r, t7, v5, c, fa)
  <2>1. KeptOf(p) \subseteq v5 /\ v5 \ {"buf"} = u
    BY <1>9, <1>10
  <2>2. QED
    BY <1>7, <1>11, <2>1, LoopDrop
<1>13. InLoop(p, r, t6, v4, c, fa)
  <2>1. KeptOf(p) \subseteq v4 /\ v4 \ {"root"} = v5 /\ "root" \in v4
    BY <1>9, <1>10
  <2>2. QED
    BY <1>6, <1>12, <2>1, LoopFree
<1>14. InLoop(p, r, t5, v3, c, fa)
  <2>1. KeptOf(p) \subseteq v3 /\ v3 \ {"text"} = v4 /\ "text" \in v3
    BY <1>9, <1>10
  <2>2. QED
    BY <1>5, <1>13, <2>1, LoopFree
<1>15. InLoop(p, r, t4, v3, <<>>, fa)
  <2>1. InLoop(p, r, Tail(t4), v3, << 200 >>, fa)
    BY <1>4, <1>14 DEF c
  <2>2. QED
    BY <1>4, <1>9, <2>1, LoopSend
<1>16. InLoop(p, r, t3, v2, <<>>, fa)
  BY <1>3, <1>9, <1>10, <1>15, LoopNeed
<1>17. InLoop(p, r, t2, v1, <<>>, fa)
  BY <1>2, <1>9, <1>10, <1>16, LoopNeed
<1>18. InLoop(p, r, StatusFailing, u, <<>>, TRUE)
  BY SafeStatusFailing
<1>19. InLoop(p, r, t1, u, <<>>, fa)
  BY <1>1, <1>9, <1>10, <1>17, <1>18, LoopGet
<1>20. QED
  BY <1>8, <1>19

\* The status of apptpl2, whose text stays.
LEMMA SafeApptpl2Status ==
    ASSUME NEW p \in Programs, NEW r, NEW u, Asking(p, u), p = "apptpl2", NEW fa,
           Right(p, r, << 200 >>, fa), Right(p, r, << 500 >>, TRUE)
    PROVE  InLoop(p, r, Apptpl2Status, u, <<>>, fa)
<1> DEFINE t1 == <<Get("root", StatusFailing), Need("buf"), Need("text"), Send(200),
                 Free("root"), Drop("buf"), Drop("uri"), Drop("path")>>
           t2 == <<Need("buf"), Need("text"), Send(200), Free("root"), Drop("buf"), Drop("uri"),
                 Drop("path")>>
           t3 == <<Need("text"), Send(200), Free("root"), Drop("buf"), Drop("uri"), Drop("path")>>
           t4 == <<Send(200), Free("root"), Drop("buf"), Drop("uri"), Drop("path")>>
           t5 == <<Free("root"), Drop("buf"), Drop("uri"), Drop("path")>>
           t6 == <<Drop("buf"), Drop("uri"), Drop("path")>>
           c == << 200 >>
           v1 == u \cup {"root"}
           v2 == u \cup {"root", "buf"}
           v3 == u \cup {"root", "buf", "text"}
           v4 == u \cup {"buf", "text"}
           v5 == u \cup {"text"}
<1>1. t1 # <<>> /\ t1[1] = Get("root", StatusFailing) /\ Tail(t1) = t2
  OBVIOUS
<1>2. t2 # <<>> /\ t2[1] = Need("buf") /\ Tail(t2) = t3
  OBVIOUS
<1>3. t3 # <<>> /\ t3[1] = Need("text") /\ Tail(t3) = t4
  OBVIOUS
<1>4. t4 # <<>> /\ t4[1] = Send(200) /\ Tail(t4) = t5
  OBVIOUS
<1>5. t5 # <<>> /\ t5[1] = Free("root") /\ Tail(t5) = t6
  OBVIOUS
<1>6. t6 # <<>> /\ t6[1] = Drop("buf") /\ Tail(t6) = Done
  BY DEF Done
<1>7. Apptpl2Status = t1
  BY Join6and2 DEF Apptpl2Status, StatusFailing, Done
<1>8. /\ KeptOf(p) \subseteq u
      /\ KeptOf(p) \subseteq v1
      /\ KeptOf(p) \subseteq v2
      /\ KeptOf(p) \subseteq v3
      /\ KeptOf(p) \subseteq v4
      /\ KeptOf(p) \subseteq v5
  BY Clean
<1>9. /\ u \cup {"root"} = v1
      /\ v1 \cup {"buf"} = v2
      /\ v2 \cup {"text"} = v3
      /\ v3 \ {"root"} = v4 /\ "root" \in v3
      /\ v4 \ {"buf"} = v5
  BY Clean
<1> HIDE DEF t1, t2, t3, t4, t5, t6, c, v1, v2, v3, v4, v5
<1>10. InLoop(p, r, Done, v5, c, fa)
  <2>1. Asking(p, u \cup {"text"})
    BY DEF Asking, Steady, ForgottenOf
  <2>2. QED
    BY <2>1, SafeDone DEF c, v5
<1>11. InLoop(p, r, t6, v4, c, fa)
  BY <1>6, <1>8, <1>9, <1>10, LoopDrop
<1>12. InLoop(p, r, t5, v3, c, fa)
  BY <1>5, <1>8, <1>9, <1>11, LoopFree
<1>13. InLoop(p, r, t4, v3, <<>>, fa)
  <2>1. InLoop(p, r, Tail(t4), v3, << 200 >>, fa)
    BY <1>4, <1>12 DEF c
  <2>2. QED
    BY <1>4, <1>8, <2>1, LoopSend
<1>14. InLoop(p, r, t3, v2, <<>>, fa)
  BY <1>3, <1>8, <1>9, <1>13, LoopNeed
<1>15. InLoop(p, r, t2, v1, <<>>, fa)
  BY <1>2, <1>8, <1>9, <1>14, LoopNeed
<1>16. InLoop(p, r, StatusFailing, u, <<>>, TRUE)
  BY SafeStatusFailing
<1>17. InLoop(p, r, t1, u, <<>>, fa)
  BY <1>1, <1>8, <1>9, <1>15, <1>16, LoopGet
<1>18. QED
  BY <1>7, <1>17

\* The configuration, for a command that the page takes.
ConfigBody == <<Need("json"), Need("buf"), Send(200), Free("buf"), Free("json")>> \o Done

\* It is answered, and nothing is left.
LEMMA SafeConfigBody ==
    ASSUME NEW p \in Programs, NEW r, NEW u, Asking(p, u), NEW fa,
           Right(p, r, << 200 >>, fa)
    PROVE  InLoop(p, r, ConfigBody, u, <<>>, fa)
<1> DEFINE t1 == <<Need("json"), Need("buf"), Send(200), Free("buf"), Free("json"), Drop("uri"),
                 Drop("path")>>
           t2 == <<Need("buf"), Send(200), Free("buf"), Free("json"), Drop("uri"), Drop("path")>>
           t3 == <<Send(200), Free("buf"), Free("json"), Drop("uri"), Drop("path")>>
           t4 == <<Free("buf"), Free("json"), Drop("uri"), Drop("path")>>
           t5 == <<Free("json"), Drop("uri"), Drop("path")>>
           c == << 200 >>
           v1 == u \cup {"json"}
           v2 == u \cup {"json", "buf"}
<1>1. t1 # <<>> /\ t1[1] = Need("json") /\ Tail(t1) = t2
  OBVIOUS
<1>2. t2 # <<>> /\ t2[1] = Need("buf") /\ Tail(t2) = t3
  OBVIOUS
<1>3. t3 # <<>> /\ t3[1] = Send(200) /\ Tail(t3) = t4
  OBVIOUS
<1>4. t4 # <<>> /\ t4[1] = Free("buf") /\ Tail(t4) = t5
  OBVIOUS
<1>5. t5 # <<>> /\ t5[1] = Free("json") /\ Tail(t5) = Done
  BY DEF Done
<1>6. ConfigBody = t1
  BY Join5and2 DEF ConfigBody, Done
<1>7. /\ KeptOf(p) \subseteq u
      /\ KeptOf(p) \subseteq v1
      /\ KeptOf(p) \subseteq v2
  BY Clean
<1>8. /\ u \cup {"json"} = v1
      /\ v1 \cup {"buf"} = v2
      /\ v2 \ {"buf"} = v1 /\ "buf" \in v2
      /\ v1 \ {"json"} = u /\ "json" \in v1
  BY Clean
<1> HIDE DEF t1, t2, t3, t4, t5, c, v1, v2
<1>9. InLoop(p, r, Done, u, c, fa)
  BY SafeDone DEF c
<1>10. InLoop(p, r, t5, v1, c, fa)
  <2>1. /\ t5 # <<>> /\ t5[1] = Free("json") /\ KeptOf(p) \subseteq v1 /\ "json" \in v1
        /\ InLoop(p, r, Tail(t5), v1 \ {"json"}, c, fa)
    BY <1>5, <1>7, <1>8, <1>9
  <2>2. QED
    BY <2>1, LoopFree
<1>11. InLoop(p, r, t4, v2, c, fa)
  BY <1>4, <1>7, <1>8, <1>10, LoopFree
<1>12. InLoop(p, r, t3, v2, <<>>, fa)
  <2>1. InLoop(p, r, Tail(t3), v2, << 200 >>, fa)
    BY <1>3, <1>11 DEF c
  <2>2. QED
    BY <1>3, <1>7, <2>1, LoopSend
<1>13. InLoop(p, r, t2, v1, <<>>, fa)
  BY <1>2, <1>7, <1>8, <1>12, LoopNeed
<1>14. InLoop(p, r, t1, u, <<>>, fa)
  BY <1>1, <1>7, <1>8, <1>13, LoopNeed
<1>15. QED
  BY <1>6, <1>14

\* The dump of apptpl, for a command that the page takes.
CaptureFailing == <<Send(500), Free("buf")>> \o Done

\* A dump of the captures without memory.
LEMMA SafeCaptureFailing ==
    ASSUME NEW p \in Programs, NEW r, NEW u, Asking(p, u), NEW fa, Right(p, r, << 500 >>, fa)
    PROVE  InLoop(p, r, CaptureFailing, u \cup {"buf"}, <<>>, fa)
<1> DEFINE t1 == <<Send(500), Free("buf"), Drop("uri"), Drop("path")>>
           t2 == <<Free("buf"), Drop("uri"), Drop("path")>>
           c == << 500 >>
           v1 == u \cup {"buf"}
<1>1. t1 # <<>> /\ t1[1] = Send(500) /\ Tail(t1) = t2
  OBVIOUS
<1>2. t2 # <<>> /\ t2[1] = Free("buf") /\ Tail(t2) = Done
  BY DEF Done
<1>3. CaptureFailing = t1
  BY Join2and2 DEF CaptureFailing, Done
<1>4. KeptOf(p) \subseteq v1 /\ KeptOf(p) \subseteq u
  BY Clean
<1>5. v1 \ {"buf"} = u /\ "buf" \in v1
  BY Clean
<1> HIDE DEF t1, t2, c, v1
<1>6. InLoop(p, r, Done, u, c, fa)
  BY SafeDone DEF c
<1>7. InLoop(p, r, t2, v1, c, fa)
  BY <1>2, <1>4, <1>5, <1>6, LoopFree
<1>8. InLoop(p, r, t1, v1, <<>>, fa)
  <2>1. InLoop(p, r, Tail(t1), v1, << 500 >>, fa)
    BY <1>1, <1>7 DEF c
  <2>2. QED
    BY <1>1, <1>4, <2>1, LoopSend
<1>9. QED
  BY <1>3, <1>8 DEF v1

\* The steps of the dump, in one list.
DumpBody ==
    <<Need("dump"), Grow("dump", Failing), Need("buf"), Free("dump"),
      Need("dump"), Grow("dump", CaptureFailing), Free("dump"), Send(200), Free("buf"),
      Drop("uri"), Drop("path")>>

\* What could not grow is lost, and all else is released.
LEMMA SafeDumpBody ==
    ASSUME NEW p \in Programs, NEW r, NEW u, Asking(p, u), NEW fa,
           Right(p, r, << 200 >>, fa), Right(p, r, << 500 >>, TRUE)
    PROVE  InLoop(p, r, DumpBody, u, <<>>, fa)
<1> DEFINE t1 == <<Need("dump"), Grow("dump", Failing), Need("buf"), Free("dump"), Need("dump"),
                 Grow("dump", CaptureFailing), Free("dump"), Send(200), Free("buf"), Drop("uri"),
                 Drop("path")>>
           t2 == <<Grow("dump", Failing), Need("buf"), Free("dump"), Need("dump"),
                 Grow("dump", CaptureFailing), Free("dump"), Send(200), Free("buf"), Drop("uri"),
                 Drop("path")>>
           t3 == <<Need("buf"), Free("dump"), Need("dump"), Grow("dump", CaptureFailing),
                 Free("dump"), Send(200), Free("buf"), Drop("uri"), Drop("path")>>
           t4 == <<Free("dump"), Need("dump"), Grow("dump", CaptureFailing), Free("dump"),
                 Send(200), Free("buf"), Drop("uri"), Drop("path")>>
           t5 == <<Need("dump"), Grow("dump", CaptureFailing), Free("dump"), Send(200),
                 Free("buf"), Drop("uri"), Drop("path")>>
           t6 == <<Grow("dump", CaptureFailing), Free("dump"), Send(200), Free("buf"),
                 Drop("uri"), Drop("path")>>
           t7 == <<Free("dump"), Send(200), Free("buf"), Drop("uri"), Drop("path")>>
           t8 == <<Send(200), Free("buf"), Drop("uri"), Drop("path")>>
           t9 == <<Free("buf"), Drop("uri"), Drop("path")>>
           c == << 200 >>
           v1 == u \cup {"dump"}
           v2 == u \cup {"dump", "buf"}
           v3 == u \cup {"buf"}
<1>1. t1 # <<>> /\ t1[1] = Need("dump") /\ Tail(t1) = t2
  OBVIOUS
<1>2. t2 # <<>> /\ t2[1] = Grow("dump", Failing) /\ Tail(t2) = t3
  OBVIOUS
<1>3. t3 # <<>> /\ t3[1] = Need("buf") /\ Tail(t3) = t4
  OBVIOUS
<1>4. t4 # <<>> /\ t4[1] = Free("dump") /\ Tail(t4) = t5
  OBVIOUS
<1>5. t5 # <<>> /\ t5[1] = Need("dump") /\ Tail(t5) = t6
  OBVIOUS
<1>6. t6 # <<>> /\ t6[1] = Grow("dump", CaptureFailing) /\ Tail(t6) = t7
  OBVIOUS
<1>7. t7 # <<>> /\ t7[1] = Free("dump") /\ Tail(t7) = t8
  OBVIOUS
<1>8. t8 # <<>> /\ t8[1] = Send(200) /\ Tail(t8) = t9
  OBVIOUS
<1>9. t9 # <<>> /\ t9[1] = Free("buf") /\ Tail(t9) = Done
  BY DEF Done
<1>10. DumpBody = t1
  BY DEF DumpBody
<1>11. /\ KeptOf(p) \subseteq u
      /\ KeptOf(p) \subseteq v1
      /\ KeptOf(p) \subseteq v2
      /\ KeptOf(p) \subseteq v3
  BY Clean
<1>12. /\ u \cup {"dump"} = v1
      /\ v1 \cup {"buf"} = v2
      /\ v2 \ {"dump"} = v3 /\ "dump" \in v2
      /\ v3 \cup {"dump"} = v2
      /\ v3 \ {"buf"} = u /\ "buf" \in v3
  BY Clean
<1> HIDE DEF t1, t2, t3, t4, t5, t6, t7, t8, t9, c, v1, v2, v3
<1>13. InLoop(p, r, Done, u, c, fa)
  BY SafeDone DEF c
<1>14. InLoop(p, r, t9, v3, c, fa)
  <2>1. KeptOf(p) \subseteq v3 /\ v3 \ {"buf"} = u /\ "buf" \in v3
    BY <1>11, <1>12
  <2>2. QED
    BY <1>9, <1>13, <2>1, LoopFree
<1>15. InLoop(p, r, t8, v3, <<>>, fa)
  <2>1. InLoop(p, r, Tail(t8), v3, << 200 >>, fa)
    BY <1>8, <1>14 DEF c
  <2>2. QED
    BY <1>8, <1>11, <2>1, LoopSend
<1>16. InLoop(p, r, t7, v2, <<>>, fa)
  <2>1. KeptOf(p) \subseteq v2 /\ v2 \ {"dump"} = v3 /\ "dump" \in v2
    BY <1>11, <1>12
  <2>2. QED
    BY <1>7, <1>15, <2>1, LoopFree
<1>17. InLoop(p, r, CaptureFailing, (v2 \ {"dump"}) \cup {"lost"}, <<>>, TRUE)
  <2>1. Asking(p, u \cup {"lost"})
    BY DEF Asking, Steady, ForgottenOf
  <2>2. (v2 \ {"dump"}) \cup {"lost"} = (u \cup {"lost"}) \cup {"buf"}
    BY Clean DEF v2
  <2>3. QED
    BY <2>1, <2>2, SafeCaptureFailing
<1>18. InLoop(p, r, t6, v2, <<>>, fa)
  BY <1>6, <1>11, <1>16, <1>17, LoopGrow
<1>19. InLoop(p, r, t5, v3, <<>>, fa)
  BY <1>5, <1>11, <1>12, <1>18, LoopNeed
<1>20. InLoop(p, r, t4, v2, <<>>, fa)
  <2>1. KeptOf(p) \subseteq v2 /\ v2 \ {"dump"} = v3 /\ "dump" \in v2
    BY <1>11, <1>12
  <2>2. QED
    BY <1>4, <1>19, <2>1, LoopFree
<1>21. InLoop(p, r, t3, v1, <<>>, fa)
  BY <1>3, <1>11, <1>12, <1>20, LoopNeed
<1>22. InLoop(p, r, Failing, (v1 \ {"dump"}) \cup {"lost"}, <<>>, TRUE)
  <2>1. Asking(p, u \cup {"lost"})
    BY DEF Asking, Steady, ForgottenOf
  <2>2. (v1 \ {"dump"}) \cup {"lost"} = u \cup {"lost"}
    BY Clean DEF v1
  <2>3. QED
    BY <2>1, <2>2, SafeFailing
<1>23. InLoop(p, r, t2, v1, <<>>, fa)
  BY <1>2, <1>11, <1>21, <1>22, LoopGrow
<1>24. InLoop(p, r, t1, u, <<>>, fa)
  BY <1>1, <1>11, <1>12, <1>23, LoopNeed
<1>25. QED
  BY <1>10, <1>24

\* A page that takes only GET.
LEMMA SafeOnly ==
    ASSUME NEW p \in Programs, NEW r, NEW u, Asking(p, u), NEW fa, NEW td, NEW body,
           td # <<>>, td[1] = Only(NotFound), Tail(td) = body,
           r.cmd = "GET" => InLoop(p, r, body, u, <<>>, fa),
           r.cmd # "GET" => Right(p, r, << 404 >>, fa)
    PROVE  InLoop(p, r, td, u, <<>>, fa)
<1>1. KeptOf(p) \subseteq u
  BY Clean
<1>2. r.cmd # "GET" => InLoop(p, r, NotFound, u, <<>>, fa)
  BY SafeNotFound
<1>3. QED
  BY <1>1, <1>2, LoopOnly

\* The pages with a fixed text that take only GET.
LEMMA OnlyPage ==
    LET td == OnlyGet \o Page IN td # <<>> /\ td[1] = Only(NotFound) /\ Tail(td) = Page
<1> DEFINE t1 == <<Only(NotFound), Need("buf"), Send(200), Free("buf"), Drop("uri"), Drop("path")>>
           t2 == <<Need("buf"), Send(200), Free("buf"), Drop("uri"), Drop("path")>>
<1>1. Page = t2
  BY Join3and2 DEF Page, Done
<1>2. <<Only(NotFound)>> \o t2 = t1
  BY Join1and5
<1>3. t1 # <<>> /\ t1[1] = Only(NotFound) /\ Tail(t1) = t2
  OBVIOUS
<1> HIDE DEF t1, t2
<1>4. QED
  BY <1>1, <1>2, <1>3 DEF OnlyGet

\* The configuration, in each of the programs.
Configuration ==
    OnlyGet \o <<Need("json"), Need("buf"), Send(200), Free("buf"), Free("json")>> \o Done

\* It turns away everything but GET before it does anything.
LEMMA OnlyConfig ==
    LET td == Configuration IN td # <<>> /\ td[1] = Only(NotFound) /\ Tail(td) = ConfigBody
<1> DEFINE t1 == <<Only(NotFound), Need("json"), Need("buf"), Send(200), Free("buf"), Free("json"),
                   Drop("uri"), Drop("path")>>
           t2 == <<Need("json"), Need("buf"), Send(200), Free("buf"), Free("json"),
                   Drop("uri"), Drop("path")>>
           t3 == <<Only(NotFound), Need("json"), Need("buf"), Send(200), Free("buf"), Free("json")>>
           t4 == <<Need("json"), Need("buf"), Send(200), Free("buf"), Free("json")>>
           t5 == <<Drop("uri"), Drop("path")>>
<1>1. ConfigBody = t2
  BY Join5and2 DEF ConfigBody, Done
<1>2. <<Only(NotFound)>> \o t4 = t3
  BY Join1and5
<1>3. t3 \o t5 = t1
  BY Join6and2
<1>4. t1 # <<>> /\ t1[1] = Only(NotFound) /\ Tail(t1) = t2
  OBVIOUS
<1>5. Configuration = (<<Only(NotFound)>> \o t4) \o t5
  BY DEF Configuration, OnlyGet, Done
<1> HIDE DEF t1, t2, t3, t4, t5
<1>6. QED
  BY <1>1, <1>2, <1>3, <1>4, <1>5

\* The dump of apptpl.
LEMMA OnlyDump ==
    LET td == ApptplDump IN td # <<>> /\ td[1] = Only(NotFound) /\ Tail(td) = DumpBody
<1> DEFINE a1 == <<Only(NotFound), Need("dump"), Grow("dump", Failing)>>
           a2 == <<Only(NotFound), Need("dump"), Grow("dump", Failing), Need("buf"), Free("dump")>>
           a3 == <<Only(NotFound), Need("dump"), Grow("dump", Failing), Need("buf"), Free("dump"),
                   Need("dump"), Grow("dump", CaptureFailing)>>
           a4 == <<Only(NotFound), Need("dump"), Grow("dump", Failing), Need("buf"), Free("dump"),
                   Need("dump"), Grow("dump", CaptureFailing), Free("dump"), Send(200), Free("buf")>>
           a5 == <<Only(NotFound), Need("dump"), Grow("dump", Failing), Need("buf"), Free("dump"),
                   Need("dump"), Grow("dump", CaptureFailing), Free("dump"), Send(200), Free("buf"),
                   Drop("uri"), Drop("path")>>
           b1 == <<Need("dump"), Grow("dump", Failing)>>
           b2 == <<Need("buf"), Free("dump")>>
           b3 == <<Need("dump"), Grow("dump", CaptureFailing)>>
           b4 == <<Free("dump"), Send(200), Free("buf")>>
           b5 == <<Drop("uri"), Drop("path")>>
<1>1. <<Only(NotFound)>> \o b1 = a1
  BY Join1and2
<1>2. a1 \o b2 = a2
  BY Join3and2
<1>3. a2 \o b3 = a3
  BY Join5and2
<1>4. a3 \o b4 = a4
  BY Join7and3
<1>5. a4 \o b5 = a5
  BY Join10and2
<1>6. a5 # <<>> /\ a5[1] = Only(NotFound) /\ Tail(a5) = DumpBody
  BY DEF DumpBody
<1>7. ApptplDump = ((((<<Only(NotFound)>> \o b1) \o b2) \o b3) \o b4) \o b5
  BY DEF ApptplDump, OnlyGet, ParserDump, CaptureDump, CaptureFailing, Done
<1> HIDE DEF a1, a2, a3, a4, a5, b1, b2, b3, b4, b5
<1>8. QED
  BY <1>1, <1>2, <1>3, <1>4, <1>5, <1>6, <1>7

\* Every page is answered rightly and leaves nothing.
LEMMA SafeCallback ==
    ASSUME NEW p \in Programs, NEW r, r.cmd \in {"GET", "HEAD"}, NEW u, Asking(p, u),
           r.path \in ToSet(RoutesOf(p)), NEW fa,
           r.cmd = "GET" \/ TakesHead(p, r.path) => Right(p, r, << 200 >>, fa),
           r.cmd # "GET" /\ ~TakesHead(p, r.path) => Right(p, r, << 404 >>, fa)
    PROVE  InLoop(p, r, Callback(p, r.path), u, <<>>, fa)
<1> DEFINE other == TRUE
<1>1. other = TRUE
  OBVIOUS
<1> HIDE DEF other
<1>2. Right(p, r, << 500 >>, other)
  BY <1>1 DEF Right
<1>3. CASE r.path \in {"/", "/status"}
  <2>1. Right(p, r, << 200 >>, fa) /\ Right(p, r, << 500 >>, TRUE)
    BY <1>2, <1>1, <1>3 DEF TakesHead
  <2>2. CASE p = "apptpl"
    <3>1. Callback(p, r.path) = ApptplStatus
      BY <1>3, <2>2 DEF Callback
    <3>2. QED
      BY <2>1, <2>2, <3>1, SafeApptplStatus
  <2>3. CASE p = "apptpl2"
    <3>1. Callback(p, r.path) = Apptpl2Status
      BY <1>3, <2>3 DEF Callback
    <3>2. QED
      BY <2>1, <2>3, <3>1, SafeApptpl2Status
  <2>4. CASE p = "cpptpl"
    <3>1. Callback(p, r.path) = CppStatus
      BY <1>3, <2>4 DEF Callback
    <3>2. QED
      BY <2>1, <2>4, <3>1, SafeCppStatus
  <2>5. QED
    BY <2>2, <2>3, <2>4 DEF Programs
<1>4. CASE r.path = "/help"
  <2>1. Right(p, r, << 200 >>, fa)
    BY <1>2, <1>4 DEF TakesHead
  <2>2. Callback(p, r.path) = ApptplHelp
    BY <1>4 DEF Callback
  <2>3. QED
    BY <2>1, <2>2, SafeHelp
<1>5. CASE r.path = "/version"
  <2>1. Right(p, r, << 200 >>, fa)
    BY <1>2, <1>5 DEF TakesHead
  <2>2. Callback(p, r.path) = Page
    BY <1>5 DEF Callback, ApptplVersion, Apptpl2Version, CppVersion
  <2>3. QED
    BY <2>1, <2>2, SafePage
<1>6. CASE r.path = "/stats"
  <2>1. CASE p = "apptpl2"
    <3>1. Right(p, r, << 200 >>, fa)
      BY <1>2, <1>6, <2>1 DEF TakesHead
    <3>2. Callback(p, r.path) = Page
      BY <1>6, <2>1 DEF Callback, Apptpl2Stats
    <3>3. QED
      BY <3>1, <3>2, SafePage
  <2>2. CASE p # "apptpl2"
    <3>1. ~TakesHead(p, r.path)
      BY <1>6, <2>2 DEF TakesHead
    <3>2. Callback(p, r.path) = OnlyGet \o Page
      BY <1>6, <2>2 DEF Callback, ApptplStats, CppStats
    <3>3. r.cmd = "GET" => InLoop(p, r, Page, u, <<>>, fa)
      BY <1>2, SafePage
    <3>4. QED
      BY <1>2, <3>1, <3>2, <3>3, OnlyPage, SafeOnly
  <2>3. QED
    BY <2>1, <2>2
<1>7. CASE r.path = "/config"
  <2>1. ~TakesHead(p, r.path)
    BY <1>7 DEF TakesHead
  <2>2. Callback(p, r.path) = Configuration
    BY <1>7 DEF Callback, ApptplConfig, Apptpl2Config, CppConfig, Configuration
  <2>3. r.cmd = "GET" => InLoop(p, r, ConfigBody, u, <<>>, fa)
    BY <1>2, SafeConfigBody
  <2>4. QED
    BY <1>2, <2>1, <2>2, <2>3, OnlyConfig, SafeOnly
<1>8. CASE r.path = "/dump"
  <2>1. ~TakesHead(p, r.path)
    BY <1>8 DEF TakesHead
  <2>2. CASE p = "apptpl"
    <3>1. Callback(p, r.path) = ApptplDump
      BY <1>8, <2>2 DEF Callback
    <3>2. r.cmd = "GET" => InLoop(p, r, DumpBody, u, <<>>, fa)
      BY <1>2, <1>1, SafeDumpBody
    <3>3. QED
      BY <1>2, <2>1, <3>1, <3>2, OnlyDump, SafeOnly
  <2>3. CASE p # "apptpl"
    <3>1. Callback(p, r.path) = OnlyGet \o Page
      BY <1>8, <2>3 DEF Callback, CppDump
    <3>2. r.cmd = "GET" => InLoop(p, r, Page, u, <<>>, fa)
      BY <1>2, SafePage
    <3>3. QED
      BY <1>2, <2>1, <3>1, <3>2, OnlyPage, SafeOnly
  <2>4. QED
    BY <2>2, <2>3
<1>9. QED
  BY <1>3, <1>4, <1>5, <1>6, <1>7, <1>8, RoutesAre

\* A request is answered rightly, and leaves nothing.
LEMMA SafeRequest ==
    ASSUME NEW p \in Programs, NEW r, r.cmd \in {"GET", "HEAD"}, NEW h, Steady(p, h),
           NEW fa, ~fa
    PROVE  InLoop(p, r, ApiHandler, h, <<>>, fa)
<1> DEFINE t1 == ApiHandler
           t2 == <<Get("path", NotFound), Find>>
           t3 == <<Find>>
           t4 == <<Send(400)>>
           v1 == h \cup {"uri"}
           v2 == h \cup {"uri", "path"}
           c  == << 400 >>
           other == TRUE
<1>1. t1 # <<>> /\ t1[1] = Get("uri", t4) /\ Tail(t1) = t2
  BY DEF ApiHandler
<1>2. t2 # <<>> /\ t2[1] = Get("path", NotFound) /\ Tail(t2) = t3
  OBVIOUS
<1>3. t3 # <<>> /\ t3[1] = Find /\ Tail(t3) = <<>>
  OBVIOUS
<1>4. t4 # <<>> /\ t4[1] = Send(400) /\ Tail(t4) = <<>>
  OBVIOUS
<1>5. /\ KeptOf(p) \subseteq h /\ KeptOf(p) \subseteq v1 /\ KeptOf(p) \subseteq v2
      /\ h \cup {"uri"} = v1 /\ v1 \cup {"path"} = v2
  BY DEF Steady
<1>6. Asking(p, v1) /\ Asking(p, v2)
  <2>1. h \ {"uri", "path"} = h
    BY RoutesAre DEF Steady, KeptOf, ForgottenOf, ExtraOf, Server
  <2>2. v1 \ {"uri", "path"} = h /\ v2 \ {"uri", "path"} = h
    BY <2>1
  <2>3. QED
    BY <2>2 DEF Asking
<1> HIDE DEF t1, t2, t3, t4, v1, v2
<1>7. other = TRUE
  OBVIOUS
<1> HIDE DEF other
<1>8. /\ Right(p, r, c, other) /\ Right(p, r, << 404 >>, other)
      /\ r.path \notin ToSet(RoutesOf(p)) => Right(p, r, << 404 >>, fa)
  BY <1>7 DEF Right, RightAnswer, Has, c
<1>9. ASSUME r.path \in ToSet(RoutesOf(p))
      PROVE  InLoop(p, r, Callback(p, r.path), v2, <<>>, fa)
  <2>1. /\ Asking(p, v2)
        /\ r.cmd = "GET" \/ TakesHead(p, r.path) => Right(p, r, << 200 >>, fa)
        /\ r.cmd # "GET" /\ ~TakesHead(p, r.path) => Right(p, r, << 404 >>, fa)
    BY <1>6, <1>7, <1>9 DEF Right, RightAnswer, Has
  <2>2. QED
    BY <1>9, <2>1, SafeCallback
<1> HIDE DEF c
<1>10. InLoop(p, r, <<>>, h, c, other)
  BY <1>8, Waits
<1>11. InLoop(p, r, t4, h, <<>>, other)
  <2> DEFINE code == 400
  <2>1. t4 # <<>> /\ t4[1] = Send(code) /\ KeptOf(p) \subseteq h
    BY <1>4, <1>5
  <2>2. InLoop(p, r, Tail(t4), h, <<code>>, other)
    BY <1>4, <1>10 DEF c
  <2> HIDE DEF code
  <2>3. QED
    BY <2>1, <2>2, LoopSend
<1>12. InLoop(p, r, NotFound, v1, <<>>, other)
  BY <1>6, <1>8, SafeNotFound
<1>13. r.path \notin ToSet(RoutesOf(p)) => InLoop(p, r, NotFound, v2, <<>>, fa)
  BY <1>6, <1>8, SafeNotFound
<1>14. InLoop(p, r, t3, v2, <<>>, fa)
  BY <1>3, <1>5, <1>9, <1>13, LoopFind
<1>15. InLoop(p, r, t2, v1, <<>>, fa)
  BY <1>2, <1>5, <1>7, <1>12, <1>14, LoopGet
<1>16. InLoop(p, r, t1, h, <<>>, fa)
  BY <1>1, <1>5, <1>7, <1>11, <1>15, LoopGet
<1>17. QED
  BY <1>7, <1>16 DEF t1

-----------------------------------------------------------------------------
(***************************************************************************)
(* The start and the end of a program.                                     *)
(***************************************************************************)
\* No client is served; whether something failed does not matter.
Runs(p, ph, td, h, ls) == \A fa : Safe(p, NoRequest, K(ph, td, h, ls, <<>>, fa))

\* What has to hold between any two steps.
Sound(p, ph, h, ls) ==
    /\ ph \in {"start", "end"}
    /\ h \cap Registered # {} => "base" \in h
    /\ ToSet(ls) \subseteq h
    /\ IF ph = "end" THEN \E n \in Some(p) : ls = RestOf(p, n)
                     ELSE \E n \in Some(p) : ls = FirstOf(p, n)

\* One step.
LEMMA RunsStep ==
    ASSUME NEW p, NEW ph, NEW td, NEW h, NEW ls, Sound(p, ph, h, ls), td # <<>>,
           td[1].op = "free" => td[1].x \in h,
           td[1].op \notin {"send", "only", "find", "grow"},
           td[1].op = "link" => td[1].x \in Items \ ToSet(ls),
           td[1].op = "unlink" => td[1].x \in {"head", IF ls = <<>> THEN NoItem ELSE ls[1]},
           td[1].op = "loop" => Tail(td) = <<>>, td[1].op = "close" => ph = "start",
           \A fa : \A l \in Follow(p, NoRequest, ph, td, h, ls, <<>>, fa) : Safe(p, NoRequest, l)
    PROVE  Runs(p, ph, td, h, ls)
<1> SUFFICES ASSUME NEW fa PROVE Safe(p, NoRequest, K(ph, td, h, ls, <<>>, fa))
  BY DEF Runs
<1>1. Good(p, NoRequest, K(ph, td, h, ls, <<>>, fa))
  BY DEF Good, K, Ready, Sound
<1>2. QED
  BY <1>1, SafeStep

\* What is acquired, or not.
LEMMA RunsGet ==
    ASSUME NEW p, NEW ph, NEW td, NEW h, NEW ls, Sound(p, ph, h, ls), td # <<>>,
           NEW x, NEW other, td[1] = Get(x, other),
           Runs(p, ph, Tail(td), h \cup {x}, ls), Runs(p, ph, other, h, ls)
    PROVE  Runs(p, ph, td, h, ls)
<1>1. td[1].op = "get"
  BY DEF Get
<1>2. ASSUME NEW fa PROVE \A l \in Follow(p, NoRequest, ph, td, h, ls, <<>>, fa) : Safe(p, NoRequest, l)
  <2>1. Follow(p, NoRequest, ph, td, h, ls, <<>>, fa) =
          {K(ph, Tail(td), h \cup {x}, ls, <<>>, fa), K(ph, other, h, ls, <<>>, TRUE)}
    BY DEF Follow, Get
  <2>2. QED
    BY <2>1 DEF Runs
<1>3. QED
  BY <1>1, <1>2, RunsStep

\* What is checked.
LEMMA RunsCheck ==
    ASSUME NEW p, NEW ph, NEW td, NEW h, NEW ls, Sound(p, ph, h, ls), td # <<>>,
           NEW other, td[1] = Check(other),
           Runs(p, ph, Tail(td), h, ls), Runs(p, ph, other, h, ls)
    PROVE  Runs(p, ph, td, h, ls)
<1>1. td[1].op = "check"
  BY DEF Check
<1>2. ASSUME NEW fa PROVE \A l \in Follow(p, NoRequest, ph, td, h, ls, <<>>, fa) : Safe(p, NoRequest, l)
  <2>1. Follow(p, NoRequest, ph, td, h, ls, <<>>, fa) =
          {K(ph, Tail(td), h, ls, <<>>, fa), K(ph, other, h, ls, <<>>, TRUE)}
    BY DEF Follow, Check
  <2>2. QED
    BY <2>1 DEF Runs
<1>3. QED
  BY <1>1, <1>2, RunsStep

\* What the program goes on without.
LEMMA RunsTry ==
    ASSUME NEW p, NEW ph, NEW td, NEW h, NEW ls, Sound(p, ph, h, ls), td # <<>>,
           NEW x, td[1] = Try(x),
           Runs(p, ph, Tail(td), h \cup {x}, ls), Runs(p, ph, Tail(td), h, ls)
    PROVE  Runs(p, ph, td, h, ls)
<1>1. td[1].op = "try"
  BY DEF Try
<1>2. ASSUME NEW fa PROVE \A l \in Follow(p, NoRequest, ph, td, h, ls, <<>>, fa) : Safe(p, NoRequest, l)
  <2>1. Follow(p, NoRequest, ph, td, h, ls, <<>>, fa) =
          {K(ph, Tail(td), h \cup {x}, ls, <<>>, fa), K(ph, Tail(td), h, ls, <<>>, fa)}
    BY DEF Follow, Try
  <2>2. QED
    BY <2>1 DEF Runs
<1>3. QED
  BY <1>1, <1>2, RunsStep

\* A process that crashes while it starts.
LEMMA CrashesAtStart ==
    ASSUME NEW p, NEW h, NEW ls, Sound(p, "start", h, ls), NEW fa
    PROVE  Safe(p, NoRequest, K("crashed", <<>>, h, ls, <<>>, fa))
<1>1. Good(p, NoRequest, K("crashed", <<>>, h, ls, <<>>, fa))
  BY DEF Good, K, Sound
<1>2. QED
  BY <1>1, SafeEnd

\* An allocation that is not checked.
LEMMA RunsNeed ==
    ASSUME NEW p, NEW td, NEW h, NEW ls, Sound(p, "start", h, ls), td # <<>>,
           NEW x, td[1] = Need(x), Runs(p, "start", Tail(td), h \cup {x}, ls)
    PROVE  Runs(p, "start", td, h, ls)
<1>1. td[1].op = "need"
  BY DEF Need
<1>2. ASSUME NEW fa
      PROVE \A l \in Follow(p, NoRequest, "start", td, h, ls, <<>>, fa) : Safe(p, NoRequest, l)
  <2>1. Follow(p, NoRequest, "start", td, h, ls, <<>>, fa) =
          {K("start", Tail(td), h \cup {x}, ls, <<>>, fa), K("crashed", <<>>, h, ls, <<>>, fa)}
    BY DEF Follow, Need
  <2>2. QED
    BY <2>1, CrashesAtStart DEF Runs
<1>3. QED
  BY <1>1, <1>2, RunsStep

\* A route that is added to the table.
LEMMA RunsLink ==
    ASSUME NEW p, NEW td, NEW h, NEW ls, Sound(p, "start", h, ls), td # <<>>,
           NEW x \in Items \ ToSet(ls), td[1] = Link(x),
           Runs(p, "start", Tail(td), h, Append(ls, x))
    PROVE  Runs(p, "start", td, h, ls)
<1>1. td[1].op = "link" /\ td[1].x = x
  BY DEF Link
<1>2. ASSUME NEW fa
      PROVE \A l \in Follow(p, NoRequest, "start", td, h, ls, <<>>, fa) : Safe(p, NoRequest, l)
  <2>1. Follow(p, NoRequest, "start", td, h, ls, <<>>, fa) =
          {K("start", Tail(td), h, Append(ls, x), <<>>, fa), K("crashed", <<>>, h, ls, <<>>, fa)}
    BY <1>1 DEF Follow
  <2>2. QED
    BY <2>1, CrashesAtStart DEF Runs
<1>3. QED
  BY <1>1, <1>2, RunsStep

\* What is released.
LEMMA RunsFree ==
    ASSUME NEW p, NEW ph, NEW td, NEW h, NEW ls, Sound(p, ph, h, ls), td # <<>>,
           NEW x, td[1] = Free(x), x \in h, Runs(p, ph, Tail(td), h \ {x}, ls)
    PROVE  Runs(p, ph, td, h, ls)
<1>1. td[1].op = "free" /\ td[1].x = x
  BY DEF Free
<1>2. ASSUME NEW fa PROVE \A l \in Follow(p, NoRequest, ph, td, h, ls, <<>>, fa) : Safe(p, NoRequest, l)
  <2>1. Follow(p, NoRequest, ph, td, h, ls, <<>>, fa) = {K(ph, Tail(td), h \ {x}, ls, <<>>, fa)}
    BY <1>1 DEF Follow
  <2>2. QED
    BY <2>1 DEF Runs
<1>3. QED
  BY <1>1, <1>2, RunsStep

\* What is released if it is there.
LEMMA RunsDrop ==
    ASSUME NEW p, NEW ph, NEW td, NEW h, NEW ls, Sound(p, ph, h, ls), td # <<>>,
           NEW x, td[1] = Drop(x), Runs(p, ph, Tail(td), h \ {x}, ls)
    PROVE  Runs(p, ph, td, h, ls)
<1>1. td[1].op = "drop" /\ td[1].x = x
  BY DEF Drop
<1>2. ASSUME NEW fa PROVE \A l \in Follow(p, NoRequest, ph, td, h, ls, <<>>, fa) : Safe(p, NoRequest, l)
  <2>1. Follow(p, NoRequest, ph, td, h, ls, <<>>, fa) = {K(ph, Tail(td), h \ {x}, ls, <<>>, fa)}
    BY <1>1 DEF Follow
  <2>2. QED
    BY <2>1 DEF Runs
<1>3. QED
  BY <1>1, <1>2, RunsStep

\* The next route that is freed.
LEMMA RunsUnlink ==
    ASSUME NEW p, NEW td, NEW h, NEW ls, Sound(p, "end", h, ls), td # <<>>,
           NEW x, td[1] = Unlink(x), x \in {"head", IF ls = <<>> THEN NoItem ELSE ls[1]},
           ls = <<>> => Runs(p, "end", Tail(td), h, ls),
           ls # <<>> => Runs(p, "end", <<Unlink(IF Len(ls) = 1 THEN NoItem ELSE ls[2])>> \o Tail(td),
                             h \ {ls[1]}, Tail(ls))
    PROVE  Runs(p, "end", td, h, ls)
<1>1. td[1].op = "unlink" /\ td[1].x = x
  BY DEF Unlink
<1>2. ASSUME NEW fa
      PROVE \A l \in Follow(p, NoRequest, "end", td, h, ls, <<>>, fa) : Safe(p, NoRequest, l)
  <2>1. Follow(p, NoRequest, "end", td, h, ls, <<>>, fa) =
          {IF ls = <<>> THEN K("end", Tail(td), h, ls, <<>>, fa)
           ELSE K("end", <<Unlink(IF Len(ls) = 1 THEN NoItem ELSE ls[2])>> \o Tail(td),
                  h \ {ls[1]}, Tail(ls), <<>>, fa)}
    BY <1>1 DEF Follow
  <2>2. QED
    BY <2>1 DEF Runs
<1>3. QED
  BY <1>1, <1>2, RunsStep

\* The threads that are joined, and have returned.
LEMMA RunsJoin ==
    ASSUME NEW p, NEW ph, NEW td, NEW h, NEW ls, Sound(p, ph, h, ls), td # <<>>, td[1] = Join,
           Runs(p, ph, Tail(td), h, ls)
    PROVE  Runs(p, ph, td, h, ls)
<1>1. td[1].op = "join"
  BY DEF Join
<1>2. ASSUME NEW fa PROVE \A l \in Follow(p, NoRequest, ph, td, h, ls, <<>>, fa) : Safe(p, NoRequest, l)
  <2>1. Follow(p, NoRequest, ph, td, h, ls, <<>>, fa) = {K(ph, Tail(td), h, ls, <<>>, fa)}
    BY <1>1 DEF Follow
  <2>2. QED
    BY <2>1 DEF Runs
<1>3. QED
  BY <1>1, <1>2, RunsStep

\* The start that is given up.
LEMMA RunsCloseEarly ==
    ASSUME NEW p, NEW td, NEW h, NEW ls, Sound(p, "start", h, ls), td # <<>>, td[1] = Close,
           Runs(p, "end", Tail(td), h, ls)
    PROVE  Runs(p, "start", td, h, ls)
<1>1. td[1].op = "close"
  BY DEF Close
<1>2. ASSUME NEW fa
      PROVE \A l \in Follow(p, NoRequest, "start", td, h, ls, <<>>, fa) : Safe(p, NoRequest, l)
  <2>1. Follow(p, NoRequest, "start", td, h, ls, <<>>, fa) = {K("end", Tail(td), h, ls, <<>>, fa)}
    BY <1>1 DEF Follow
  <2>2. QED
    BY <2>1 DEF Runs
<1>3. QED
  BY <1>1, <1>2, RunsStep

\* The end of the process.
LEMMA RunsExit ==
    ASSUME NEW p, NEW ph, NEW td, NEW h, NEW ls, Sound(p, ph, h, ls), td # <<>>, td[1] = Exit,
           h \subseteq ForgottenOf(p) \cup Items, ls = <<>> => h \subseteq ForgottenOf(p),
           \E n \in Some(p) : ls = FirstOf(p, n)
    PROVE  Runs(p, ph, td, h, ls)
<1>1. td[1].op = "exit"
  BY DEF Exit
<1>2. ASSUME NEW fa PROVE \A l \in Follow(p, NoRequest, ph, td, h, ls, <<>>, fa) : Safe(p, NoRequest, l)
  <2>1. Follow(p, NoRequest, ph, td, h, ls, <<>>, fa) = {K("exited", <<>>, h, ls, <<>>, fa)}
    BY <1>1 DEF Follow
  <2>2. Good(p, NoRequest, K("exited", <<>>, h, ls, <<>>, fa))
    BY DEF Good, K, Sound
  <2>3. QED
    BY <2>1, <2>2, SafeEnd
<1>3. QED
  BY <1>1, <1>2, RunsStep

\* The start that is done.
LEMMA RunsLoop ==
    ASSUME NEW p \in Programs, NEW td, NEW h, Sound(p, "start", h, RoutesOf(p)), td # <<>>,
           td[1] = Loop, Tail(td) = <<>>, Steady(p, h)
    PROVE  Runs(p, "start", td, h, RoutesOf(p))
<1>1. td[1].op = "loop"
  BY DEF Loop
<1>2. ASSUME NEW fa
      PROVE \A l \in Follow(p, NoRequest, "start", td, h, RoutesOf(p), <<>>, fa) : Safe(p, NoRequest, l)
  <2>1. Follow(p, NoRequest, "start", td, h, RoutesOf(p), <<>>, fa) =
          {K("loop", <<>>, h, RoutesOf(p), <<>>, fa)}
    BY <1>1 DEF Follow
  <2>2. Right(p, NoRequest, <<>>, fa)
    BY DEF Right, NoRequest
  <2>3. QED
    BY <2>1, <2>2, Waits DEF InLoop
<1>3. QED
  BY <1>1, <1>2, RunsStep

-----------------------------------------------------------------------------
(***************************************************************************)
(* Lists of steps, put together and taken apart.                           *)
(***************************************************************************)
IsList(s) == \E X : s \in Seq(X)

\* A list of more things.
LEMMA MoreThings ==
    ASSUME NEW X, NEW Y, X \subseteq Y, NEW s \in Seq(X)
    PROVE  s \in Seq(Y)
<1>1. Len(s) \in Nat /\ s \in [1 .. Len(s) -> X]
  OBVIOUS
<1>2. s \in [1 .. Len(s) -> Y]
  BY <1>1
<1>3. QED
  BY <1>1, <1>2, SeqDef

\* Two lists in a row.
LEMMA InARow ==
    ASSUME NEW s, NEW t, IsList(s), IsList(t)
    PROVE  /\ IsList(s \o t)
           /\ s = <<>> => s \o t = t
           /\ s # <<>> => /\ s \o t # <<>> /\ (s \o t)[1] = s[1]
                          /\ Tail(s \o t) = Tail(s) \o t /\ IsList(Tail(s))
<1>1. PICK X : s \in Seq(X)
  BY DEF IsList
<1>2. PICK Y : t \in Seq(Y)
  BY DEF IsList
<1> DEFINE Z == X \cup Y
<1>3. s \in Seq(Z) /\ t \in Seq(Z)
  BY <1>1, <1>2, MoreThings
<1> HIDE DEF Z
<1>4. s \o t \in Seq(Z) /\ Len(s \o t) = Len(s) + Len(t)
  BY <1>3, ConcatProperties
<1>5. s = <<>> => s \o t = t
  BY <1>3, ConcatEmptySeq
<1>6. ASSUME s # <<>>
      PROVE  s \o t # <<>> /\ (s \o t)[1] = s[1] /\ Tail(s \o t) = Tail(s) \o t /\ Tail(s) \in Seq(Z)
  <2> DEFINE a == s \o t
             b == Tail(a)
             c == Tail(s) \o t
  <2>1. Len(s) \in Nat /\ Len(t) \in Nat /\ Len(s) > 0
    BY <1>3, <1>6, EmptySeq
  <2>2. a \in Seq(Z) /\ a # <<>> /\ Len(a) = Len(s) + Len(t)
    BY <1>4, <2>1, EmptySeq
  <2>3. \A i \in 1 .. Len(s) + Len(t) : a[i] = IF i <= Len(s) THEN s[i] ELSE t[i - Len(s)]
    BY <1>3, ConcatProperties
  <2>4. Tail(s) \in Seq(Z) /\ Len(Tail(s)) = Len(s) - 1 /\ \A i \in 1 .. Len(s) - 1 : Tail(s)[i] = s[i + 1]
    BY <1>3, <1>6, HeadTailProperties
  <2>5. /\ c \in Seq(Z) /\ Len(c) = Len(s) - 1 + Len(t)
        /\ \A i \in 1 .. Len(s) - 1 + Len(t) :
             c[i] = IF i <= Len(s) - 1 THEN Tail(s)[i] ELSE t[i - (Len(s) - 1)]
    BY <1>3, <2>4, ConcatProperties
  <2> HIDE DEF a
  <2>6. b \in Seq(Z) /\ Len(b) = Len(a) - 1 /\ \A i \in 1 .. Len(a) - 1 : b[i] = a[i + 1]
    BY <2>2, HeadTailProperties
  <2> HIDE DEF b, c
  <2>7. ASSUME NEW i \in 1 .. Len(b) PROVE b[i] = c[i]
    <3>1. b[i] = a[i + 1] /\ i + 1 \in 1 .. Len(s) + Len(t) /\ i \in 1 .. Len(s) - 1 + Len(t)
      BY <2>1, <2>2, <2>6
    <3>2. CASE i <= Len(s) - 1
      <4>1. b[i] = s[i + 1]
        BY <2>1, <2>3, <3>1, <3>2
      <4>2. c[i] = s[i + 1]
        BY <2>1, <2>4, <2>5, <3>1, <3>2
      <4>3. QED
        BY <4>1, <4>2
    <3>3. CASE ~(i <= Len(s) - 1)
      <4>1. b[i] = t[(i + 1) - Len(s)]
        BY <2>1, <2>3, <3>1, <3>3
      <4>2. c[i] = t[i - (Len(s) - 1)] /\ i - (Len(s) - 1) = (i + 1) - Len(s)
        <5>1. c[i] = IF i <= Len(s) - 1 THEN Tail(s)[i] ELSE t[i - (Len(s) - 1)]
          BY <2>5, <3>1
        <5>2. i - (Len(s) - 1) = (i + 1) - Len(s)
          BY <2>1, <3>1
        <5>3. QED
          BY <3>3, <5>1, <5>2
      <4>3. QED
        BY <4>1, <4>2
    <3>4. QED
      BY <3>2, <3>3
  <2>8. b = c
    <3>1. b \in Seq(Z) /\ c \in Seq(Z)
      BY <2>5, <2>6
    <3>2. Len(b) = Len(c)
      BY <2>1, <2>2, <2>5, <2>6
    <3>3. QED
      BY <2>7, <3>1, <3>2, SeqEqual
  <2>9. a[1] = s[1]
    BY <2>1, <2>3
  <2>10. QED
    BY <2>2, <2>4, <2>8, <2>9 DEF a, b, c
<1>7. QED
  BY <1>4, <1>5, <1>6 DEF IsList

\* Three lists in a row.
LEMMA AllInARow ==
    ASSUME NEW s, NEW t, NEW u, IsList(s), IsList(t), IsList(u)
    PROVE  (s \o t) \o u = s \o (t \o u)
<1>1. PICK X : s \in Seq(X)
  BY DEF IsList
<1>2. PICK Y : t \in Seq(Y)
  BY DEF IsList
<1>3. PICK Z : u \in Seq(Z)
  BY DEF IsList
<1> DEFINE W == X \cup (Y \cup Z)
<1>4. s \in Seq(W)
  <2>1. X \subseteq W
    OBVIOUS
  <2>2. QED
    BY <1>1, <2>1, MoreThings
<1>5. t \in Seq(W)
  <2>1. Y \subseteq W
    OBVIOUS
  <2>2. QED
    BY <1>2, <2>1, MoreThings
<1>6. u \in Seq(W)
  <2>1. Z \subseteq W
    OBVIOUS
  <2>2. QED
    BY <1>3, <2>1, MoreThings
<1> HIDE DEF W
<1>7. QED
  BY <1>4, <1>5, <1>6, ConcatAssociative

\* The rest of a list.
LEMMA RestOfList ==
    ASSUME NEW X, NEW s \in Seq(X), NEW m \in 1 .. Len(s) + 1
    PROVE  LET r == SubSeq(s, m, Len(s)) IN
           /\ IsList(r)
           /\ m = Len(s) + 1 => r = <<>>
           /\ m <= Len(s) => r # <<>> /\ r[1] = s[m] /\ Tail(r) = SubSeq(s, m + 1, Len(s))
<1> DEFINE n == Len(s)
           r == SubSeq(s, m, n)
           q == SubSeq(s, m + 1, n)
<1>1. n \in Nat /\ m \in Nat /\ m >= 1 /\ m <= n + 1
  OBVIOUS
<1>2. r \in Seq(X) /\ Len(r) = n - m + 1 /\ \A i \in 1 .. n - m + 1 : r[i] = s[m + i - 1]
  BY <1>1, SubSeqProperties
<1>3. m = n + 1 => r = <<>>
  BY <1>1, <1>2, EmptySeq
<1>4. ASSUME m <= n PROVE r # <<>> /\ r[1] = s[m] /\ Tail(r) = q
  <2>1. r # <<>> /\ r[1] = s[m]
    <3> HIDE DEF r, n
    <3>1. Len(r) >= 1 /\ 1 \in 1 .. n - m + 1 /\ m + 1 - 1 = m
      BY <1>1, <1>2, <1>4
    <3>2. r[1] = s[m]
      BY <1>2, <3>1
    <3>3. QED
      BY <1>2, <3>1, <3>2, EmptySeq
  <2>2. q \in Seq(X) /\ Len(q) = n - m /\ \A i \in 1 .. n - m : q[i] = s[m + i]
    <3>1. /\ q \in Seq(X) /\ Len(q) = IF m + 1 <= n THEN n - (m + 1) + 1 ELSE 0
          /\ \A i \in 1 .. n - (m + 1) + 1 : q[i] = s[(m + 1) + i - 1]
      BY <1>1, <1>4, SubSeqProperties
    <3> HIDE DEF q, n
    <3>2. n - (m + 1) + 1 = n - m /\ \A i \in 1 .. n - m : (m + 1) + i - 1 = m + i
      BY <1>1
    <3>3. QED
      BY <1>1, <1>4, <3>1, <3>2
  <2>3. Tail(r) \in Seq(X) /\ Len(Tail(r)) = Len(r) - 1 /\ \A i \in 1 .. Len(r) - 1 : Tail(r)[i] = r[i + 1]
    BY <1>2, <2>1, HeadTailProperties
  <2> HIDE DEF r, q, n
  <2>4. Len(Tail(r)) = Len(q) /\ \A i \in 1 .. Len(q) : Tail(r)[i] = q[i]
    BY <1>1, <1>2, <1>4, <2>2, <2>3
  <2>5. QED
    BY <2>1, <2>2, <2>3, <2>4, SeqEqual
<1>5. QED
  BY <1>2, <1>3, <1>4 DEF IsList

\* The routes up to the one after the n-th.
LEMMA FirstRoutes ==
    ASSUME NEW p \in Programs, NEW n \in 0 .. Len(RoutesOf(p)) - 1
    PROVE  /\ FirstOf(p, n + 1) = Append(FirstOf(p, n), RoutesOf(p)[n + 1])
           /\ ToSet(FirstOf(p, n + 1)) = ToSet(FirstOf(p, n)) \cup {RoutesOf(p)[n + 1]}
           /\ RoutesOf(p)[n + 1] \in Items \ ToSet(FirstOf(p, n))
<1> DEFINE R == RoutesOf(p)
           a == SubSeq(R, 1, n)
           b == SubSeq(R, 1, n + 1)
           x == R[n + 1]
<1>1. R \in Seq(Items) /\ \A i, j \in 1 .. Len(R) : R[i] = R[j] => i = j
  BY RoutesAre DEF IsInjective
<1> HIDE DEF R
<1>2. Len(R) \in Nat /\ n \in Nat /\ n + 1 <= Len(R)
  BY <1>1 DEF R
<1>3. a \in Seq(Items) /\ Len(a) = n /\ \A i \in 1 .. n : a[i] = R[i]
  <2>1. a \in Seq(Items) /\ Len(a) = n - 1 + 1 /\ \A i \in 1 .. n - 1 + 1 : a[i] = R[1 + i - 1]
    BY <1>1, <1>2, SubSeqProperties
  <2> HIDE DEF a
  <2>2. n - 1 + 1 = n /\ \A i \in 1 .. n : 1 + i - 1 = i
    BY <1>2
  <2>3. QED
    BY <2>1, <2>2
<1>4. b \in Seq(Items) /\ Len(b) = n + 1 /\ \A i \in 1 .. n + 1 : b[i] = R[i]
  <2>1. /\ b \in Seq(Items) /\ Len(b) = n + 1 - 1 + 1
        /\ \A i \in 1 .. n + 1 - 1 + 1 : b[i] = R[1 + i - 1]
    BY <1>1, <1>2, SubSeqProperties
  <2> HIDE DEF b
  <2>2. n + 1 - 1 + 1 = n + 1 /\ \A i \in 1 .. n + 1 : 1 + i - 1 = i
    BY <1>2
  <2>3. QED
    BY <2>1, <2>2
<1>5. x \in Items
  BY <1>1, <1>2
<1> HIDE DEF a, b, x
<1>6. Append(a, x) \in Seq(Items) /\ Len(Append(a, x)) = n + 1
      /\ (\A i \in 1 .. n : Append(a, x)[i] = a[i]) /\ Append(a, x)[n + 1] = x
  BY <1>2, <1>3, <1>5, AppendProperties
<1>7. \A i \in 1 .. n + 1 : Append(a, x)[i] = b[i]
  BY <1>2, <1>3, <1>4, <1>6 DEF x
<1>8. b = Append(a, x)
  <2> DEFINE c == Append(a, x)
  <2>1. c \in Seq(Items) /\ Len(c) = Len(b) /\ \A i \in 1 .. Len(c) : c[i] = b[i]
    BY <1>4, <1>6, <1>7
  <2> HIDE DEF c
  <2>2. b = c
    BY <1>4, <2>1, SeqEqual
  <2>3. QED
    BY <2>2 DEF c
<1>9. x \notin ToSet(a)
  BY <1>1, <1>2, <1>3 DEF ToSet, x
<1>10. ToSet(b) = ToSet(a) \cup {x}
  BY <1>2, <1>3, <1>4 DEF ToSet, x
<1>11. QED
  BY <1>5, <1>8, <1>9, <1>10 DEF a, b, x, R, FirstOf

\* None of the routes, and all of them.
LEMMA NoRoutes ==
    ASSUME NEW p \in Programs
    PROVE  /\ Len(RoutesOf(p)) \in Nat /\ Some(p) = 0 .. Len(RoutesOf(p))
           /\ FirstOf(p, 0) = <<>> /\ ToSet(FirstOf(p, 0)) = {}
           /\ FirstOf(p, Len(RoutesOf(p))) = RoutesOf(p)
           /\ RestOf(p, 0) = RoutesOf(p) /\ RestOf(p, Len(RoutesOf(p))) = <<>>
<1> DEFINE R == RoutesOf(p)
<1>1. R \in Seq(Items)
  BY RoutesAre
<1> HIDE DEF R
<1>2. SubSeq(R, 1, Len(R)) = R /\ SubSeq(R, 0 + 1, Len(R)) = R
  BY <1>1, SubSeqFull
<1>3. SubSeq(R, Len(R) + 1, Len(R)) = <<>>
  BY <1>1, RestOfList
<1>4. SubSeq(R, 1, 0) = <<>> /\ ToSet(<<>>) = {}
  BY <1>1 DEF ToSet
<1>5. Len(R) \in Nat
  BY <1>1
<1>6. QED
  BY <1>2, <1>3, <1>4, <1>5 DEF R, Some, FirstOf, RestOf

\* The routes after the n-th.
LEMMA OtherRoutes ==
    ASSUME NEW p \in Programs, NEW n \in 0 .. Len(RoutesOf(p)) - 1
    PROVE  LET ls == RestOf(p, n) IN
           /\ ls # <<>> /\ Tail(ls) = RestOf(p, n + 1)
           /\ ToSet(Tail(ls)) = ToSet(ls) \ {ls[1]} /\ ls[1] \in ToSet(ls)
           /\ Len(ls) = 1 <=> Tail(ls) = <<>>
           /\ Len(ls) # 1 => ls[2] = Tail(ls)[1]
           /\ ToSet(ls) \subseteq ToSet(RoutesOf(p))
<1> DEFINE R == RoutesOf(p)
           N == Len(R)
           a == SubSeq(R, n + 1, N)
           b == Tail(a)
<1>1. R \in Seq(Items) /\ \A i, j \in 1 .. Len(R) : R[i] = R[j] => i = j
  BY RoutesAre DEF IsInjective
<1> HIDE DEF R
<1>2. N \in Nat /\ n \in Nat /\ n + 1 <= N /\ n + 1 \in 1 .. N + 1
  BY <1>1 DEF R
<1>3. a \in Seq(Items) /\ Len(a) = N - n /\ \A i \in 1 .. N - n : a[i] = R[n + i]
  <2>1. /\ a \in Seq(Items) /\ Len(a) = N - (n + 1) + 1
        /\ \A i \in 1 .. N - (n + 1) + 1 : a[i] = R[(n + 1) + i - 1]
    BY <1>1, <1>2, SubSeqProperties
  <2> HIDE DEF a, N
  <2>2. N - (n + 1) + 1 = N - n /\ \A i \in 1 .. N - n : (n + 1) + i - 1 = n + i
    BY <1>2
  <2>3. QED
    BY <2>1, <2>2
<1>4. a # <<>> /\ b = SubSeq(R, (n + 1) + 1, N)
  BY <1>1, <1>2, RestOfList
<1> HIDE DEF a
<1>5. b \in Seq(Items) /\ Len(b) = N - n - 1 /\ \A i \in 1 .. N - n - 1 : b[i] = a[i + 1]
  BY <1>3, <1>4, HeadTailProperties
<1> HIDE DEF b, N
<1>6. ToSet(a) = {a[i] : i \in 1 .. N - n} /\ ToSet(b) = {b[i] : i \in 1 .. N - n - 1}
  <2>1. DOMAIN a = 1 .. N - n /\ DOMAIN b = 1 .. N - n - 1
    BY <1>3, <1>5
  <2>2. QED
    BY <2>1 DEF ToSet
<1>7. \A i \in 1 .. N - n : a[i] \in ToSet(a) /\ (a[i] = a[1] => i = 1)
  BY <1>1, <1>2, <1>3, <1>6 DEF N
<1>8. ToSet(b) = ToSet(a) \ {a[1]} /\ a[1] \in ToSet(a)
  <2>1. a[1] \in ToSet(a)
    BY <1>2, <1>7
  <2>2. \A y \in ToSet(b) : y \in ToSet(a) /\ y # a[1]
    BY <1>2, <1>5, <1>6, <1>7
  <2>3. ASSUME NEW y \in ToSet(a), y # a[1] PROVE y \in ToSet(b)
    <3>1. PICK i \in 1 .. N - n : y = a[i]
      BY <1>6
    <3>2. i # 1
      BY <2>3, <3>1
    <3>3. i - 1 \in 1 .. N - n - 1 /\ (i - 1) + 1 = i
      BY <1>2, <3>2
    <3>4. y = b[i - 1]
      BY <1>5, <3>1, <3>3
    <3>5. QED
      BY <1>6, <3>3, <3>4
  <2>4. QED
    BY <2>1, <2>2, <2>3
<1>9. (Len(a) = 1 <=> b = <<>>) /\ (Len(a) # 1 => a[2] = b[1])
  BY <1>2, <1>3, <1>5, EmptySeq
<1>10. ToSet(a) \subseteq ToSet(R)
  <2>1. ToSet(R) = {R[i] : i \in 1 .. N}
    BY <1>1 DEF ToSet, N
  <2>2. ASSUME NEW i \in 1 .. N - n PROVE a[i] \in ToSet(R)
    <3>1. n + i \in 1 .. N
      BY <1>2
    <3>2. QED
      BY <1>3, <2>1, <3>1
  <2>3. QED
    BY <1>6, <2>2
<1>11. QED
  BY <1>2, <1>4, <1>8, <1>9, <1>10 DEF a, b, N, R, RestOf

-----------------------------------------------------------------------------
(***************************************************************************)
(* The end.                                                                *)
(***************************************************************************)
Chan(p)    == IF p = "apptpl2" THEN {"chan"} ELSE {}
RestEnd(p) == IF p = "apptpl2" THEN <<Free("chan"), Exit>> ELSE <<Exit>>

\* None of the names that a program holds beside its routes is a route.
LEMMA OtherNames ==
    ASSUME NEW p \in Programs
    PROVE  ToSet(RoutesOf(p)) \cap {"base", "sigint", "sigterm", "timer", "httpd", "ssl", "chan",
                                    "redis", "text", "lost"} = {}
BY RoutesAre

\* What is left to do is a list.
LEMMA RestEndIs ==
    ASSUME NEW p
    PROVE  IsList(RestEnd(p))
<1>1. <<Free("chan"), Exit>> \in Seq({Free("chan"), Exit}) /\ <<Exit>> \in Seq({Exit})
  OBVIOUS
<1>2. QED
  BY <1>1 DEF IsList, RestEnd

\* The last steps, with some routes left that are never freed, or with none.
LEMMA RunsRestEnd ==
    ASSUME NEW p \in Programs, NEW ph \in {"start", "end"}, NEW n \in Some(p), NEW h,
           ph = "end" => FirstOf(p, n) = <<>>, ToSet(FirstOf(p, n)) \subseteq h, Chan(p) \subseteq h,
           h \subseteq Chan(p) \cup ForgottenOf(p) \cup ToSet(FirstOf(p, n)),
           ToSet(FirstOf(p, n)) \subseteq ToSet(RoutesOf(p))
    PROVE  Runs(p, ph, RestEnd(p), h, FirstOf(p, n))
<1> DEFINE ls == FirstOf(p, n)
           t1 == <<Free("chan"), Exit>>
           t2 == <<Exit>>
           v  == h \ {"chan"}
<1>1. t1 # <<>> /\ t1[1] = Free("chan") /\ Tail(t1) = t2
  OBVIOUS
<1>2. t2 # <<>> /\ t2[1] = Exit
  OBVIOUS
<1>3. /\ ToSet(ls) \subseteq Items /\ "chan" \notin ToSet(ls) /\ h \cap Registered = {}
      /\ ls = <<>> => ToSet(ls) = {}
  <2>1. ToSet(RoutesOf(p)) \subseteq Items
    BY HttpApiAssumption DEF Programs
  <2>2. h \cap Registered = {} /\ "chan" \notin ToSet(ls)
    BY OtherNames DEF Registered, Chan, ForgottenOf
  <2>3. QED
    BY <2>1, <2>2, NoRoutes
<1>4. ASSUME NEW u, u \cap Registered = {}, ToSet(ls) \subseteq u
      PROVE  Sound(p, ph, u, ls)
  <2>1. ph = "end" => ls = RestOf(p, Len(RoutesOf(p))) /\ Len(RoutesOf(p)) \in Some(p)
    BY NoRoutes
  <2>2. QED
    BY <1>4, <2>1 DEF Sound
<1>5. \E m \in Some(p) : ls = FirstOf(p, m)
  OBVIOUS
<1>6. /\ p # "apptpl2" => Chan(p) = {}
      /\ p = "apptpl2" => Chan(p) = {"chan"}
  BY DEF Chan
<1> HIDE DEF ls, t1, t2, v
<1>7. CASE p = "apptpl2"
  <2>1. /\ "chan" \in h /\ v = h \ {"chan"} /\ v \subseteq ForgottenOf(p) \cup Items
        /\ ls = <<>> => v \subseteq ForgottenOf(p)
        /\ v \cap Registered = {} /\ ToSet(ls) \subseteq v
    BY <1>3, <1>6, <1>7 DEF v, ls
  <2>2. Sound(p, ph, v, ls)
    BY <1>4, <2>1
  <2>3. Sound(p, ph, h, ls)
    BY <1>3, <1>4 DEF ls
  <2>4. Runs(p, ph, t2, v, ls)
    BY <1>2, <1>5, <2>1, <2>2, RunsExit
  <2>5. Runs(p, ph, t1, h, ls)
    BY <1>1, <2>1, <2>3, <2>4, RunsFree
  <2>6. QED
    BY <1>7, <2>5 DEF RestEnd, t1, ls
<1>8. CASE p # "apptpl2"
  <2>1. h \subseteq ForgottenOf(p) \cup Items /\ (ls = <<>> => h \subseteq ForgottenOf(p))
    <3>1. h \subseteq ForgottenOf(p) \cup ToSet(ls)
      BY <1>6, <1>8 DEF ls
    <3>2. QED
      BY <1>3, <3>1
  <2>2. Sound(p, ph, h, ls)
    BY <1>3, <1>4 DEF ls
  <2>3. Runs(p, ph, t2, h, ls)
    BY <1>2, <1>5, <2>1, <2>2, RunsExit
  <2>4. QED
    BY <1>8, <2>3 DEF RestEnd, t2, ls
<1>9. QED
  BY <1>7, <1>8

\* What a program may do once its interface is closed.
Ends(p, F) ==
    /\ IsList(F)
    /\ \A h : Chan(p) \subseteq h /\ h \subseteq Chan(p) \cup ForgottenOf(p) => Runs(p, "end", F, h, <<>>)

\* It exits, apptpl2 without its channel.
LEMMA RestEndEnds ==
    ASSUME NEW p \in Programs
    PROVE  Ends(p, RestEnd(p))
<1>1. ASSUME NEW h, Chan(p) \subseteq h, h \subseteq Chan(p) \cup ForgottenOf(p)
      PROVE  Runs(p, "end", RestEnd(p), h, <<>>)
  <2>1. 0 \in Some(p) /\ FirstOf(p, 0) = <<>> /\ ToSet(FirstOf(p, 0)) = {}
    BY NoRoutes
  <2>2. Runs(p, "end", RestEnd(p), h, FirstOf(p, 0))
    BY <1>1, <2>1, RunsRestEnd
  <2>3. QED
    BY <2>1, <2>2
<1>2. QED
  BY <1>1, RestEndIs DEF Ends

\* It exits after its threads, if they return.
LEMMA JoinEnds ==
    ASSUME NEW p \in Programs, p # "apptpl2"
    PROVE  Ends(p, <<Join, Exit>>)
<1> DEFINE td == <<Join, Exit>>
           ls == <<>>
<1>1. td # <<>> /\ td[1] = Join /\ Tail(td) = <<Exit>> /\ td \in Seq({Join, Exit})
  OBVIOUS
<1>2. RestEnd(p) = <<Exit>>
  BY DEF RestEnd
<1>3. 0 \in Some(p) /\ FirstOf(p, 0) = ls /\ ls = RestOf(p, Len(RoutesOf(p)))
      /\ Len(RoutesOf(p)) \in Some(p) /\ ToSet(ls) = {}
  BY NoRoutes
<1> HIDE DEF td, ls
<1>4. ASSUME NEW h, Chan(p) \subseteq h, h \subseteq Chan(p) \cup ForgottenOf(p)
      PROVE  Runs(p, "end", td, h, ls)
  <2>1. h \cap Registered = {}
    BY <1>4 DEF Chan, ForgottenOf, Registered
  <2>2. Sound(p, "end", h, ls)
    BY <1>3, <2>1 DEF Sound
  <2>3. Runs(p, "end", Tail(td), h, ls)
    BY <1>1, <1>2, <1>4, RestEndEnds DEF Ends, ls
  <2>4. QED
    BY <1>1, <2>2, <2>3, RunsJoin
<1>5. QED
  BY <1>1, <1>4 DEF Ends, IsList, td, ls

\* The routes are freed one by one.
LEMMA RunsRoutes ==
    ASSUME NEW p \in Programs, NEW h, Chan(p) \subseteq h, h \subseteq Chan(p) \cup ForgottenOf(p),
           NEW F, Ends(p, F)
    PROVE  Runs(p, "end", <<Unlink("head")>> \o F, h \cup ToSet(RoutesOf(p)), RoutesOf(p))
<1> DEFINE R == RoutesOf(p)
           N == Len(R)
           At1(n) == IF RestOf(p, n) = <<>> THEN NoItem ELSE RestOf(p, n)[1]
           Fine(n) == \A x \in {"head", At1(n)} :
                        Runs(p, "end", <<Unlink(x)>> \o F, h \cup ToSet(RestOf(p, n)), RestOf(p, n))
           P == {j \in 0 .. N : Fine(N - j)}
<1>1. /\ N \in Nat /\ Some(p) = 0 .. N /\ RestOf(p, 0) = R /\ RestOf(p, N) = <<>>
      /\ FirstOf(p, 0) = <<>> /\ ToSet(<<>>) = {}
  BY NoRoutes
<1>2. ASSUME NEW x PROVE /\ <<Unlink(x)>> \o F # <<>> /\ (<<Unlink(x)>> \o F)[1] = Unlink(x)
                         /\ Tail(<<Unlink(x)>> \o F) = F
  <2> DEFINE s == <<Unlink(x)>>
  <2>1. s \in Seq({Unlink(x)}) /\ s # <<>> /\ s[1] = Unlink(x) /\ Tail(s) = <<>>
    OBVIOUS
  <2>2. IsList(s) /\ IsList(F)
    BY <2>1 DEF IsList, Ends
  <2> DEFINE none == <<>>
  <2>3. none = <<>> /\ none \in Seq({})
    OBVIOUS
  <2> HIDE DEF none
  <2>4. IsList(none)
    BY <2>3 DEF IsList
  <2> HIDE DEF s
  <2>5. s \o F # <<>> /\ (s \o F)[1] = s[1] /\ Tail(s \o F) = Tail(s) \o F
    BY <2>1, <2>2, InARow
  <2>6. none \o F = F
    BY <2>2, <2>3, <2>4, InARow
  <2>7. QED
    BY <2>1, <2>3, <2>5, <2>6 DEF s
<1>3. h \cap (Registered \cup ToSet(R)) = {}
  BY OtherNames DEF Registered, Chan, ForgottenOf
<1>4. ASSUME NEW n \in 0 .. N PROVE Sound(p, "end", h \cup ToSet(RestOf(p, n)), RestOf(p, n))
  <2>1. ToSet(RestOf(p, n)) \cap Registered = {}
    <3>1. ToSet(RestOf(p, n)) \subseteq ToSet(R)
      <4>1. CASE n = N
        BY <1>1, <4>1
      <4>2. CASE n # N
        <5>1. n \in 0 .. N - 1
          BY <1>1, <4>2
        <5>2. QED
          BY <5>1, OtherRoutes
      <4>3. QED
        BY <4>1, <4>2
    <3>2. QED
      BY <3>1, OtherNames DEF Registered
  <2>2. QED
    BY <1>1, <1>3, <2>1 DEF Sound
<1> HIDE DEF R, N
<1>5. 0 \in P
  <2>1. Runs(p, "end", F, h, <<>>)
    BY DEF Ends
  <2>2. /\ N - 0 = N /\ 0 \in 0 .. N /\ N \in 0 .. N /\ h \cup {} = h
        /\ At1(N) = NoItem
    BY <1>1
  <2>3. ASSUME NEW x \in {"head", NoItem} PROVE Runs(p, "end", <<Unlink(x)>> \o F, h, <<>>)
    <3> DEFINE td == <<Unlink(x)>> \o F
               ls == <<>>
    <3>1. td # <<>> /\ td[1] = Unlink(x) /\ Tail(td) = F /\ ls = <<>>
      BY <1>2
    <3>2. Sound(p, "end", h, ls) /\ Runs(p, "end", F, h, ls)
      BY <1>1, <1>4, <2>1, <2>2
    <3> HIDE DEF td, ls
    <3>3. x \in {"head", IF ls = <<>> THEN NoItem ELSE ls[1]}
      BY <3>1
    <3>4. Runs(p, "end", td, h, ls)
      BY <3>1, <3>2, <3>3, RunsUnlink
    <3>5. QED
      BY <3>1, <3>4 DEF td
  <2>4. Fine(N)
    BY <1>1, <2>2, <2>3
  <2>5. QED
    BY <2>2, <2>4
<1>6. ASSUME NEW j \in 1 .. N, j - 1 \in P PROVE j \in P
  <2> DEFINE n == N - j
             ls == RestOf(p, n)
             lt == RestOf(p, n + 1)
             u == h \cup ToSet(ls)
             w == h \cup ToSet(lt)
             y == IF Len(ls) = 1 THEN NoItem ELSE ls[2]
  <2>1. n \in 0 .. N - 1 /\ n \in 0 .. N /\ n + 1 \in 0 .. N /\ N - (j - 1) = n + 1 /\ j \in 0 .. N
    BY <1>1
  <2>2. /\ ls # <<>> /\ Tail(ls) = lt /\ ToSet(lt) = ToSet(ls) \ {ls[1]} /\ ls[1] \in ToSet(ls)
        /\ Len(ls) = 1 <=> lt = <<>>
        /\ Len(ls) # 1 => ls[2] = lt[1]
        /\ ToSet(ls) \subseteq ToSet(R)
    BY <2>1, OtherRoutes DEF N, R
  <2>3. Fine(n + 1)
    BY <1>6, <2>1
  <2>4. y = At1(n + 1) /\ At1(n) = ls[1]
    BY <2>2
  <2>5. Runs(p, "end", <<Unlink(y)>> \o F, w, lt)
    BY <2>3, <2>4
  <2>6. u \ {ls[1]} = w
    BY <1>3, <2>2
  <2>7. Sound(p, "end", u, ls)
    BY <1>4, <2>1
  <2>8. ASSUME NEW x \in {"head", ls[1]} PROVE Runs(p, "end", <<Unlink(x)>> \o F, u, ls)
    <3> DEFINE td == <<Unlink(x)>> \o F
    <3>1. td # <<>> /\ td[1] = Unlink(x) /\ Tail(td) = F
      BY <1>2
    <3> HIDE DEF td, ls, u
    <3>2. x \in {"head", IF ls = <<>> THEN NoItem ELSE ls[1]}
      BY <2>2
    <3>3. Runs(p, "end", <<Unlink(IF Len(ls) = 1 THEN NoItem ELSE ls[2])>> \o Tail(td), u \ {ls[1]}, Tail(ls))
      BY <2>2, <2>5, <2>6, <3>1
    <3>4. Runs(p, "end", td, u, ls)
      BY <2>2, <2>7, <3>1, <3>2, <3>3, RunsUnlink
    <3>5. QED
      BY <3>4 DEF td
  <2>9. Fine(n)
    BY <2>4, <2>8
  <2>10. QED
    BY <2>1, <2>9
<1> HIDE DEF P, Fine
<1>7. N \in P
  BY <1>1, <1>5, <1>6, UpTo
<1>8. Fine(0)
  BY <1>1, <1>7 DEF P
<1>9. QED
  BY <1>1, <1>8 DEF Fine, R

\* Everything that is registered with the event base goes before it, then the routes.
LEMMA RunsClose ==
    ASSUME NEW p \in Programs, NEW h, Steady(p, h), "redis" \notin h, NEW F, Ends(p, F)
    PROVE  Runs(p, "end", MagtClose \o F, h, RoutesOf(p))
<1> DEFINE R  == RoutesOf(p)
           t1 == MagtClose
           t2 == <<Free("sigterm"), Free("timer"), Free("httpd"), Free("base"), Drop("ssl"), Unlink("head")>>
           t3 == <<Free("timer"), Free("httpd"), Free("base"), Drop("ssl"), Unlink("head")>>
           t4 == <<Free("httpd"), Free("base"), Drop("ssl"), Unlink("head")>>
           t5 == <<Free("base"), Drop("ssl"), Unlink("head")>>
           t6 == <<Drop("ssl"), Unlink("head")>>
           t7 == <<Unlink("head")>>
           v2 == h \ {"sigint"}
           v3 == v2 \ {"sigterm"}
           v4 == v3 \ {"timer"}
           v5 == v4 \ {"httpd"}
           v6 == v5 \ {"base"}
           v7 == v6 \ {"ssl"}
           g  == v7 \ ToSet(R)
<1>1. t1 # <<>> /\ t1[1] = Free("sigint") /\ Tail(t1) = t2
  BY DEF MagtClose
<1>2. t2 # <<>> /\ t2[1] = Free("sigterm") /\ Tail(t2) = t3
  OBVIOUS
<1>3. t3 # <<>> /\ t3[1] = Free("timer") /\ Tail(t3) = t4
  OBVIOUS
<1>4. t4 # <<>> /\ t4[1] = Free("httpd") /\ Tail(t4) = t5
  OBVIOUS
<1>5. t5 # <<>> /\ t5[1] = Free("base") /\ Tail(t5) = t6
  OBVIOUS
<1>6. t6 # <<>> /\ t6[1] = Drop("ssl") /\ Tail(t6) = t7
  OBVIOUS
<1>7. IsList(t1)
  <2> DEFINE X == {Free("sigint"), Free("sigterm"), Free("timer"), Free("httpd"), Free("base"),
                   Drop("ssl"), Unlink("head")}
  <2>1. t1 \in Seq(X)
    BY DEF MagtClose
  <2>2. QED
    BY <2>1 DEF IsList
<1>8. /\ "sigint" \in h /\ "sigterm" \in v2 /\ "timer" \in v3 /\ "httpd" \in v4 /\ "base" \in v5
      /\ "base" \in h /\ "base" \in v2 /\ "base" \in v3 /\ "base" \in v4
      /\ ToSet(R) \subseteq h
  BY DEF Steady, KeptOf, Server
<1>9. v6 \cap Registered = {}
  BY OtherNames DEF Steady, KeptOf, ForgottenOf, ExtraOf, Server, Registered
<1>10. Chan(p) \subseteq g /\ g \subseteq Chan(p) \cup ForgottenOf(p) /\ v7 = g \cup ToSet(R)
  <2>1. Chan(p) \subseteq h /\ h \subseteq Server \cup ToSet(R) \cup Chan(p) \cup ForgottenOf(p) \cup {"ssl"}
    BY DEF Steady, KeptOf, ExtraOf, Chan
  <2>2. Chan(p) \subseteq {"chan"} /\ "chan" \notin ToSet(R)
    BY OtherNames DEF Chan
  <2>3. ToSet(R) \subseteq v7
    BY <1>8, OtherNames
  <2>4. QED
    BY <2>1, <2>2, <2>3 DEF Server
<1>11. ToSet(R) \subseteq v2 /\ ToSet(R) \subseteq v3 /\ ToSet(R) \subseteq v4 /\ ToSet(R) \subseteq v5
       /\ ToSet(R) \subseteq v6
  BY <1>8, OtherNames
<1>12. IsList(F)
  BY DEF Ends
<1>13. 0 \in Some(p) /\ R = RestOf(p, 0)
  BY NoRoutes
<1> HIDE DEF R, t1, t2, t3, t4, t5, t6, t7, v2, v3, v4, v5, v6, v7, g
<1>14. ASSUME NEW u, ToSet(R) \subseteq u, u \cap Registered # {} => "base" \in u
       PROVE  Sound(p, "end", u, R)
  BY <1>13, <1>14 DEF Sound
<1>15. Runs(p, "end", t7 \o F, v7, R)
  BY <1>10, RunsRoutes DEF R, t7
<1>16. Runs(p, "end", t6 \o F, v6, R)
  <2>1. IsList(t6)
    BY <1>1, <1>2, <1>3, <1>4, <1>5, <1>7, <1>12, InARow
  <2>2. t6 \o F # <<>> /\ (t6 \o F)[1] = Drop("ssl") /\ Tail(t6 \o F) = t7 \o F
    BY <1>6, <1>12, <2>1, InARow
  <2>3. Sound(p, "end", v6, R) /\ v6 \ {"ssl"} = v7
    BY <1>9, <1>11, <1>14 DEF v7
  <2>4. QED
    BY <1>15, <2>2, <2>3, RunsDrop
<1>17. Runs(p, "end", t5 \o F, v5, R)
  <2>1. IsList(t5)
    BY <1>1, <1>2, <1>3, <1>4, <1>7, <1>12, InARow
  <2>2. t5 \o F # <<>> /\ (t5 \o F)[1] = Free("base") /\ Tail(t5 \o F) = t6 \o F
    BY <1>5, <1>12, <2>1, InARow
  <2>3. Sound(p, "end", v5, R) /\ v5 \ {"base"} = v6
    BY <1>8, <1>11, <1>14 DEF v6
  <2>4. QED
    BY <1>8, <1>16, <2>2, <2>3, RunsFree
<1>18. Runs(p, "end", t4 \o F, v4, R)
  <2>1. IsList(t4)
    BY <1>1, <1>2, <1>3, <1>7, <1>12, InARow
  <2>2. t4 \o F # <<>> /\ (t4 \o F)[1] = Free("httpd") /\ Tail(t4 \o F) = t5 \o F
    BY <1>4, <1>12, <2>1, InARow
  <2>3. Sound(p, "end", v4, R) /\ v4 \ {"httpd"} = v5
    BY <1>8, <1>11, <1>14 DEF v5
  <2>4. QED
    BY <1>8, <1>17, <2>2, <2>3, RunsFree
<1>19. Runs(p, "end", t3 \o F, v3, R)
  <2>1. IsList(t3)
    BY <1>1, <1>2, <1>7, <1>12, InARow
  <2>2. t3 \o F # <<>> /\ (t3 \o F)[1] = Free("timer") /\ Tail(t3 \o F) = t4 \o F
    BY <1>3, <1>12, <2>1, InARow
  <2>3. Sound(p, "end", v3, R) /\ v3 \ {"timer"} = v4
    BY <1>8, <1>11, <1>14 DEF v4
  <2>4. QED
    BY <1>8, <1>18, <2>2, <2>3, RunsFree
<1>20. Runs(p, "end", t2 \o F, v2, R)
  <2>1. IsList(t2)
    BY <1>1, <1>7, <1>12, InARow
  <2>2. t2 \o F # <<>> /\ (t2 \o F)[1] = Free("sigterm") /\ Tail(t2 \o F) = t3 \o F
    BY <1>2, <1>12, <2>1, InARow
  <2>3. Sound(p, "end", v2, R) /\ v2 \ {"sigterm"} = v3
    BY <1>8, <1>11, <1>14 DEF v3
  <2>4. QED
    BY <1>8, <1>19, <2>2, <2>3, RunsFree
<1>21. Runs(p, "end", t1 \o F, h, R)
  <2>1. t1 \o F # <<>> /\ (t1 \o F)[1] = Free("sigint") /\ Tail(t1 \o F) = t2 \o F
    BY <1>1, <1>7, <1>12, InARow
  <2>2. Sound(p, "end", h, R) /\ h \ {"sigint"} = v2
    BY <1>8, <1>11, <1>14 DEF v2
  <2>3. QED
    BY <1>8, <1>20, <2>1, <2>2, RunsFree
<1>22. QED
  BY <1>21 DEF t1, R

\* A program that serves comes to its end in good order.
LEMMA RunsEnd ==
    ASSUME NEW p \in Programs, NEW h, Steady(p, h)
    PROVE  Runs(p, "end", EndOf(p), h, RoutesOf(p))
<1> DEFINE M == MagtClose
           F == RestEnd(p)
           D == <<Drop("redis")>>
           R == RoutesOf(p)
<1>1. IsList(M) /\ IsList(F) /\ IsList(D)
  <2>1. M \in Seq({Free("sigint"), Free("sigterm"), Free("timer"), Free("httpd"), Free("base"),
                   Drop("ssl"), Unlink("head")})
    BY DEF MagtClose
  <2>2. D \in Seq({Drop("redis")})
    OBVIOUS
  <2>3. QED
    BY <2>1, <2>2, RestEndIs DEF IsList
<1>2. CASE p # "apptpl2"
  <2>1. "redis" \notin h
    BY <1>2, OtherNames DEF Steady, KeptOf, ForgottenOf, ExtraOf, Server
  <2> DEFINE G == IF p = "apptpl" THEN <<Join, Exit>> ELSE RestEnd(p)
  <2>2. EndOf(p) = MagtClose \o G
    BY <1>2 DEF EndOf, ApptplEnd, CppEnd, RestEnd, Programs
  <2>3. Ends(p, G)
    BY <1>2, JoinEnds, RestEndEnds
  <2> HIDE DEF G
  <2>4. QED
    BY <2>1, <2>2, <2>3, RunsClose
<1>3. CASE p = "apptpl2"
  <2> DEFINE g == h \ {"redis"}
             empty == <<>>
             td == D \o (M \o F)
  <2>1. EndOf(p) = (D \o M) \o F
    BY <1>3 DEF EndOf, Apptpl2End, RestEnd
  <2>2. D # empty /\ D[1] = Drop("redis") /\ Tail(D) = empty /\ empty = <<>> /\ empty \in Seq({})
    OBVIOUS
  <2>3. Steady(p, g) /\ "redis" \notin g
    BY OtherNames DEF Steady, KeptOf, Server
  <2>4. Runs(p, "end", M \o F, g, R)
    BY <2>3, RunsClose, RestEndEnds
  <2>5. Sound(p, "end", h, R)
    <3>1. "base" \in h /\ ToSet(R) \subseteq h /\ 0 \in Some(p) /\ R = RestOf(p, 0)
      BY NoRoutes DEF Steady, KeptOf, Server
    <3>2. QED
      BY <3>1 DEF Sound
  <2> HIDE DEF M, F, D, R, g, empty
  <2>6. IsList(empty) /\ IsList(M \o F)
    BY <1>1, <2>2, InARow DEF IsList
  <2>7. td # <<>> /\ td[1] = Drop("redis") /\ Tail(td) = M \o F
    <3> DEFINE u == M \o F
    <3>1. empty \o u = u
      BY <2>2, <2>6, InARow
    <3>2. D \o u # <<>> /\ (D \o u)[1] = D[1] /\ Tail(D \o u) = Tail(D) \o u
      BY <1>1, <2>2, <2>6, InARow
    <3>3. QED
      BY <2>2, <3>1, <3>2
  <2>8. (D \o M) \o F = td
    BY <1>1, AllInARow
  <2> HIDE DEF td
  <2>9. Runs(p, "end", td, h, R)
    BY <2>4, <2>5, <2>7, RunsDrop DEF g
  <2>10. QED
    BY <2>1, <2>8, <2>9 DEF R
<1>4. QED
  BY <1>2, <1>3

-----------------------------------------------------------------------------
(***************************************************************************)
(* The start.                                                              *)
(***************************************************************************)
\* The first routes are routes.
LEMMA FirstAreRoutes ==
    ASSUME NEW p \in Programs, NEW n \in Some(p)
    PROVE  ToSet(FirstOf(p, n)) \subseteq ToSet(RoutesOf(p))
<1> DEFINE R == RoutesOf(p)
           a == SubSeq(R, 1, n)
<1>1. R \in Seq(Items)
  BY RoutesAre
<1> HIDE DEF R
<1>2. Len(R) \in Nat /\ n \in Nat /\ n <= Len(R) /\ DOMAIN R = 1 .. Len(R)
  BY <1>1 DEF R, Some
<1>3. a \in Seq(Items) /\ Len(a) = n - 1 + 1 /\ \A i \in 1 .. n - 1 + 1 : a[i] = R[1 + i - 1]
  BY <1>1, <1>2, SubSeqProperties
<1> HIDE DEF a
<1>4. DOMAIN a = 1 .. n /\ \A i \in 1 .. n : a[i] = R[i] /\ i \in 1 .. Len(R)
  <2>1. n - 1 + 1 = n /\ \A i \in 1 .. n : 1 + i - 1 = i /\ i \in 1 .. Len(R)
    BY <1>2
  <2>2. QED
    BY <1>3, <2>1
<1>5. ToSet(a) \subseteq ToSet(R)
  BY <1>2, <1>4 DEF ToSet
<1>6. QED
  BY <1>5 DEF a, R, FirstOf

\* A start that fails releases what it has, in good order, but not the routes.
LEMMA RunsErr ==
    ASSUME NEW p \in Programs, NEW n \in Some(p), NEW h, Chan(p) \subseteq h,
           h \subseteq Server \cup {"ssl"} \cup Chan(p) \cup ToSet(FirstOf(p, n)),
           Sound(p, "start", h, FirstOf(p, n))
    PROVE  Runs(p, "start", Err \o RestEnd(p), h, FirstOf(p, n))
<1> DEFINE R  == FirstOf(p, n)
           F  == RestEnd(p)
           t1 == Err
           t2 == <<Drop("sigterm"), Drop("timer"), Drop("httpd"), Drop("base"), Drop("ssl")>>
           t3 == <<Drop("timer"), Drop("httpd"), Drop("base"), Drop("ssl")>>
           t4 == <<Drop("httpd"), Drop("base"), Drop("ssl")>>
           t5 == <<Drop("base"), Drop("ssl")>>
           t6 == <<Drop("ssl")>>
           t7 == <<>>
           v2 == h \ {"sigint"}
           v3 == v2 \ {"sigterm"}
           v4 == v3 \ {"timer"}
           v5 == v4 \ {"httpd"}
           v6 == v5 \ {"base"}
           v7 == v6 \ {"ssl"}
<1>1. t1 # <<>> /\ t1[1] = Drop("sigint") /\ Tail(t1) = t2
  BY DEF Err
<1>2. t2 # <<>> /\ t2[1] = Drop("sigterm") /\ Tail(t2) = t3
  OBVIOUS
<1>3. t3 # <<>> /\ t3[1] = Drop("timer") /\ Tail(t3) = t4
  OBVIOUS
<1>4. t4 # <<>> /\ t4[1] = Drop("httpd") /\ Tail(t4) = t5
  OBVIOUS
<1>5. t5 # <<>> /\ t5[1] = Drop("base") /\ Tail(t5) = t6
  OBVIOUS
<1>6. t6 # <<>> /\ t6[1] = Drop("ssl") /\ Tail(t6) = t7 /\ t7 = <<>>
  OBVIOUS
<1>7. IsList(t1)
  <2> DEFINE X == {Drop("sigint"), Drop("sigterm"), Drop("timer"), Drop("httpd"), Drop("base"),
                   Drop("ssl")}
  <2>1. t1 \in Seq(X)
    BY DEF Err
  <2>2. QED
    BY <2>1 DEF IsList
<1>8. ToSet(R) \subseteq h /\ (h \cap Registered # {} => "base" \in h) /\ R = FirstOf(p, n)
  BY DEF Sound
<1>9. /\ ToSet(R) \cap {"base", "sigint", "sigterm", "timer", "httpd", "ssl", "chan", "redis"} = {}
      /\ ToSet(R) \subseteq ToSet(RoutesOf(p))
  BY FirstAreRoutes, OtherNames
<1>10. v5 \cap Registered = {} /\ v6 \cap Registered = {} /\ "redis" \notin h
  BY <1>9 DEF Server, Registered, Chan
<1>11. /\ v2 \cap Registered # {} => "base" \in v2
       /\ v3 \cap Registered # {} => "base" \in v3
       /\ v4 \cap Registered # {} => "base" \in v4
  BY <1>8
<1>12. /\ ToSet(R) \subseteq v2 /\ ToSet(R) \subseteq v3 /\ ToSet(R) \subseteq v4 /\ ToSet(R) \subseteq v5
       /\ ToSet(R) \subseteq v6 /\ ToSet(R) \subseteq v7
  BY <1>8, <1>9
<1>13. Chan(p) \subseteq v7 /\ v7 \subseteq Chan(p) \cup ForgottenOf(p) \cup ToSet(R)
  BY DEF Server, Chan
<1>14. IsList(F)
  BY RestEndIs
<1> HIDE DEF R, F, t1, t2, t3, t4, t5, t6, t7, v2, v3, v4, v5, v6, v7
<1>15. ASSUME NEW u, ToSet(R) \subseteq u, u \cap Registered # {} => "base" \in u
       PROVE  Sound(p, "start", u, R)
  BY <1>8, <1>15 DEF Sound
<1>16. Runs(p, "start", F, v7, R)
  BY <1>9, <1>12, <1>13, RunsRestEnd DEF R, F
<1>17. Runs(p, "start", t6 \o F, v6, R)
  <2>1. IsList(t6)
    BY <1>1, <1>2, <1>3, <1>4, <1>5, <1>7, <1>14, InARow
  <2>2. IsList(t7)
    BY <1>6, <1>14, <2>1, InARow
  <2>3. t7 \o F = F
    BY <1>6, <1>14, <2>2, InARow
  <2>4. t6 \o F # <<>> /\ (t6 \o F)[1] = Drop("ssl") /\ Tail(t6 \o F) = F
    BY <1>6, <1>14, <2>1, <2>3, InARow
  <2>5. Sound(p, "start", v6, R) /\ v6 \ {"ssl"} = v7
    BY <1>10, <1>12, <1>15 DEF v7
  <2>6. QED
    BY <1>16, <2>4, <2>5, RunsDrop
<1>18. Runs(p, "start", t5 \o F, v5, R)
  <2>1. IsList(t5)
    BY <1>1, <1>2, <1>3, <1>4, <1>7, <1>14, InARow
  <2>2. t5 \o F # <<>> /\ (t5 \o F)[1] = Drop("base") /\ Tail(t5 \o F) = t6 \o F
    BY <1>5, <1>14, <2>1, InARow
  <2>3. Sound(p, "start", v5, R) /\ v5 \ {"base"} = v6
    BY <1>10, <1>12, <1>15 DEF v6
  <2>4. QED
    BY <1>17, <2>2, <2>3, RunsDrop
<1>19. Runs(p, "start", t4 \o F, v4, R)
  <2>1. IsList(t4)
    BY <1>1, <1>2, <1>3, <1>7, <1>14, InARow
  <2>2. t4 \o F # <<>> /\ (t4 \o F)[1] = Drop("httpd") /\ Tail(t4 \o F) = t5 \o F
    BY <1>4, <1>14, <2>1, InARow
  <2>3. Sound(p, "start", v4, R) /\ v4 \ {"httpd"} = v5
    BY <1>11, <1>12, <1>15 DEF v5
  <2>4. QED
    BY <1>18, <2>2, <2>3, RunsDrop
<1>20. Runs(p, "start", t3 \o F, v3, R)
  <2>1. IsList(t3)
    BY <1>1, <1>2, <1>7, <1>14, InARow
  <2>2. t3 \o F # <<>> /\ (t3 \o F)[1] = Drop("timer") /\ Tail(t3 \o F) = t4 \o F
    BY <1>3, <1>14, <2>1, InARow
  <2>3. Sound(p, "start", v3, R) /\ v3 \ {"timer"} = v4
    BY <1>11, <1>12, <1>15 DEF v4
  <2>4. QED
    BY <1>19, <2>2, <2>3, RunsDrop
<1>21. Runs(p, "start", t2 \o F, v2, R)
  <2>1. IsList(t2)
    BY <1>1, <1>7, <1>14, InARow
  <2>2. t2 \o F # <<>> /\ (t2 \o F)[1] = Drop("sigterm") /\ Tail(t2 \o F) = t3 \o F
    BY <1>2, <1>14, <2>1, InARow
  <2>3. Sound(p, "start", v2, R) /\ v2 \ {"sigterm"} = v3
    BY <1>11, <1>12, <1>15 DEF v3
  <2>4. QED
    BY <1>20, <2>2, <2>3, RunsDrop
<1>22. Runs(p, "start", t1 \o F, h, R)
  <2>1. t1 \o F # <<>> /\ (t1 \o F)[1] = Drop("sigint") /\ Tail(t1 \o F) = t2 \o F
    BY <1>1, <1>7, <1>14, InARow
  <2>2. Sound(p, "start", h, R) /\ h \ {"sigint"} = v2
    BY <1>8, <1>15 DEF v2
  <2>3. QED
    BY <1>21, <2>1, <2>2, RunsDrop
<1>23. QED
  BY <1>22 DEF t1, F, R

\* What main does after magt_init.
GiveUp == <<Close>> \o MagtClose \o <<Exit>>
Go(p) == CASE p = "apptpl" -> <<Check(GiveUp), Loop>> [] p = "apptpl2" -> <<Try("redis"), Loop>>
           [] OTHER -> <<Loop>>

\* What is held when only the routes and the client of redis are missing.
Based(p, h) == Server \cup Chan(p) \subseteq h /\ h \subseteq Server \cup Chan(p) \cup {"ssl"}

\* Main gives up, and closes what magt_init has opened.
LEMMA RunsGiveUp ==
    ASSUME NEW p \in Programs, p # "apptpl2", NEW h, Steady(p, h), "redis" \notin h,
           Sound(p, "start", h, RoutesOf(p))
    PROVE  Runs(p, "start", GiveUp, h, RoutesOf(p))
<1> DEFINE M == MagtClose
           C == <<Close>>
           E == <<Exit>>
           e == <<>>
           u == M \o E
           td == C \o u
<1>1. C # <<>> /\ C[1] = Close /\ Tail(C) = e /\ e = <<>> /\ E = RestEnd(p)
  BY DEF RestEnd
<1>2. /\ M \in Seq({Free("sigint"), Free("sigterm"), Free("timer"), Free("httpd"), Free("base"),
                    Drop("ssl"), Unlink("head")})
      /\ C \in Seq({Close}) /\ E \in Seq({Exit}) /\ e \in Seq({})
  BY DEF MagtClose
<1>3. Runs(p, "end", u, h, RoutesOf(p))
  BY <1>1, RunsClose, RestEndEnds
<1>4. GiveUp = (C \o M) \o E
  BY DEF GiveUp
<1> HIDE DEF M, C, E, e
<1>5. IsList(M) /\ IsList(C) /\ IsList(E) /\ IsList(e) /\ IsList(u)
  BY <1>2, InARow DEF IsList
<1>6. (C \o M) \o E = td
  BY <1>5, AllInARow
<1> HIDE DEF u
<1>7. td # <<>> /\ td[1] = Close /\ Tail(td) = u
  <2>1. e \o u = u
    BY <1>1, <1>5, InARow
  <2>2. C \o u # <<>> /\ (C \o u)[1] = C[1] /\ Tail(C \o u) = Tail(C) \o u
    BY <1>1, <1>5, InARow
  <2>3. QED
    BY <1>1, <2>1, <2>2
<1> HIDE DEF td
<1>8. Runs(p, "start", td, h, RoutesOf(p))
  BY <1>3, <1>7, RunsCloseEarly
<1>9. QED
  BY <1>4, <1>6, <1>8

\* Main goes on with or without redis, or gives up, and enters the loop.
LEMMA RunsGo ==
    ASSUME NEW p \in Programs, NEW h, Based(p, h)
    PROVE  IsList(Go(p)) /\ Runs(p, "start", Go(p), h \cup ToSet(RoutesOf(p)), RoutesOf(p))
<1> DEFINE R  == RoutesOf(p)
           t1 == <<Try("redis"), Loop>>
           t2 == <<Loop>>
           t3 == <<Check(GiveUp), Loop>>
           v1 == h \cup ToSet(R)
           v2 == v1 \cup {"redis"}
<1>1. t1 # <<>> /\ t1[1] = Try("redis") /\ Tail(t1) = t2 /\ t1 \in Seq({Try("redis"), Loop})
  OBVIOUS
<1>2. t2 # <<>> /\ t2[1] = Loop /\ Tail(t2) = <<>> /\ t2 \in Seq({Loop})
  OBVIOUS
<1>3. Steady(p, v1) /\ (p = "apptpl2" => Steady(p, v2)) /\ "redis" \notin v1
  <2>1. "redis" \notin v1
    BY OtherNames DEF Based, Server, Chan
  <2>2. QED
    BY <2>1 DEF Steady, Based, KeptOf, ExtraOf, Chan
<1>4. "base" \in v1 /\ "base" \in v2 /\ ToSet(R) \subseteq v1 /\ ToSet(R) \subseteq v2
  BY DEF Based, Server
<1>5. \E n \in Some(p) : R = FirstOf(p, n)
  BY AllRoutes
<1>6. v2 = v1 \cup {"redis"}
  OBVIOUS
<1>7. t3 # <<>> /\ t3[1] = Check(GiveUp) /\ Tail(t3) = t2 /\ t3 \in Seq({Check(GiveUp), Loop})
  OBVIOUS
<1> HIDE DEF R, t1, t2, t3, v1, v2
<1>8. Sound(p, "start", v1, R) /\ Sound(p, "start", v2, R)
  BY <1>4, <1>5 DEF Sound
<1>9. Runs(p, "start", t2, v1, R)
  BY <1>2, <1>3, <1>8, RunsLoop DEF R
<1>10. CASE p = "apptpl2"
  <2>1. Runs(p, "start", t2, v2, R)
    BY <1>2, <1>3, <1>8, <1>10, RunsLoop DEF R
  <2>2. Runs(p, "start", t1, v1, R)
    BY <1>1, <1>6, <1>8, <1>9, <2>1, RunsTry
  <2>3. QED
    BY <1>1, <1>10, <2>2 DEF Go, t1, v1, R, IsList
<1>11. CASE p = "apptpl"
  <2>1. Runs(p, "start", GiveUp, v1, R)
    BY <1>3, <1>8, <1>11, RunsGiveUp DEF R
  <2>2. Runs(p, "start", t3, v1, R)
    BY <1>7, <1>8, <1>9, <2>1, RunsCheck
  <2>3. QED
    BY <1>7, <1>11, <2>2 DEF Go, t3, v1, R, IsList
<1>12. CASE p = "cpptpl"
  BY <1>2, <1>9, <1>12 DEF Go, t2, v1, R, IsList
<1>13. QED
  BY <1>10, <1>11, <1>12 DEF Programs

\* The steps that add the routes.
LEMMA RouteInitIs ==
    ASSUME NEW p \in Programs, NEW other
    PROVE  LET RI == RouteInit(RoutesOf(p), other)
               N  == Len(RoutesOf(p))
           IN  /\ \E X : RI \in Seq(X)
               /\ Len(RI) = 2 * N
               /\ \A k \in 0 .. N - 1 : RI[2 * k + 1] = Get(RoutesOf(p)[k + 1], other)
                                     /\ RI[2 * k + 2] = Link(RoutesOf(p)[k + 1])
<1> DEFINE R  == RoutesOf(p)
           N  == Len(R)
           RI == RouteInit(R, other)
           M  == 2 * N
           X  == {Get(x, other) : x \in Items} \cup {Link(x) : x \in Items}
           Nth(j) == IF j % 2 = 1 THEN Get(R[(j + 1) \div 2], other) ELSE Link(R[j \div 2])
<1>1. R \in Seq(Items)
  BY RoutesAre
<1> HIDE DEF R
<1>2. N \in Nat /\ \A i \in 1 .. N : R[i] \in Items
  BY <1>1
<1>3. RI = [j \in 1 .. M |-> Nth(j)]
  BY DEF RouteInit
<1> HIDE DEF RI, N
<1>4. M \in Nat
  BY <1>2
<1>5. ASSUME NEW j \in 1 .. M PROVE Nth(j) \in X
  <2>1. CASE j % 2 = 1
    <3>1. (j + 1) \div 2 \in 1 .. N
      BY <1>2, <2>1
    <3>2. QED
      BY <1>2, <2>1, <3>1
  <2>2. CASE j % 2 # 1
    <3>1. j \div 2 \in 1 .. N
      BY <1>2, <2>2
    <3>2. QED
      BY <1>2, <2>2, <3>1
  <2>3. QED
    BY <2>1, <2>2
<1>6. ASSUME NEW k \in 0 .. N - 1 PROVE RI[2 * k + 1] = Get(R[k + 1], other) /\ RI[2 * k + 2] = Link(R[k + 1])
  <2>1. /\ 2 * k + 1 \in 1 .. M /\ 2 * k + 2 \in 1 .. M
        /\ (2 * k + 1) % 2 = 1 /\ (2 * k + 2) % 2 # 1
        /\ ((2 * k + 1) + 1) \div 2 = k + 1 /\ (2 * k + 2) \div 2 = k + 1
    BY <1>2
  <2> HIDE DEF M, X
  <2> DEFINE a == 2 * k + 1
             b == 2 * k + 2
  <2>2. RI[a] = Nth(a) /\ RI[b] = Nth(b)
    BY <1>3, <2>1
  <2>3. QED
    BY <2>1, <2>2
<1> HIDE DEF M, X, Nth
<1>7. RI \in [1 .. M -> X]
  BY <1>3, <1>5
<1>8. RI \in Seq(X)
  BY <1>4, <1>7, SeqDef
<1>9. Len(RI) \in Nat /\ DOMAIN RI = 1 .. Len(RI) /\ DOMAIN RI = 1 .. M
  BY <1>7, <1>8, LenProperties
<1>10. Len(RI) = M
  <2> DEFINE L == Len(RI)
  <2>1. L \in Nat /\ M \in Nat /\ \A i : i \in 1 .. L <=> i \in 1 .. M
    BY <1>4, <1>9
  <2> HIDE DEF L
  <2>2. (L \in 1 .. L <=> L \in 1 .. M) /\ (M \in 1 .. L <=> M \in 1 .. M)
    BY <2>1
  <2>3. L = M
    BY <2>1, <2>2
  <2>4. QED
    BY <2>3 DEF L
<1>11. QED
  BY <1>6, <1>8, <1>10 DEF M, RI, N, R

\* The routes are acquired and added one by one; whenever it fails, the start ends.
LEMMA RunsRouteInit ==
    ASSUME NEW p \in Programs, NEW h, Based(p, h)
    PROVE  /\ IsList(RouteInit(RoutesOf(p), Err \o RestEnd(p)))
           /\ Runs(p, "start", RouteInit(RoutesOf(p), Err \o RestEnd(p)) \o Go(p), h, <<>>)
<1> DEFINE R  == RoutesOf(p)
           N  == Len(R)
           E  == Err \o RestEnd(p)
           RI == RouteInit(R, E)
           M  == Len(RI)
           G  == Go(p)
           Td(k) == SubSeq(RI, 2 * k + 1, M) \o G
           Fine(k) == Runs(p, "start", Td(k), h \cup ToSet(FirstOf(p, k)), FirstOf(p, k))
           P == {j \in 0 .. N : Fine(N - j)}
<1>1. PICK X : RI \in Seq(X)
  BY RouteInitIs
<1>2. M = 2 * N /\ \A k \in 0 .. N - 1 : RI[2 * k + 1] = Get(R[k + 1], E) /\ RI[2 * k + 2] = Link(R[k + 1])
  BY RouteInitIs
<1>3. /\ N \in Nat /\ Some(p) = 0 .. N /\ FirstOf(p, N) = R
      /\ FirstOf(p, 0) = <<>> /\ ToSet(FirstOf(p, 0)) = {}
  BY NoRoutes
<1>4. IsList(G) /\ Runs(p, "start", G, h \cup ToSet(R), R)
  BY RunsGo
<1>5. /\ "base" \in h /\ Chan(p) \subseteq h /\ h \subseteq Server \cup {"ssl"} \cup Chan(p)
  BY DEF Based, Server
<1>6. Td(0) = RI \o G
  <2>1. SubSeq(RI, 1, M) = RI /\ 2 * 0 + 1 = 1
    BY <1>1, SubSeqFull
  <2>2. QED
    BY <2>1
<1> HIDE DEF R, N, E, RI, M, G
<1>7. ASSUME NEW n \in 0 .. N, NEW u, h \subseteq u, ToSet(FirstOf(p, n)) \subseteq u
      PROVE  Sound(p, "start", u, FirstOf(p, n))
  BY <1>3, <1>5, <1>7 DEF Sound
<1>8. 0 \in P
  <2>1. N - 0 = N /\ 0 \in 0 .. N
    BY <1>3
  <2>2. SubSeq(RI, 2 * N + 1, M) = <<>> /\ IsList(SubSeq(RI, 2 * N + 1, M))
    <3>1. M + 1 \in 1 .. M + 1
      BY <1>2, <1>3
    <3>2. QED
      BY <1>1, <1>2, <3>1, RestOfList DEF M
  <2>3. Td(N) = G
    BY <1>4, <2>2, InARow
  <2>4. Fine(N)
    BY <1>3, <1>4, <2>3
  <2>5. QED
    BY <2>1, <2>4
<1>9. ASSUME NEW j \in 1 .. N, j - 1 \in P PROVE j \in P
  <2> DEFINE n  == N - j
             m  == 2 * n + 1
             x  == R[n + 1]
             ls == FirstOf(p, n)
             u  == h \cup ToSet(ls)
             w  == u \cup {x}
             s1 == SubSeq(RI, m, M)
             s2 == SubSeq(RI, m + 1, M)
             s3 == SubSeq(RI, (m + 1) + 1, M)
  <2>1. /\ n \in 0 .. N - 1 /\ n \in 0 .. N /\ n + 1 \in 0 .. N /\ N - (j - 1) = n + 1 /\ j \in 0 .. N
    BY <1>3
  <2>2. /\ 2 * (n + 1) + 1 = (m + 1) + 1 /\ m + 1 = 2 * n + 2
        /\ m \in 1 .. M + 1 /\ m + 1 \in 1 .. M + 1 /\ (m + 1) + 1 \in 1 .. M + 1
        /\ m <= M /\ m + 1 <= M
    BY <1>2, <1>3, <2>1
  <2>3. Fine(n + 1)
    BY <1>9, <2>1
  <2>4. /\ FirstOf(p, n + 1) = Append(ls, x) /\ ToSet(FirstOf(p, n + 1)) = ToSet(ls) \cup {x}
        /\ x \in Items \ ToSet(ls)
    BY <2>1, FirstRoutes DEF N, R
  <2>5. RI[m] = Get(x, E) /\ RI[m + 1] = Link(x)
    BY <1>2, <2>1, <2>2
  <2>6. Sound(p, "start", u, ls) /\ Sound(p, "start", w, ls)
    BY <1>7, <2>1
  <2>7. h \cup ToSet(FirstOf(p, n + 1)) = w
    BY <2>4
  <2>8. Runs(p, "start", E, u, ls)
    <3>1. Chan(p) \subseteq u /\ u \subseteq Server \cup {"ssl"} \cup Chan(p) \cup ToSet(ls)
      BY <1>5
    <3>2. QED
      BY <1>3, <2>1, <2>6, <3>1, RunsErr DEF E
  <2> HIDE DEF n, m, x, ls, u, w, P
  <2>9. IsList(s1) /\ s1 # <<>> /\ s1[1] = Get(x, E) /\ Tail(s1) = s2
    BY <1>1, <2>2, <2>5, RestOfList DEF M
  <2>10. IsList(s2) /\ s2 # <<>> /\ s2[1] = Link(x) /\ Tail(s2) = s3
    BY <1>1, <2>2, <2>5, RestOfList DEF M
  <2>11. Runs(p, "start", s3 \o G, w, Append(ls, x))
    BY <2>2, <2>3, <2>4, <2>7
  <2> HIDE DEF s1, s2, s3
  <2>12. s2 \o G # <<>> /\ (s2 \o G)[1] = Link(x) /\ Tail(s2 \o G) = s3 \o G
    BY <1>4, <2>10, InARow
  <2>13. Runs(p, "start", s2 \o G, w, ls)
    BY <2>4, <2>6, <2>11, <2>12, RunsLink
  <2>14. s1 \o G # <<>> /\ (s1 \o G)[1] = Get(x, E) /\ Tail(s1 \o G) = s2 \o G
    BY <1>4, <2>9, InARow
  <2>15. Runs(p, "start", s1 \o G, u, ls)
    <3>1. w = u \cup {x}
      BY DEF w
    <3>2. QED
      BY <2>6, <2>8, <2>13, <2>14, <3>1, RunsGet
  <2>16. Fine(n)
    BY <2>15 DEF s1, m, u, ls
  <2>17. QED
    BY <2>1, <2>16 DEF P, n
<1> HIDE DEF P, Fine
<1>10. N \in P
  BY <1>3, <1>8, <1>9, UpTo
<1>11. Fine(0)
  BY <1>3, <1>10 DEF P
<1>12. h \cup {} = h
  OBVIOUS
<1>13. QED
  BY <1>1, <1>3, <1>6, <1>11, <1>12 DEF Fine, RI, R, E, G, IsList

\* A start that fails before there is a route.
LEMMA RunsEarlyErr ==
    ASSUME NEW p \in Programs, NEW h, Chan(p) \subseteq h, h \subseteq Server \cup {"ssl"} \cup Chan(p),
           h \cap Registered # {} => "base" \in h
    PROVE  /\ Sound(p, "start", h, <<>>)
           /\ IsList(Err \o RestEnd(p)) /\ Runs(p, "start", Err \o RestEnd(p), h, <<>>)
           /\ "ssl" \in h => Runs(p, "start", <<Free("ssl")>> \o (Err \o RestEnd(p)), h, <<>>)
<1> DEFINE E  == Err \o RestEnd(p)
           ls == FirstOf(p, 0)
           s  == <<Free("ssl")>>
           e  == <<>>
           v  == h \ {"ssl"}
<1>1. ls = e /\ ToSet(ls) = {} /\ 0 \in Some(p)
  BY NoRoutes
<1>2. s # <<>> /\ s[1] = Free("ssl") /\ Tail(s) = e /\ s \in Seq({Free("ssl")}) /\ e \in Seq({}) /\ e = <<>>
  OBVIOUS
<1>3. IsList(E)
  <2>1. Err \in Seq({Drop("sigint"), Drop("sigterm"), Drop("timer"), Drop("httpd"), Drop("base"),
                     Drop("ssl")})
    BY DEF Err
  <2>2. IsList(Err)
    BY <2>1 DEF IsList
  <2>3. QED
    BY <2>2, RestEndIs, InARow
<1>4. /\ Chan(p) \subseteq v /\ v \subseteq Server \cup {"ssl"} \cup Chan(p)
      /\ v \cap Registered # {} => "base" \in v
  BY DEF Chan
<1> HIDE DEF ls, s, e, v
<1>5. Sound(p, "start", h, ls) /\ Sound(p, "start", v, ls)
  BY <1>1, <1>4 DEF Sound, ls
<1>6. Runs(p, "start", E, h, ls) /\ Runs(p, "start", E, v, ls)
  <2>1. /\ h \subseteq Server \cup {"ssl"} \cup Chan(p) \cup ToSet(ls)
        /\ v \subseteq Server \cup {"ssl"} \cup Chan(p) \cup ToSet(ls)
    BY <1>4
  <2>2. QED
    BY <1>1, <1>4, <1>5, <2>1, RunsErr DEF ls
<1>7. ASSUME "ssl" \in h PROVE Runs(p, "start", s \o E, h, ls)
  <2> HIDE DEF E
  <2>1. e \o E = E
    BY <1>2, <1>3, InARow DEF IsList
  <2>2. IsList(s)
    BY <1>2 DEF IsList
  <2>3. s \o E # <<>> /\ (s \o E)[1] = Free("ssl") /\ Tail(s \o E) = E
    BY <1>2, <1>3, <2>1, <2>2, InARow
  <2>4. QED
    BY <1>5, <1>6, <1>7, <2>3, RunsFree DEF v
<1>8. QED
  BY <1>1, <1>2, <1>3, <1>5, <1>6, <1>7 DEF s

\* From the check of the address on.
LEMMA RunsBind ==
    ASSUME NEW p \in Programs, NEW h, Based(p, h)
    PROVE  LET td == <<Check(Err \o RestEnd(p))>>
                     \o (RouteInit(RoutesOf(p), Err \o RestEnd(p)) \o Go(p))
           IN  IsList(td) /\ Runs(p, "start", td, h, <<>>) /\ Sound(p, "start", h, <<>>)
<1> DEFINE E  == Err \o RestEnd(p)
           RG == RouteInit(RoutesOf(p), E) \o Go(p)
           s  == <<Check(E)>>
           ls == <<>>
<1>1. IsList(RG) /\ Runs(p, "start", RG, h, <<>>)
  BY RunsRouteInit, RunsGo, InARow
<1>2. /\ Chan(p) \subseteq h /\ h \subseteq Server \cup {"ssl"} \cup Chan(p)
      /\ h \cap Registered # {} => "base" \in h
  BY DEF Based, Server
<1>3. Sound(p, "start", h, <<>>) /\ Runs(p, "start", E, h, <<>>)
  BY <1>2, RunsEarlyErr
<1>4. s # ls /\ s[1] = Check(E) /\ Tail(s) = ls /\ s \in Seq({Check(E)}) /\ ls \in Seq({}) /\ ls = <<>>
  OBVIOUS
<1> HIDE DEF E, RG, s, ls
<1>5. IsList(s) /\ IsList(ls)
  BY <1>4 DEF IsList
<1>6. ls \o RG = RG
  BY <1>1, <1>4, <1>5, InARow
<1>7. IsList(s \o RG) /\ s \o RG # <<>> /\ (s \o RG)[1] = Check(E) /\ Tail(s \o RG) = RG
  BY <1>1, <1>4, <1>5, <1>6, InARow
<1>8. Runs(p, "start", s \o RG, h, ls)
  BY <1>1, <1>3, <1>4, <1>7, RunsCheck
<1>9. QED
  BY <1>3, <1>4, <1>7, <1>8 DEF s, RG, E

\* With TLS, or without.
LEMMA RunsSsl ==
    ASSUME NEW p \in Programs, NEW ssl
    PROVE  LET E  == Err \o RestEnd(p)
               td == (IF ssl THEN SslInit(E) ELSE <<>>)
                     \o (<<Check(E)>> \o (RouteInit(RoutesOf(p), E) \o Go(p)))
           IN  IsList(td) /\ Runs(p, "start", td, Server \cup Chan(p), <<>>)
<1> DEFINE E   == Err \o RestEnd(p)
           BG  == <<Check(E)>> \o (RouteInit(RoutesOf(p), E) \o Go(p))
           bad == <<Free("ssl")>> \o E
           h   == Server \cup Chan(p)
           w   == h \cup {"ssl"}
           ls  == <<>>
           t1  == <<Check(E), Get("ssl", E), Check(bad), Check(bad), Check(bad)>>
           t2  == <<Get("ssl", E), Check(bad), Check(bad), Check(bad)>>
           t3  == <<Check(bad), Check(bad), Check(bad)>>
           t4  == <<Check(bad), Check(bad)>>
           t5  == <<Check(bad)>>
<1>1. Based(p, h) /\ Based(p, w)
  BY DEF Based
<1>2. /\ IsList(BG) /\ Runs(p, "start", BG, h, <<>>) /\ Runs(p, "start", BG, w, <<>>)
      /\ Sound(p, "start", h, <<>>) /\ Sound(p, "start", w, <<>>)
  BY <1>1, RunsBind
<1>3. Runs(p, "start", E, h, <<>>) /\ Runs(p, "start", bad, w, <<>>)
  <2>1. /\ Chan(p) \subseteq h /\ h \subseteq Server \cup {"ssl"} \cup Chan(p) /\ "base" \in h
        /\ Chan(p) \subseteq w /\ w \subseteq Server \cup {"ssl"} \cup Chan(p) /\ "base" \in w /\ "ssl" \in w
    BY DEF Server
  <2>2. QED
    BY <2>1, RunsEarlyErr
<1>4. t1 # <<>> /\ t1[1] = Check(E) /\ Tail(t1) = t2
  OBVIOUS
<1>5. t2 # <<>> /\ t2[1] = Get("ssl", E) /\ Tail(t2) = t3
  OBVIOUS
<1>6. t3 # <<>> /\ t3[1] = Check(bad) /\ Tail(t3) = t4
  OBVIOUS
<1>7. t4 # <<>> /\ t4[1] = Check(bad) /\ Tail(t4) = t5
  OBVIOUS
<1>8. t5 # <<>> /\ t5[1] = Check(bad) /\ Tail(t5) = ls
  OBVIOUS
<1>9. t1 \in Seq({Check(E), Get("ssl", E), Check(bad)}) /\ ls = <<>> /\ ls \in Seq({})
  OBVIOUS
<1>10. SslInit(E) = t1
  BY DEF SslInit
<1>11. w = h \cup {"ssl"}
  OBVIOUS
<1> HIDE DEF E, BG, bad, h, w, ls, t1, t2, t3, t4, t5
<1>12. IsList(t1) /\ IsList(ls)
  BY <1>9 DEF IsList
<1>13. ls \o BG = BG
  BY <1>2, <1>9, <1>12, InARow
<1>14. /\ IsList(t2) /\ IsList(t1 \o BG) /\ t1 \o BG # <<>> /\ (t1 \o BG)[1] = Check(E)
       /\ Tail(t1 \o BG) = t2 \o BG
  BY <1>2, <1>4, <1>12, InARow
<1>15. IsList(t3) /\ t2 \o BG # <<>> /\ (t2 \o BG)[1] = Get("ssl", E) /\ Tail(t2 \o BG) = t3 \o BG
  BY <1>2, <1>5, <1>14, InARow
<1>16. IsList(t4) /\ t3 \o BG # <<>> /\ (t3 \o BG)[1] = Check(bad) /\ Tail(t3 \o BG) = t4 \o BG
  BY <1>2, <1>6, <1>15, InARow
<1>17. IsList(t5) /\ t4 \o BG # <<>> /\ (t4 \o BG)[1] = Check(bad) /\ Tail(t4 \o BG) = t5 \o BG
  BY <1>2, <1>7, <1>16, InARow
<1>18. t5 \o BG # <<>> /\ (t5 \o BG)[1] = Check(bad) /\ Tail(t5 \o BG) = BG
  BY <1>2, <1>8, <1>13, <1>17, InARow
<1>19. Runs(p, "start", t5 \o BG, w, ls)
  BY <1>2, <1>3, <1>9, <1>18, RunsCheck
<1>20. Runs(p, "start", t4 \o BG, w, ls)
  BY <1>2, <1>3, <1>9, <1>17, <1>19, RunsCheck
<1>21. Runs(p, "start", t3 \o BG, w, ls)
  BY <1>2, <1>3, <1>9, <1>16, <1>20, RunsCheck
<1>22. Runs(p, "start", t2 \o BG, h, ls)
  BY <1>2, <1>3, <1>9, <1>11, <1>15, <1>21, RunsGet
<1>23. Runs(p, "start", t1 \o BG, h, ls)
  BY <1>2, <1>3, <1>9, <1>14, <1>22, RunsCheck
<1>24. IsList(t1 \o BG) /\ Runs(p, "start", t1 \o BG, h, <<>>)
  BY <1>9, <1>14, <1>23
<1>25. IsList(ls \o BG) /\ Runs(p, "start", ls \o BG, h, <<>>)
  BY <1>2, <1>13
<1>26. CASE ssl
  BY <1>10, <1>24, <1>26 DEF BG, E, h
<1>27. CASE ~ssl
  BY <1>9, <1>25, <1>27 DEF BG, E, h
<1>28. QED
  BY <1>26, <1>27

\* The same, with names.
LEMMA JoinedIs ==
    ASSUME NEW s, NEW t, NEW u, NEW v, NEW w, IsList(s), IsList(t), IsList(u), v = s \o t, w = t \o u
    PROVE  v \o u = s \o w
BY AllInARow

\* magt_init, and main after it.
LEMMA RunsMagt ==
    ASSUME NEW p \in Programs, NEW ssl
    PROVE  LET td == MagtInit(ssl, RoutesOf(p), RestEnd(p)) \o Go(p)
           IN  IsList(MagtInit(ssl, RoutesOf(p), RestEnd(p))) /\ Runs(p, "start", td, Chan(p), <<>>)
<1> DEFINE F  == RestEnd(p)
           E  == Err \o F
           S  == IF ssl THEN SslInit(E) ELSE <<>>
           B  == <<Check(E)>>
           RI == RouteInit(RoutesOf(p), E)
           G  == Go(p)
           T  == S \o (B \o (RI \o G))
           c  == Chan(p)
           h1 == c \cup {"base"}
           h2 == h1 \cup {"sigint"}
           h3 == h2 \cup {"sigterm"}
           h4 == h3 \cup {"timer"}
           h5 == h4 \cup {"httpd"}
           ls == <<>>
           t1 == <<Get("base", F), Get("sigint", E), Get("sigterm", E), Get("timer", E), Get("httpd", E)>>
           t2 == <<Get("sigint", E), Get("sigterm", E), Get("timer", E), Get("httpd", E)>>
           t3 == <<Get("sigterm", E), Get("timer", E), Get("httpd", E)>>
           t4 == <<Get("timer", E), Get("httpd", E)>>
           t5 == <<Get("httpd", E)>>
<1>1. h5 = Server \cup c
  BY DEF Server
<1>2. IsList(T) /\ Runs(p, "start", T, h5, <<>>)
  BY <1>1, RunsSsl
<1>3. /\ Sound(p, "start", c, <<>>)
      /\ Sound(p, "start", h1, <<>>) /\ Runs(p, "start", E, h1, <<>>)
      /\ Sound(p, "start", h2, <<>>) /\ Runs(p, "start", E, h2, <<>>)
      /\ Sound(p, "start", h3, <<>>) /\ Runs(p, "start", E, h3, <<>>)
      /\ Sound(p, "start", h4, <<>>) /\ Runs(p, "start", E, h4, <<>>)
  <2>1. /\ c \subseteq Server \cup {"ssl"} \cup Chan(p) /\ c \cap Registered = {}
        /\ h1 \subseteq Server \cup {"ssl"} \cup Chan(p) /\ "base" \in h1
        /\ h2 \subseteq Server \cup {"ssl"} \cup Chan(p) /\ "base" \in h2
        /\ h3 \subseteq Server \cup {"ssl"} \cup Chan(p) /\ "base" \in h3
        /\ h4 \subseteq Server \cup {"ssl"} \cup Chan(p) /\ "base" \in h4
    BY DEF Server, Chan, Registered
  <2>2. Chan(p) \subseteq c /\ Chan(p) \subseteq h1 /\ Chan(p) \subseteq h2 /\ Chan(p) \subseteq h3
        /\ Chan(p) \subseteq h4
    OBVIOUS
  <2> HIDE DEF c, h1, h2, h3, h4, E
  <2>3. Sound(p, "start", c, <<>>)
    BY <2>1, <2>2, RunsEarlyErr
  <2>4. Sound(p, "start", h1, <<>>) /\ Runs(p, "start", E, h1, <<>>)
    BY <2>1, <2>2, RunsEarlyErr DEF E
  <2>5. Sound(p, "start", h2, <<>>) /\ Runs(p, "start", E, h2, <<>>)
    BY <2>1, <2>2, RunsEarlyErr DEF E
  <2>6. Sound(p, "start", h3, <<>>) /\ Runs(p, "start", E, h3, <<>>)
    BY <2>1, <2>2, RunsEarlyErr DEF E
  <2>7. Sound(p, "start", h4, <<>>) /\ Runs(p, "start", E, h4, <<>>)
    BY <2>1, <2>2, RunsEarlyErr DEF E
  <2>8. QED
    BY <2>3, <2>4, <2>5, <2>6, <2>7
<1>4. Runs(p, "start", F, c, <<>>)
  <2>1. FirstOf(p, 0) = <<>> /\ ToSet(FirstOf(p, 0)) = {} /\ 0 \in Some(p)
    BY NoRoutes
  <2>2. Runs(p, "start", F, c, FirstOf(p, 0))
    BY <2>1, RunsRestEnd
  <2>3. QED
    BY <2>1, <2>2
<1>5. t1 # <<>> /\ t1[1] = Get("base", F) /\ Tail(t1) = t2
  OBVIOUS
<1>6. t2 # <<>> /\ t2[1] = Get("sigint", E) /\ Tail(t2) = t3
  OBVIOUS
<1>7. t3 # <<>> /\ t3[1] = Get("sigterm", E) /\ Tail(t3) = t4
  OBVIOUS
<1>8. t4 # <<>> /\ t4[1] = Get("timer", E) /\ Tail(t4) = t5
  OBVIOUS
<1>9. t5 # <<>> /\ t5[1] = Get("httpd", E) /\ Tail(t5) = ls
  OBVIOUS
<1>10. /\ t1 \in Seq({Get("base", F), Get("sigint", E), Get("sigterm", E), Get("timer", E), Get("httpd", E)})
       /\ B \in Seq({Check(E)}) /\ ls = <<>> /\ ls \in Seq({})
  OBVIOUS
<1>11. IsList(S)
  <2> DEFINE bad == <<Free("ssl")>> \o E
             s   == <<Check(E), Get("ssl", E), Check(bad), Check(bad), Check(bad)>>
  <2>1. SslInit(E) = s
    BY DEF SslInit
  <2>2. s \in Seq({Check(E), Get("ssl", E), Check(bad)})
    OBVIOUS
  <2> HIDE DEF s, E
  <2>3. IsList(s) /\ IsList(ls)
    BY <1>10, <2>2 DEF IsList
  <2>4. QED
    BY <1>10, <2>1, <2>3
<1>12. IsList(RI) /\ IsList(G)
  <2>1. Based(p, h5)
    BY <1>1 DEF Based
  <2>2. QED
    BY <2>1, RunsRouteInit, RunsGo
<1>13. MagtInit(ssl, RoutesOf(p), RestEnd(p)) = ((t1 \o S) \o B) \o RI
  BY DEF MagtInit
<1> HIDE DEF F, E, S, B, RI, G, T, c, h1, h2, h3, h4, h5, ls, t1, t2, t3, t4, t5
<1>14. IsList(t1) /\ IsList(B) /\ IsList(ls)
  BY <1>10 DEF IsList
<1>15. /\ IsList(t1 \o S) /\ IsList((t1 \o S) \o B) /\ IsList(((t1 \o S) \o B) \o RI)
       /\ IsList(RI \o G) /\ IsList(B \o (RI \o G))
  BY <1>11, <1>12, <1>14, InARow
<1>16. (((t1 \o S) \o B) \o RI) \o G = t1 \o T
  <2> DEFINE a == t1 \o S
             b == a \o B
             x == RI \o G
             y == B \o x
             z == S \o y
  <2>1. IsList(a) /\ IsList(b) /\ IsList(x) /\ IsList(y) /\ z = T
    BY <1>15 DEF T
  <2>2. a = t1 \o S /\ b = a \o B /\ x = RI \o G /\ y = B \o x /\ z = S \o y
    OBVIOUS
  <2>3. ((t1 \o S) \o B) \o RI = b \o RI
    OBVIOUS
  <2> HIDE DEF a, b, x, y, z
  <2>4. a \o y = t1 \o z
    <3>1. IsList(t1) /\ IsList(S) /\ IsList(y)
      BY <1>11, <1>14, <2>1
    <3>2. a = t1 \o S /\ z = S \o y
      BY <2>2
    <3>3. QED
      BY <3>1, <3>2, JoinedIs
  <2>5. b \o x = a \o y
    <3>1. IsList(a) /\ IsList(B) /\ IsList(x)
      BY <1>14, <2>1
    <3>2. b = a \o B /\ y = B \o x
      BY <2>2
    <3>3. QED
      BY <3>1, <3>2, JoinedIs
  <2>6. (b \o RI) \o G = b \o x
    <3> DEFINE d == b \o RI
    <3>1. IsList(b) /\ IsList(RI) /\ IsList(G)
      BY <1>12, <2>1
    <3>2. d = b \o RI /\ x = RI \o G
      BY <2>2
    <3> HIDE DEF d
    <3>3. d \o G = b \o x
      BY <3>1, <3>2, JoinedIs
    <3>4. QED
      BY <3>3 DEF d
  <2>7. QED
    BY <2>1, <2>3, <2>4, <2>5, <2>6
<1>17. ls \o T = T
  BY <1>2, <1>10, <1>14, InARow
<1>18. IsList(t2) /\ t1 \o T # <<>> /\ (t1 \o T)[1] = Get("base", F) /\ Tail(t1 \o T) = t2 \o T
  BY <1>2, <1>5, <1>14, InARow
<1>19. IsList(t3) /\ t2 \o T # <<>> /\ (t2 \o T)[1] = Get("sigint", E) /\ Tail(t2 \o T) = t3 \o T
  BY <1>2, <1>6, <1>18, InARow
<1>20. IsList(t4) /\ t3 \o T # <<>> /\ (t3 \o T)[1] = Get("sigterm", E) /\ Tail(t3 \o T) = t4 \o T
  BY <1>2, <1>7, <1>19, InARow
<1>21. IsList(t5) /\ t4 \o T # <<>> /\ (t4 \o T)[1] = Get("timer", E) /\ Tail(t4 \o T) = t5 \o T
  BY <1>2, <1>8, <1>20, InARow
<1>22. t5 \o T # <<>> /\ (t5 \o T)[1] = Get("httpd", E) /\ Tail(t5 \o T) = T
  BY <1>2, <1>9, <1>17, <1>21, InARow
<1>23. Runs(p, "start", t5 \o T, h4, ls)
  BY <1>2, <1>3, <1>10, <1>22, RunsGet DEF h5
<1>24. Runs(p, "start", t4 \o T, h3, ls)
  BY <1>3, <1>10, <1>21, <1>23, RunsGet DEF h4
<1>25. Runs(p, "start", t3 \o T, h2, ls)
  BY <1>3, <1>10, <1>20, <1>24, RunsGet DEF h3
<1>26. Runs(p, "start", t2 \o T, h1, ls)
  BY <1>3, <1>10, <1>19, <1>25, RunsGet DEF h2
<1>27. Runs(p, "start", t1 \o T, c, ls)
  BY <1>3, <1>4, <1>10, <1>18, <1>26, RunsGet DEF h1
<1>28. QED
  BY <1>10, <1>13, <1>15, <1>16, <1>27 DEF c, G

\* What the programs start with.
MainOf(p, ssl) == CASE p = "apptpl" -> ApptplMain(ssl) [] p = "apptpl2" -> Apptpl2Main(ssl)
                    [] OTHER -> CppMain(ssl)

\* Every start is safe, from nothing and with no routes.
LEMMA RunsMain ==
    ASSUME NEW p \in Programs, NEW ssl
    PROVE  Runs(p, "start", MainOf(p, ssl), {}, <<>>)
<1> DEFINE MI == MagtInit(ssl, RoutesOf(p), RestEnd(p))
           G  == Go(p)
           s  == <<Need("chan")>>
           e  == <<>>
           td == s \o (MI \o G)
           v  == {}
<1>1. IsList(MI) /\ Runs(p, "start", MI \o G, Chan(p), <<>>)
  BY RunsMagt
<1>2. CASE p # "apptpl2"
  <2>1. MainOf(p, ssl) = MI \o G
    BY <1>2 DEF MainOf, ApptplMain, CppMain, RoutesOf, RestEnd, Go, GiveUp, Programs
  <2>2. Chan(p) = {}
    BY <1>2 DEF Chan
  <2>3. QED
    BY <1>1, <2>1, <2>2
<1>3. CASE p = "apptpl2"
  <2>1. MainOf(p, ssl) = (s \o MI) \o G
    BY <1>3 DEF MainOf, Apptpl2Main, RoutesOf, RestEnd, Go
  <2>2. Chan(p) = v \cup {"chan"} /\ v = {}
    BY <1>3 DEF Chan
  <2>3. IsList(G)
    <3>1. Based(p, Server \cup Chan(p))
      BY DEF Based
    <3>2. QED
      BY <3>1, RunsGo
  <2>4. s # <<>> /\ s[1] = Need("chan") /\ Tail(s) = e /\ s \in Seq({Need("chan")}) /\ e = <<>> /\ e \in Seq({})
    OBVIOUS
  <2>5. Sound(p, "start", v, e)
    <3>1. FirstOf(p, 0) = <<>> /\ ToSet(FirstOf(p, 0)) = {} /\ 0 \in Some(p)
      BY NoRoutes
    <3>2. Sound(p, "start", {}, FirstOf(p, 0))
      BY <3>1 DEF Sound
    <3>3. QED
      BY <3>1, <3>2
  <2> HIDE DEF MI, G, s, e, v
  <2>6. IsList(s) /\ IsList(e) /\ IsList(MI \o G)
    BY <1>1, <2>3, <2>4, InARow DEF IsList
  <2>7. (s \o MI) \o G = td
    <3> DEFINE c == s \o MI
               x == MI \o G
    <3>1. IsList(s) /\ IsList(MI) /\ IsList(G) /\ c = s \o MI /\ x = MI \o G
      BY <1>1, <2>3, <2>6
    <3> HIDE DEF c, x
    <3>2. c \o G = s \o x
      BY <3>1, JoinedIs
    <3>3. QED
      BY <3>2 DEF c, x
  <2>8. e \o (MI \o G) = MI \o G
    BY <2>4, <2>6, InARow
  <2>9. td # <<>> /\ td[1] = Need("chan") /\ Tail(td) = MI \o G
    <3> DEFINE x == MI \o G
    <3>1. /\ IsList(s) /\ IsList(x) /\ s # <<>> /\ s[1] = Need("chan") /\ Tail(s) = e
          /\ e \o x = x /\ td = s \o x
      BY <2>4, <2>6, <2>8
    <3> HIDE DEF x, td
    <3>2. s \o x # <<>> /\ (s \o x)[1] = s[1] /\ Tail(s \o x) = Tail(s) \o x
      BY <3>1, InARow
    <3>3. td # <<>> /\ td[1] = Need("chan") /\ Tail(td) = x
      BY <3>1, <3>2
    <3>4. QED
      BY <3>3 DEF x
  <2> HIDE DEF td
  <2>10. Runs(p, "start", td, v, e)
    BY <1>1, <2>2, <2>4, <2>5, <2>9, RunsNeed
  <2>11. QED
    BY <2>1, <2>2, <2>4, <2>7, <2>10
<1>4. QED
  BY <1>2, <1>3

-----------------------------------------------------------------------------
(***************************************************************************)
(* The invariant: what the program still has to do is safe, from what it   *)
(* holds, with the routes that its table holds, and for the request that   *)
(* it serves.                                                              *)
(***************************************************************************)
Serving  == cur # NoClient /\ conn[cur].state = "served"
Asked(r) == [cmd |-> r.cmd, path |-> r.path]
Now      == IF Serving THEN Asked(conn[cur]) ELSE NoRequest
Said     == IF Serving THEN conn[cur].codes ELSE <<>>

\* A connection as a record.
IsRecord(r) == r = [state |-> r.state, asked |-> r.asked, cmd |-> r.cmd, path |-> r.path,
                    codes |-> r.codes, failed |-> r.failed]
IsConn(r) ==
    /\ IsRecord(r)
    /\ r.state \in {"idle", "asked", "served"}
    /\ r.state # "served" => r.codes = <<>> /\ r.failed = FALSE
    /\ r.state # "idle" => HashOf(r.path) \in Nat

ConnsAre == conn = [c \in Clients |-> conn[c]] /\ \A c \in Clients : IsConn(conn[c])

OthersAnswered ==
    \A c \in Clients : c # cur /\ conn[c].state = "served" =>
        Right(prog, Asked(conn[c]), conn[c].codes, conn[c].failed)

Goes(ls, fa) ==
    /\ Holds(routes, ls)
    /\ Serving => fa = conn[cur].failed
    /\ Safe(prog, Now, K(phase, todo, held, ls, Said, fa))

IInv ==
    /\ prog \in Programs /\ ConnsAre
    /\ cur \in Clients \cup {NoClient}
    /\ phase \in {"start", "end"} => cur = NoClient
    /\ phase = "loop" /\ todo # <<>> => Serving
    /\ (\E c \in Clients : conn[c].state # "idle") => "httpd" \in held
    /\ OthersAnswered
    /\ \E ls, fa : Goes(ls, fa)

\* What holds in a configuration that is safe.
LEMMA IsGood ==
    ASSUME NEW ls, NEW fa, Goes(ls, fa)
    PROVE  /\ Good(prog, Now, K(phase, todo, held, ls, Said, fa))
           /\ phase \in {"start", "loop", "end", "exited", "crashed"}
           /\ phase \in {"exited", "crashed"} => todo = <<>>
           /\ todo # <<>> =>
                /\ todo[1].op = "free" => todo[1].x \in held
                /\ todo[1].op \in {"send", "only", "find", "grow"} => phase = "loop"
                /\ todo[1].op = "link" => todo[1].x \in Items \ ToSet(ls)
                /\ todo[1].op = "unlink" => todo[1].x \in {"head", IF ls = <<>> THEN NoItem ELSE ls[1]}
                /\ todo[1].op = "loop" => Tail(todo) = <<>>
                /\ todo[1].op = "close" => phase = "start"
           /\ phase = "loop" => KeptOf(prog) \subseteq held /\ ls = RoutesOf(prog)
           /\ phase = "loop" /\ todo = <<>> => Steady(prog, held) /\ Right(prog, Now, Said, fa)
           /\ phase = "exited" => /\ held \subseteq ForgottenOf(prog) \cup Items
                                  /\ ls = <<>> => held \subseteq ForgottenOf(prog)
           /\ held \cap Registered # {} => "base" \in held
           /\ ToSet(ls) \subseteq held
           /\ IF phase = "end" THEN \E n \in Some(prog) : ls = RestOf(prog, n)
                               ELSE \E n \in Some(prog) : ls = FirstOf(prog, n)
           /\ todo # <<>> =>
                \A l \in Follow(prog, Now, phase, todo, held, ls, Said, fa) : Safe(prog, Now, l)
<1> DEFINE k == K(phase, todo, held, ls, Said, fa)
<1>1. Good(prog, Now, k) /\ \A l \in Succ(prog, Now, k) : Safe(prog, Now, l)
  BY SafeSteps DEF Goes
<1>2. /\ k.phase = phase /\ k.todo = todo /\ k.held = held /\ k.list = ls /\ k.codes = Said
      /\ k.failed = fa
  BY DEF K
<1> HIDE DEF k
<1>3. todo # <<>> => Succ(prog, Now, k) = Follow(prog, Now, phase, todo, held, ls, Said, fa)
  BY <1>2 DEF Succ
<1>4. Good(prog, Now, K(phase, todo, held, ls, Said, fa))
  BY <1>1 DEF k
<1>5. todo # <<>> =>
         /\ todo[1].op = "free" => todo[1].x \in held
         /\ todo[1].op \in {"send", "only", "find", "grow"} => phase = "loop"
         /\ todo[1].op = "link" => todo[1].x \in Items \ ToSet(ls)
         /\ todo[1].op = "unlink" => todo[1].x \in {"head", IF ls = <<>> THEN NoItem ELSE ls[1]}
         /\ todo[1].op = "loop" => Tail(todo) = <<>>
         /\ todo[1].op = "close" => phase = "start"
  BY <1>1, <1>2 DEF Good, Ready
<1>6. /\ phase \in {"start", "loop", "end", "exited", "crashed"}
      /\ phase \in {"exited", "crashed"} => todo = <<>>
      /\ phase = "loop" => KeptOf(prog) \subseteq held /\ ls = RoutesOf(prog)
      /\ phase = "loop" /\ todo = <<>> => Steady(prog, held) /\ Right(prog, Now, Said, fa)
      /\ phase = "exited" => /\ held \subseteq ForgottenOf(prog) \cup Items
                             /\ ls = <<>> => held \subseteq ForgottenOf(prog)
      /\ held \cap Registered # {} => "base" \in held
      /\ ToSet(ls) \subseteq held
      /\ IF phase = "end" THEN \E n \in Some(prog) : ls = RestOf(prog, n)
                          ELSE \E n \in Some(prog) : ls = FirstOf(prog, n)
  BY <1>1, <1>2 DEF Good
<1>7. todo # <<>> =>
        \A l \in Follow(prog, Now, phase, todo, held, ls, Said, fa) : Safe(prog, Now, l)
  BY <1>1, <1>3
<1>8. QED
  BY <1>4, <1>5, <1>6, <1>7

\* A step of the function that runs, for the rest of the state.
LEMMA RunKeeps ==
    ASSUME IInv, NEW ls, NEW fa, UNCHANGED <<prog, cur>>, Holds(routes', ls),
           ConnsAre', \A c \in Clients : c # cur => conn'[c] = conn[c] \/ conn'[c].state # "served",
           Serving => /\ conn'[cur].state = "served" /\ Asked(conn'[cur]) = Asked(conn[cur])
                      /\ fa = conn'[cur].failed,
           ~Serving => ~Serving',
           Safe(prog, Now, K(phase', todo', held', ls, Said', fa)),
           (\E c \in Clients : conn'[c].state # "idle") => "httpd" \in held',
           phase' \in {"start", "end"} => cur = NoClient,
           phase' = "loop" /\ todo' # <<>> => Serving
    PROVE  IInv'
<1>1. Serving' = Serving /\ Now' = Now
  BY DEF Serving, Now
<1>2. Goes(ls, fa)'
  BY <1>1 DEF Goes, Serving
<1>3. OthersAnswered'
  BY DEF IInv, OthersAnswered
<1>4. /\ prog' \in Programs /\ ConnsAre'
      /\ cur' \in Clients \cup {NoClient}
      /\ phase' \in {"start", "end"} => cur' = NoClient
      /\ phase' = "loop" /\ todo' # <<>> => Serving'
      /\ (\E c \in Clients : conn'[c].state # "idle") => "httpd" \in held'
  BY <1>1 DEF IInv
<1>5. QED
  BY <1>2, <1>3, <1>4 DEF IInv

\* A step that the connections have no part in.
LEMMA StepKeeps ==
    ASSUME IInv, NEW ls, NEW fa, Goes(ls, fa), UNCHANGED <<prog, cur, conn>>, NEW lt, Holds(routes', lt),
           Safe(prog, Now, K(phase', todo', held', lt, Said, fa)),
           "httpd" \in held => "httpd" \in held',
           phase' \in {"start", "end"} => cur = NoClient,
           phase' = "loop" /\ todo' # <<>> => Serving
    PROVE  IInv'
<1>1. Serving' = Serving /\ Said' = Said /\ conn' = conn
  BY DEF Serving, Said
<1>2. ConnsAre'
  BY DEF IInv, ConnsAre
<1>3. Serving => conn'[cur].state = "served" /\ fa = conn'[cur].failed
  BY DEF Serving, Goes
<1>4. (\E c \in Clients : conn'[c].state # "idle") => "httpd" \in held'
  BY DEF IInv
<1>5. QED
  BY <1>1, <1>2, <1>3, <1>4, RunKeeps

-----------------------------------------------------------------------------
(***************************************************************************)
(* The steps of the function that runs.                                    *)
(***************************************************************************)
\* What is acquired.
LEMMA AcquireKeeps ==
    ASSUME IInv, Acquire
    PROVE  IInv'
<1>1. PICK ls, fa : Goes(ls, fa)
  BY DEF IInv
<1>2. todo # <<>> /\ todo[1].op \in {"get", "need", "try"}
  BY DEF Acquire, At
<1>3. /\ held' = held \cup {todo[1].x} /\ todo' = Tail(todo)
      /\ UNCHANGED <<prog, phase, routes, conn, cur>>
  BY DEF Acquire, On
<1>4. K(phase, Tail(todo), held \cup {todo[1].x}, ls, Said, fa)
        \in Follow(prog, Now, phase, todo, held, ls, Said, fa)
  BY <1>2 DEF Follow
<1>5. Safe(prog, Now, K(phase', todo', held', ls, Said, fa))
  BY <1>1, <1>2, <1>3, <1>4, IsGood
<1>6. /\ phase' \in {"start", "end"} => cur = NoClient
      /\ phase' = "loop" /\ todo' # <<>> => Serving
      /\ Holds(routes', ls) /\ ("httpd" \in held => "httpd" \in held')
  BY <1>1, <1>2, <1>3 DEF IInv, Goes
<1>7. QED
  BY <1>1, <1>3, <1>5, <1>6, StepKeeps

\* What works.
LEMMA ProceedKeeps ==
    ASSUME IInv, Proceed
    PROVE  IInv'
<1>1. PICK ls, fa : Goes(ls, fa)
  BY DEF IInv
<1>2. todo # <<>> /\ todo[1].op \in {"check", "grow", "try"}
  BY DEF Proceed, At
<1>3. todo' = Tail(todo) /\ UNCHANGED <<prog, phase, held, routes, conn, cur>>
  BY DEF Proceed, On
<1>4. K(phase, Tail(todo), held, ls, Said, fa) \in Follow(prog, Now, phase, todo, held, ls, Said, fa)
  BY <1>2 DEF Follow
<1>5. Safe(prog, Now, K(phase', todo', held', ls, Said, fa))
  BY <1>1, <1>2, <1>3, <1>4, IsGood
<1>6. /\ phase' \in {"start", "end"} => cur = NoClient
      /\ phase' = "loop" /\ todo' # <<>> => Serving
      /\ Holds(routes', ls) /\ ("httpd" \in held => "httpd" \in held')
  BY <1>1, <1>2, <1>3 DEF IInv, Goes
<1>7. QED
  BY <1>1, <1>3, <1>5, <1>6, StepKeeps

\* What crashes the process.
LEMMA CrashKeeps ==
    ASSUME IInv, Crash
    PROVE  IInv'
<1>1. PICK ls, fa : Goes(ls, fa)
  BY DEF IInv
<1>2. todo # <<>> /\ todo[1].op \in {"need", "link"}
  BY DEF Crash, At
<1>3. phase' = "crashed" /\ todo' = <<>> /\ UNCHANGED <<prog, held, routes, conn, cur>>
  BY DEF Crash
<1>4. K("crashed", <<>>, held, ls, Said, fa) \in Follow(prog, Now, phase, todo, held, ls, Said, fa)
  BY <1>2 DEF Follow
<1>5. Safe(prog, Now, K(phase', todo', held', ls, Said, fa))
  BY <1>1, <1>2, <1>3, <1>4, IsGood
<1>6. /\ phase' \in {"start", "end"} => cur = NoClient
      /\ phase' = "loop" /\ todo' # <<>> => Serving
      /\ Holds(routes', ls) /\ ("httpd" \in held => "httpd" \in held')
  BY <1>1, <1>3 DEF Goes
<1>7. QED
  BY <1>1, <1>3, <1>5, <1>6, StepKeeps

\* The route that is added.
LEMMA AddRouteKeeps ==
    ASSUME IInv, AddRoute
    PROVE  IInv'
<1>1. PICK ls, fa : Goes(ls, fa)
  BY DEF IInv
<1>2. todo # <<>> /\ todo[1].op = "link"
  BY DEF AddRoute, At
<1>3. /\ routes' = Add(routes, todo[1].x) /\ todo' = Tail(todo)
      /\ UNCHANGED <<prog, phase, held, conn, cur>>
  BY DEF AddRoute, On
<1>4. K(phase, Tail(todo), held, Append(ls, todo[1].x), Said, fa)
        \in Follow(prog, Now, phase, todo, held, ls, Said, fa)
  BY <1>2 DEF Follow
<1>5. Safe(prog, Now, K(phase', todo', held', Append(ls, todo[1].x), Said, fa))
  BY <1>1, <1>2, <1>3, <1>4, IsGood
<1>6. Holds(routes', Append(ls, todo[1].x))
  <2>1. todo[1].x \in Items \ ToSet(ls)
    BY <1>1, <1>2, IsGood
  <2>2. QED
    BY <1>1, <1>3, <2>1, AddsItem DEF Goes
<1>7. /\ phase' \in {"start", "end"} => cur = NoClient
      /\ phase' = "loop" /\ todo' # <<>> => Serving
      /\ ("httpd" \in held => "httpd" \in held')
  BY <1>2, <1>3 DEF IInv
<1>8. QED
  BY <1>1, <1>3, <1>5, <1>6, <1>7, StepKeeps

\* The callback that takes only GET.
LEMMA GetOnlyKeeps ==
    ASSUME IInv, GetOnly
    PROVE  IInv'
<1>1. PICK ls, fa : Goes(ls, fa)
  BY DEF IInv
<1>2. todo # <<>> /\ todo[1].op = "only"
  BY DEF GetOnly, At
<1>3. /\ todo' = IF conn[cur].cmd = "GET" THEN Tail(todo) ELSE todo[1].otherwise
      /\ UNCHANGED <<prog, phase, held, routes, conn, cur>>
  BY DEF GetOnly
<1>4. phase = "loop" /\ Serving
  BY <1>1, <1>2, IsGood DEF IInv
<1>5. Now.cmd = conn[cur].cmd
  BY <1>4 DEF Now, Asked
<1>6. K(phase, IF Now.cmd = "GET" THEN Tail(todo) ELSE todo[1].otherwise, held, ls, Said, fa)
        \in Follow(prog, Now, phase, todo, held, ls, Said, fa)
  BY <1>2 DEF Follow
<1>7. Safe(prog, Now, K(phase', todo', held', ls, Said, fa))
  BY <1>1, <1>2, <1>3, <1>5, <1>6, IsGood
<1>8. /\ phase' \in {"start", "end"} => cur = NoClient
      /\ phase' = "loop" /\ todo' # <<>> => Serving
      /\ Holds(routes', ls) /\ ("httpd" \in held => "httpd" \in held')
  BY <1>1, <1>3, <1>4 DEF Goes
<1>9. QED
  BY <1>1, <1>3, <1>7, <1>8, StepKeeps

\* The route that is looked up is the one with the path that is asked for.
LEMMA FindRouteKeeps ==
    ASSUME IInv, FindRoute
    PROVE  IInv'
<1>1. PICK ls, fa : Goes(ls, fa)
  BY DEF IInv
<1> DEFINE path == conn[cur].path
           r == FindKey(routes, path)
<1>2. todo # <<>> /\ todo[1].op = "find"
  BY DEF FindRoute, At
<1>3. /\ todo' = IF r = NoItem THEN NotFound ELSE Callback(prog, r)
      /\ UNCHANGED <<prog, phase, held, routes, conn, cur>>
  BY DEF FindRoute
<1>4. phase = "loop" /\ Serving /\ ls = RoutesOf(prog) /\ Holds(routes, ls) /\ cur \in Clients
  BY <1>1, <1>2, IsGood DEF IInv, Goes, Serving
<1>5. Now.path = path
  BY <1>4 DEF Now, Asked
<1>6. HashOf(path) \in Nat
  BY <1>4 DEF IInv, ConnsAre, IsConn, Serving
<1>7. \A x \in ToSet(ls) : KeyOf(x) = x /\ x # NoItem
  BY <1>4, RoutesAre, HttpApiAssumption, UtHashAssumption DEF IInv, Programs
<1> HIDE DEF path, r
<1>8. IF path \in ToSet(ls) THEN r = path /\ r # NoItem ELSE r = NoItem
  <2>1. IF \E x \in ToSet(ls) : KeyOf(x) = path THEN r \in ToSet(ls) /\ KeyOf(r) = path ELSE r = NoItem
    BY <1>4, <1>6, FindsItem DEF r
  <2>2. QED
    BY <1>7, <2>1
<1>9. K(phase, IF Now.path \in ToSet(RoutesOf(prog)) THEN Callback(prog, Now.path) ELSE NotFound,
        held, ls, Said, fa) \in Follow(prog, Now, phase, todo, held, ls, Said, fa)
  BY <1>2 DEF Follow
<1>10. todo' = IF Now.path \in ToSet(RoutesOf(prog)) THEN Callback(prog, Now.path) ELSE NotFound
  BY <1>3, <1>4, <1>5, <1>8
<1>11. Safe(prog, Now, K(phase', todo', held', ls, Said, fa))
  BY <1>1, <1>2, <1>3, <1>9, <1>10, IsGood
<1>12. /\ phase' \in {"start", "end"} => cur = NoClient
       /\ phase' = "loop" /\ todo' # <<>> => Serving
       /\ Holds(routes', ls) /\ ("httpd" \in held => "httpd" \in held')
  BY <1>3, <1>4
<1>13. QED
  BY <1>1, <1>3, <1>11, <1>12, StepKeeps

\* The start that is done.
LEMMA EnterLoopKeeps ==
    ASSUME IInv, EnterLoop
    PROVE  IInv'
<1>1. PICK ls, fa : Goes(ls, fa)
  BY DEF IInv
<1>2. todo # <<>> /\ todo[1].op = "loop"
  BY DEF EnterLoop, At
<1>3. phase' = "loop" /\ todo' = Tail(todo) /\ UNCHANGED <<prog, held, routes, conn, cur>>
  BY DEF EnterLoop, On
<1>4. K("loop", Tail(todo), held, ls, Said, fa) \in Follow(prog, Now, phase, todo, held, ls, Said, fa)
  BY <1>2 DEF Follow
<1>5. Safe(prog, Now, K(phase', todo', held', ls, Said, fa))
  BY <1>1, <1>2, <1>3, <1>4, IsGood
<1>6. /\ phase' \in {"start", "end"} => cur = NoClient
      /\ phase' = "loop" /\ todo' # <<>> => Serving
      /\ Holds(routes', ls) /\ ("httpd" \in held => "httpd" \in held')
  BY <1>1, <1>2, <1>3, IsGood DEF Goes
<1>7. QED
  BY <1>1, <1>3, <1>5, <1>6, StepKeeps

\* The start that is given up.
LEMMA CloseEarlyKeeps ==
    ASSUME IInv, CloseEarly
    PROVE  IInv'
<1>1. PICK ls, fa : Goes(ls, fa)
  BY DEF IInv
<1>2. todo # <<>> /\ todo[1].op = "close"
  BY DEF CloseEarly, At
<1>3. phase' = "end" /\ todo' = Tail(todo) /\ UNCHANGED <<prog, held, routes, conn, cur>>
  BY DEF CloseEarly, On
<1>4. K("end", Tail(todo), held, ls, Said, fa) \in Follow(prog, Now, phase, todo, held, ls, Said, fa)
  BY <1>2 DEF Follow
<1>5. Safe(prog, Now, K(phase', todo', held', ls, Said, fa))
  BY <1>1, <1>2, <1>3, <1>4, IsGood
<1>6. cur = NoClient
  BY <1>1, <1>2, IsGood DEF IInv
<1>7. /\ phase' \in {"start", "end"} => cur = NoClient
      /\ phase' = "loop" /\ todo' # <<>> => Serving
      /\ Holds(routes', ls) /\ ("httpd" \in held => "httpd" \in held')
  BY <1>1, <1>3, <1>6 DEF Goes
<1>8. QED
  BY <1>1, <1>3, <1>5, <1>7, StepKeeps

\* The threads that have returned.
LEMMA JoinThreadsKeeps ==
    ASSUME IInv, JoinThreads
    PROVE  IInv'
<1>1. PICK ls, fa : Goes(ls, fa)
  BY DEF IInv
<1>2. todo # <<>> /\ todo[1].op = "join"
  BY DEF JoinThreads, At
<1>3. todo' = Tail(todo) /\ UNCHANGED <<prog, phase, held, routes, conn, cur>>
  BY DEF JoinThreads, On
<1>4. K(phase, Tail(todo), held, ls, Said, fa) \in Follow(prog, Now, phase, todo, held, ls, Said, fa)
  BY <1>2 DEF Follow
<1>5. Safe(prog, Now, K(phase', todo', held', ls, Said, fa))
  BY <1>1, <1>2, <1>3, <1>4, IsGood
<1>6. /\ phase' \in {"start", "end"} => cur = NoClient
      /\ phase' = "loop" /\ todo' # <<>> => Serving
      /\ Holds(routes', ls) /\ ("httpd" \in held => "httpd" \in held')
  BY <1>1, <1>2, <1>3 DEF IInv, Goes
<1>7. QED
  BY <1>1, <1>3, <1>5, <1>6, StepKeeps

\* The end of the process.
LEMMA ExitProcessKeeps ==
    ASSUME IInv, ExitProcess
    PROVE  IInv'
<1>1. PICK ls, fa : Goes(ls, fa)
  BY DEF IInv
<1>2. todo # <<>> /\ todo[1].op = "exit"
  BY DEF ExitProcess, At
<1>3. phase' = "exited" /\ todo' = <<>> /\ UNCHANGED <<prog, held, routes, conn, cur>>
  BY DEF ExitProcess
<1>4. K("exited", <<>>, held, ls, Said, fa) \in Follow(prog, Now, phase, todo, held, ls, Said, fa)
  BY <1>2 DEF Follow
<1>5. Safe(prog, Now, K(phase', todo', held', ls, Said, fa))
  BY <1>1, <1>2, <1>3, <1>4, IsGood
<1>6. /\ phase' \in {"start", "end"} => cur = NoClient
      /\ phase' = "loop" /\ todo' # <<>> => Serving
      /\ Holds(routes', ls) /\ ("httpd" \in held => "httpd" \in held')
  BY <1>1, <1>3 DEF Goes
<1>7. QED
  BY <1>1, <1>3, <1>5, <1>6, StepKeeps

\* The server is there while the loop runs.
LEMMA HasServer ==
    ASSUME NEW p, NEW r, NEW td, NEW h, NEW ls, NEW co, NEW fa,
           Safe(p, r, K("loop", td, h, ls, co, fa))
    PROVE  "httpd" \in h
<1> DEFINE k == K("loop", td, h, ls, co, fa)
<1>1. Good(p, r, k) /\ k.phase = "loop" /\ k.held = h
  BY SafeSteps DEF K
<1> HIDE DEF k
<1>2. KeptOf(p) \subseteq h
  BY <1>1 DEF Good
<1>3. QED
  BY <1>2 DEF KeptOf, Server

\* A connection on whose request something failed.
LEMMA FailedField ==
    ASSUME NEW r, IsRecord(r), NEW v, NEW q, q = [r EXCEPT !.failed = v]
    PROVE  /\ IsRecord(q) /\ q.failed = v
           /\ q.state = r.state /\ q.cmd = r.cmd /\ q.path = r.path /\ q.codes = r.codes
<1> DEFINE N == {"state", "asked", "cmd", "path", "codes", "failed"}
<1>1. r = [x \in N |-> r[x]]
  <2>1. DOMAIN r = N
    BY DEF IsRecord
  <2>2. QED
    BY <2>1 DEF IsRecord
<1>2. q = [x \in N |-> IF x = "failed" THEN v ELSE r[x]]
  BY <1>1
<1>3. QED
  BY <1>2 DEF IsRecord

\* A connection that gets an answer.
LEMMA CodesField ==
    ASSUME NEW r, IsRecord(r), NEW v, NEW q, q = [r EXCEPT !.codes = v]
    PROVE  /\ IsRecord(q) /\ q.codes = v
           /\ q.state = r.state /\ q.cmd = r.cmd /\ q.path = r.path /\ q.failed = r.failed
<1> DEFINE N == {"state", "asked", "cmd", "path", "codes", "failed"}
<1>1. r = [x \in N |-> r[x]]
  <2>1. DOMAIN r = N
    BY DEF IsRecord
  <2>2. QED
    BY <2>1 DEF IsRecord
<1>2. q = [x \in N |-> IF x = "codes" THEN v ELSE r[x]]
  BY <1>1
<1>3. QED
  BY <1>2 DEF IsRecord

\* A connection whose turn it is.
LEMMA StateField ==
    ASSUME NEW r, IsRecord(r), NEW v, NEW q, q = [r EXCEPT !.state = v]
    PROVE  /\ IsRecord(q) /\ q.state = v
           /\ q.codes = r.codes /\ q.cmd = r.cmd /\ q.path = r.path /\ q.failed = r.failed
<1> DEFINE N == {"state", "asked", "cmd", "path", "codes", "failed"}
<1>1. r = [x \in N |-> r[x]]
  <2>1. DOMAIN r = N
    BY DEF IsRecord
  <2>2. QED
    BY <2>1 DEF IsRecord
<1>2. q = [x \in N |-> IF x = "state" THEN v ELSE r[x]]
  BY <1>1
<1>3. QED
  BY <1>2 DEF IsRecord

\* One connection changes.
LEMMA ConnChanges ==
    ASSUME ConnsAre, NEW c \in Clients, NEW q, IsConn(q), conn' = [conn EXCEPT ![c] = q]
    PROVE  ConnsAre' /\ conn'[c] = q /\ \A d \in Clients : d # c => conn'[d] = conn[d]
<1>1. conn = [d \in Clients |-> conn[d]] /\ \A d \in Clients : IsConn(conn[d])
  BY DEF ConnsAre
<1>2. conn' = [d \in Clients |-> IF d = c THEN q ELSE conn[d]]
  BY <1>1
<1>3. conn'[c] = q /\ \A d \in Clients : d # c => conn'[d] = conn[d]
  BY <1>2
<1>4. conn' = [d \in Clients |-> conn'[d]]
  BY <1>2
<1>5. ASSUME NEW d \in Clients PROVE IsConn(conn[d])'
  <2>1. IsConn(conn'[d])
    BY <1>1, <1>3
  <2>2. QED
    BY <2>1 DEF IsConn, IsRecord
<1>6. QED
  BY <1>3, <1>4, <1>5 DEF ConnsAre

\* What fails.
LEMMA RefusedKeeps ==
    ASSUME IInv, Refused
    PROVE  IInv'
<1>1. PICK ls, fa : Goes(ls, fa)
  BY DEF IInv
<1> DEFINE other == TRUE
           w == IF todo[1].op = "grow" THEN (held \ {todo[1].x}) \cup {"lost"} ELSE held
<1>2. todo # <<>> /\ todo[1].op \in {"get", "check", "grow"} /\ phase \in {"start", "loop", "end"}
  BY DEF Refused, At
<1>3. held' = w /\ todo' = todo[1].otherwise /\ UNCHANGED <<prog, phase, routes, cur>> /\ Failed
  BY <1>2 DEF Refused, At
<1>4. K(phase, todo[1].otherwise, w, ls, Said, other)
        \in Follow(prog, Now, phase, todo, held, ls, Said, fa)
  BY <1>2 DEF Follow
<1>5. other = TRUE
  OBVIOUS
<1> HIDE DEF other
<1>6. Safe(prog, Now, K(phase', todo', held', ls, Said, other))
  BY <1>1, <1>2, <1>3, <1>4, IsGood
<1>7. cur = NoClient \/ Serving
  BY <1>2 DEF IInv
<1>8. "httpd" \in held => "httpd" \in held'
  <2>1. CASE todo[1].op = "grow"
    <3>1. phase' = "loop"
      BY <1>1, <1>2, <1>3, <2>1, IsGood
    <3>2. QED
      BY <1>6, <3>1, HasServer
  <2>2. CASE todo[1].op # "grow"
    BY <1>3, <2>2
  <2>3. QED
    BY <2>1, <2>2
<1>9. /\ phase' \in {"start", "end"} => cur = NoClient
      /\ phase' = "loop" /\ todo' # <<>> => Serving
      /\ Holds(routes', ls)
  BY <1>1, <1>2, <1>3 DEF IInv, Goes
<1>10. CASE cur = NoClient
  <2>1. conn' = conn /\ Said' = Said /\ ConnsAre' /\ ~Serving /\ ~Serving'
    BY <1>3, <1>10 DEF Failed, Said, IInv, ConnsAre, Serving
  <2>2. (\E c \in Clients : conn'[c].state # "idle") => "httpd" \in held'
    BY <1>8, <2>1 DEF IInv
  <2>3. QED
    BY <1>3, <1>6, <1>9, <2>1, <2>2, RunKeeps
<1>11. CASE Serving
  <2> DEFINE q == [conn[cur] EXCEPT !.failed = other]
  <2>1. cur \in Clients /\ conn' = [conn EXCEPT ![cur] = q]
    BY <1>3, <1>5, <1>11 DEF IInv, Failed, Serving
  <2>2. ConnsAre /\ IsConn(conn[cur]) /\ conn[cur].state = "served"
    BY <1>11, <2>1 DEF IInv, ConnsAre, Serving
  <2>3. /\ IsRecord(q) /\ q.failed = other
        /\ q.state = conn[cur].state /\ q.cmd = conn[cur].cmd /\ q.path = conn[cur].path
        /\ q.codes = conn[cur].codes
    <3> DEFINE r == conn[cur]
    <3>1. IsRecord(r)
      BY <2>2 DEF IsConn
    <3> HIDE DEF r
    <3>2. q = [r EXCEPT !.failed = other]
      BY DEF r
    <3> HIDE DEF q
    <3>3. /\ IsRecord(q) /\ q.failed = other
          /\ q.state = r.state /\ q.cmd = r.cmd /\ q.path = r.path /\ q.codes = r.codes
      BY <3>1, <3>2, FailedField
    <3>4. QED
      BY <3>3 DEF r
  <2> HIDE DEF q
  <2>4. IsConn(q)
    BY <2>2, <2>3 DEF IsConn
  <2>5. ConnsAre' /\ conn'[cur] = q /\ \A c \in Clients : c # cur => conn'[c] = conn[c]
    BY <2>1, <2>2, <2>4, ConnChanges
  <2>6. Said' = Said /\ Asked(conn'[cur]) = Asked(conn[cur])
    BY <1>3, <1>11, <2>2, <2>3, <2>5 DEF Said, Serving, Asked
  <2>7. (\E c \in Clients : conn'[c].state # "idle") => "httpd" \in held'
    BY <1>8, <2>1, <2>2 DEF IInv
  <2>8. QED
    BY <1>3, <1>6, <1>9, <1>11, <2>2, <2>3, <2>5, <2>6, <2>7, RunKeeps
<1>12. QED
  BY <1>7, <1>10, <1>11

\* An answer.
LEMMA ReplyKeeps ==
    ASSUME IInv, Reply
    PROVE  IInv'
<1>1. PICK ls, fa : Goes(ls, fa)
  BY DEF IInv
<1> DEFINE r  == conn[cur]
           co == Append(r.codes, todo[1].code)
           q  == [r EXCEPT !.codes = co]
<1>2. todo # <<>> /\ todo[1].op = "send"
  BY DEF Reply, At
<1>3. conn' = [conn EXCEPT ![cur] = q] /\ todo' = Tail(todo) /\ UNCHANGED <<prog, phase, held, routes, cur>>
  BY DEF Reply, On
<1>4. phase = "loop" /\ Serving
  BY <1>1, <1>2, IsGood DEF IInv
<1>5. ConnsAre /\ cur \in Clients /\ IsConn(r) /\ r.state = "served" /\ Said = r.codes /\ fa = r.failed
  BY <1>1, <1>4 DEF IInv, ConnsAre, Serving, Said, Goes
<1> HIDE DEF r
<1>6. /\ IsRecord(q) /\ q.codes = co /\ q.state = r.state /\ q.cmd = r.cmd /\ q.path = r.path
      /\ q.failed = r.failed
  <2> HIDE DEF co
  <2>1. IsRecord(r) /\ q = [r EXCEPT !.codes = co]
    BY <1>5 DEF IsConn
  <2> HIDE DEF q
  <2>2. QED
    BY <2>1, CodesField
<1> HIDE DEF q
<1>7. IsConn(q)
  BY <1>5, <1>6 DEF IsConn
<1>8. ConnsAre' /\ conn'[cur] = q /\ \A c \in Clients : c # cur => conn'[c] = conn[c]
  BY <1>3, <1>5, <1>7, ConnChanges
<1>9. K(phase, Tail(todo), held, ls, Append(Said, todo[1].code), fa)
        \in Follow(prog, Now, phase, todo, held, ls, Said, fa)
  BY <1>2 DEF Follow
<1>10. Said' = Append(Said, todo[1].code) /\ Asked(conn'[cur]) = Asked(r)
  BY <1>3, <1>4, <1>5, <1>6, <1>8 DEF Said, Serving, Asked
<1>11. Safe(prog, Now, K(phase', todo', held', ls, Said', fa))
  BY <1>1, <1>2, <1>3, <1>9, <1>10, IsGood
<1>12. /\ phase' \in {"start", "end"} => cur = NoClient
       /\ phase' = "loop" /\ todo' # <<>> => Serving
       /\ Holds(routes', ls)
       /\ (\E c \in Clients : conn'[c].state # "idle") => "httpd" \in held'
  <2>1. "httpd" \in held'
    BY <1>3, <1>4, <1>11, HasServer
  <2>2. QED
    BY <1>1, <1>3, <1>4, <2>1 DEF Goes
<1>13. conn'[cur].state = "served" /\ fa = conn'[cur].failed /\ Asked(conn'[cur]) = Asked(conn[cur])
  BY <1>5, <1>6, <1>8, <1>10 DEF r
<1>14. QED
  BY <1>3, <1>4, <1>8, <1>11, <1>12, <1>13, RunKeeps

\* What is released, the server with all of its connections.
LEMMA ReleaseKeeps ==
    ASSUME IInv, Release
    PROVE  IInv'
<1>1. PICK ls, fa : Goes(ls, fa)
  BY DEF IInv
<1>2. todo # <<>> /\ todo[1].op \in {"free", "drop"} /\ phase \in {"start", "loop", "end"}
  BY DEF Release, At
<1>3. /\ held' = held \ {todo[1].x} /\ todo' = Tail(todo) /\ UNCHANGED <<prog, phase, routes, cur>>
      /\ conn' = IF todo[1].x = "httpd" THEN [c \in Clients |-> Idle] ELSE conn
  BY DEF Release, On
<1>4. K(phase, Tail(todo), held \ {todo[1].x}, ls, Said, fa)
        \in Follow(prog, Now, phase, todo, held, ls, Said, fa)
  BY <1>2 DEF Follow
<1>5. Safe(prog, Now, K(phase', todo', held', ls, Said, fa))
  BY <1>1, <1>2, <1>3, <1>4, IsGood
<1>6. /\ phase' \in {"start", "end"} => cur = NoClient
      /\ phase' = "loop" /\ todo' # <<>> => Serving
      /\ Holds(routes', ls)
  BY <1>1, <1>2, <1>3 DEF IInv, Goes
<1>7. CASE todo[1].x # "httpd"
  <2>1. conn' = conn /\ ("httpd" \in held => "httpd" \in held')
    BY <1>3, <1>7
  <2>2. QED
    BY <1>1, <1>3, <1>5, <1>6, <2>1, StepKeeps
<1>8. CASE todo[1].x = "httpd"
  <2>1. "httpd" \notin held'
    BY <1>3, <1>8
  <2>2. phase' # "loop"
    BY <1>5, <2>1, HasServer
  <2>3. cur = NoClient /\ ~Serving /\ ~Serving' /\ Said' = Said
    BY <1>2, <1>3, <1>6, <2>2 DEF Serving, Said
  <2>4. conn' = [c \in Clients |-> Idle] /\ \A c \in Clients : conn'[c] = Idle
    BY <1>3, <1>8
  <2>5. /\ IsRecord(Idle) /\ Idle.state = "idle" /\ Idle.codes = <<>> /\ Idle.failed = FALSE
    BY DEF Idle, IsRecord
  <2>6. ConnsAre'
    <3>1. conn' = [c \in Clients |-> conn'[c]]
      BY <2>4
    <3>2. ASSUME NEW c \in Clients PROVE IsConn(conn[c])'
      BY <2>4, <2>5 DEF IsConn, IsRecord
    <3>3. QED
      BY <3>1, <3>2 DEF ConnsAre
  <2>7. (\A c \in Clients : c # cur => conn'[c] = conn[c] \/ conn'[c].state = "idle")
        /\ ~(\E c \in Clients : conn'[c].state # "idle")
    BY <2>4, <2>5
  <2>8. QED
    BY <1>3, <1>5, <1>6, <2>3, <2>6, <2>7, RunKeeps
<1>9. QED
  BY <1>7, <1>8

\* The route that is freed is the first of the table, which then holds the others.
LEMMA FreeRouteKeeps ==
    ASSUME IInv, FreeRoute
    PROVE  IInv'
<1>1. PICK ls, fa : Goes(ls, fa)
  BY DEF IInv
<1> DEFINE x == todo[1].x
           p == IF x = "head" THEN routes.head ELSE x
<1>2. todo # <<>> /\ todo[1].op = "unlink" /\ phase \in {"start", "loop", "end"}
  BY DEF FreeRoute, At
<1>3. /\ UNCHANGED <<prog, phase, conn, cur>>
      /\ p = NoItem => todo' = Tail(todo) /\ UNCHANGED <<held, routes>>
      /\ p # NoItem => /\ routes' = Delete(routes, p) /\ held' = held \ {p}
                       /\ todo' = <<Unlink(routes.next[p])>> \o Tail(todo)
  BY DEF FreeRoute, On
<1>4. Holds(routes, ls) /\ x \in {"head", IF ls = <<>> THEN NoItem ELSE ls[1]}
  BY <1>1, <1>2, IsGood DEF Goes
<1>5. /\ phase' \in {"start", "end"} => cur = NoClient
      /\ phase' = "loop" /\ todo' # <<>> => Serving
  BY <1>2, <1>3 DEF IInv
<1>6. CASE ls = <<>>
  <2>1. p = NoItem
    BY <1>4, <1>6, HasHead
  <2>2. K(phase, Tail(todo), held, ls, Said, fa) \in Follow(prog, Now, phase, todo, held, ls, Said, fa)
    BY <1>2, <1>6 DEF Follow
  <2>3. todo' = Tail(todo) /\ UNCHANGED <<held, routes>>
    BY <1>3, <2>1
  <2>4. Safe(prog, Now, K(phase', todo', held', ls, Said, fa))
    BY <1>1, <1>2, <1>3, <2>2, <2>3, IsGood
  <2>5. QED
    BY <1>1, <1>3, <1>4, <1>5, <2>3, <2>4, StepKeeps
<1>7. CASE ls # <<>>
  <2> DEFINE y == IF Len(ls) = 1 THEN NoItem ELSE ls[2]
             a == ls[1]
  <2>1. ls \in Seq(Items) /\ IsInjective(ls) /\ 1 \in 1 .. Len(ls) /\ routes.head = a
    BY <1>4, <1>7, HasHead DEF Holds
  <2>2. a # NoItem /\ a \in ToSet(ls)
    BY <2>1, ListOf
  <2>3. p = a
    BY <1>4, <1>7, <2>1
  <2>4. routes.next[a] = y
    <3>1. Links(routes, ls)
      BY <1>4, <1>7 DEF Holds
    <3>2. \A i \in 1 .. Len(ls) : routes.next[ls[i]] = IF i = Len(ls) THEN NoItem ELSE ls[i + 1]
      BY <3>1 DEF Links
    <3>3. routes.next[ls[1]] = IF 1 = Len(ls) THEN NoItem ELSE ls[1 + 1]
      BY <2>1, <3>2
    <3>4. QED
      BY <3>3
  <2>5. Holds(Delete(routes, a), Tail(ls))
    <3> DEFINE q == RemoveAt(ls, 1)
               t == Tail(ls)
               n == Len(ls)
    <3>1. Holds(Delete(routes, a), q)
      BY <1>4, <2>1, DeletesItem
    <3>2. q \in Seq(Items) /\ Len(q) = n - 1 /\ \A j \in 1 .. n - 1 : q[j] = IF j < 1 THEN ls[j] ELSE ls[j + 1]
      BY <2>1, Without
    <3>3. t \in Seq(Items) /\ Len(t) = n - 1 /\ \A j \in 1 .. n - 1 : t[j] = ls[j + 1]
      BY <1>7, <2>1, HeadTailProperties
    <3> HIDE DEF q, t
    <3>4. n \in Nat
      BY <2>1
    <3>5. q = t
      BY <3>2, <3>3, <3>4, SeqEqual
    <3>6. QED
      BY <3>1, <3>5 DEF t
  <2>6. K(phase, <<Unlink(y)>> \o Tail(todo), held \ {a}, Tail(ls), Said, fa)
          \in Follow(prog, Now, phase, todo, held, ls, Said, fa)
    BY <1>2, <1>7 DEF Follow
  <2>7. todo' = <<Unlink(y)>> \o Tail(todo) /\ held' = held \ {a} /\ routes' = Delete(routes, a)
    BY <1>3, <2>2, <2>3, <2>4
  <2> HIDE DEF y, a
  <2>8. Safe(prog, Now, K(phase', todo', held', Tail(ls), Said, fa))
    BY <1>1, <1>2, <1>3, <2>6, <2>7, IsGood
  <2>9. "httpd" \in held => "httpd" \in held'
    <3>1. ToSet(ls) \subseteq ToSet(RoutesOf(prog))
      <4>1. CASE phase = "end"
        <5>1. PICK n \in Some(prog) : ls = RestOf(prog, n)
          BY <1>1, <4>1, IsGood
        <5>2. n # Len(RoutesOf(prog)) /\ n \in 0 .. Len(RoutesOf(prog)) /\ Len(RoutesOf(prog)) \in Nat
          BY <1>7, <5>1, NoRoutes DEF IInv
        <5>3. n \in 0 .. Len(RoutesOf(prog)) - 1
          BY <5>2
        <5>4. QED
          BY <5>1, <5>3, OtherRoutes DEF IInv
      <4>2. CASE phase # "end"
        <5>1. \E n \in Some(prog) : ls = FirstOf(prog, n)
          BY <1>1, <4>2, IsGood
        <5>2. QED
          BY <5>1, FirstAreRoutes DEF IInv
      <4>3. QED
        BY <4>1, <4>2
    <3>2. "httpd" \notin ToSet(ls)
      BY <3>1, OtherNames DEF IInv
    <3>3. QED
      BY <2>2, <2>7, <3>2
  <2>10. QED
    BY <1>1, <1>3, <1>5, <2>5, <2>7, <2>8, <2>9, StepKeeps
<1>8. QED
  BY <1>6, <1>7

-----------------------------------------------------------------------------
(***************************************************************************)
(* The event loop, the clients and the signals.                            *)
(***************************************************************************)
\* Between two requests every client that was served has its answer.
LEMMA AllAnswered ==
    ASSUME IInv, Waiting
    PROVE  /\ Steady(prog, held)
           /\ \A c \in Clients : conn[c].state = "served" =>
                Right(prog, Asked(conn[c]), conn[c].codes, conn[c].failed)
<1>1. PICK ls, fa : Goes(ls, fa)
  BY DEF IInv
<1>2. Steady(prog, held) /\ Right(prog, Now, Said, fa)
  BY <1>1, IsGood DEF Waiting
<1>3. ASSUME NEW c \in Clients, conn[c].state = "served"
      PROVE  Right(prog, Asked(conn[c]), conn[c].codes, conn[c].failed)
  <2>1. CASE c # cur
    BY <1>3, <2>1 DEF IInv, OthersAnswered
  <2>2. CASE c = cur
    <3>1. Serving
      BY <1>3, <2>2, HttpApiAssumption DEF Serving
    <3>2. Now = Asked(conn[c]) /\ Said = conn[c].codes /\ fa = conn[c].failed
      BY <1>1, <2>2, <3>1 DEF Now, Said, Goes
    <3>3. QED
      BY <1>2, <3>2
  <2>3. QED
    BY <2>1, <2>2
<1>4. QED
  BY <1>2, <1>3

\* The next request.
LEMMA ServeKeeps ==
    ASSUME IInv, NEW c \in Clients, Serve(c)
    PROVE  IInv'
<1> DEFINE r == conn[c]
           q == [r EXCEPT !.state = "served"]
           R == RoutesOf(prog)
<1>1. PICK ls, fa : Goes(ls, fa)
  BY DEF IInv
<1>2. /\ Waiting /\ r.state = "asked" /\ conn' = [conn EXCEPT ![c] = q] /\ cur' = c
      /\ todo' = IF Served(r.cmd) THEN ApiHandler ELSE <<>>
      /\ UNCHANGED <<prog, phase, held, routes>>
  BY DEF Serve
<1>3. prog \in Programs /\ ConnsAre /\ IsConn(r)
  BY DEF IInv, ConnsAre
<1>4. phase = "loop" /\ Steady(prog, held) /\ Holds(routes, R)
  BY <1>1, <1>2, IsGood DEF Waiting, Goes
<1>5. r.codes = <<>> /\ r.failed = FALSE /\ HashOf(r.path) \in Nat /\ IsRecord(r)
  BY <1>2, <1>3 DEF IsConn
<1>6. Safe(prog, Asked(r), K("loop", todo', held, R, r.codes, r.failed))
  <2>1. CASE r.cmd \in {"GET", "HEAD"}
    <3>1. todo' = ApiHandler /\ Asked(r).cmd \in {"GET", "HEAD"}
      BY <1>2, <2>1 DEF Served, Asked
    <3>2. InLoop(prog, Asked(r), ApiHandler, held, <<>>, r.failed)
      <4> DEFINE u == Asked(r)
                 fb == r.failed
      <4>1. u.cmd \in {"GET", "HEAD"} /\ ~fb
        BY <1>5, <3>1
      <4> HIDE DEF u, fb
      <4>2. InLoop(prog, u, ApiHandler, held, <<>>, fb)
        BY <1>3, <1>4, <4>1, SafeRequest
      <4>3. QED
        BY <4>2 DEF u, fb
    <3>3. QED
      BY <1>5, <3>1, <3>2 DEF InLoop
  <2>2. CASE r.cmd \notin {"GET", "HEAD"}
    <3>1. todo' = <<>> /\ Asked(r).cmd \notin {"GET", "HEAD"}
      BY <1>2, <2>2 DEF Served, Asked
    <3>2. Right(prog, Asked(r), r.codes, r.failed)
      BY <1>5, <3>1 DEF Right
    <3>3. InLoop(prog, Asked(r), <<>>, held, r.codes, r.failed)
      BY <1>3, <1>4, <3>2, Waits
    <3>4. QED
      BY <3>1, <3>3 DEF InLoop
  <2>3. QED
    BY <2>1, <2>2
<1> HIDE DEF r
<1>7. /\ IsRecord(q) /\ q.state = "served"
      /\ q.codes = r.codes /\ q.cmd = r.cmd /\ q.path = r.path /\ q.failed = r.failed
  <2> DEFINE v == "served"
  <2>1. v = "served"
    OBVIOUS
  <2> HIDE DEF v
  <2>2. q = [r EXCEPT !.state = v] /\ IsRecord(r)
    BY <1>5, <2>1
  <2> HIDE DEF q
  <2>3. /\ IsRecord(q) /\ q.state = v
        /\ q.codes = r.codes /\ q.cmd = r.cmd /\ q.path = r.path /\ q.failed = r.failed
    BY <2>2, StateField
  <2>4. QED
    BY <2>1, <2>3
<1> HIDE DEF q, R
<1>8. IsConn(q)
  BY <1>5, <1>7 DEF IsConn
<1>9. ConnsAre' /\ conn'[c] = q /\ \A d \in Clients : d # c => conn'[d] = conn[d]
  BY <1>2, <1>3, <1>8, ConnChanges
<1>10. Serving' /\ Now' = Asked(r) /\ Said' = r.codes /\ conn'[cur'] = q
  <2>1. Serving' /\ conn'[cur'] = q
    BY <1>2, <1>7, <1>9, HttpApiAssumption DEF Serving
  <2>2. Now' = Asked(q) /\ Said' = q.codes
    BY <2>1 DEF Now, Said, Asked
  <2>3. QED
    BY <1>7, <2>1, <2>2 DEF Asked
<1>11. \E s, g : Goes(s, g)'
  <2>1. Holds(routes', R) /\ phase' = "loop" /\ held' = held /\ prog' = prog
    BY <1>2, <1>4
  <2>2. Safe(prog', Now', K(phase', todo', held', R, Said', r.failed))
    BY <1>6, <1>10, <2>1
  <2>3. r.failed = conn'[cur'].failed
    BY <1>7, <1>10
  <2>4. PICK g : g = r.failed
    OBVIOUS
  <2>5. Holds(routes', R) /\ g = conn'[cur'].failed /\ Safe(prog', Now', K(phase', todo', held', R, Said', g))
    BY <2>1, <2>2, <2>3, <2>4
  <2>6. PICK s : s = R
    OBVIOUS
  <2>7. Goes(s, g)'
    BY <2>5, <2>6 DEF Goes
  <2>8. QED
    BY <2>7
<1>12. OthersAnswered'
  <2>1. \A d \in Clients : conn[d].state = "served" =>
          Right(prog, Asked(conn[d]), conn[d].codes, conn[d].failed)
    BY <1>2, AllAnswered
  <2>2. QED
    BY <1>2, <1>9, <2>1 DEF OthersAnswered, Asked
<1>13. "httpd" \in held'
  BY <1>2, <1>4 DEF Steady, KeptOf, Server
<1>14. QED
  BY <1>2, <1>3, <1>4, <1>9, <1>10, <1>11, <1>12, <1>13 DEF IInv

\* A signal ends the loop.
LEMMA SignalCbKeeps ==
    ASSUME IInv, SignalCb
    PROVE  IInv'
<1>1. PICK ls, fa : Goes(ls, fa)
  BY DEF IInv
<1>2. /\ Waiting /\ phase' = "end" /\ todo' = EndOf(prog) /\ cur' = NoClient
      /\ UNCHANGED <<prog, held, routes, conn>>
  BY DEF SignalCb
<1>3. /\ prog \in Programs /\ Steady(prog, held)
      /\ \A c \in Clients : conn[c].state = "served" =>
           Right(prog, Asked(conn[c]), conn[c].codes, conn[c].failed)
  BY <1>2, AllAnswered DEF IInv
<1>4. Holds(routes, ls) /\ ls = RoutesOf(prog)
  BY <1>1, <1>2, IsGood DEF Waiting, Goes
<1>5. Safe(prog, NoRequest, K("end", EndOf(prog), held, ls, <<>>, fa))
  BY <1>3, <1>4, RunsEnd DEF Runs
<1>6. ~Serving' /\ Now' = NoRequest /\ Said' = <<>>
  BY <1>2 DEF Serving, Now, Said
<1>7. Goes(ls, fa)'
  BY <1>2, <1>4, <1>5, <1>6 DEF Goes
<1>8. OthersAnswered'
  BY <1>2, <1>3 DEF OthersAnswered, Asked
<1>9. ConnsAre'
  BY <1>2 DEF IInv, ConnsAre
<1>10. QED
  BY <1>2, <1>3, <1>7, <1>8, <1>9 DEF IInv

\* The connection of a client that left.
LEMMA FieldsOfIdle ==
    ASSUME NEW n
    PROVE  [Idle EXCEPT !.asked = n] =
             [state |-> "idle", asked |-> n, cmd |-> "", path |-> "", codes |-> <<>>, failed |-> FALSE]
<1> DEFINE N == {"state", "asked", "cmd", "path", "codes", "failed"}
           b == [Idle EXCEPT !.asked = n]
           r == [state |-> "idle", asked |-> n, cmd |-> "", path |-> "", codes |-> <<>>, failed |-> FALSE]
<1>1. /\ Idle = [x \in N |-> Idle[x]]
      /\ Idle.state = "idle" /\ Idle.cmd = "" /\ Idle.path = "" /\ Idle.codes = <<>> /\ Idle.failed = FALSE
  BY DEF Idle
<1>2. b = [x \in N |-> IF x = "asked" THEN n ELSE Idle[x]]
  BY <1>1
<1>3. /\ r = [x \in N |-> r[x]] /\ r.state = "idle" /\ r.asked = n /\ r.cmd = "" /\ r.path = ""
      /\ r.codes = <<>> /\ r.failed = FALSE
  OBVIOUS
<1> HIDE DEF b, r
<1>4. b = r
  BY <1>1, <1>2, <1>3
<1>5. QED
  BY <1>4 DEF b, r

\* A client that asks.
LEMMA AskKeeps ==
    ASSUME IInv, NEW c \in Clients, Ask(c)
    PROVE  IInv'
<1>1. PICK ls, fa : Goes(ls, fa)
  BY DEF IInv
<1>2. PICK r \in Requests(c) :
        conn' = [conn EXCEPT ![c] = [Idle EXCEPT !.state = "asked", !.asked = conn[c].asked + 1,
                                                 !.cmd = r.cmd, !.path = r.path]]
  BY DEF Ask
<1> DEFINE q == [state |-> "asked", asked |-> conn[c].asked + 1, cmd |-> r.cmd, path |-> r.path,
                 codes |-> <<>>, failed |-> FALSE]
<1>3. conn' = [conn EXCEPT ![c] = q]
  <2> DEFINE e == [Idle EXCEPT !.state = "asked", !.asked = conn[c].asked + 1, !.cmd = r.cmd,
                               !.path = r.path]
  <2>1. e = q
    <3> DEFINE N == {"state", "asked", "cmd", "path", "codes", "failed"}
               s == "asked"
               n == conn[c].asked + 1
               cmd == r.cmd
               path == r.path
    <3>1. /\ Idle = [x \in N |-> Idle[x]] /\ Idle.codes = <<>> /\ Idle.failed = FALSE
      BY DEF Idle
    <3> HIDE DEF s, n, cmd, path
    <3>2. [Idle EXCEPT !.state = s, !.asked = n, !.cmd = cmd, !.path = path] =
            [x \in N |-> IF x = "path" THEN path ELSE IF x = "cmd" THEN cmd ELSE IF x = "asked" THEN n
                         ELSE IF x = "state" THEN s ELSE Idle[x]]
      BY <3>1
    <3> DEFINE w == [state |-> s, asked |-> n, cmd |-> cmd, path |-> path, codes |-> <<>>, failed |-> FALSE]
               v == [Idle EXCEPT !.state = s, !.asked = n, !.cmd = cmd, !.path = path]
    <3>3. /\ w = [x \in N |-> w[x]] /\ w.state = s /\ w.asked = n /\ w.cmd = cmd /\ w.path = path
          /\ w.codes = <<>> /\ w.failed = FALSE
      OBVIOUS
    <3>4. v = [x \in N |-> IF x = "path" THEN path ELSE IF x = "cmd" THEN cmd ELSE IF x = "asked" THEN n
                           ELSE IF x = "state" THEN s ELSE Idle[x]]
      BY <3>2 DEF v
    <3> HIDE DEF v, w
    <3>5. v = w
      BY <3>1, <3>3, <3>4
    <3>6. [Idle EXCEPT !.state = s, !.asked = n, !.cmd = cmd, !.path = path] =
            [state |-> s, asked |-> n, cmd |-> cmd, path |-> path, codes |-> <<>>, failed |-> FALSE]
      BY <3>5 DEF v, w
    <3>7. QED
      BY <3>6 DEF s, n, cmd, path
  <2>2. conn' = [conn EXCEPT ![c] = e]
    BY <1>2
  <2> HIDE DEF e, q
  <2>3. QED
    BY <2>1, <2>2
<1>4. phase = "loop" /\ conn[c].state = "idle" /\ UNCHANGED <<prog, phase, todo, held, routes, cur>>
  BY DEF Ask
<1>5. IsConn(q) /\ q.state = "asked"
  BY HttpApiAssumption DEF IsConn, IsRecord
<1> HIDE DEF q
<1>6. ConnsAre' /\ conn'[c] = q /\ \A d \in Clients : d # c => conn'[d] = conn[d]
  BY <1>3, <1>5, ConnChanges DEF IInv
<1>7. \A d \in Clients : d # cur => conn'[d] = conn[d] \/ conn'[d].state # "served"
  BY <1>5, <1>6
<1>8. Serving => cur # c /\ conn'[cur] = conn[cur]
  BY <1>4, <1>6 DEF Serving, IInv
<1>9. /\ Serving => /\ conn'[cur].state = "served" /\ Asked(conn'[cur]) = Asked(conn[cur])
                    /\ fa = conn'[cur].failed
      /\ ~Serving => ~Serving'
  <2>1. ASSUME Serving PROVE conn'[cur].state = "served" /\ Asked(conn'[cur]) = Asked(conn[cur])
                             /\ fa = conn'[cur].failed
    BY <1>1, <1>8, <2>1 DEF Serving, Goes
  <2>2. ASSUME ~Serving PROVE ~Serving'
    <3>1. CASE cur = c
      BY <1>4, <1>5, <1>6, <3>1 DEF Serving
    <3>2. CASE cur # c
      BY <1>4, <1>6, <2>2, <3>2 DEF Serving, IInv
    <3>3. QED
      BY <3>1, <3>2
  <2>3. QED
    BY <2>1, <2>2
<1>10. Said' = Said
  BY <1>4, <1>8, <1>9 DEF Said, Serving
<1>11. /\ "httpd" \in held' /\ Holds(routes', ls)
       /\ Safe(prog, Now, K(phase', todo', held', ls, Said', fa))
  BY <1>1, <1>4, <1>10, IsGood DEF KeptOf, Server, Goes
<1>12. /\ phase' \in {"start", "end"} => cur = NoClient
       /\ phase' = "loop" /\ todo' # <<>> => Serving
  BY <1>4 DEF IInv
<1>13. QED
  BY <1>4, <1>6, <1>7, <1>9, <1>11, <1>12, RunKeeps

\* A client that leaves.
LEMMA LeaveKeeps ==
    ASSUME IInv, NEW c \in Clients, Leave(c)
    PROVE  IInv'
<1>1. PICK ls, fa : Goes(ls, fa)
  BY DEF IInv
<1> DEFINE q == [state |-> "idle", asked |-> conn[c].asked, cmd |-> "", path |-> "",
                 codes |-> <<>>, failed |-> FALSE]
<1>2. /\ Waiting /\ conn' = [conn EXCEPT ![c] = [Idle EXCEPT !.asked = conn[c].asked]]
      /\ UNCHANGED <<prog, phase, todo, held, routes, cur>>
  BY DEF Leave
<1>3. conn' = [conn EXCEPT ![c] = q]
  <2> DEFINE e == [Idle EXCEPT !.asked = conn[c].asked]
  <2>1. e = q
    BY FieldsOfIdle
  <2>2. conn' = [conn EXCEPT ![c] = e]
    BY <1>2
  <2> HIDE DEF e, q
  <2>3. QED
    BY <2>1, <2>2
<1>4. IsConn(q) /\ q.state = "idle"
  BY DEF IsConn, IsRecord
<1> HIDE DEF q
<1>5. ConnsAre' /\ conn'[c] = q /\ \A d \in Clients : d # c => conn'[d] = conn[d]
  BY <1>3, <1>4, ConnChanges DEF IInv
<1>6. phase = "loop" /\ todo = <<>> /\ prog \in Programs /\ Steady(prog, held) /\ ls = RoutesOf(prog)
      /\ Holds(routes, ls)
  BY <1>1, <1>2, IsGood DEF Waiting, IInv, Goes
<1>7. "httpd" \in held'
  BY <1>2, <1>6 DEF Steady, KeptOf, Server
<1>8. CASE c = cur
  <2>1. ~Serving' /\ Now' = NoRequest /\ Said' = <<>>
    BY <1>2, <1>4, <1>5, <1>8 DEF Serving, Now, Said
  <2>2. Safe(prog, NoRequest, K("loop", <<>>, held, ls, <<>>, fa))
    <3>1. Right(prog, NoRequest, <<>>, fa)
      BY DEF Right, NoRequest
    <3>2. QED
      BY <1>6, <3>1, Waits DEF InLoop
  <2>3. Goes(ls, fa)'
    BY <1>2, <1>6, <2>1, <2>2 DEF Goes
  <2>4. OthersAnswered'
    BY <1>2, <1>5, <1>8 DEF IInv, OthersAnswered, Asked
  <2>5. QED
    BY <1>2, <1>5, <1>6, <1>7, <2>3, <2>4 DEF IInv
<1>9. CASE c # cur
  <2>1. cur \in Clients => conn'[cur] = conn[cur]
    BY <1>5, <1>9
  <2>2. Serving' = Serving /\ Said' = Said /\ (Serving => conn'[cur] = conn[cur])
    <3>1. CASE cur \in Clients
      <4>1. conn'[cur'] = conn[cur] /\ cur' = cur
        BY <1>2, <2>1, <3>1
      <4>2. QED
        BY <4>1 DEF Serving, Said
    <3>2. CASE cur = NoClient
      BY <1>2, <3>2 DEF Serving, Said
    <3>3. QED
      BY <3>1, <3>2 DEF IInv
  <2>3. \A d \in Clients : d # cur => conn'[d] = conn[d] \/ conn'[d].state # "served"
    BY <1>4, <1>5
  <2>4. Serving => /\ conn'[cur].state = "served" /\ Asked(conn'[cur]) = Asked(conn[cur])
                   /\ fa = conn'[cur].failed
    BY <1>1, <2>2 DEF Serving, Goes
  <2>5. Safe(prog, Now, K(phase', todo', held', ls, Said', fa))
    BY <1>1, <1>2, <2>2 DEF Goes
  <2>6. QED
    BY <1>2, <1>5, <1>6, <1>7, <2>2, <2>3, <2>4, <2>5, RunKeeps
<1>10. QED
  BY <1>8, <1>9

\* A signal that arrives.
LEMMA SignalKeeps ==
    ASSUME IInv, UNCHANGED <<prog, phase, todo, held, routes, conn, cur>>
    PROVE  IInv'
<1>1. PICK ls, fa : Goes(ls, fa)
  BY DEF IInv
<1>2. Holds(routes', ls) /\ Safe(prog, Now, K(phase', todo', held', ls, Said, fa))
  BY <1>1 DEF Goes
<1>3. /\ phase' \in {"start", "end"} => cur = NoClient
      /\ phase' = "loop" /\ todo' # <<>> => Serving
  BY DEF IInv
<1>4. QED
  BY <1>1, <1>2, <1>3, StepKeeps

-----------------------------------------------------------------------------
(***************************************************************************)
(* The invariant holds in the beginning and is kept by every step.         *)
(***************************************************************************)
\* The program starts with nothing, and a function of main that is safe.
LEMMA InitInv == Init => IInv
<1> SUFFICES ASSUME Init PROVE IInv
  OBVIOUS
<1>1. PICK ssl \in BOOLEAN : prog \in Programs /\ todo = MainOf(prog, ssl)
  BY DEF Init, MainOf, Programs
<1>2. /\ phase = "start" /\ held = {} /\ routes = NoTable /\ cur = NoClient
      /\ conn = [c \in Clients |-> Idle]
  BY DEF Init
<1>3. Safe(prog, NoRequest, K("start", todo, {}, <<>>, <<>>, FALSE))
  <2>1. Runs(prog, "start", MainOf(prog, ssl), {}, <<>>)
    BY <1>1, RunsMain
  <2>2. PICK fa : fa = FALSE
    OBVIOUS
  <2>3. Safe(prog, NoRequest, K("start", MainOf(prog, ssl), {}, <<>>, <<>>, fa))
    BY <2>1 DEF Runs
  <2>4. QED
    BY <1>1, <2>2, <2>3
<1>4. \A c \in Clients : conn[c] = Idle
  BY <1>2
<1>5. IsConn(Idle) /\ Idle.state = "idle"
  BY DEF IsConn, IsRecord, Idle
<1>6. ConnsAre
  BY <1>2, <1>4, <1>5 DEF ConnsAre
<1>7. ~Serving /\ Now = NoRequest /\ Said = <<>>
  BY <1>2, HttpApiAssumption DEF Serving, Now, Said
<1>8. Holds(routes, <<>>)
  <2> DEFINE s == <<>>
  <2>1. s \in Seq(Items) /\ IsInjective(s) /\ s = <<>>
    BY DEF IsInjective
  <2> HIDE DEF s
  <2>2. Holds(routes, s)
    BY <1>2, <2>1 DEF Holds
  <2>3. QED
    BY <2>1, <2>2
<1>9. \E ls, fa : Goes(ls, fa)
  <2> DEFINE ls == <<>>
             fa == FALSE
  <2>1. Holds(routes, ls) /\ Safe(prog, Now, K(phase, todo, held, ls, Said, fa))
    BY <1>2, <1>3, <1>7, <1>8
  <2> HIDE DEF ls, fa
  <2>2. Goes(ls, fa)
    BY <1>7, <2>1 DEF Goes
  <2>3. QED
    BY <2>2
<1>10. OthersAnswered
  BY <1>4, <1>5 DEF OthersAnswered
<1>11. \A c \in Clients : conn[c].state = "idle"
  BY <1>4, <1>5
<1>12. QED
  BY <1>1, <1>2, <1>6, <1>9, <1>10, <1>11 DEF IInv

\* Every step keeps it.
LEMMA NextKeeps == IInv /\ [Next]_vars => IInv'
<1> SUFFICES ASSUME IInv, [Next]_vars PROVE IInv'
  OBVIOUS
<1>1. CASE Run
  BY <1>1, AcquireKeeps, RefusedKeeps, ProceedKeeps, CrashKeeps, ReleaseKeeps, ReplyKeeps, AddRouteKeeps,
     FreeRouteKeeps, GetOnlyKeeps, FindRouteKeeps, EnterLoopKeeps, CloseEarlyKeeps, ExitProcessKeeps DEF Run
<1>2. CASE SignalCb \/ JoinThreads
  BY <1>2, SignalCbKeeps, JoinThreadsKeeps
<1>3. CASE Signal
  BY <1>3, SignalKeeps DEF Signal
<1>4. ASSUME NEW c \in Clients, Serve(c) \/ Ask(c) \/ Leave(c) PROVE IInv'
  BY <1>4, ServeKeeps, AskKeeps, LeaveKeeps
<1>5. CASE UNCHANGED vars
  BY <1>5, SignalKeeps DEF vars
<1>6. QED
  BY <1>1, <1>2, <1>3, <1>4, <1>5 DEF Next

\* The invariant is one.
LEMMA Invariant == Spec => []IInv
<1>1. Init => IInv
  BY InitInv
<1>2. IInv /\ [Next]_vars => IInv'
  BY NextKeeps
<1>3. QED
  BY <1>1, <1>2, PTL DEF Spec

-----------------------------------------------------------------------------
(***************************************************************************)
(* What it implies.                                                        *)
(***************************************************************************)
\* Every request has the one answer that the code of its route gives.
THEOREM SpecAnswersOnce == Spec => []AnsweredOnce
<1>1. IInv => AnsweredOnce
  <2> SUFFICES ASSUME IInv, NEW c \in Clients
               PROVE  LET r == conn[c] IN
                      /\ c # cur => r.state = "served" \/ r.codes = <<>>
                      /\ r.state = "served" /\ (Waiting \/ c # cur) =>
                           IF r.cmd \notin {"GET", "HEAD"} THEN r.codes = <<>>
                           ELSE /\ Len(r.codes) = 1
                                /\ IF r.failed THEN r.codes[1] \in {400, 404, 500}
                                               ELSE r.codes = <<Answer(r)>>
    BY DEF AnsweredOnce
  <2> DEFINE r == conn[c]
  <2>1. IsConn(r)
    BY DEF IInv, ConnsAre
  <2>2. r.state = "served" \/ r.codes = <<>>
    BY <2>1 DEF IsConn
  <2>3. ASSUME r.state = "served", Waiting \/ c # cur
        PROVE  Right(prog, Asked(r), r.codes, r.failed)
    BY <2>3, AllAnswered DEF IInv, OthersAnswered
  <2>4. Asked(r).cmd = r.cmd /\ Asked(r).path = r.path
    BY DEF Asked
  <2>5. RightAnswer(prog, Asked(r)) = Answer(r)
    BY <2>4 DEF RightAnswer, Answer
  <2>6. QED
    BY <2>2, <2>3, <2>4, <2>5 DEF Right
<1>2. Spec => []IInv
  BY Invariant
<1>3. QED
  BY <1>1, <1>2, PTL

\* Whatever fails, nothing is released twice and nothing is left but what the code forgets.
THEOREM SpecReleasesOnce == Spec => []ReleasedOnce
<1>1. IInv => ReleasedOnce
  <2> SUFFICES ASSUME IInv PROVE ReleasedOnce
    OBVIOUS
  <2>1. PICK ls, fa : Goes(ls, fa)
    BY DEF IInv
  <2>2. KeptOf(prog) = Kept /\ ForgottenOf(prog) = Forgotten /\ ExtraOf(prog) \subseteq {"ssl", "redis"}
    BY DEF KeptOf, ForgottenOf, ExtraOf, Kept, Forgotten
  <2>3. At("free") => todo[1].x \in held
    BY <2>1, IsGood DEF At
  <2>4. Waiting => Kept \subseteq held /\ held \subseteq Kept \cup Forgotten \cup {"ssl", "redis"}
    <3>1. Waiting => Steady(prog, held)
      BY AllAnswered
    <3>2. QED
      BY <2>2, <3>1 DEF Steady
  <2>5. phase = "exited" => held \subseteq Forgotten \cup Items
    BY <2>1, <2>2, IsGood
  <2>6. phase = "exited" /\ routes = NoTable => held \subseteq Forgotten
    <3>1. routes = NoTable => ls = <<>>
      <4>1. Holds(routes, ls)
        BY <2>1 DEF Goes
      <4>2. NoTable.head = NoItem
        BY DEF NoTable
      <4>3. QED
        BY <4>1, <4>2, HasHead
    <3>2. QED
      BY <2>1, <2>2, <3>1, IsGood
  <2>7. held \cap {"sigint", "sigterm", "timer", "httpd", "redis"} # {} => "base" \in held
    BY <2>1, IsGood DEF Registered
  <2>8. (\E c \in Clients : conn[c].state # "idle") => "httpd" \in held
    BY DEF IInv
  <2>9. QED
    BY <2>3, <2>4, <2>5, <2>6, <2>7, <2>8 DEF ReleasedOnce
<1>2. Spec => []IInv
  BY Invariant
<1>3. QED
  BY <1>1, <1>2, PTL

\* The first routes begin the routes, and the last ones end them.
LEMMA FirstBegins ==
    ASSUME NEW p \in Programs, NEW n \in Some(p)
    PROVE  IsPrefix(FirstOf(p, n), RoutesOf(p)) /\ IsSuffix(RestOf(p, n), RoutesOf(p))
<1> DEFINE R == RoutesOf(p)
           N == Len(R)
           a == SubSeq(R, 1, n)
           b == SubSeq(R, n + 1, N)
<1>1. R \in Seq(Items) /\ N \in Nat /\ n \in 0 .. N
  BY RoutesAre DEF Some
<1> HIDE DEF R
<1>2. a \in Seq(Items) /\ Len(a) = n
  <2>1. a \in Seq(Items) /\ Len(a) = n - 1 + 1
    BY <1>1, SubSeqProperties
  <2> HIDE DEF a
  <2>2. QED
    BY <1>1, <2>1
<1>3. SubSeq(a, 1, Len(a)) = a
  BY <1>2, SubSeqFull
<1>4. IsPrefix(a, R)
  <2>1. Len(a) <= Len(R) /\ SubSeq(R, 1, Len(a)) = a
    BY <1>1, <1>2
  <2> HIDE DEF a
  <2>2. QED
    BY <1>3, <2>1 DEF IsPrefix
<1>5. b \in Seq(Items) /\ Len(b) = N - n /\ \A i \in 1 .. N - n : b[i] = R[n + i]
  <2>1. n + 1 \in 1 .. N + 1
    BY <1>1
  <2>2. /\ b \in Seq(Items) /\ Len(b) = N - (n + 1) + 1
        /\ \A i \in 1 .. N - (n + 1) + 1 : b[i] = R[(n + 1) + i - 1]
    BY <1>1, <2>1, SubSeqProperties
  <2> HIDE DEF b, N
  <2>3. N - (n + 1) + 1 = N - n /\ \A i \in 1 .. N - n : (n + 1) + i - 1 = n + i
    BY <1>1
  <2>4. QED
    BY <2>2, <2>3
<1> HIDE DEF b
<1> DEFINE rb == Reverse(b)
           rr == Reverse(R)
<1>6. /\ rb \in Seq(Items) /\ Len(rb) = N - n /\ \A i \in 1 .. N - n : rb[i] = b[N - n - i + 1]
  <2>1. rb = [i \in 1 .. Len(b) |-> b[(Len(b) - i) + 1]]
    BY DEF Reverse
  <2>2. rb \in Seq(Items)
    BY <1>5, ReverseIs
  <2>3. QED
    BY <1>1, <1>5, <2>1, <2>2
<1>7. rr \in Seq(Items) /\ Len(rr) = N /\ \A i \in 1 .. N : rr[i] = R[N - i + 1]
  <2>1. rr = [i \in 1 .. Len(R) |-> R[(Len(R) - i) + 1]]
    BY DEF Reverse
  <2>2. rr \in Seq(Items)
    BY <1>1, ReverseIs
  <2>3. QED
    BY <1>1, <2>1, <2>2
<1> HIDE DEF rb, rr, N
<1>8. \A i \in 1 .. N - n : rb[i] = rr[i]
  <2> SUFFICES ASSUME NEW i \in 1 .. N - n PROVE rb[i] = rr[i]
    OBVIOUS
  <2>1. N - n - i + 1 \in 1 .. N - n /\ n + (N - n - i + 1) = N - i + 1 /\ i \in 1 .. N
    BY <1>1
  <2>2. QED
    BY <1>5, <1>6, <1>7, <2>1
<1> DEFINE s == SubSeq(rr, 1, N - n)
<1>9. s \in Seq(Items) /\ Len(s) = N - n /\ \A i \in 1 .. N - n : s[i] = rr[i]
  <2>1. N - n \in 0 .. N /\ N - n + 1 \in Nat
    BY <1>1
  <2> DEFINE m == N - n
  <2>2. m \in 0 .. Len(rr) /\ m \in Nat
    BY <1>1, <1>7
  <2> HIDE DEF m
  <2>3. /\ SubSeq(rr, 1, m) \in Seq(Items) /\ Len(SubSeq(rr, 1, m)) = m - 1 + 1
        /\ \A i \in 1 .. m - 1 + 1 : SubSeq(rr, 1, m)[i] = rr[1 + i - 1]
    BY <1>7, <2>2, SubSeqProperties
  <2>4. m - 1 + 1 = m /\ \A i \in 1 .. m : 1 + i - 1 = i
    BY <2>2
  <2> DEFINE z == SubSeq(rr, 1, m)
  <2> HIDE DEF z
  <2>5. z \in Seq(Items) /\ Len(z) = m /\ \A i \in 1 .. m : z[i] = rr[i]
    BY <2>3, <2>4 DEF z
  <2>6. QED
    BY <2>5 DEF z, m
<1> HIDE DEF s
<1>10. rb = s
  BY <1>6, <1>8, <1>9, SeqEqual
<1>11. SubSeq(rb, 1, Len(rb)) = rb
  BY <1>6, SubSeqFull
<1>12. IsPrefix(rb, rr)
  <2>1. Len(rb) <= Len(rr) /\ SubSeq(rr, 1, Len(rb)) = s
    BY <1>1, <1>6, <1>7 DEF s
  <2>2. QED
    BY <1>10, <1>11, <2>1 DEF IsPrefix
<1>13. IsSuffix(b, R)
  BY <1>12 DEF IsSuffix, rb, rr
<1>14. QED
  BY <1>4, <1>13 DEF R, N, a, b, FirstOf, RestOf

\* The table never points to a route that was released, holds the routes in their order, and
\* finds each of them and no other path.
THEOREM SpecRoutesLive == Spec => []RoutesLive
<1>1. IInv => RoutesLive
  <2> SUFFICES ASSUME IInv PROVE RoutesLive
    OBVIOUS
  <2>1. PICK ls, fa : Goes(ls, fa)
    BY DEF IInv
  <2>2. Holds(routes, ls) /\ prog \in Programs
    BY <2>1 DEF Goes, IInv
  <2>3. Order(routes) = ls /\ Fsck(routes)
    BY <2>2, IteratesInOrder, FsckPasses
  <2>4. ToSet(ls) \subseteq held /\ (phase = "loop" => ls = RoutesOf(prog))
    BY <2>1, IsGood
  <2>5. ASSUME NEW p \in Items PROVE FindKey(routes, p) = IF p \in ToSet(ls) THEN p ELSE NoItem
    <3>1. KeyOf(p) = p /\ HashOf(p) \in Nat
      <4>1. KeyOf(p) = p /\ HashOf(KeyOf(p)) \in Nat
        BY HttpApiAssumption, UtHashAssumption
      <4>2. QED
        BY <4>1
    <3>2. \A x \in ToSet(ls) : x \in Items /\ KeyOf(x) = x
      <4>1. ToSet(ls) \subseteq Items
        BY <2>2, ListOf DEF Holds
      <4>2. QED
        BY <4>1, HttpApiAssumption
    <3>3. IF \E x \in ToSet(ls) : KeyOf(x) = p
          THEN FindKey(routes, p) \in ToSet(ls) /\ KeyOf(FindKey(routes, p)) = p
          ELSE FindKey(routes, p) = NoItem
      BY <2>2, <3>1, FindsItem
    <3>4. QED
      BY <3>1, <3>2, <3>3
  <2>6. IF phase = "end" THEN IsSuffix(ls, RoutesOf(prog)) ELSE IsPrefix(ls, RoutesOf(prog))
    <3>1. CASE phase = "end"
      <4>1. PICK n \in Some(prog) : ls = RestOf(prog, n)
        BY <2>1, <3>1, IsGood
      <4>2. QED
        BY <2>2, <3>1, <4>1, FirstBegins
    <3>2. CASE phase # "end"
      <4>1. PICK n \in Some(prog) : ls = FirstOf(prog, n)
        BY <2>1, <3>2, IsGood
      <4>2. QED
        BY <2>2, <3>2, <4>1, FirstBegins
    <3>3. QED
      BY <3>1, <3>2
  <2>7. QED
    BY <2>3, <2>4, <2>5, <2>6 DEF RoutesLive
<1>2. Spec => []IInv
  BY Invariant
<1>3. QED
  BY <1>1, <1>2, PTL
=============================================================================
