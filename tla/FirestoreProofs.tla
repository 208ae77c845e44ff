-------------------------- MODULE FirestoreProofs ---------------------------
(***************************************************************************)
(* Proofs about the read path of the Firestore client: its types, that a   *)
(* view shows what the local store holds, that limbo documents are watched *)
(* and waits are timed, that what its parts assert of each other holds,    *)
(* and that the client implements EventStore.                              *)
(*                                                                         *)
(* The order: subsequences (a choice of listeners, events or tasks, as     *)
(* Entries makes them); events posted, and which of them are first; the    *)
(* reads, each in one place; what each step does to the reads; documents,  *)
(* writes, view, limbo, streams and waits, which together are the          *)
(* invariant FireInv; the steps that keep it; the refinement.              *)
(***************************************************************************)
EXTENDS Firestore, FiniteSetTheorems, SequenceTheorems, WellFoundedInduction,
        TLAPS

-----------------------------------------------------------------------------
\* Subsequences.

(* f counts the n indices of I in their order.                             *)
Counts(f, n, I) ==
  /\ f \in [1..n -> I]
  /\ \A i \in I : \E k \in 1..n : f[k] = i
  /\ \A k, l \in 1..n : k < l => f[k] < f[l]

(* I are indices of s.                                                     *)
Indices(I, s) == I \in SUBSET (1..Len(s))

(* r holds the entries of s at the indices I, in the order that f counts.  *)
Picks(r, s, I, f) ==
  Counts(f, Len(r), I) /\ \A k \in 1..Len(r) : r[k] = s[f[k]]

(* A function on an initial segment is a sequence.                         *)
LEMMA FunctionIsSeq ==
  ASSUME NEW S, NEW n \in Nat, NEW r \in [1..n -> S]
  PROVE  r \in Seq(S) /\ Len(r) = n
<1>1. r \in Seq(S)
  BY SeqDef
<1>2. DOMAIN r = 1..n /\ DOMAIN r = 1..Len(r) /\ Len(r) \in Nat
  BY <1>1, LenProperties
<1>3. QED
  BY <1>1, <1>2

(* A set of numbers with an upper bound can be counted.                    *)
LEMMA CountExists ==
  ASSUME NEW m \in Nat, NEW I \in SUBSET (1..m)
  PROVE  \E n \in Nat : \E f : Counts(f, n, I)
<1> DEFINE Bad == {p \in Nat : \E J \in SUBSET (1..p) :
                     ~ \E n \in Nat : \E f : Counts(f, n, J)}
<1>1. SUFFICES ASSUME Bad # {} PROVE FALSE
  OBVIOUS
<1>2. PICK p \in Bad : \A q \in Bad : p <= q
  <2> DEFINE R == {t \in Nat \X Nat : t[1] < t[2]}
  <2>1. IsWellFoundedOn(R, Nat)
    BY NatLessThanWellFounded DEF OpToRel
  <2>2. \A x, y \in Nat : x < y => <<x, y>> \in R
    OBVIOUS
  <2>3. Bad \in SUBSET Nat
    OBVIOUS
  <2> HIDE DEF R, Bad
  <2>4. PICK q \in Bad : \A k \in Bad : ~(<<k, q>> \in R)
    BY <1>1, <2>1, <2>3, WFMin
  <2>5. q \in Nat /\ \A k \in Bad : k \in Nat /\ ~(k < q)
    BY <2>2, <2>3, <2>4
  <2>6. QED
    BY <2>4, <2>5
<1>3. PICK J \in SUBSET (1..p) : ~ \E n \in Nat : \E f : Counts(f, n, J)
  BY <1>2
<1>4. p \in Nat
  BY <1>2
<1>5. CASE p = 0
  <2>1. J = {} /\ 1..0 = {}
    BY <1>5
  <2>2. Counts([k \in 1..0 |-> k], 0, J)
    BY <2>1 DEF Counts
  <2>3. QED
    BY <1>3, <2>2
<1>6. CASE p # 0
  <2> DEFINE K == J \ {p}
  <2>1. p - 1 \in Nat /\ K \in SUBSET (1..(p - 1)) /\ p - 1 \notin Bad
    BY <1>2, <1>4, <1>6
  <2>n. PICK n \in Nat : \E f : Counts(f, n, K)
    BY <2>1
  <2>2. PICK f : Counts(f, n, K)
    BY <2>n
  <2>3. p \in J
    BY <1>3, <2>2
  <2> DEFINE g == [k \in 1..(n + 1) |-> IF k <= n THEN f[k] ELSE p]
  <2>4. \A k \in 1..n : f[k] \in K /\ f[k] < p /\ f[k] \in Nat
    <3>1. \A k \in 1..n : f[k] \in K
      BY <2>2 DEF Counts
    <3>2. \A i \in K : i < p /\ i \in Nat
      BY <1>4, <2>1
    <3>3. QED
      BY <3>1, <3>2
  <2>5. Counts(g, n + 1, J)
    <3>1. g \in [1..(n + 1) -> J]
      BY <2>3, <2>4
    <3>2. ASSUME NEW i \in J PROVE \E k \in 1..(n + 1) : g[k] = i
      <4>1. CASE i = p
        BY <4>1
      <4>2. CASE i # p
        <5>1. PICK k \in 1..n : f[k] = i
          BY <2>2, <4>2 DEF Counts
        <5>2. k \in 1..(n + 1) /\ g[k] = i
          BY <5>1
        <5>3. QED
          BY <5>2
      <4>3. QED
        BY <4>1, <4>2
    <3>3. \A k, l \in 1..(n + 1) : k < l => g[k] < g[l]
      BY <2>2, <2>4 DEF Counts
    <3>4. QED
      BY <3>1, <3>2, <3>3 DEF Counts
  <2>6. QED
    BY <1>3, <2>5
<1>7. QED
  BY <1>5, <1>6

(* The entries at the indices that f counts, in the order of f.            *)
LEMMA EntriesCounted ==
  ASSUME NEW I \in SUBSET Nat, NEW n \in Nat, NEW f, Counts(f, n, I), NEW s
  PROVE  Entries(s, I) = [k \in 1..n |-> s[f[k]]]
<1>1. \A k \in 1..n : f[k] \in I /\ f[k] \in Nat
  <2>1. \A k \in 1..n : f[k] \in I
    BY DEF Counts
  <2>2. QED
    BY <2>1
<1>2. ASSUME NEW k \in 1..n
      PROVE  Cardinality({j \in I : j <= f[k]}) = k
  <2> DEFINE T == {j \in I : j <= f[k]}
             g == [l \in 1..k |-> f[l]]
  <2>1. g \in [1..k -> T]
    <3>1. \A l \in 1..k : l \in 1..n /\ f[l] \in I /\ f[l] <= f[k]
      BY <1>1 DEF Counts
    <3>2. QED
      BY <3>1
  <2>2. \A a, b \in 1..k : g[a] = g[b] => a = b
    <3>1. \A a, b \in 1..k : a \in 1..n /\ b \in 1..n
      OBVIOUS
    <3>2. QED
      BY <1>1, <3>1 DEF Counts
  <2>3. ASSUME NEW j \in T PROVE \E a \in 1..k : g[a] = j
    <3>1. PICK a \in 1..n : f[a] = j
      BY DEF Counts
    <3>2. ~(k < a)
      BY <1>1, <3>1 DEF Counts
    <3>3. a \in 1..k
      BY <3>2
    <3>4. QED
      BY <3>1, <3>3
  <2>4. g \in Bijection(1..k, T)
    BY <2>1, <2>2, <2>3 DEF Bijection, Injection, Surjection, IsInjective
  <2>5. QED
    BY <2>4, FS_CountingElements DEF ExistsBijection
<1>3. Cardinality(I) = n
  <2>1. \A a, b \in 1..n : f[a] = f[b] => a = b
    BY <1>1 DEF Counts
  <2>2. f \in Bijection(1..n, I)
    BY <2>1 DEF Counts, Bijection, Injection, Surjection, IsInjective
  <2>3. QED
    BY <2>2, FS_CountingElements DEF ExistsBijection
<1>4. ASSUME NEW k \in 1..n
      PROVE  (CHOOSE i \in I : Cardinality({j \in I : j <= i}) = k) = f[k]
  <2>1. \A i \in I : Cardinality({j \in I : j <= i}) = k => i = f[k]
    BY <1>2 DEF Counts
  <2>2. f[k] \in I /\ Cardinality({j \in I : j <= f[k]}) = k
    BY <1>1, <1>2
  <2>3. QED
    BY <2>1, <2>2
<1>5. QED
  <2> DEFINE c(k) == CHOOSE i \in I : Cardinality({j \in I : j <= i}) = k
  <2>1. Entries(s, I) = [k \in 1..n |-> s[c(k)]]
    BY <1>3 DEF Entries
  <2>2. \A k \in 1..n : c(k) = f[k]
    BY <1>4
  <2> HIDE DEF c
  <2>3. QED
    BY <2>1, <2>2

(* Entries(s, I) holds the entries of s at the indices I, in their order.  *)
LEMMA EntriesPicks ==
  ASSUME NEW S, NEW s \in Seq(S), NEW I, Indices(I, s)
  PROVE  Entries(s, I) \in Seq(S) /\ \E f : Picks(Entries(s, I), s, I, f)
<1>1. PICK m \in Nat : m = Len(s)
  BY LenProperties
<1>2. I \in SUBSET (1..m) /\ I \in SUBSET Nat
  BY <1>1 DEF Indices
<1>n. PICK n \in Nat : \E f : Counts(f, n, I)
  BY <1>2, CountExists
<1>3. PICK f : Counts(f, n, I)
  BY <1>n
<1>4. Entries(s, I) = [k \in 1..n |-> s[f[k]]]
  BY <1>2, <1>3, EntriesCounted
<1>5. \A k \in 1..n : f[k] \in 1..Len(s)
  BY <1>1, <1>2, <1>3 DEF Counts
<1>6. \A k \in 1..n : s[f[k]] \in S
  BY <1>5, ElementOfSeq
<1>7. Entries(s, I) \in [1..n -> S]
  BY <1>4, <1>6
<1>8. Entries(s, I) \in Seq(S) /\ Len(Entries(s, I)) = n
  BY <1>7, FunctionIsSeq
<1>9. \A k \in 1..n : Entries(s, I)[k] = s[f[k]]
  BY <1>4
<1>10. Picks(Entries(s, I), s, I, f)
  BY <1>3, <1>8, <1>9 DEF Picks
<1>11. QED
  BY <1>8, <1>10

(* And it is the only sequence that does.                                  *)
LEMMA EntriesUnique ==
  ASSUME NEW S, NEW s \in Seq(S), NEW I, Indices(I, s),
         NEW r \in Seq(S), NEW f, Picks(r, s, I, f)
  PROVE  r = Entries(s, I)
<1>1. PICK m \in Nat, n \in Nat : m = Len(s) /\ n = Len(r)
  BY LenProperties
<1>2. I \in SUBSET Nat /\ Counts(f, n, I)
  BY <1>1 DEF Indices, Picks
<1>3. Entries(s, I) = [k \in 1..n |-> s[f[k]]]
  BY <1>1, <1>2, EntriesCounted
<1>4. r = [k \in 1..n |-> r[k]]
  BY <1>1, LenProperties
<1>5. QED
  BY <1>1, <1>3, <1>4 DEF Picks

(* What is an entry of Entries(s, I).                                      *)
LEMMA EntriesRange ==
  ASSUME NEW S, NEW s \in Seq(S), NEW I, Indices(I, s), NEW r, r = Entries(s, I)
  PROVE  /\ r \in Seq(S)
         /\ \A k \in 1..Len(r) : \E i \in I : r[k] = s[i]
         /\ \A i \in I : \E k \in 1..Len(r) : r[k] = s[i]
<1>1. r \in Seq(S) /\ \E f : Picks(r, s, I, f)
  BY EntriesPicks
<1>2. PICK f : Picks(r, s, I, f)
  BY <1>1
<1>3. \A k \in 1..Len(r) : f[k] \in I /\ r[k] = s[f[k]]
  BY <1>2 DEF Picks, Counts
<1>4. \A i \in I : \E k \in 1..Len(r) : f[k] = i
  BY <1>2 DEF Picks, Counts
<1>5. QED
  BY <1>1, <1>3, <1>4

(* The entries keep their order.                                           *)
LEMMA EntriesOrder ==
  ASSUME NEW S, NEW s \in Seq(S), NEW I, Indices(I, s), NEW r, r = Entries(s, I),
         NEW k \in 1..Len(r), NEW l \in 1..Len(r), k < l
  PROVE  \E i, j \in I : i < j /\ r[k] = s[i] /\ r[l] = s[j]
<1>1. PICK f : Picks(r, s, I, f)
  BY EntriesPicks
<1>2. /\ f[k] \in I /\ r[k] = s[f[k]] /\ f[l] \in I /\ r[l] = s[f[l]]
      /\ f[k] < f[l]
  BY <1>1 DEF Picks, Counts
<1>3. QED
  BY <1>2

(* Nothing is chosen exactly where no index is.                            *)
LEMMA EntriesEmpty ==
  ASSUME NEW S, NEW s \in Seq(S), NEW I, Indices(I, s)
  PROVE  Entries(s, I) = <<>> <=> I = {}
<1>1. PICK r : r = Entries(s, I)
  OBVIOUS
<1>2. /\ r \in Seq(S)
      /\ \A k \in 1..Len(r) : \E i \in I : r[k] = s[i]
      /\ \A i \in I : \E k \in 1..Len(r) : r[k] = s[i]
  <2>1. r \in Seq(S)
    BY <1>1, EntriesPicks
  <2>2. \A k \in 1..Len(r) : \E i \in I : r[k] = s[i]
    BY <1>1, EntriesRange
  <2>3. \A i \in I : \E k \in 1..Len(r) : r[k] = s[i]
    BY <1>1, EntriesRange
  <2>4. QED
    BY <2>1, <2>2, <2>3
<1>3. Len(r) \in Nat /\ (r # <<>> => Len(r) # 0) /\ Len(<<>>) = 0 /\ 1..0 = {}
  BY <1>2, LenProperties, EmptySeq
<1>4. r # <<>> => 1 \in 1..Len(r)
  BY <1>3
<1>5. QED
  BY <1>1, <1>2, <1>3, <1>4

(* All entries, in their order, are the sequence itself.                   *)
LEMMA EntriesAll ==
  ASSUME NEW S, NEW s \in Seq(S)
  PROVE  Entries(s, 1..Len(s)) = s
<1>1. Len(s) \in Nat
  BY LenProperties
<1>2. Picks(s, s, 1..Len(s), [k \in 1..Len(s) |-> k])
  BY <1>1 DEF Picks, Counts
<1>3. Indices(1..Len(s), s)
  BY DEF Indices
<1>4. QED
  BY <1>2, <1>3, EntriesUnique

(* Two sequences of one length, entry by entry.                            *)
LEMMA EntriesTogether ==
  ASSUME NEW S, NEW s \in Seq(S), NEW T, NEW t \in Seq(T), Len(s) = Len(t),
         NEW I, Indices(I, s)
  PROVE  /\ Len(Entries(s, I)) = Len(Entries(t, I))
         /\ \A k \in 1..Len(Entries(s, I)) : \E i \in I :
              Entries(s, I)[k] = s[i] /\ Entries(t, I)[k] = t[i]
<1> DEFINE p == Entries(s, I)
           q == Entries(t, I)
<1>1. PICK m \in Nat : m = Len(s)
  BY LenProperties
<1>2. I \in SUBSET (1..m) /\ I \in SUBSET Nat
  BY <1>1 DEF Indices
<1>n. PICK n \in Nat : \E f : Counts(f, n, I)
  BY <1>2, CountExists
<1>3. PICK f : Counts(f, n, I)
  BY <1>n
<1>4. p = [k \in 1..n |-> s[f[k]]] /\ q = [k \in 1..n |-> t[f[k]]]
  <2>1. Entries(s, I) = [k \in 1..n |-> s[f[k]]]
    BY <1>2, <1>3, EntriesCounted
  <2>2. Entries(t, I) = [k \in 1..n |-> t[f[k]]]
    BY <1>2, <1>3, EntriesCounted
  <2>3. QED
    BY <2>1, <2>2
<1>5. p \in Seq(S) /\ q \in Seq(T)
  BY EntriesPicks DEF Indices
<1> HIDE DEF p, q
<1>6. Len(p) = n /\ Len(q) = n
  <2>1. DOMAIN p = 1..n /\ DOMAIN q = 1..n
    BY <1>4
  <2>2. /\ DOMAIN p = 1..Len(p) /\ Len(p) \in Nat
        /\ DOMAIN q = 1..Len(q) /\ Len(q) \in Nat
    BY <1>5, LenProperties
  <2>3. QED
    BY <2>1, <2>2
<1>7. \A k \in 1..n : f[k] \in I /\ p[k] = s[f[k]] /\ q[k] = t[f[k]]
  BY <1>3, <1>4 DEF Counts
<1>8. QED
  BY <1>6, <1>7 DEF p, q

(* The entries of a concatenation.                                         *)
LEMMA EntriesConcat ==
  ASSUME NEW S, NEW s \in Seq(S), NEW t \in Seq(S),
         NEW I, Indices(I, s), NEW J, Indices(J, t),
         NEW K, K = I \cup {Len(s) + j : j \in J}
  PROVE  Entries(s \o t, K) = Entries(s, I) \o Entries(t, J)
<1>1. PICK m \in Nat, n \in Nat : m = Len(s) /\ n = Len(t)
  BY LenProperties
<1>2. PICK p, q : p = Entries(s, I) /\ q = Entries(t, J)
  OBVIOUS
<1>3. /\ p \in Seq(S) /\ \E f : Picks(p, s, I, f)
      /\ q \in Seq(S) /\ \E g : Picks(q, t, J, g)
  BY <1>2, EntriesPicks
<1>4. PICK f, g : Picks(p, s, I, f) /\ Picks(q, t, J, g)
  BY <1>3
<1>5. PICK a \in Nat, b \in Nat : a = Len(p) /\ b = Len(q)
  BY <1>3, LenProperties
<1>6. /\ Counts(f, a, I) /\ \A k \in 1..a : p[k] = s[f[k]]
      /\ Counts(g, b, J) /\ \A k \in 1..b : q[k] = t[g[k]]
  BY <1>4, <1>5 DEF Picks
<1>7. PICK r, c : r = p \o q /\ c = s \o t
  OBVIOUS
<1>8. /\ r \in Seq(S) /\ Len(r) = a + b
      /\ \A k \in 1..(a + b) : r[k] = IF k <= a THEN p[k] ELSE q[k - a]
  BY <1>3, <1>5, <1>7, ConcatProperties
<1>9. /\ c \in Seq(S) /\ Len(c) = m + n
      /\ \A i \in 1..(m + n) : c[i] = IF i <= m THEN s[i] ELSE t[i - m]
  BY <1>1, <1>7, ConcatProperties
<1> DEFINE h == [k \in 1..(a + b) |-> IF k <= a THEN f[k] ELSE m + g[k - a]]
<1>10. \A k \in 1..a : f[k] \in I /\ f[k] \in 1..m
  BY <1>1, <1>6 DEF Counts, Indices
<1>11. \A k \in 1..b : g[k] \in J /\ g[k] \in 1..n
  BY <1>1, <1>6 DEF Counts, Indices
<1>12. \A k \in 1..(a + b) :
         \/ k \in 1..a /\ k <= a /\ h[k] = f[k]
         \/ k - a \in 1..b /\ ~(k <= a) /\ h[k] = m + g[k - a]
  OBVIOUS
<1>13. Counts(h, a + b, K)
  <2>1. \A k \in 1..(a + b) : h[k] \in K
    BY <1>1, <1>10, <1>11, <1>12
  <2>2. ASSUME NEW i \in K PROVE \E k \in 1..(a + b) : h[k] = i
    <3>1. CASE i \in I
      <4>1. PICK k \in 1..a : f[k] = i
        BY <1>6, <3>1 DEF Counts
      <4>2. k \in 1..(a + b) /\ h[k] = f[k]
        OBVIOUS
      <4>3. QED
        BY <4>1, <4>2
    <3>2. CASE i \notin I
      <4>1. PICK j \in J : i = m + j
        BY <1>1, <3>2
      <4>2. PICK k \in 1..b : g[k] = j
        BY <1>6 DEF Counts
      <4>3. a + k \in 1..(a + b) /\ ~(a + k <= a) /\ (a + k) - a = k
        OBVIOUS
      <4>4. h[a + k] = m + g[k]
        BY <4>3
      <4>5. QED
        BY <4>1, <4>2, <4>3, <4>4
    <3>3. QED
      BY <3>1, <3>2
  <2>3. ASSUME NEW k \in 1..(a + b), NEW l \in 1..(a + b), k < l
        PROVE  h[k] < h[l]
    <3>0. k \in Nat /\ l \in Nat
      OBVIOUS
    <3> HIDE DEF h
    <3>1. CASE k \in 1..a /\ h[k] = f[k] /\ l \in 1..a /\ h[l] = f[l]
      BY <1>6, <2>3, <3>1 DEF Counts
    <3>2. CASE k \in 1..a /\ h[k] = f[k] /\ l - a \in 1..b /\ h[l] = m + g[l - a]
      <4>1. f[k] \in 1..m /\ g[l - a] \in 1..n
        BY <1>10, <1>11, <3>2
      <4>2. QED
        BY <3>2, <4>1
    <3>3. CASE /\ k - a \in 1..b /\ h[k] = m + g[k - a]
               /\ l - a \in 1..b /\ h[l] = m + g[l - a]
      <4>1. k - a < l - a
        BY <2>3, <3>0
      <4>2. g[k - a] < g[l - a] /\ g[k - a] \in 1..n /\ g[l - a] \in 1..n
        BY <1>6, <1>11, <3>3, <4>1 DEF Counts
      <4>3. QED
        BY <3>3, <4>2
    <3>4. CASE k - a \in 1..b /\ ~(k <= a) /\ l \in 1..a /\ l <= a
      BY <2>3, <3>0, <3>4
    <3>5. QED
      BY <1>12, <3>1, <3>2, <3>3, <3>4
  <2>4. h \in [1..(a + b) -> K]
    BY <2>1
  <2>5. QED
    BY <2>2, <2>3, <2>4 DEF Counts
<1>14. Indices(K, c)
  <2>1. \A i \in I : i \in 1..m
    BY <1>1 DEF Indices
  <2>2. \A j \in J : j \in 1..n
    BY <1>1 DEF Indices
  <2>3. \A i \in K : i \in 1..(m + n)
    BY <1>1, <2>1, <2>2
  <2>4. QED
    BY <1>9, <2>3 DEF Indices
<1>15. \A k \in 1..(a + b) : r[k] = c[h[k]]
  <2> HIDE DEF h
  <2> SUFFICES ASSUME NEW k \in 1..(a + b) PROVE r[k] = c[h[k]]
    OBVIOUS
  <2>1. CASE k \in 1..a /\ k <= a /\ h[k] = f[k]
    <3>1. r[k] = s[f[k]]
      BY <1>6, <1>8, <2>1
    <3>2. PICK x \in 1..m : x = f[k]
      BY <1>10, <2>1
    <3>3. x \in 1..(m + n) /\ x <= m
      OBVIOUS
    <3>4. c[x] = s[x]
      BY <1>9, <3>3
    <3>5. QED
      BY <2>1, <3>1, <3>2, <3>4
  <2>2. CASE k - a \in 1..b /\ ~(k <= a) /\ h[k] = m + g[k - a]
    <3>1. r[k] = t[g[k - a]]
      BY <1>6, <1>8, <2>2
    <3>2. PICK x \in 1..n : x = g[k - a]
      BY <1>11, <2>2
    <3>3. m + x \in 1..(m + n) /\ ~(m + x <= m) /\ (m + x) - m = x
      OBVIOUS
    <3>4. c[m + x] = t[x]
      BY <1>9, <3>3
    <3>5. QED
      BY <2>2, <3>1, <3>2, <3>4
  <2>3. QED
    BY <1>12, <2>1, <2>2
<1>16. Picks(r, c, K, h)
  <2> HIDE DEF h
  <2>1. QED
    BY <1>8, <1>13, <1>15 DEF Picks
<1> HIDE DEF h
<1>17. r = Entries(c, K)
  BY <1>8, <1>9, <1>14, <1>16, EntriesUnique
<1>18. QED
  BY <1>2, <1>7, <1>17

(* The entries of a queue to which one was appended.                       *)
LEMMA EntriesAppend ==
  ASSUME NEW S, NEW s \in Seq(S), NEW e \in S, NEW I, Indices(I, s)
  PROVE  /\ Entries(Append(s, e), I) = Entries(s, I)
         /\ Entries(Append(s, e), I \cup {Len(s) + 1})
              = Append(Entries(s, I), e)
<1>1. PICK t : t = <<e>>
  OBVIOUS
<1>2. /\ t \in Seq(S) /\ Len(t) = 1 /\ Len(s) \in Nat
      /\ Append(s, e) = s \o t
  BY <1>1, AppendIsConcat, LenProperties
<1>3. Entries(s, I) \in Seq(S)
  BY EntriesPicks
<1>4. Indices({}, t) /\ Indices({1}, t) /\ 1..Len(t) = {1}
  BY <1>2 DEF Indices
<1>5. Entries(s \o t, I) = Entries(s, I) \o Entries(t, {})
  <2>1. I = I \cup {Len(s) + j : j \in {}}
    OBVIOUS
  <2>2. QED
    BY <1>2, <1>4, <2>1, EntriesConcat
<1>6. Entries(s \o t, I \cup {Len(s) + 1}) = Entries(s, I) \o Entries(t, {1})
  <2>1. PICK J, K : J = {1} /\ K = I \cup {Len(s) + 1}
    OBVIOUS
  <2>2. K = I \cup {Len(s) + j : j \in J} /\ Indices(J, t)
    BY <1>4, <2>1
  <2>3. Entries(s \o t, K) = Entries(s, I) \o Entries(t, J)
    BY <1>2, <2>2, EntriesConcat
  <2>4. QED
    BY <2>1, <2>3
<1>7. Entries(t, {}) = <<>>
  BY <1>2, <1>4, EntriesEmpty
<1>8. Entries(t, {1}) = t
  BY <1>2, <1>4, EntriesAll
<1>9. Entries(s, I) \o <<>> = Entries(s, I)
  BY <1>3, ConcatEmptySeq
<1>10. Append(Entries(s, I), e) = Entries(s, I) \o t
  BY <1>1, <1>3, AppendIsConcat
<1>11. QED
  BY <1>2, <1>5, <1>6, <1>7, <1>8, <1>9, <1>10

(* The entries of a queue whose head was taken.                            *)
LEMMA EntriesTail ==
  ASSUME NEW S, NEW s \in Seq(S), s # <<>>, NEW I, Indices(I, s),
         NEW J, J = {i \in 1..Len(Tail(s)) : i + 1 \in I},
         NEW p, p = Entries(s, I)
  PROVE  /\ 1 \notin I => Entries(Tail(s), J) = p
         /\ 1 \in I => /\ p # <<>> /\ Head(p) = Head(s)
                       /\ Entries(Tail(s), J) = Tail(p)
<1>1. PICK m \in Nat : m = Len(s) /\ m # 0
  BY LenProperties, EmptySeq
<1>2. PICK t : t = Tail(s)
  OBVIOUS
<1>3. /\ t \in Seq(S) /\ Len(t) = m - 1 /\ Head(s) = s[1]
      /\ \A i \in 1..(m - 1) : t[i] = s[i + 1]
  BY <1>1, <1>2, HeadTailProperties
<1>4. Indices(J, t) /\ J = {i \in 1..(m - 1) : i + 1 \in I}
  BY <1>2, <1>3 DEF Indices
<1>5. p \in Seq(S) /\ \E f : Picks(p, s, I, f)
  BY EntriesPicks
<1>6. PICK f : Picks(p, s, I, f)
  BY <1>5
<1>7. PICK n \in Nat : n = Len(p)
  BY <1>5, LenProperties
<1>8. /\ \A k \in 1..n : f[k] \in I /\ p[k] = s[f[k]]
      /\ \A i \in I : \E k \in 1..n : f[k] = i
      /\ \A k, l \in 1..n : k < l => f[k] < f[l]
  BY <1>6, <1>7 DEF Picks, Counts
<1>9. \A i \in I : i \in 1..m
  BY <1>1 DEF Indices
<1>10. ASSUME 1 \notin I
       PROVE  Entries(t, J) = p
  <2> DEFINE g == [k \in 1..n |-> f[k] - 1]
  <2>1. \A k \in 1..n : f[k] \in 2..m
    BY <1>8, <1>9, <1>10
  <2>2. \A k \in 1..n : /\ g[k] \in 1..(m - 1) /\ g[k] + 1 = f[k]
                        /\ g[k] = f[k] - 1
    BY <2>1
  <2>3. g \in [1..n -> J]
    BY <1>4, <1>8, <2>2
  <2>4. ASSUME NEW j \in J PROVE \E k \in 1..n : g[k] = j
    <3>1. PICK k \in 1..n : f[k] = j + 1
      BY <1>4, <1>8
    <3>2. j \in Int
      BY <1>4
    <3>3. QED
      BY <3>1, <3>2
  <2>5. \A k, l \in 1..n : k < l => g[k] < g[l]
    BY <1>8, <2>1, <2>2
  <2>6. \A k \in 1..n : p[k] = t[g[k]]
    BY <1>3, <1>8, <2>2
  <2> HIDE DEF g
  <2>7. Picks(p, t, J, g)
    BY <1>7, <2>3, <2>4, <2>5, <2>6 DEF Picks, Counts
  <2>8. QED
    BY <1>3, <1>4, <1>5, <2>7, EntriesUnique
<1>11. ASSUME 1 \in I
       PROVE  /\ p # <<>> /\ Head(p) = Head(s)
              /\ Entries(t, J) = Tail(p)
  <2>1. PICK k1 \in 1..n : f[k1] = 1
    BY <1>8, <1>11
  <2>2. k1 = 1
    <3>1. SUFFICES ASSUME 1 < k1 PROVE FALSE
      OBVIOUS
    <3>2. 1 \in 1..n
      OBVIOUS
    <3>3. f[1] < 1 /\ f[1] \in 1..m
      BY <1>8, <1>9, <2>1, <3>1, <3>2
    <3>4. QED
      BY <3>3
  <2>3. p # <<>> /\ Head(p) = p[1] /\ n # 0
    BY <1>5, <1>7, <2>2, EmptySeq
  <2>4. Head(p) = Head(s)
    BY <1>3, <1>8, <2>1, <2>2, <2>3
  <2>5. PICK q : q = Tail(p)
    OBVIOUS
  <2>6. /\ q \in Seq(S) /\ Len(q) = n - 1
        /\ \A k \in 1..(n - 1) : q[k] = p[k + 1]
    BY <1>5, <1>7, <2>3, <2>5, HeadTailProperties
  <2> DEFINE g == [k \in 1..(n - 1) |-> f[k + 1] - 1]
  <2>7. \A k \in 1..(n - 1) : k + 1 \in 1..n /\ 1 < k + 1
    OBVIOUS
  <2>8. \A k \in 1..(n - 1) : f[k + 1] \in 2..m
    <3>1. \A k \in 1..(n - 1) : f[1] < f[k + 1] /\ f[k + 1] \in 1..m
      BY <1>8, <1>9, <2>2, <2>7
    <3>2. QED
      BY <2>1, <2>2, <3>1
  <2>9. \A k \in 1..(n - 1) : /\ g[k] \in 1..(m - 1) /\ g[k] + 1 = f[k + 1]
                              /\ g[k] = f[k + 1] - 1
    BY <2>8
  <2>10. g \in [1..(n - 1) -> J]
    BY <1>4, <1>8, <2>7, <2>9
  <2>11. ASSUME NEW j \in J PROVE \E k \in 1..(n - 1) : g[k] = j
    <3>1. PICK k \in 1..n : f[k] = j + 1
      BY <1>4, <1>8
    <3>2. j \in Nat /\ j # 0
      BY <1>4
    <3>3. k # 1
      BY <2>1, <2>2, <3>1, <3>2
    <3>4. k - 1 \in 1..(n - 1) /\ (k - 1) + 1 = k
      BY <3>3
    <3>5. g[k - 1] = f[k] - 1
      BY <2>9, <3>4
    <3>6. g[k - 1] = j
      BY <3>1, <3>2, <3>5
    <3>7. QED
      BY <3>4, <3>6
  <2>12. ASSUME NEW k \in 1..(n - 1), NEW l \in 1..(n - 1), k < l
         PROVE  g[k] < g[l]
    <3>1. k + 1 \in 1..n /\ l + 1 \in 1..n /\ k + 1 < l + 1
      BY <2>7, <2>12
    <3>2. f[k + 1] < f[l + 1]
      BY <1>8, <3>1
    <3>3. QED
      BY <2>8, <2>9, <3>2
  <2>13. \A k \in 1..(n - 1) : q[k] = t[g[k]]
    <3> SUFFICES ASSUME NEW k \in 1..(n - 1) PROVE q[k] = t[g[k]]
      OBVIOUS
    <3>1. q[k] = s[f[k + 1]]
      BY <1>8, <2>6, <2>7
    <3>2. g[k] \in 1..(m - 1) /\ g[k] + 1 = f[k + 1]
      BY <2>9
    <3>3. QED
      BY <1>3, <3>1, <3>2
  <2> HIDE DEF g
  <2>14. Picks(q, t, J, g)
    BY <2>6, <2>10, <2>11, <2>12, <2>13 DEF Picks, Counts
  <2>15. Entries(t, J) = q
    BY <1>3, <1>4, <2>6, <2>14, EntriesUnique
  <2>16. QED
    BY <2>3, <2>4, <2>5, <2>15
<1>12. QED
  BY <1>2, <1>10, <1>11

(* The entries in T of the entries at I are those at I that are in T.      *)
Those(I, s, T) == {i \in I : s[i] \in T}

(* Choosing twice is choosing once: of the entries at I those in T.        *)
LEMMA EntriesOfEntries ==
  ASSUME NEW S, NEW s \in Seq(S), NEW I, Indices(I, s),
         NEW r, r = Entries(s, I), NEW T
  PROVE  Entries(r, Those(1..Len(r), r, T)) = Entries(s, Those(I, s, T))
<1> DEFINE J == Those(I, s, T)
           K == Those(1..Len(r), r, T)
<1>1. r \in Seq(S) /\ \E f : Picks(r, s, I, f)
  BY EntriesPicks
<1>2. PICK f : Picks(r, s, I, f)
  BY <1>1
<1>3. PICK n \in Nat : n = Len(r)
  BY <1>1, LenProperties
<1>4. /\ \A k \in 1..n : f[k] \in I /\ r[k] = s[f[k]]
      /\ \A i \in I : \E k \in 1..n : f[k] = i
      /\ \A k, l \in 1..n : k < l => f[k] < f[l]
  BY <1>2, <1>3 DEF Picks, Counts
<1>5. Indices(K, r) /\ Indices(J, s)
  BY DEF Indices, Those
<1>6. PICK q : q = Entries(r, K)
  OBVIOUS
<1>7. q \in Seq(S) /\ \E g : Picks(q, r, K, g)
  BY <1>1, <1>5, <1>6, EntriesPicks
<1>8. PICK g : Picks(q, r, K, g)
  BY <1>7
<1>9. PICK m \in Nat : m = Len(q)
  BY <1>7, LenProperties
<1>10. /\ \A k \in 1..m : g[k] \in K /\ q[k] = r[g[k]]
       /\ \A i \in K : \E k \in 1..m : g[k] = i
       /\ \A k, l \in 1..m : k < l => g[k] < g[l]
  BY <1>8, <1>9 DEF Picks, Counts
<1>11. \A k \in K : k \in 1..n /\ r[k] \in T
  BY <1>3 DEF Those
<1> DEFINE h == [k \in 1..m |-> f[g[k]]]
<1>12. \A k \in 1..m : h[k] = f[g[k]] /\ g[k] \in 1..n
  BY <1>10, <1>11
<1>13. h \in [1..m -> J]
  BY <1>4, <1>10, <1>11 DEF Those
<1>14. ASSUME NEW j \in J PROVE \E k \in 1..m : h[k] = j
  <2>1. PICK a \in 1..n : f[a] = j
    BY <1>4 DEF Those
  <2>2. a \in K
    BY <1>3, <1>4, <2>1 DEF Those
  <2>3. PICK k \in 1..m : g[k] = a
    BY <1>10, <2>2
  <2>4. QED
    BY <2>1, <2>3
<1>15. \A k, l \in 1..m : k < l => h[k] < h[l]
  BY <1>4, <1>10, <1>12
<1>16. \A k \in 1..m : q[k] = s[h[k]]
  BY <1>4, <1>10, <1>12
<1> HIDE DEF h, J, K
<1>17. Picks(q, s, J, h)
  BY <1>9, <1>13, <1>14, <1>15, <1>16 DEF Picks, Counts
<1>18. q = Entries(s, J)
  BY <1>5, <1>7, <1>17, EntriesUnique
<1>19. QED
  BY <1>6, <1>18 DEF J, K

-----------------------------------------------------------------------------
\* Events for listeners.

Listener == [read: Store!Read, raised: BOOLEAN]

(* ev2 is ev with an event for each of the listeners ls but those that     *)
(* already have some.                                                      *)
Posted(ev, ev2, ls, ok, docs) ==
  \E D, new, due :
    /\ Indices(D, ls) /\ due = Entries(ls, D)
    /\ \A i \in 1..Len(ls) :
         (\A j \in 1..Len(ev) : ev[j].read # ls[i].read) => i \in D
    /\ new \in Seq(Store!Answer) /\ Len(new) = Len(due)
    /\ \A k \in 1..Len(new) : new[k] = Event(due[k].read, ok, docs)
    /\ ev2 = ev \o new

(* An event holds what it is made of.                                      *)
LEMMA EventFields ==
  \A read, ok, docs : /\ Event(read, ok, docs).read = read
                      /\ Event(read, ok, docs).ok = ok
                      /\ Event(read, ok, docs).docs = docs
  BY DEF Event

(* Post adds to the main queue as Posted says, whatever the bound on the   *)
(* events of one listener leaves out.                                      *)
LEMMA PostPosts ==
  ASSUME mainQueue \in Seq(Store!Answer), NEW ls \in Seq(Listener),
         NEW ok \in BOOLEAN, NEW docs \in SUBSET Docs
  PROVE  Posted(mainQueue, Post(ls, ok, docs), ls, ok, docs)
<1> DEFINE D == {i \in 1..Len(ls) :
                   Cardinality(EventsOf(ls[i].read)) < EventsPerRead}
<1>1. PICK due : due = Entries(ls, D)
  OBVIOUS
<1>2. Indices(D, ls)
  BY DEF Indices
<1>3. ASSUME NEW i \in 1..Len(ls),
             \A j \in 1..Len(mainQueue) : mainQueue[j].read # ls[i].read
      PROVE  i \in D
  <2>1. EventsOf(ls[i].read) = {}
    BY <1>3 DEF EventsOf
  <2>2. Cardinality(EventsOf(ls[i].read)) = 0
    BY <2>1, FS_EmptySet
  <2>3. QED
    BY <2>2 DEF EventsPerRead
<1> DEFINE new == [k \in 1..Len(due) |-> Event(due[k].read, ok, docs)]
<1>4. due \in Seq(Listener)
  <2> HIDE DEF D
  <2>1. QED
    BY <1>1, <1>2, EntriesPicks
<1>5. PICK n \in Nat : n = Len(due)
  BY <1>4, LenProperties
<1>6. \A k \in 1..n : due[k] \in Listener
  BY <1>4, <1>5, ElementOfSeq
<1>7. \A k \in 1..n : Event(due[k].read, ok, docs) \in Store!Answer
  BY <1>6 DEF Listener, Event, Store!Answer, Docs, MyDocs, Store!Docs, Store!MyDocs
<1>8. new \in [1..n -> Store!Answer]
  BY <1>5, <1>7
<1>9. new \in Seq(Store!Answer) /\ Len(new) = n
  BY <1>8, FunctionIsSeq
<1>10. Post(ls, ok, docs) = mainQueue \o new
  BY <1>1 DEF Post
<1>11. \A k \in 1..n : new[k] = Event(due[k].read, ok, docs)
  BY <1>5
<1> HIDE DEF D, new
<1>12. QED
  BY <1>1, <1>2, <1>3, <1>5, <1>9, <1>10, <1>11 DEF Posted

(* What is posted, one by one.                                             *)
LEMMA PostedEvents ==
  ASSUME NEW ev \in Seq(Store!Answer), NEW ls \in Seq(Listener),
         NEW ev2, NEW ok, NEW docs, Posted(ev, ev2, ls, ok, docs)
  PROVE  /\ ev2 \in Seq(Store!Answer)
         /\ Len(ev) \in Nat /\ Len(ev2) \in Nat /\ Len(ev) <= Len(ev2)
         /\ \A k \in 1..Len(ev) : ev2[k] = ev[k]
         /\ \A k \in (Len(ev) + 1)..Len(ev2) : \E i \in 1..Len(ls) :
              ev2[k] = Event(ls[i].read, ok, docs)
         /\ \A k, l \in (Len(ev) + 1)..Len(ev2) : k < l =>
              \E i, j \in 1..Len(ls) :
                i < j /\ ev2[k].read = ls[i].read /\ ev2[l].read = ls[j].read
         /\ \A i \in 1..Len(ls) : \E k \in 1..Len(ev2) :
              ev2[k].read = ls[i].read
<1>1. PICK D, new, due :
        /\ Indices(D, ls) /\ due = Entries(ls, D)
        /\ \A i \in 1..Len(ls) :
             (\A j \in 1..Len(ev) : ev[j].read # ls[i].read) => i \in D
        /\ new \in Seq(Store!Answer) /\ Len(new) = Len(due)
        /\ \A k \in 1..Len(new) : new[k] = Event(due[k].read, ok, docs)
        /\ ev2 = ev \o new
  BY DEF Posted
<1>a. new \in Seq(Store!Answer) /\ ev2 = ev \o new
  BY <1>1
<1>b. due = Entries(ls, D) /\ Indices(D, ls)
  BY <1>1
<1>c. /\ Len(new) = Len(due)
      /\ \A k \in 1..Len(new) : new[k] = Event(due[k].read, ok, docs)
  BY <1>1
<1>2. PICK n \in Nat, m \in Nat : n = Len(ev) /\ m = Len(new)
  BY <1>a, LenProperties
<1>3. /\ ev2 \in Seq(Store!Answer) /\ Len(ev2) = n + m
      /\ \A k \in 1..(n + m) : ev2[k] = IF k <= n THEN ev[k] ELSE new[k - n]
  BY <1>2, <1>a, ConcatProperties
<1>4. \A k \in 1..n : k \in 1..(n + m) /\ ev2[k] = ev[k]
  BY <1>3
<1>5. \A k \in (n + 1)..(n + m) : k - n \in 1..m /\ ev2[k] = new[k - n]
  BY <1>3
<1>6. /\ due \in Seq(Listener)
      /\ \A k \in 1..m : \E i \in D : due[k] = ls[i]
      /\ \A i \in D : \E k \in 1..m : due[k] = ls[i]
  <2>1. due \in Seq(Listener)
    BY <1>b, EntriesPicks
  <2>2. \A k \in 1..Len(due) : \E i \in D : due[k] = ls[i]
    BY <1>b, EntriesRange
  <2>3. \A i \in D : \E k \in 1..Len(due) : due[k] = ls[i]
    BY <1>b, EntriesRange
  <2>4. Len(due) = m
    BY <1>2, <1>c
  <2>5. QED
    BY <2>1, <2>2, <2>3, <2>4
<1>7. \A i \in D : i \in 1..Len(ls)
  BY <1>b DEF Indices
<1>8. \A k \in (n + 1)..(n + m) : \E i \in 1..Len(ls) :
        ev2[k] = Event(ls[i].read, ok, docs)
  <2>1. \A k \in 1..m : new[k] = Event(due[k].read, ok, docs)
    BY <1>2, <1>c
  <2>2. \A k \in 1..m : \E i \in 1..Len(ls) : due[k] = ls[i]
    BY <1>6, <1>7
  <2>3. \A k \in 1..m : \E i \in 1..Len(ls) :
          new[k] = Event(ls[i].read, ok, docs)
    BY <2>1, <2>2
  <2>4. QED
    BY <1>5, <2>3
<1>9. \A k \in 1..m : new[k].read = due[k].read
  <2>1. \A k \in 1..m : new[k] = Event(due[k].read, ok, docs)
    BY <1>2, <1>c
  <2>2. QED
    BY <2>1, EventFields
<1>10. ASSUME NEW k \in (n + 1)..(n + m), NEW l \in (n + 1)..(n + m), k < l
       PROVE  \E i, j \in 1..Len(ls) :
                i < j /\ ev2[k].read = ls[i].read /\ ev2[l].read = ls[j].read
  <2>1. k - n \in 1..Len(due) /\ l - n \in 1..Len(due) /\ k - n < l - n
    BY <1>2, <1>5, <1>10, <1>c
  <2>2. \E i, j \in D : i < j /\ due[k - n] = ls[i] /\ due[l - n] = ls[j]
    <3>1. PICK a \in 1..Len(due), b \in 1..Len(due) :
            a = k - n /\ b = l - n /\ a < b
      BY <2>1
    <3>2. PICK f : Picks(due, ls, D, f)
      BY <1>b, EntriesPicks
    <3>3. /\ f[a] \in D /\ due[a] = ls[f[a]] /\ f[b] \in D /\ due[b] = ls[f[b]]
          /\ f[a] < f[b]
      BY <3>1, <3>2 DEF Picks, Counts
    <3>4. QED
      BY <3>1, <3>3
  <2>3. ev2[k].read = due[k - n].read /\ ev2[l].read = due[l - n].read
    BY <1>5, <1>9
  <2>4. QED
    BY <1>7, <2>2, <2>3
<1>11. ASSUME NEW i \in 1..Len(ls)
       PROVE  \E k \in 1..(n + m) : ev2[k].read = ls[i].read
  <2>1. CASE i \in D
    <3>1. PICK k \in 1..m : due[k] = ls[i]
      BY <1>6, <2>1
    <3>2. n + k \in (n + 1)..(n + m) /\ (n + k) - n = k
          /\ n + k \in 1..(n + m)
      OBVIOUS
    <3>3. ev2[n + k].read = ls[i].read
      BY <1>5, <1>9, <3>1, <3>2
    <3>4. QED
      BY <3>2, <3>3
  <2>2. CASE i \notin D
    <3>1. PICK j \in 1..n : ev[j].read = ls[i].read
      BY <1>1, <1>2, <2>2
    <3>2. QED
      BY <1>4, <3>1
  <2>3. QED
    BY <2>1, <2>2
<1>12. n <= n + m /\ n + m \in Nat
  OBVIOUS
<1>13. QED
  BY <1>2, <1>3, <1>4, <1>8, <1>10, <1>11, <1>12

(* The events that will be answers: the first ones of unmuted listeners.   *)
FirstIndices(ev, m) ==
  {i \in 1..Len(ev) : /\ ev[i].read.id \notin m
                      /\ \A j \in 1..(i - 1) : ev[j].read # ev[i].read}
First(ev, m) == Entries(ev, FirstIndices(ev, m))

(* The listeners that are to get their first event.                        *)
Awaiting(ls, ev, m) ==
  {i \in 1..Len(ls) : /\ ls[i].read.id \notin m
                      /\ \A j \in 1..Len(ev) : ev[j].read # ls[i].read}

Answers(ls, I, ok, docs) ==
  [k \in 1..Len(Entries(ls, I)) |-> Event(Entries(ls, I)[k].read, ok, docs)]

(* No two of the listeners are of one read.                                *)
ReadOnce(ls) == \A i, j \in 1..Len(ls) : ls[i].read = ls[j].read => i = j

(* Of the events that are posted, those are answers that are for a         *)
(* listener without an event.                                              *)
LEMMA PostedFirst ==
  ASSUME NEW ev \in Seq(Store!Answer), NEW ls \in Seq(Listener), NEW ev2,
         NEW ok, NEW docs, Posted(ev, ev2, ls, ok, docs), NEW m,
         ReadOnce(ls)
  PROVE  First(ev2, m) = First(ev, m) \o Answers(ls, Awaiting(ls, ev, m), ok, docs)
<1>1. PICK D, new, due :
        /\ Indices(D, ls) /\ due = Entries(ls, D)
        /\ \A i \in 1..Len(ls) :
             (\A j \in 1..Len(ev) : ev[j].read # ls[i].read) => i \in D
        /\ new \in Seq(Store!Answer) /\ Len(new) = Len(due)
        /\ \A k \in 1..Len(new) : new[k] = Event(due[k].read, ok, docs)
        /\ ev2 = ev \o new
  BY DEF Posted
<1>a. new \in Seq(Store!Answer) /\ ev2 = ev \o new
  BY <1>1
<1>b. due = Entries(ls, D) /\ Indices(D, ls)
  BY <1>1
<1>c. /\ Len(new) = Len(due)
      /\ \A k \in 1..Len(new) : new[k] = Event(due[k].read, ok, docs)
  BY <1>1
<1>2. PICK n \in Nat, c \in Nat : n = Len(ev) /\ c = Len(new)
  BY <1>a, LenProperties
<1>3. /\ ev2 \in Seq(Store!Answer) /\ Len(ev2) = n + c
      /\ \A k \in 1..(n + c) : ev2[k] = IF k <= n THEN ev[k] ELSE new[k - n]
  BY <1>2, <1>a, ConcatProperties
<1>4. /\ \A k \in 1..n : ev2[k] = ev[k]
      /\ \A k \in 1..c : ev2[n + k] = new[k]
  <2>1. \A k \in 1..c : n + k \in 1..(n + c) /\ ~(n + k <= n) /\ (n + k) - n = k
    OBVIOUS
  <2>2. QED
    BY <1>3, <2>1
<1> DEFINE T == {l \in Listener : /\ l.read.id \notin m
                                  /\ \A j \in 1..n : ev[j].read # l.read}
           K == {k \in 1..Len(due) : due[k] \in T}
           J == Awaiting(ls, ev, m)
<1>5. due \in Seq(Listener) /\ Len(due) = c
  BY <1>2, <1>b, <1>c, EntriesPicks
<1>6. \A k \in 1..c : due[k] \in Listener /\ new[k].read = due[k].read
  <2>1. \A k \in 1..c : new[k] = Event(due[k].read, ok, docs)
    BY <1>2, <1>c
  <2>2. \A k \in 1..c : due[k] \in Listener
    BY <1>5, ElementOfSeq
  <2>3. QED
    BY <2>1, <2>2, EventFields
<1>7. \A k, l \in 1..c : k < l => due[k].read # due[l].read
  <2> SUFFICES ASSUME NEW k \in 1..c, NEW l \in 1..c, k < l
               PROVE  due[k].read # due[l].read
    OBVIOUS
  <2>1. PICK i \in D, j \in D : i < j /\ due[k] = ls[i] /\ due[l] = ls[j]
    <3>1. k \in 1..Len(due) /\ l \in 1..Len(due)
      BY <1>5
    <3>2. \E i, j \in D : i < j /\ due[k] = ls[i] /\ due[l] = ls[j]
      BY <1>b, <3>1, EntriesOrder
    <3>3. QED
      BY <3>2
  <2>2. i \in 1..Len(ls) /\ j \in 1..Len(ls) /\ i # j
    BY <1>b, <2>1 DEF Indices
  <2>3. QED
    BY <2>1, <2>2 DEF ReadOnce
<1>8. FirstIndices(ev2, m) = FirstIndices(ev, m) \cup {Len(ev) + k : k \in K}
  <2>1. ASSUME NEW i \in 1..n
        PROVE  i \in FirstIndices(ev2, m) <=> i \in FirstIndices(ev, m)
    <3>1. \A j \in 1..(i - 1) : j \in 1..n
      OBVIOUS
    <3>2. i \in 1..(n + c)
      OBVIOUS
    <3>3. QED
      BY <1>2, <1>3, <1>4, <3>1, <3>2 DEF FirstIndices
  <2>2. ASSUME NEW k \in 1..c
        PROVE  n + k \in FirstIndices(ev2, m) <=> k \in K
    <3>1. /\ n + k \in 1..(n + c) /\ ev2[n + k].read = due[k].read
          /\ due[k] \in Listener
      BY <1>4, <1>6
    <3>2. ASSUME n + k \in FirstIndices(ev2, m) PROVE k \in K
      <4>1. \A j \in 1..n : j \in 1..((n + k) - 1)
        OBVIOUS
      <4>2. \A j \in 1..n : ev[j].read # due[k].read
        BY <1>4, <3>1, <3>2, <4>1 DEF FirstIndices
      <4>3. due[k].read.id \notin m
        BY <3>1, <3>2 DEF FirstIndices
      <4>4. QED
        BY <1>5, <3>1, <4>2, <4>3
    <3>3. ASSUME k \in K PROVE n + k \in FirstIndices(ev2, m)
      <4>1. \A j \in 1..((n + k) - 1) :
              j \in 1..n \/ (j - n \in 1..c /\ j - n < k /\ n + (j - n) = j)
        OBVIOUS
      <4>2. \A j \in 1..((n + k) - 1) : ev2[j].read # due[k].read
        <5> SUFFICES ASSUME NEW j \in 1..((n + k) - 1)
                     PROVE  ev2[j].read # due[k].read
          OBVIOUS
        <5>1. CASE j \in 1..n
          BY <1>4, <3>3, <5>1
        <5>2. CASE j - n \in 1..c /\ j - n < k /\ n + (j - n) = j
          <6>1. ev2[j].read = due[j - n].read
            BY <1>4, <1>6, <5>2
          <6>2. QED
            BY <1>7, <5>2, <6>1
        <5>3. QED
          BY <4>1, <5>1, <5>2
      <4>3. QED
        BY <1>3, <3>1, <3>3, <4>2 DEF FirstIndices
    <3>4. QED
      BY <3>2, <3>3
  <2>3. ASSUME NEW i \in FirstIndices(ev2, m)
        PROVE  i \in FirstIndices(ev, m) \cup {Len(ev) + k : k \in K}
    <3>1. i \in 1..(n + c)
      BY <1>3 DEF FirstIndices
    <3>2. CASE i \in 1..n
      BY <2>1, <2>3, <3>2
    <3>3. CASE i \notin 1..n
      <4>1. PICK k \in 1..c : i = n + k
        <5>1. i - n \in 1..c /\ i = n + (i - n)
          BY <3>1, <3>3
        <5>2. QED
          BY <5>1
      <4>2. k \in K
        BY <2>2, <2>3, <4>1
      <4>3. QED
        BY <1>2, <4>1, <4>2
    <3>4. QED
      BY <3>2, <3>3
  <2>4. ASSUME NEW i \in FirstIndices(ev, m) PROVE i \in FirstIndices(ev2, m)
    <3>1. i \in 1..n
      BY <1>2 DEF FirstIndices
    <3>2. QED
      BY <2>1, <3>1
  <2>5. ASSUME NEW k \in K PROVE Len(ev) + k \in FirstIndices(ev2, m)
    <3>1. k \in 1..c
      BY <1>5
    <3>2. QED
      BY <1>2, <2>2, <2>5, <3>1
  <2> HIDE DEF K
  <2>6. QED
    BY <2>3, <2>4, <2>5
<1>9. Indices(FirstIndices(ev, m), ev) /\ Indices(K, new) /\ Indices(K, due)
  BY <1>c DEF Indices, FirstIndices
<1>10. First(ev2, m) = First(ev, m) \o Entries(new, K)
  <2> HIDE DEF K
  <2>1. new \in Seq(Store!Answer)
    BY <1>a
  <2>2. PICK F, X : F = FirstIndices(ev, m) /\ X = FirstIndices(ev2, m)
    OBVIOUS
  <2>3. X = F \cup {Len(ev) + k : k \in K} /\ Indices(F, ev) /\ Indices(K, new)
    BY <1>8, <1>9, <2>2
  <2>4. Entries(ev \o new, X) = Entries(ev, F) \o Entries(new, K)
    BY <2>1, <2>3, EntriesConcat
  <2>5. QED
    BY <1>a, <2>2, <2>4 DEF First
<1>11. Entries(due, K) = Entries(ls, J)
  <2>1. J = Those(D, ls, T)
    <3>1. \A i \in 1..Len(ls) : ls[i] \in Listener
      BY ElementOfSeq
    <3>2. \A i \in D : i \in 1..Len(ls)
      BY <1>1 DEF Indices
    <3>3. \A i \in J : i \in D /\ ls[i] \in T
      BY <1>1, <1>2, <3>1 DEF Awaiting
    <3>4. \A i \in D : ls[i] \in T => i \in J
      BY <1>2, <3>2 DEF Awaiting
    <3> HIDE DEF J, T
    <3>5. \A i \in J : i \in {x \in D : ls[x] \in T}
      BY <3>3
    <3>6. QED
      BY <3>4, <3>5 DEF Those
  <2> HIDE DEF J, T
  <2>2. K = Those(1..Len(due), due, T)
    BY DEF Those
  <2> HIDE DEF K
  <2>3. QED
    BY <1>b, <2>1, <2>2, EntriesOfEntries
<1>12. Entries(new, K) = Answers(ls, J, ok, docs)
  <2> HIDE DEF K, J
  <2>1. PICK p, q : p = Entries(due, K) /\ q = Entries(new, K)
    OBVIOUS
  <2>2. /\ Len(p) = Len(q)
        /\ \A k \in 1..Len(p) : \E i \in K : p[k] = due[i] /\ q[k] = new[i]
    <3>1. Len(due) = Len(new) /\ new \in Seq(Store!Answer)
      BY <1>a, <1>c
    <3>2. /\ Len(Entries(due, K)) = Len(Entries(new, K))
          /\ \A k \in 1..Len(Entries(due, K)) : \E i \in K :
               Entries(due, K)[k] = due[i] /\ Entries(new, K)[k] = new[i]
      BY <1>5, <1>9, <3>1, EntriesTogether
    <3>3. QED
      BY <2>1, <3>2
  <2>3. \A i \in K : new[i] = Event(due[i].read, ok, docs)
    BY <1>9, <1>c DEF Indices
  <2>4. \A k \in 1..Len(p) : q[k] = Event(p[k].read, ok, docs)
    BY <2>2, <2>3
  <2>5. q \in Seq(Store!Answer)
    BY <1>9, <1>a, <2>1, EntriesPicks
  <2>6. q = [k \in 1..Len(p) |-> Event(p[k].read, ok, docs)]
    BY <2>2, <2>4, <2>5, LenProperties
  <2>7. QED
    BY <1>11, <2>1, <2>6 DEF Answers
<1>13. QED
  BY <1>10, <1>12

-----------------------------------------------------------------------------
\* What the queues, listeners and events of the reads have in common.

Tasks == Store!Read \cup Store!Write \cup [op: {"unlisten"}, id: 1..MaxReads]
           \cup [op: {"initialize", "credential"}, user: Users]

(* Every getDocuments has an id of its own: while it is on the worker      *)
(* queue q, none of the listeners ls, the events ev and the muted m is its.*)
IdsOnce(q, ls, ev, m) ==
  /\ \A i, j \in 1..Len(ls) : ls[i].read.id = ls[j].read.id => i = j
  /\ \A i, j \in 1..Len(q) :
       q[i].op = "read" /\ q[j].op = "read" /\ q[i].id = q[j].id => i = j
  /\ \A i \in 1..Len(q) : q[i].op = "read" =>
       /\ q[i].id \notin m
       /\ \A j \in 1..Len(ls) : ls[j].read.id # q[i].id
       /\ \A j \in 1..Len(ev) : ev[j].read.id # q[i].id

(* All ids are below the next one, and a listener that will be removed is  *)
(* muted.                                                                  *)
IdsIssued(q, ls, ev, m, n) ==
  /\ \A i \in 1..Len(q) : q[i].op = "read" => q[i].id < n
  /\ \A i \in 1..Len(ls) : ls[i].read.id < n
  /\ \A i \in 1..Len(ev) : ev[i].read.id < n
  /\ \A r \in m : r < n
  /\ \A i \in 1..Len(q) : q[i].op = "unlisten" => q[i].id \in m

(* A listener is raised exactly when it has an event or is muted.          *)
RaisedHaveEvents(ls, ev, m) ==
  \A i \in 1..Len(ls) :
    IF ls[i].raised
    THEN \/ ls[i].read.id \in m
         \/ \E j \in 1..Len(ev) : ev[j].read = ls[i].read
    ELSE /\ ls[i].read.id \notin m
         /\ \A j \in 1..Len(ev) : ev[j].read.id # ls[i].read.id

(* What has one id is of one read, and an error is the last of its events. *)
EventsFit(ls, ev) ==
  /\ \A i, j \in 1..Len(ev) :
       ev[i].read.id = ev[j].read.id => ev[i].read = ev[j].read
  /\ \A i \in 1..Len(ls), j \in 1..Len(ev) :
       ls[i].read.id = ev[j].read.id => ls[i].read = ev[j].read
  /\ \A j \in 1..Len(ev) : ~ev[j].ok =>
       /\ \A i \in 1..Len(ls) : ls[i].read.id # ev[j].read.id
       /\ \A k \in 1..Len(ev) : j < k => ev[k].read.id # ev[j].read.id

ReadsFit(q, ls, ev, m, n) ==
  /\ IdsOnce(q, ls, ev, m) /\ IdsIssued(q, ls, ev, m, n)
  /\ RaisedHaveEvents(ls, ev, m) /\ EventsFit(ls, ev)

(* An appended entry is the last; the others stay.                         *)
LEMMA Appended ==
  ASSUME NEW S, NEW s \in Seq(S), NEW e \in S, NEW r, r = Append(s, e)
  PROVE  /\ r \in Seq(S) /\ Len(s) \in Nat /\ Len(r) = Len(s) + 1
         /\ \A i \in 1..Len(r) : \/ i \in 1..Len(s) /\ r[i] = s[i]
                                 \/ i = Len(s) + 1 /\ r[i] = e
<1>1. /\ r \in Seq(S) /\ Len(r) = Len(s) + 1 /\ r[Len(s) + 1] = e
      /\ \A i \in 1..Len(s) : r[i] = s[i]
  BY AppendProperties
<1>2. Len(s) \in Nat
  BY LenProperties
<1>3. QED
  BY <1>1, <1>2

(* The head is the first entry; the others move up.                        *)
LEMMA Taken ==
  ASSUME NEW S, NEW s \in Seq(S), s # <<>>, NEW r, r = Tail(s)
  PROVE  /\ r \in Seq(S) /\ Len(s) \in Nat \ {0} /\ Len(r) = Len(s) - 1
         /\ 1 \in 1..Len(s) /\ Head(s) = s[1] /\ s[1] \in S
         /\ \A i \in 1..Len(r) : i + 1 \in 1..Len(s) /\ r[i] = s[i + 1]
<1>1. /\ r \in Seq(S) /\ Len(r) = Len(s) - 1
      /\ \A i \in 1..Len(r) : r[i] = s[i + 1]
  BY HeadTailProperties
<1>2. Len(s) \in Nat \ {0}
  BY EmptySeq
<1>3. 1 \in 1..Len(s) /\ s[1] \in S
  BY <1>2, ElementOfSeq
<1>4. QED
  BY <1>1, <1>2, <1>3

(* A task that is not a read is enqueued.                                  *)
LEMMA FitEnqueue ==
  ASSUME NEW q \in Seq(Tasks), NEW ls, NEW ev, NEW m, NEW n,
         ReadsFit(q, ls, ev, m, n), NEW t \in Tasks, t.op # "read",
         t.op = "unlisten" => t.id \in m
  PROVE  ReadsFit(Append(q, t), ls, ev, m, n)
<1>1. PICK r : r = Append(q, t)
  OBVIOUS
<1>2. \A i \in 1..Len(r) : \/ i \in 1..Len(q) /\ r[i] = q[i]
                           \/ r[i] = t
  BY <1>1, Appended
<1>3. \A i \in 1..Len(r) : r[i].op = "read" => i \in 1..Len(q) /\ r[i] = q[i]
  BY <1>2
<1>4. IdsOnce(r, ls, ev, m)
  BY <1>3 DEF ReadsFit, IdsOnce
<1>5. IdsIssued(r, ls, ev, m, n)
  BY <1>2 DEF ReadsFit, IdsIssued
<1>6. QED
  BY <1>1, <1>4, <1>5 DEF ReadsFit

(* A read is enqueued.                                                     *)
LEMMA FitIssue ==
  ASSUME NEW q \in Seq(Tasks), NEW ls \in Seq(Listener),
         NEW ev \in Seq(Store!Answer), NEW m \in SUBSET Nat, NEW n \in Nat,
         ReadsFit(q, ls, ev, m, n), NEW t \in Tasks, t.op = "read", t.id = n
  PROVE  ReadsFit(Append(q, t), ls, ev, m, n + 1)
<1>1. PICK r : r = Append(q, t)
  OBVIOUS
<1>2. \A i \in 1..Len(r) : \/ i \in 1..Len(q) /\ r[i] = q[i]
                           \/ i = Len(q) + 1 /\ r[i] = t
  BY <1>1, Appended
<1>3. /\ \A i \in 1..Len(q) : q[i].op = "read" => q[i].id \in Nat
      /\ \A i \in 1..Len(ls) : ls[i].read.id \in Nat
      /\ \A i \in 1..Len(ev) : ev[i].read.id \in Nat
  <2>1. /\ \A i \in 1..Len(q) : q[i] \in Tasks
        /\ \A i \in 1..Len(ls) : ls[i] \in Listener
        /\ \A i \in 1..Len(ev) : ev[i] \in Store!Answer
    BY ElementOfSeq
  <2>2. \A x \in Tasks : x.op = "read" => x.id \in Nat
    BY DEF Tasks, Store!Read, Store!Write
  <2>3. /\ \A x \in Listener : x.read.id \in Nat
        /\ \A x \in Store!Answer : x.read.id \in Nat
    BY DEF Listener, Store!Answer, Store!Read
  <2>4. QED
    BY <2>1, <2>2, <2>3
<1>4. IdsOnce(r, ls, ev, m)
  <2>1. /\ \A i \in 1..Len(q) : q[i].op = "read" => q[i].id < n
        /\ \A i \in 1..Len(ls) : ls[i].read.id < n
        /\ \A i \in 1..Len(ev) : ev[i].read.id < n
        /\ \A x \in m : x < n
    BY DEF ReadsFit, IdsIssued
  <2>2. /\ \A i \in 1..Len(q) : q[i].op = "read" => q[i].id # n
        /\ \A i \in 1..Len(ls) : ls[i].read.id # n
        /\ \A i \in 1..Len(ev) : ev[i].read.id # n
        /\ n \notin m
    BY <1>3, <2>1
  <2>3. QED
    BY <1>2, <2>2 DEF ReadsFit, IdsOnce
<1>5. IdsIssued(r, ls, ev, m, n + 1)
  <2>1. /\ \A i \in 1..Len(q) : q[i].op = "read" => q[i].id < n + 1
        /\ \A i \in 1..Len(ls) : ls[i].read.id < n + 1
        /\ \A i \in 1..Len(ev) : ev[i].read.id < n + 1
        /\ \A x \in m : x < n + 1
    BY <1>3 DEF ReadsFit, IdsIssued
  <2>2. \A i \in 1..Len(r) : r[i].op = "read" => r[i].id < n + 1
    <3>1. t.id < n + 1
      OBVIOUS
    <3>2. QED
      BY <1>2, <2>1, <3>1
  <2>3. \A i \in 1..Len(r) : r[i].op = "unlisten" => r[i].id \in m
    BY <1>2 DEF ReadsFit, IdsIssued
  <2>4. QED
    BY <2>1, <2>2, <2>3 DEF IdsIssued
<1>6. QED
  BY <1>1, <1>4, <1>5 DEF ReadsFit

(* A task is taken.                                                        *)
LEMMA FitDequeue ==
  ASSUME NEW q \in Seq(Tasks), q # <<>>, NEW ls, NEW ev, NEW m, NEW n,
         ReadsFit(q, ls, ev, m, n)
  PROVE  ReadsFit(Tail(q), ls, ev, m, n)
<1>1. PICK r : r = Tail(q)
  OBVIOUS
<1>2. \A i \in 1..Len(r) : i + 1 \in 1..Len(q) /\ r[i] = q[i + 1]
  BY <1>1, Taken
<1>3. ASSUME NEW i \in 1..Len(r), NEW j \in 1..Len(r), r[i].op = "read",
             r[j].op = "read", r[i].id = r[j].id
      PROVE  i = j
  <2>1. PICK a \in 1..Len(q), b \in 1..Len(q) :
          a = i + 1 /\ b = j + 1 /\ r[i] = q[a] /\ r[j] = q[b]
    BY <1>2
  <2>2. a = b
    BY <1>3, <2>1 DEF ReadsFit, IdsOnce
  <2>3. QED
    BY <2>1, <2>2
<1>4. IdsOnce(r, ls, ev, m)
  BY <1>2, <1>3 DEF ReadsFit, IdsOnce
<1>5. IdsIssued(r, ls, ev, m, n)
  BY <1>2 DEF ReadsFit, IdsIssued
<1>6. QED
  BY <1>1, <1>4, <1>5 DEF ReadsFit

(* A listener is added for the read that is taken.                         *)
LEMMA FitListen ==
  ASSUME NEW q \in Seq(Tasks), q # <<>>, NEW ls \in Seq(Listener),
         NEW ev, NEW m, NEW n, ReadsFit(q, ls, ev, m, n),
         Head(q).op = "read", NEW l \in Listener,
         l.read = Head(q), l.raised = FALSE
  PROVE  ReadsFit(Tail(q), Append(ls, l), ev, m, n)
<1>1. PICK r, k : r = Tail(q) /\ k = Append(ls, l)
  OBVIOUS
<1>2. /\ \A i \in 1..Len(r) : i + 1 \in 1..Len(q) /\ r[i] = q[i + 1]
      /\ 1 \in 1..Len(q) /\ Head(q) = q[1]
  BY <1>1, Taken
<1>3. \A i, j \in 1..Len(r) : (i + 1 = j + 1 => i = j) /\ i + 1 # 1
  OBVIOUS
<1>4. \A i \in 1..Len(k) : \/ i \in 1..Len(ls) /\ k[i] = ls[i]
                           \/ i = Len(ls) + 1 /\ k[i] = l
  BY <1>1, Appended
<1>5. /\ l.read.id \notin m /\ l.read.id < n
      /\ \A j \in 1..Len(ls) : ls[j].read.id # l.read.id
      /\ \A j \in 1..Len(ev) : ev[j].read.id # l.read.id
      /\ \A i \in 1..Len(r) : r[i].op = "read" => r[i].id # l.read.id
  <2>1. /\ l.read.id \notin m /\ l.read.id < n
        /\ \A j \in 1..Len(ls) : ls[j].read.id # l.read.id
        /\ \A j \in 1..Len(ev) : ev[j].read.id # l.read.id
    BY <1>2 DEF ReadsFit, IdsOnce, IdsIssued
  <2>2. ASSUME NEW i \in 1..Len(r), r[i].op = "read", r[i].id = l.read.id
        PROVE  FALSE
    <3>1. PICK a \in 1..Len(q) : a = i + 1 /\ q[a] = r[i]
      BY <1>2
    <3>2. a = 1
      BY <1>2, <2>2, <3>1 DEF ReadsFit, IdsOnce
    <3>3. QED
      BY <1>3, <3>1, <3>2
  <2>3. QED
    BY <2>1, <2>2
<1>6. IdsOnce(r, ls, ev, m) /\ IdsIssued(r, ls, ev, m, n)
  <2>1. ReadsFit(r, ls, ev, m, n)
    BY <1>1, FitDequeue
  <2>2. QED
    BY <2>1 DEF ReadsFit
<1>7. IdsOnce(r, k, ev, m)
  <2>1. \A i, j \in 1..Len(k) : k[i].read.id = k[j].read.id => i = j
    BY <1>4, <1>5, <1>6 DEF IdsOnce
  <2>2. ASSUME NEW i \in 1..Len(r), r[i].op = "read", NEW j \in 1..Len(k)
        PROVE  k[j].read.id # r[i].id
    <3>1. CASE j \in 1..Len(ls) /\ k[j] = ls[j]
      BY <1>6, <2>2, <3>1 DEF IdsOnce
    <3>2. CASE k[j] = l
      BY <1>5, <2>2, <3>2
    <3>3. QED
      BY <1>4, <3>1, <3>2
  <2>3. QED
    BY <1>6, <2>1, <2>2 DEF IdsOnce
<1>8. IdsIssued(r, k, ev, m, n)
  BY <1>4, <1>5, <1>6 DEF IdsIssued
<1>9. RaisedHaveEvents(k, ev, m)
  BY <1>4, <1>5 DEF ReadsFit, RaisedHaveEvents
<1>10. EventsFit(k, ev)
  <2>1. EventsFit(ls, ev)
    BY DEF ReadsFit
  <2>2. \A i \in 1..Len(k), j \in 1..Len(ev) : k[i].read.id = ev[j].read.id =>
          i \in 1..Len(ls) /\ k[i] = ls[i]
    BY <1>4, <1>5
  <2>3. \A i \in 1..Len(k), j \in 1..Len(ev) :
          k[i].read.id = ev[j].read.id => k[i].read = ev[j].read
    BY <2>1, <2>2 DEF EventsFit
  <2>4. \A j \in 1..Len(ev) : ~ev[j].ok =>
          \A i \in 1..Len(k) : k[i].read.id # ev[j].read.id
    <3>1. \A j \in 1..Len(ev) : ~ev[j].ok =>
            \A i \in 1..Len(ls) : ls[i].read.id # ev[j].read.id
      BY <2>1 DEF EventsFit
    <3>2. QED
      BY <2>2, <3>1
  <2>5. QED
    BY <2>1, <2>3, <2>4 DEF EventsFit
<1>11. QED
  BY <1>1, <1>7, <1>8, <1>9, <1>10 DEF ReadsFit

(* Of the events after a post, the old ones are where they were.           *)
LEMMA PostedKinds ==
  ASSUME NEW ev \in Seq(Store!Answer), NEW ls \in Seq(Listener),
         NEW ev2, NEW ok, NEW docs, Posted(ev, ev2, ls, ok, docs)
  PROVE  /\ Len(ev) \in Nat /\ Len(ev2) \in Nat
         /\ \A i \in 1..Len(ev) : i \in 1..Len(ev2) /\ ev2[i] = ev[i]
         /\ \A i \in 1..Len(ev2) : i \in 1..Len(ev) \/ i \in (Len(ev) + 1)..Len(ev2)
         /\ \A i \in (Len(ev) + 1)..Len(ev2) :
              /\ i \in 1..Len(ev2) /\ i \notin 1..Len(ev) /\ ev2[i].ok = ok
              /\ \E a \in 1..Len(ls) : ev2[i].read = ls[a].read
<1>1. /\ Len(ev) \in Nat /\ Len(ev2) \in Nat /\ Len(ev) <= Len(ev2)
      /\ \A i \in 1..Len(ev) : ev2[i] = ev[i]
      /\ \A i \in (Len(ev) + 1)..Len(ev2) : \E j \in 1..Len(ls) :
           ev2[i] = Event(ls[j].read, ok, docs)
  BY PostedEvents
<1>2. ASSUME NEW i \in (Len(ev) + 1)..Len(ev2)
      PROVE  /\ i \in 1..Len(ev2) /\ i \notin 1..Len(ev) /\ ev2[i].ok = ok
             /\ \E a \in 1..Len(ls) : ev2[i].read = ls[a].read
  <2>1. PICK j \in 1..Len(ls) : ev2[i] = Event(ls[j].read, ok, docs)
    BY <1>1
  <2>2. ev2[i].ok = ok /\ ev2[i].read = ls[j].read
    BY <2>1, EventFields
  <2>3. i \in 1..Len(ev2) /\ i \notin 1..Len(ev)
    BY <1>1
  <2>4. QED
    BY <2>2, <2>3
<1>3. \A i \in 1..Len(ev) : i \in 1..Len(ev2)
  BY <1>1
<1>4. \A i \in 1..Len(ev2) : i \in 1..Len(ev) \/ i \in (Len(ev) + 1)..Len(ev2)
  BY <1>1
<1>5. QED
  BY <1>1, <1>2, <1>3, <1>4

(* k are the listeners ls, with those raised that are among the listeners  *)
(* to.                                                                     *)
RaisedFor(ls, to, k) ==
  /\ k \in Seq(Listener) /\ Len(k) = Len(ls)
  /\ \A i \in 1..Len(to) : \E j \in 1..Len(ls) : to[i].read = ls[j].read
  /\ \A i \in 1..Len(ls) :
       /\ k[i].read = ls[i].read
       /\ k[i].raised => \/ ls[i].raised
                         \/ \E j \in 1..Len(to) : to[j].read = ls[i].read
       /\ ~k[i].raised => /\ ~ls[i].raised
                          /\ \A j \in 1..Len(to) : to[j].read # ls[i].read

(* Events are posted for the listeners to, and they are raised.            *)
LEMMA FitPost ==
  ASSUME NEW q, NEW ls \in Seq(Listener), NEW ev \in Seq(Store!Answer),
         NEW m, NEW n, ReadsFit(q, ls, ev, m, n),
         NEW to \in Seq(Listener), NEW ev2, NEW ok \in BOOLEAN \ {FALSE}, NEW docs,
         Posted(ev, ev2, to, ok, docs),
         NEW k, RaisedFor(ls, to, k)
  PROVE  ReadsFit(q, k, ev2, m, n)
<1>1. /\ Len(ev) \in Nat /\ Len(ev2) \in Nat
      /\ \A i \in 1..Len(ev) : i \in 1..Len(ev2) /\ ev2[i] = ev[i]
      /\ \A i \in 1..Len(ev2) : i \in 1..Len(ev) \/ i \in (Len(ev) + 1)..Len(ev2)
      /\ \A i \in (Len(ev) + 1)..Len(ev2) :
           /\ i \in 1..Len(ev2) /\ i \notin 1..Len(ev) /\ ev2[i].ok = ok
           /\ \E a \in 1..Len(to) : ev2[i].read = to[a].read
  BY PostedKinds
<1>a. \A i \in 1..Len(ev) : i \in 1..Len(ev2) /\ ev2[i] = ev[i]
  BY <1>1
<1>b. ASSUME NEW i \in 1..Len(ev2), i \notin 1..Len(ev)
      PROVE  ev2[i].ok /\ \E j \in 1..Len(ls) : ev2[i].read = ls[j].read
  <2>1. ev2[i].ok = ok
    BY <1>1, <1>b
  <2>2. PICK a \in 1..Len(to) : ev2[i].read = to[a].read
    BY <1>1, <1>b
  <2>3. \E j \in 1..Len(ls) : to[a].read = ls[j].read
    BY DEF RaisedFor
  <2>4. QED
    BY <2>1, <2>2, <2>3
<1>2. Len(k) = Len(ls) /\ \A i \in 1..Len(ls) : k[i].read = ls[i].read
  BY DEF RaisedFor
<1>3. /\ \A i, j \in 1..Len(ls) : ls[i].read.id = ls[j].read.id => i = j
      /\ \A i \in 1..Len(q) : q[i].op = "read" =>
           /\ q[i].id \notin m
           /\ \A j \in 1..Len(ls) : ls[j].read.id # q[i].id
           /\ \A j \in 1..Len(ev) : ev[j].read.id # q[i].id
  BY DEF ReadsFit, IdsOnce
<1>4. IdsOnce(q, k, ev2, m)
  <2>1. \A i, j \in 1..Len(k) : k[i].read.id = k[j].read.id => i = j
    BY <1>2, <1>3
  <2>2. ASSUME NEW i \in 1..Len(q), q[i].op = "read"
        PROVE  /\ q[i].id \notin m
               /\ \A j \in 1..Len(k) : k[j].read.id # q[i].id
               /\ \A j \in 1..Len(ev2) : ev2[j].read.id # q[i].id
    <3>1. ASSUME NEW j \in 1..Len(ev2) PROVE ev2[j].read.id # q[i].id
      <4>1. CASE j \in 1..Len(ev)
        <5>1. ev2[j] = ev[j]
          BY <1>a, <4>1
        <5>2. ev[j].read.id # q[i].id
          BY <1>3, <2>2, <4>1
        <5>3. QED
          BY <5>1, <5>2
      <4>2. CASE j \notin 1..Len(ev)
        <5>1. PICK a \in 1..Len(ls) : ev2[j].read = ls[a].read
          BY <1>b, <4>2
        <5>2. QED
          BY <1>3, <2>2, <5>1
      <4>3. QED
        BY <4>1, <4>2
    <3>2. QED
      BY <1>2, <1>3, <2>2, <3>1
  <2>3. QED
    BY <2>1, <2>2 DEF ReadsFit, IdsOnce
<1>5. IdsIssued(q, k, ev2, m, n)
  <2>1. \A i \in 1..Len(ls) : ls[i].read.id < n
    BY DEF ReadsFit, IdsIssued
  <2>2. \A i \in 1..Len(k) : k[i].read.id < n
    BY <1>2, <2>1
  <2>3. \A i \in 1..Len(ev) : ev[i].read.id < n
    BY DEF ReadsFit, IdsIssued
  <2>4. \A i \in 1..Len(ev2) : ev2[i].read.id < n
    BY <1>a, <1>b, <2>1, <2>3
  <2>5. QED
    BY <2>2, <2>4 DEF ReadsFit, IdsIssued
<1>6. RaisedHaveEvents(k, ev2, m)
  <2>1. ASSUME NEW i \in 1..Len(ls), k[i].raised, ls[i].raised
        PROVE  \/ ls[i].read.id \in m
               \/ \E j \in 1..Len(ev2) : ev2[j].read = ls[i].read
    <3>1. \/ ls[i].read.id \in m
          \/ \E j \in 1..Len(ev) : ev[j].read = ls[i].read
      BY <2>1 DEF ReadsFit, RaisedHaveEvents
    <3>2. QED
      BY <1>a, <3>1
  <2>2. ASSUME NEW i \in 1..Len(ls), k[i].raised, ~ls[i].raised
        PROVE  \E j \in 1..Len(ev2) : ev2[j].read = ls[i].read
    <3>1. PICK j \in 1..Len(to) : to[j].read = ls[i].read
      BY <2>2 DEF RaisedFor
    <3>2. \E a \in 1..Len(ev2) : ev2[a].read = to[j].read
      BY PostedEvents
    <3>3. QED
      BY <3>1, <3>2
  <2>3. ASSUME NEW i \in 1..Len(ls), ~k[i].raised
        PROVE  /\ ls[i].read.id \notin m
               /\ \A j \in 1..Len(ev2) : ev2[j].read.id # ls[i].read.id
    <3>1. /\ ls[i].read.id \notin m
          /\ \A j \in 1..Len(ev) : ev[j].read.id # ls[i].read.id
      <4>1. ~ls[i].raised
        BY <2>3 DEF RaisedFor
      <4>2. QED
        BY <4>1 DEF ReadsFit, RaisedHaveEvents
    <3>2. ASSUME NEW j \in 1..Len(ev2), ev2[j].read.id = ls[i].read.id
          PROVE  FALSE
      <4>1. j \in (Len(ev) + 1)..Len(ev2)
        BY <1>1, <1>a, <3>1, <3>2
      <4>2. PICK a \in 1..Len(to) : ev2[j].read = to[a].read
        BY <1>1, <4>1
      <4>3. PICK b \in 1..Len(ls) : to[a].read = ls[b].read
        BY DEF RaisedFor
      <4>4. ls[b].read.id = ls[i].read.id
        BY <3>2, <4>2, <4>3
      <4>5. b = i
        BY <1>3, <4>4
      <4>6. to[a].read # ls[i].read
        BY <2>3 DEF RaisedFor
      <4>7. QED
        BY <4>3, <4>5, <4>6
    <3>3. QED
      BY <3>1, <3>2
  <2>4. QED
    BY <1>2, <2>1, <2>2, <2>3 DEF RaisedHaveEvents
<1>7. EventsFit(k, ev2)
  <2>1. EventsFit(ls, ev)
    BY DEF ReadsFit
  <2>2. \A i \in 1..Len(ls), j \in 1..Len(ev) :
          ls[i].read.id = ev[j].read.id => ls[i].read = ev[j].read
    BY <2>1 DEF EventsFit
  <2>3. ASSUME NEW i \in 1..Len(ls), NEW j \in 1..Len(ev2),
               ls[i].read.id = ev2[j].read.id
        PROVE  ls[i].read = ev2[j].read
    <3>1. CASE j \in 1..Len(ev)
      <4>1. ev2[j] = ev[j]
        BY <1>a, <3>1
      <4>2. ls[i].read.id = ev[j].read.id
        BY <2>3, <4>1
      <4>3. QED
        BY <2>2, <3>1, <4>1, <4>2
    <3>2. CASE j \notin 1..Len(ev)
      <4>1. PICK a \in 1..Len(ls) : ev2[j].read = ls[a].read
        BY <1>b, <3>2
      <4>2. a = i
        BY <1>3, <2>3, <4>1
      <4>3. QED
        BY <4>1, <4>2
    <3>3. QED
      BY <3>1, <3>2
  <2>4. ASSUME NEW i \in 1..Len(ev2), NEW j \in 1..Len(ev2),
               ev2[i].read.id = ev2[j].read.id
        PROVE  ev2[i].read = ev2[j].read
    <3>1. CASE i \notin 1..Len(ev)
      BY <1>b, <2>3, <2>4, <3>1
    <3>2. CASE j \notin 1..Len(ev)
      BY <1>b, <2>3, <2>4, <3>2
    <3>3. CASE i \in 1..Len(ev) /\ j \in 1..Len(ev)
      <4>1. \A a, b \in 1..Len(ev) :
              ev[a].read.id = ev[b].read.id => ev[a].read = ev[b].read
        BY <2>1 DEF EventsFit
      <4>2. ev2[i] = ev[i] /\ ev2[j] = ev[j]
        BY <1>a, <3>3
      <4>3. QED
        BY <2>4, <3>3, <4>1, <4>2
    <3>4. QED
      BY <3>1, <3>2, <3>3
  <2>5. ASSUME NEW j \in 1..Len(ev2), ~ev2[j].ok
        PROVE  /\ \A i \in 1..Len(k) : k[i].read.id # ev2[j].read.id
               /\ \A i \in 1..Len(ev2) : j < i => ev2[i].read.id # ev2[j].read.id
    <3>1. j \in 1..Len(ev) /\ ev2[j] = ev[j]
      BY <1>a, <1>b, <2>5
    <3>2. /\ \A i \in 1..Len(ls) : ls[i].read.id # ev[j].read.id
          /\ \A i \in 1..Len(ev) : j < i => ev[i].read.id # ev[j].read.id
      BY <2>1, <2>5, <3>1 DEF EventsFit
    <3>3. ASSUME NEW i \in 1..Len(ev2), j < i
          PROVE  ev2[i].read.id # ev2[j].read.id
      <4>1. CASE i \in 1..Len(ev)
        <5>1. ev2[i] = ev[i]
          BY <1>a, <4>1
        <5>2. QED
          BY <3>1, <3>2, <3>3, <4>1, <5>1
      <4>2. CASE i \notin 1..Len(ev)
        BY <1>b, <3>1, <3>2, <4>2
      <4>3. QED
        BY <4>1, <4>2
    <3>4. \A i \in 1..Len(k) : k[i].read.id # ev2[j].read.id
      BY <1>2, <3>1, <3>2
    <3>5. QED
      BY <3>3, <3>4
  <2>6. \A i \in 1..Len(k), j \in 1..Len(ev2) :
          k[i].read.id = ev2[j].read.id => k[i].read = ev2[j].read
    BY <1>2, <2>3
  <2>7. QED
    BY <2>4, <2>5, <2>6 DEF EventsFit
<1>8. QED
  BY <1>4, <1>5, <1>6, <1>7 DEF ReadsFit

(* All listeners get the error, and are gone.                              *)
LEMMA FitFail ==
  ASSUME NEW q, NEW ls \in Seq(Listener), NEW ev \in Seq(Store!Answer),
         NEW m, NEW n, ReadsFit(q, ls, ev, m, n),
         NEW ev2, NEW ok, NEW docs, Posted(ev, ev2, ls, ok, docs)
  PROVE  ReadsFit(q, <<>>, ev2, m, n)
<1>1. /\ Len(ev) \in Nat /\ Len(ev2) \in Nat
      /\ \A i \in 1..Len(ev) : i \in 1..Len(ev2) /\ ev2[i] = ev[i]
      /\ \A i \in 1..Len(ev2) : i \in 1..Len(ev) \/ i \in (Len(ev) + 1)..Len(ev2)
      /\ \A i \in (Len(ev) + 1)..Len(ev2) :
           /\ i \in 1..Len(ev2) /\ i \notin 1..Len(ev) /\ ev2[i].ok = ok
           /\ \E a \in 1..Len(ls) : ev2[i].read = ls[a].read
  BY PostedKinds
<1>a. \A i \in 1..Len(ev) : i \in 1..Len(ev2) /\ ev2[i] = ev[i]
  BY <1>1
<1>b. \A i \in 1..Len(ev2) : i \notin 1..Len(ev) =>
        \E j \in 1..Len(ls) : ev2[i].read = ls[j].read
  BY <1>1
<1>3. /\ \A i, j \in 1..Len(ls) : ls[i].read.id = ls[j].read.id => i = j
      /\ \A i \in 1..Len(q) : q[i].op = "read" =>
           /\ q[i].id \notin m
           /\ \A j \in 1..Len(ls) : ls[j].read.id # q[i].id
           /\ \A j \in 1..Len(ev) : ev[j].read.id # q[i].id
  BY DEF ReadsFit, IdsOnce
<1>5. Len(<<>>) = 0 /\ 1..0 = {}
  BY EmptySeq
<1>6. IdsOnce(q, <<>>, ev2, m)
  <2>1. ASSUME NEW i \in 1..Len(q), q[i].op = "read", NEW j \in 1..Len(ev2)
        PROVE  ev2[j].read.id # q[i].id
    <3>1. CASE j \in 1..Len(ev)
      BY <1>a, <1>3, <2>1, <3>1
    <3>2. CASE j \notin 1..Len(ev)
      BY <1>b, <1>3, <2>1, <3>2
    <3>3. QED
      BY <3>1, <3>2
  <2>2. QED
    BY <1>5, <2>1 DEF ReadsFit, IdsOnce
<1>7. IdsIssued(q, <<>>, ev2, m, n)
  <2>1. \A i \in 1..Len(ls) : ls[i].read.id < n
    BY DEF ReadsFit, IdsIssued
  <2>2. \A i \in 1..Len(ev) : ev[i].read.id < n
    BY DEF ReadsFit, IdsIssued
  <2>3. \A i \in 1..Len(ev2) : ev2[i].read.id < n
    BY <1>a, <1>b, <2>1, <2>2
  <2>4. QED
    BY <1>5, <2>3 DEF ReadsFit, IdsIssued
<1>8. RaisedHaveEvents(<<>>, ev2, m)
  BY <1>5 DEF RaisedHaveEvents
<1>9. EventsFit(<<>>, ev2)
  <2>1. EventsFit(ls, ev)
    BY DEF ReadsFit
  <2>2. \A i \in 1..Len(ls), j \in 1..Len(ev) :
          ls[i].read.id = ev[j].read.id => ls[i].read = ev[j].read
    BY <2>1 DEF EventsFit
  <2>3. ASSUME NEW i \in 1..Len(ls), NEW j \in 1..Len(ev2),
               ls[i].read.id = ev2[j].read.id
        PROVE  ls[i].read = ev2[j].read
    <3>1. CASE j \in 1..Len(ev)
      BY <1>a, <2>2, <2>3, <3>1
    <3>2. CASE j \notin 1..Len(ev)
      <4>1. PICK a \in 1..Len(ls) : ev2[j].read = ls[a].read
        BY <1>b, <3>2
      <4>2. a = i
        BY <1>3, <2>3, <4>1
      <4>3. QED
        BY <4>1, <4>2
    <3>3. QED
      BY <3>1, <3>2
  <2>4. ASSUME NEW i \in 1..Len(ev2), NEW j \in 1..Len(ev2),
               ev2[i].read.id = ev2[j].read.id
        PROVE  ev2[i].read = ev2[j].read
    <3>1. CASE i \notin 1..Len(ev)
      BY <1>b, <2>3, <2>4, <3>1
    <3>2. CASE j \notin 1..Len(ev)
      BY <1>b, <2>3, <2>4, <3>2
    <3>3. CASE i \in 1..Len(ev) /\ j \in 1..Len(ev)
      <4>1. \A a, b \in 1..Len(ev) :
              ev[a].read.id = ev[b].read.id => ev[a].read = ev[b].read
        BY <2>1 DEF EventsFit
      <4>2. ev2[i] = ev[i] /\ ev2[j] = ev[j]
        BY <1>a, <3>3
      <4>3. QED
        BY <2>4, <3>3, <4>1, <4>2
    <3>4. QED
      BY <3>1, <3>2, <3>3
  <2>5. ASSUME NEW j \in 1..Len(ev2), NEW i \in 1..Len(ev2), ~ev2[j].ok, j < i
        PROVE  ev2[i].read.id # ev2[j].read.id
    <3>1. CASE j \in 1..Len(ev)
      <4>1. ev2[j] = ev[j]
        BY <1>a, <3>1
      <4>2. /\ \A a \in 1..Len(ls) : ls[a].read.id # ev[j].read.id
            /\ \A a \in 1..Len(ev) : j < a => ev[a].read.id # ev[j].read.id
        BY <2>1, <2>5, <3>1, <4>1 DEF EventsFit
      <4>3. CASE i \in 1..Len(ev)
        <5>1. ev2[i] = ev[i]
          BY <1>a, <4>3
        <5>2. QED
          BY <2>5, <4>1, <4>2, <4>3, <5>1
      <4>4. CASE i \notin 1..Len(ev)
        BY <1>b, <4>1, <4>2, <4>4
      <4>5. QED
        BY <4>3, <4>4
    <3>2. CASE j \notin 1..Len(ev)
      <4>1. j \in (Len(ev) + 1)..Len(ev2) /\ i \in (Len(ev) + 1)..Len(ev2)
        BY <1>1, <2>5, <3>2
      <4>2. \A a, b \in (Len(ev) + 1)..Len(ev2) : a < b =>
              \E x, y \in 1..Len(ls) :
                x < y /\ ev2[a].read = ls[x].read /\ ev2[b].read = ls[y].read
        BY PostedEvents
      <4>3. PICK a \in 1..Len(ls), b \in 1..Len(ls) :
              a < b /\ ev2[j].read = ls[a].read /\ ev2[i].read = ls[b].read
        BY <2>5, <4>1, <4>2
      <4>4. a # b
        BY <4>3
      <4>5. QED
        BY <1>3, <4>3, <4>4
    <3>3. QED
      BY <3>1, <3>2
  <2>6. QED
    BY <1>5, <2>4, <2>5 DEF EventsFit
<1>10. QED
  BY <1>6, <1>7, <1>8, <1>9 DEF ReadsFit

(* A listener is removed.                                                  *)
LEMMA FitRemove ==
  ASSUME NEW q, NEW ls \in Seq(Listener), NEW ev, NEW m, NEW n,
         ReadsFit(q, ls, ev, m, n), NEW I, Indices(I, ls)
  PROVE  ReadsFit(q, Entries(ls, I), ev, m, n)
<1>1. PICK k : k = Entries(ls, I)
  OBVIOUS
<1>2. /\ k \in Seq(Listener)
      /\ \A a \in 1..Len(k) : \E i \in 1..Len(ls) : k[a] = ls[i]
  <2>1. k \in Seq(Listener) /\ \A a \in 1..Len(k) : \E i \in I : k[a] = ls[i]
    BY <1>1, EntriesRange
  <2>2. QED
    BY <2>1 DEF Indices
<1>3. ASSUME NEW a \in 1..Len(k), NEW b \in 1..Len(k), a < b
      PROVE  k[a].read.id # k[b].read.id
  <2>1. PICK i \in 1..Len(ls), j \in 1..Len(ls) :
          i < j /\ k[a] = ls[i] /\ k[b] = ls[j]
    <3>1. \E i, j \in I : i < j /\ k[a] = ls[i] /\ k[b] = ls[j]
      BY <1>1, <1>3, EntriesOrder
    <3>2. QED
      BY <3>1 DEF Indices
  <2>2. i # j
    BY <2>1
  <2>3. QED
    BY <2>1, <2>2 DEF ReadsFit, IdsOnce
<1>4. \A a, b \in 1..Len(k) : k[a].read.id = k[b].read.id => a = b
  <2>1. \A a, b \in 1..Len(k) : a < b \/ b < a \/ a = b
    BY <1>2, LenProperties
  <2>2. QED
    BY <1>3, <2>1
<1>5. IdsOnce(q, k, ev, m)
  BY <1>2, <1>4 DEF ReadsFit, IdsOnce
<1>6. IdsIssued(q, k, ev, m, n)
  BY <1>2 DEF ReadsFit, IdsIssued
<1>7. RaisedHaveEvents(k, ev, m)
  <2> SUFFICES ASSUME NEW a \in 1..Len(k)
               PROVE  IF k[a].raised
                      THEN \/ k[a].read.id \in m
                           \/ \E j \in 1..Len(ev) : ev[j].read = k[a].read
                      ELSE /\ k[a].read.id \notin m
                           /\ \A j \in 1..Len(ev) : ev[j].read.id # k[a].read.id
    BY DEF RaisedHaveEvents
  <2>1. PICK i \in 1..Len(ls) : k[a] = ls[i]
    BY <1>2
  <2>2. IF ls[i].raised
        THEN \/ ls[i].read.id \in m
             \/ \E j \in 1..Len(ev) : ev[j].read = ls[i].read
        ELSE /\ ls[i].read.id \notin m
             /\ \A j \in 1..Len(ev) : ev[j].read.id # ls[i].read.id
    BY DEF ReadsFit, RaisedHaveEvents
  <2>3. QED
    BY <2>1, <2>2
<1>8. EventsFit(k, ev)
  <2>1. EventsFit(ls, ev)
    BY DEF ReadsFit
  <2>2. ASSUME NEW a \in 1..Len(k), NEW j \in 1..Len(ev)
        PROVE  /\ k[a].read.id = ev[j].read.id => k[a].read = ev[j].read
               /\ ~ev[j].ok => k[a].read.id # ev[j].read.id
    <3>1. PICK i \in 1..Len(ls) : k[a] = ls[i]
      BY <1>2
    <3>2. /\ ls[i].read.id = ev[j].read.id => ls[i].read = ev[j].read
          /\ ~ev[j].ok => ls[i].read.id # ev[j].read.id
      BY <2>1 DEF EventsFit
    <3>3. QED
      BY <3>1, <3>2
  <2>3. QED
    BY <2>1, <2>2 DEF EventsFit
<1>9. QED
  BY <1>1, <1>5, <1>6, <1>7, <1>8 DEF ReadsFit

(* The main queue runs its oldest event: if it is a result, its listener   *)
(* is muted then.                                                          *)
LEMMA FitTake ==
  ASSUME NEW q, NEW ls, NEW ev \in Seq(Store!Answer), ev # <<>>,
         NEW m, NEW n, ReadsFit(q, ls, ev, m, n),
         NEW m2, m2 = m \/ m2 = m \cup {Head(ev).read.id},
         Head(ev).ok => Head(ev).read.id \in m2
  PROVE  ReadsFit(q, ls, Tail(ev), m2, n)
<1>1. PICK r, e : r = Tail(ev) /\ e = ev[1]
  OBVIOUS
<1>2. /\ Len(ev) \in Nat \ {0} /\ Len(r) = Len(ev) - 1
      /\ 1 \in 1..Len(ev) /\ Head(ev) = e
      /\ \A i \in 1..Len(r) : i + 1 \in 1..Len(ev) /\ r[i] = ev[i + 1]
  BY <1>1, Taken
<1>3. \A i \in 1..Len(r) : \E j \in 1..Len(ev) : j = i + 1 /\ r[i] = ev[j]
  BY <1>2
<1>4. \A j \in 1..Len(ev) : j = 1 \/ \E i \in 1..Len(r) : r[i] = ev[j]
  <2>1. ASSUME NEW j \in 1..Len(ev), j # 1
        PROVE  \E i \in 1..Len(r) : r[i] = ev[j]
    <3>1. j - 1 \in 1..Len(r) /\ (j - 1) + 1 = j
      BY <1>2, <2>1
    <3>2. r[j - 1] = ev[(j - 1) + 1]
      BY <1>2, <3>1
    <3>3. QED
      BY <3>1, <3>2
  <2>2. QED
    BY <2>1
<1>5. m2 = m \/ m2 = m \cup {e.read.id}
  BY <1>2
<1>6. IdsOnce(q, ls, r, m2)
  BY <1>1, <1>2, <1>3, <1>5 DEF ReadsFit, IdsOnce
<1>7. IdsIssued(q, ls, r, m2, n)
  <2>1. e.read.id < n
    BY <1>1, <1>2 DEF ReadsFit, IdsIssued
  <2>2. QED
    BY <1>3, <1>5, <2>1 DEF ReadsFit, IdsIssued
<1>8. EventsFit(ls, r)
  <2>1. EventsFit(ls, ev)
    BY DEF ReadsFit
  <2>2. \A i, j \in 1..Len(r) :
          r[i].read.id = r[j].read.id => r[i].read = r[j].read
    BY <1>2, <2>1 DEF EventsFit
  <2>3. \A i \in 1..Len(ls), j \in 1..Len(r) :
          ls[i].read.id = r[j].read.id => ls[i].read = r[j].read
    BY <1>2, <2>1 DEF EventsFit
  <2>4. ASSUME NEW j \in 1..Len(r), ~r[j].ok
        PROVE  /\ \A i \in 1..Len(ls) : ls[i].read.id # r[j].read.id
               /\ \A k \in 1..Len(r) : j < k => r[k].read.id # r[j].read.id
    <3>1. PICK a \in 1..Len(ev) : a = j + 1 /\ r[j] = ev[a]
      BY <1>3
    <3>2. /\ \A i \in 1..Len(ls) : ls[i].read.id # ev[a].read.id
          /\ \A k \in 1..Len(ev) : a < k => ev[k].read.id # ev[a].read.id
      BY <2>1, <2>4, <3>1 DEF EventsFit
    <3>3. ASSUME NEW k \in 1..Len(r), j < k PROVE r[k].read.id # r[j].read.id
      <4>1. PICK b \in 1..Len(ev) : b = k + 1 /\ r[k] = ev[b]
        BY <1>3
      <4>2. a < b
        BY <3>1, <3>3, <4>1
      <4>3. QED
        BY <3>1, <3>2, <4>1, <4>2
    <3>4. QED
      BY <3>1, <3>2, <3>3
  <2>5. QED
    BY <2>2, <2>3, <2>4 DEF EventsFit
<1>9. RaisedHaveEvents(ls, r, m2)
  <2>1. ASSUME NEW i \in 1..Len(ls), ls[i].raised
        PROVE  \/ ls[i].read.id \in m2
               \/ \E j \in 1..Len(r) : r[j].read = ls[i].read
    <3>1. \/ ls[i].read.id \in m
          \/ \E j \in 1..Len(ev) : ev[j].read = ls[i].read
      BY <2>1 DEF ReadsFit, RaisedHaveEvents
    <3>2. CASE ls[i].read.id \in m
      BY <1>5, <3>2
    <3>3. CASE \E j \in 1..Len(ev) : ev[j].read = ls[i].read
      <4>1. PICK j \in 1..Len(ev) : ev[j].read = ls[i].read
        BY <3>3
      <4>2. CASE j = 1
        <5>1. e.ok
          BY <1>1, <1>2, <4>1, <4>2 DEF ReadsFit, EventsFit
        <5>2. QED
          BY <1>1, <1>2, <4>1, <4>2, <5>1
      <4>3. CASE j # 1
        BY <1>4, <4>1, <4>3
      <4>4. QED
        BY <4>2, <4>3
    <3>4. QED
      BY <3>1, <3>2, <3>3
  <2>2. ASSUME NEW i \in 1..Len(ls), ~ls[i].raised
        PROVE  /\ ls[i].read.id \notin m2
               /\ \A j \in 1..Len(r) : r[j].read.id # ls[i].read.id
    <3>1. /\ ls[i].read.id \notin m
          /\ \A j \in 1..Len(ev) : ev[j].read.id # ls[i].read.id
      BY <2>2 DEF ReadsFit, RaisedHaveEvents
    <3>2. QED
      BY <1>1, <1>2, <1>3, <1>5, <3>1
  <2>3. QED
    BY <2>1, <2>2 DEF RaisedHaveEvents
<1>10. QED
  BY <1>1, <1>6, <1>7, <1>8, <1>9 DEF ReadsFit

(* Of the answers the oldest is taken with its event; the events of muted  *)
(* listeners are not answers.                                              *)
LEMMA FirstTake ==
  ASSUME NEW ls, NEW ev \in Seq(Store!Answer), ev # <<>>, EventsFit(ls, ev),
         NEW m, NEW m2, m2 = m \/ m2 = m \cup {Head(ev).read.id},
         Head(ev).ok => Head(ev).read.id \in m2
  PROVE  /\ Head(ev).read.id \in m => First(Tail(ev), m2) = First(ev, m)
         /\ Head(ev).read.id \notin m =>
              First(ev, m) # <<>> /\ First(Tail(ev), m2) = Tail(First(ev, m))
<1>1. PICK r, e : r = Tail(ev) /\ e = ev[1]
  OBVIOUS
<1>2. /\ Len(ev) \in Nat \ {0} /\ Len(r) = Len(ev) - 1
      /\ 1 \in 1..Len(ev) /\ Head(ev) = e
      /\ \A i \in 1..Len(r) : i + 1 \in 1..Len(ev) /\ r[i] = ev[i + 1]
  BY <1>1, Taken
<1>3. PICK I, J : I = FirstIndices(ev, m) /\ J = FirstIndices(r, m2)
  OBVIOUS
<1>4. /\ \A i, j \in 1..Len(ev) :
           ev[i].read.id = ev[j].read.id => ev[i].read = ev[j].read
      /\ ~e.ok => \A k \in 1..Len(ev) : 1 < k => ev[k].read.id # e.read.id
  BY <1>1, <1>2 DEF EventsFit
<1>5. ASSUME NEW i \in 1..Len(r), i \in J PROVE i + 1 \in I
  <2>1. PICK a \in 1..Len(ev) : a = i + 1 /\ r[i] = ev[a] /\ 1 < a
    BY <1>2
  <2>2. ev[a].read.id \notin m2
    BY <1>3, <1>5, <2>1 DEF FirstIndices
  <2>3. ev[a].read.id # e.read.id
    <3>1. CASE e.ok
      BY <1>2, <2>2, <3>1
    <3>2. CASE ~e.ok
      BY <1>4, <2>1, <3>2
    <3>3. QED
      BY <3>1, <3>2
  <2>4. ASSUME NEW j \in 1..(a - 1) PROVE ev[j].read # ev[a].read
    <3>1. CASE j = 1
      BY <1>1, <2>3, <3>1
    <3>2. CASE j # 1
      <4>1. j - 1 \in 1..(i - 1) /\ j - 1 \in 1..Len(r) /\ (j - 1) + 1 = j
        BY <1>2, <2>1, <3>2
      <4>2. r[j - 1] = ev[j]
        BY <1>2, <4>1
      <4>3. r[j - 1].read # r[i].read
        BY <1>3, <1>5, <4>1 DEF FirstIndices
      <4>4. QED
        BY <2>1, <4>2, <4>3
    <3>3. QED
      BY <3>1, <3>2
  <2>5. ev[a].read.id \notin m
    BY <2>2
  <2>6. QED
    BY <1>3, <2>1, <2>4, <2>5 DEF FirstIndices
<1>6. ASSUME NEW i \in 1..Len(r), i + 1 \in I PROVE i \in J
  <2>1. PICK a \in 1..Len(ev) : a = i + 1 /\ r[i] = ev[a] /\ 1 \in 1..(a - 1)
    BY <1>2
  <2>2. /\ ev[a].read.id \notin m
        /\ \A j \in 1..(a - 1) : ev[j].read # ev[a].read
    BY <1>3, <1>6, <2>1 DEF FirstIndices
  <2>3. ev[a].read.id # e.read.id
    BY <1>1, <1>2, <1>4, <2>1, <2>2
  <2>4. ev[a].read.id \notin m2
    BY <1>2, <2>2, <2>3
  <2>5. ASSUME NEW j \in 1..(i - 1) PROVE r[j].read # r[i].read
    <3>1. j \in 1..Len(r) /\ j + 1 \in 1..(a - 1)
      BY <1>2, <2>1
    <3>2. r[j] = ev[j + 1]
      BY <1>2, <3>1
    <3>3. QED
      BY <2>1, <2>2, <3>1, <3>2
  <2>6. QED
    BY <1>3, <2>1, <2>4, <2>5 DEF FirstIndices
<1>7. J = {i \in 1..Len(Tail(ev)) : i + 1 \in I}
  <2>1. \A i \in J : i \in 1..Len(r)
    BY <1>3 DEF FirstIndices
  <2>2. QED
    BY <1>1, <1>5, <1>6, <2>1
<1>8. 1 \in I <=> e.read.id \notin m
  <2>1. 1..(1 - 1) = {}
    OBVIOUS
  <2>2. QED
    BY <1>1, <1>2, <1>3, <2>1 DEF FirstIndices
<1>9. Indices(I, ev)
  BY <1>3 DEF Indices, FirstIndices
<1>10. PICK p : p = Entries(ev, I)
  OBVIOUS
<1>11. /\ 1 \notin I => Entries(r, J) = p
       /\ 1 \in I => p # <<>> /\ Entries(r, J) = Tail(p)
  <2>1. /\ 1 \notin I => Entries(Tail(ev), J) = p
        /\ 1 \in I => /\ p # <<>> /\ Head(p) = Head(ev)
                      /\ Entries(Tail(ev), J) = Tail(p)
    BY <1>7, <1>9, <1>10, EntriesTail
  <2>2. QED
    BY <1>1, <2>1
<1>12. p = First(ev, m) /\ Entries(r, J) = First(r, m2)
  BY <1>3, <1>10 DEF First
<1>13. QED
  BY <1>1, <1>2, <1>8, <1>11, <1>12

(* A process has just begun.                                               *)
LEMMA FitBegin ==
  ASSUME NEW t \in Tasks, t.op # "read", t.op # "unlisten", NEW n
  PROVE  ReadsFit(<<t>>, <<>>, <<>>, {}, n)
<1>1. Len(<<>>) = 0 /\ 1..0 = {}
  BY EmptySeq
<1>2. Len(<<t>>) = 1 /\ <<t>>[1] = t /\ \A i \in 1..1 : i = 1
  OBVIOUS
<1>3. \A i \in 1..Len(<<t>>) : <<t>>[i].op # "read" /\ <<t>>[i].op # "unlisten"
  BY <1>2
<1>4. QED
  BY <1>1, <1>3
  DEF ReadsFit, IdsOnce, IdsIssued, RaisedHaveEvents, EventsFit

-----------------------------------------------------------------------------
\* The listeners that wait.

UnraisedIndices(ls) == {i \in 1..Len(ls) : ~ls[i].raised}
UnraisedOf(ls) == Entries(ls, UnraisedIndices(ls))
RaisedIndices(ls) == {i \in 1..Len(ls) : ls[i].raised}
RaisedOf(ls) == Entries(ls, RaisedIndices(ls))
AllRaisedOf(ls) == [i \in 1..Len(ls) |-> [ls[i] EXCEPT !.raised = TRUE]]
ReadsOf(ls) == [i \in 1..Len(ls) |-> ls[i].read]
WaitingOf(ls) == ReadsOf(UnraisedOf(ls))

(* The listeners of the client, as the operators on listeners have them.   *)
LEMMA UnraisedIs ==
  /\ Unraised = UnraisedOf(listeners) /\ Raised = RaisedOf(listeners)
  /\ AllRaised = AllRaisedOf(listeners) /\ WaitingReads = WaitingOf(listeners)
  BY DEF Unraised, UnraisedOf, UnraisedIndices, Raised, RaisedOf, RaisedIndices,
         AllRaised, AllRaisedOf, WaitingReads, WaitingOf, ReadsOf

(* The raised listeners, and those that wait.                              *)
LEMMA UnraisedRange ==
  ASSUME NEW ls \in Seq(Listener), NEW u, u = UnraisedOf(ls)
  PROVE  /\ u \in Seq(Listener)
         /\ \A k \in 1..Len(u) : \E i \in UnraisedIndices(ls) : u[k] = ls[i]
         /\ \A i \in UnraisedIndices(ls) : \E k \in 1..Len(u) : u[k] = ls[i]
<1>1. PICK I : I = UnraisedIndices(ls)
  OBVIOUS
<1>2. PICK r : r = Entries(ls, I)
  OBVIOUS
<1>3. /\ r \in Seq(Listener)
      /\ \A k \in 1..Len(r) : \E i \in I : r[k] = ls[i]
      /\ \A i \in I : \E k \in 1..Len(r) : r[k] = ls[i]
  <2>1. Indices(I, ls)
    BY <1>1 DEF Indices, UnraisedIndices
  <2>2. r \in Seq(Listener)
    BY <1>2, <2>1, EntriesPicks
  <2>3. \A k \in 1..Len(r) : \E i \in I : r[k] = ls[i]
    BY <1>2, <2>1, EntriesRange
  <2>4. \A i \in I : \E k \in 1..Len(r) : r[k] = ls[i]
    BY <1>2, <2>1, EntriesRange
  <2>5. QED
    BY <2>2, <2>3, <2>4
<1>4. u = r
  BY <1>1, <1>2 DEF UnraisedOf
<1>5. QED
  BY <1>1, <1>3, <1>4

(* The raised listeners are those of ls that are raised.                   *)
LEMMA RaisedRange ==
  ASSUME NEW ls \in Seq(Listener), NEW u, u = RaisedOf(ls)
  PROVE  /\ u \in Seq(Listener)
         /\ \A k \in 1..Len(u) : \E i \in RaisedIndices(ls) : u[k] = ls[i]
         /\ \A i \in RaisedIndices(ls) : \E k \in 1..Len(u) : u[k] = ls[i]
<1>1. PICK I : I = RaisedIndices(ls)
  OBVIOUS
<1>2. Indices(I, ls) /\ u = Entries(ls, I)
  BY <1>1 DEF Indices, RaisedIndices, RaisedOf
<1>3. u \in Seq(Listener)
  BY <1>2, EntriesPicks
<1>4. \A k \in 1..Len(u) : \E i \in I : u[k] = ls[i]
  BY <1>2, EntriesRange
<1>5. \A i \in I : \E k \in 1..Len(u) : u[k] = ls[i]
  BY <1>2, EntriesRange
<1>6. QED
  BY <1>1, <1>3, <1>4, <1>5

(* Raising all keeps the number of listeners and their reads.              *)
LEMMA AllRaisedRange ==
  ASSUME NEW ls \in Seq(Listener), NEW k, k = AllRaisedOf(ls)
  PROVE  /\ k \in Seq(Listener) /\ Len(k) = Len(ls)
         /\ \A i \in 1..Len(ls) : k[i].read = ls[i].read /\ k[i].raised
         /\ \A i \in 1..Len(k) : k[i].raised
<1>1. PICK n \in Nat : n = Len(ls)
  BY LenProperties
<1>2. \A i \in 1..n : ls[i] \in Listener
  BY <1>1, ElementOfSeq
<1>3. k \in [1..n -> Listener]
  BY <1>1, <1>2 DEF AllRaisedOf, Listener
<1>4. k \in Seq(Listener) /\ Len(k) = n
  BY <1>3, FunctionIsSeq
<1>5. \A i \in 1..n : k[i].read = ls[i].read /\ k[i].raised
  BY <1>1, <1>2 DEF AllRaisedOf, Listener
<1>6. QED
  BY <1>1, <1>4, <1>5

(* Without waiting listeners there are no waiting reads.                   *)
LEMMA WaitingEmpty ==
  ASSUME NEW ls \in Seq(Listener)
  PROVE  /\ WaitingOf(ls) \in Seq(Store!Read)
         /\ WaitingOf(ls) = <<>> <=> UnraisedOf(ls) = <<>>
         /\ WaitingOf(ls) = <<>> <=> \A i \in 1..Len(ls) : ls[i].raised
<1>1. PICK I, u : I = UnraisedIndices(ls) /\ u = UnraisedOf(ls)
  OBVIOUS
<1>2. Indices(I, ls) /\ u = Entries(ls, I)
  BY <1>1 DEF Indices, UnraisedIndices, UnraisedOf
<1>3. u \in Seq(Listener)
  BY <1>2, EntriesPicks
<1>4. PICK n \in Nat : n = Len(u)
  BY <1>3, LenProperties
<1>5. \A k \in 1..n : u[k] \in Listener
  BY <1>3, <1>4, ElementOfSeq
<1>6. ReadsOf(u) \in [1..n -> Store!Read]
  BY <1>4, <1>5 DEF ReadsOf, Listener
<1>7. ReadsOf(u) \in Seq(Store!Read) /\ Len(ReadsOf(u)) = n
  BY <1>6, FunctionIsSeq
<1>8. ReadsOf(u) = <<>> <=> n = 0
  BY <1>7, EmptySeq
<1>9. u = <<>> <=> n = 0
  BY <1>3, <1>4, EmptySeq
<1>10. u = <<>> <=> I = {}
  BY <1>2, EntriesEmpty
<1>11. I = {} <=> \A i \in 1..Len(ls) : ls[i].raised
  BY <1>1 DEF UnraisedIndices
<1>12. WaitingOf(ls) = ReadsOf(u)
  BY <1>1 DEF WaitingOf
<1>13. QED
  BY <1>1, <1>7, <1>8, <1>9, <1>10, <1>11, <1>12

(* When all are raised, nobody waits.                                      *)
LEMMA NobodyWaits ==
  ASSUME NEW ls \in Seq(Listener)
  PROVE  WaitingOf(AllRaisedOf(ls)) = <<>> /\ UnraisedOf(AllRaisedOf(ls)) = <<>>
<1>1. PICK k : k = AllRaisedOf(ls)
  OBVIOUS
<1>2. k \in Seq(Listener) /\ \A i \in 1..Len(k) : k[i].raised
  BY <1>1, AllRaisedRange
<1>3. WaitingOf(k) = <<>> /\ UnraisedOf(k) = <<>>
  BY <1>2, WaitingEmpty
<1>4. QED
  BY <1>1, <1>3

(* A new listener waits last, or not at all.                               *)
LEMMA WaitingAppend ==
  ASSUME NEW ls \in Seq(Listener), NEW l \in Listener
  PROVE  /\ l.raised => WaitingOf(Append(ls, l)) = WaitingOf(ls)
         /\ ~l.raised =>
              WaitingOf(Append(ls, l)) = Append(WaitingOf(ls), l.read)
<1>1. PICK r, I, J : /\ r = Append(ls, l) /\ I = UnraisedIndices(ls)
                     /\ J = UnraisedIndices(r)
  OBVIOUS
<1>2. /\ r \in Seq(Listener) /\ Len(ls) \in Nat /\ Len(r) = Len(ls) + 1
      /\ r[Len(ls) + 1] = l /\ \A i \in 1..Len(ls) : r[i] = ls[i]
  BY <1>1, AppendProperties, LenProperties
<1>3. PICK n \in Nat : n = Len(ls)
  BY <1>2
<1>4. \A i \in 1..(n + 1) : (i \in 1..n /\ i # n + 1) \/ i = n + 1
  OBVIOUS
<1>5. Indices(I, ls) /\ \A i \in I : i \in 1..n
  BY <1>1, <1>3 DEF UnraisedIndices, Indices
<1>6. \A i \in 1..n : i \in J <=> i \in I
  BY <1>1, <1>2, <1>3, <1>4 DEF UnraisedIndices
<1>7. n + 1 \in J <=> ~l.raised
  BY <1>1, <1>2, <1>3 DEF UnraisedIndices
<1>8. J \subseteq 1..(n + 1)
  BY <1>1, <1>2, <1>3 DEF UnraisedIndices
<1>9. PICK u : u = Entries(ls, I)
  OBVIOUS
<1>10. UnraisedOf(ls) = u /\ UnraisedOf(r) = Entries(r, J)
  BY <1>1, <1>9 DEF UnraisedOf
<1>11. Entries(r, I) = u /\ Entries(r, I \cup {n + 1}) = Append(u, l)
  <2>1. /\ Entries(Append(ls, l), I) = Entries(ls, I)
        /\ Entries(Append(ls, l), I \cup {Len(ls) + 1}) = Append(Entries(ls, I), l)
    BY <1>5, EntriesAppend
  <2>2. QED
    BY <1>1, <1>3, <1>9, <2>1
<1>12. CASE l.raised
  <2>1. \A i : i \in J <=> i \in I
    BY <1>4, <1>5, <1>6, <1>7, <1>8, <1>12
  <2>2. J = I
    BY <2>1
  <2>3. QED
    BY <1>1, <1>10, <1>11, <1>12, <2>2 DEF WaitingOf
<1>13. CASE ~l.raised
  <2>1. \A i : i \in J <=> i \in I \cup {n + 1}
    BY <1>4, <1>5, <1>6, <1>7, <1>8, <1>13
  <2>2. J = I \cup {n + 1}
    BY <2>1
  <2>3. PICK p : p = Append(u, l)
    OBVIOUS
  <2>4. UnraisedOf(r) = p
    BY <1>10, <1>11, <2>2, <2>3
  <2>5. u \in Seq(Listener)
    BY <1>5, <1>9, EntriesPicks
  <2>6. PICK k \in Nat : k = Len(u)
    BY <2>5, LenProperties
  <2>7. /\ p \in Seq(Listener) /\ Len(p) = k + 1 /\ p[k + 1] = l
        /\ \A i \in 1..k : p[i] = u[i]
    BY <2>3, <2>5, <2>6, AppendProperties
  <2>8. ReadsOf(u) \in Seq(Store!Read) /\ Len(ReadsOf(u)) = k
    <3>1. \A i \in 1..k : u[i] \in Listener
      BY <2>5, <2>6, ElementOfSeq
    <3>2. ReadsOf(u) \in [1..k -> Store!Read]
      BY <2>6, <3>1 DEF ReadsOf, Listener
    <3>3. QED
      BY <3>2, FunctionIsSeq
  <2>9. l.read \in Store!Read
    BY DEF Listener
  <2>10. PICK a : a = Append(ReadsOf(u), l.read)
    OBVIOUS
  <2>11. /\ a \in Seq(Store!Read) /\ Len(a) = k + 1 /\ a[k + 1] = l.read
         /\ \A i \in 1..k : a[i] = ReadsOf(u)[i]
    BY <2>8, <2>9, <2>10, AppendProperties
  <2>12. \A i \in 1..k : ReadsOf(u)[i] = u[i].read
    BY <2>6 DEF ReadsOf
  <2>13. \A i \in 1..(k + 1) : i \in 1..k \/ i = k + 1
    OBVIOUS
  <2>14. \A i \in 1..(k + 1) : a[i] = p[i].read
    BY <2>7, <2>11, <2>12, <2>13
  <2>15. a = [i \in 1..(k + 1) |-> p[i].read]
    BY <2>11, <2>14, LenProperties
  <2>16. a = ReadsOf(p)
    BY <2>7, <2>15 DEF ReadsOf
  <2>17. QED
    BY <1>1, <1>10, <1>13, <2>4, <2>10, <2>16 DEF WaitingOf
<1>14. QED
  BY <1>12, <1>13

(* Nobody who waits is removed with a listener that does not.              *)
LEMMA WaitingRemove ==
  ASSUME NEW ls \in Seq(Listener), NEW I, Indices(I, ls),
         \A i \in 1..Len(ls) : ~ls[i].raised => i \in I
  PROVE  /\ WaitingOf(Entries(ls, I)) = WaitingOf(ls)
         /\ UnraisedOf(Entries(ls, I)) = UnraisedOf(ls)
<1>1. PICK r : r = Entries(ls, I)
  OBVIOUS
<1>2. PICK T : T = {l \in Listener : ~l.raised}
  OBVIOUS
<1>3. r \in Seq(Listener)
  BY <1>1, EntriesPicks
<1>4. UnraisedIndices(r) = Those(1..Len(r), r, T)
  <2>1. \A i \in 1..Len(r) : r[i] \in Listener
    BY <1>3, ElementOfSeq
  <2>2. QED
    BY <1>2, <2>1 DEF UnraisedIndices, Those
<1>5. UnraisedIndices(ls) = Those(I, ls, T)
  <2>1. \A i \in 1..Len(ls) : ls[i] \in Listener
    BY ElementOfSeq
  <2>2. \A i \in I : i \in 1..Len(ls)
    BY DEF Indices
  <2>3. QED
    BY <1>2, <2>1, <2>2 DEF UnraisedIndices, Those
<1>6. Entries(r, Those(1..Len(r), r, T)) = Entries(ls, Those(I, ls, T))
  BY <1>1, EntriesOfEntries
<1>7. UnraisedOf(r) = UnraisedOf(ls)
  BY <1>4, <1>5, <1>6 DEF UnraisedOf
<1>8. QED
  BY <1>1, <1>7 DEF WaitingOf

(* The answers that tell these reads.                                      *)
Told(reads, ok, docs) == [i \in 1..Len(reads) |-> Event(reads[i], ok, docs)]

Joined(s, t) == s \o t

(* Results and errors, as EventStore writes them, are answers that tell.   *)
LEMMA ToldIs ==
  ASSUME NEW reads, NEW docs
  PROVE  /\ Store!Raise(reads, docs) = Told(reads, TRUE, docs)
         /\ Store!RaiseError(reads) = Told(reads, FALSE, {})
  BY DEF Store!Raise, Store!RaiseError, Told, Event

(* Each listener has its read.                                             *)
LEMMA ReadsOfLen ==
  ASSUME NEW ls \in Seq(Listener)
  PROVE  /\ ReadsOf(ls) \in Seq(Store!Read) /\ Len(ReadsOf(ls)) = Len(ls)
         /\ \A k \in 1..Len(ls) : ReadsOf(ls)[k] = ls[k].read
<1>1. PICK n \in Nat : n = Len(ls)
  BY LenProperties
<1>2. \A k \in 1..n : ls[k] \in Listener
  BY <1>1, ElementOfSeq
<1>3. ReadsOf(ls) \in [1..n -> Store!Read]
  BY <1>1, <1>2 DEF ReadsOf, Listener
<1>4. ReadsOf(ls) \in Seq(Store!Read) /\ Len(ReadsOf(ls)) = n
  BY <1>3, FunctionIsSeq
<1>5. QED
  BY <1>1, <1>4 DEF ReadsOf

(* Answers tells the reads of the listeners chosen.                        *)
LEMMA AnswersTell ==
  ASSUME NEW ls \in Seq(Listener), NEW I, Indices(I, ls), NEW ok, NEW docs
  PROVE  Answers(ls, I, ok, docs) = Told(ReadsOf(Entries(ls, I)), ok, docs)
<1>1. PICK p : p = Entries(ls, I)
  OBVIOUS
<1>2. p \in Seq(Listener)
  BY <1>1, EntriesPicks
<1>3. Len(ReadsOf(p)) = Len(p) /\ \A k \in 1..Len(p) : ReadsOf(p)[k] = p[k].read
  BY <1>2, ReadsOfLen
<1>4. Told(ReadsOf(p), ok, docs) = [k \in 1..Len(p) |-> Event(p[k].read, ok, docs)]
  BY <1>3 DEF Told
<1>5. QED
  BY <1>1, <1>4 DEF Answers

(* Exactly the listeners that were not raised are to get a first event.    *)
LEMMA AwaitingUnraised ==
  ASSUME NEW ls, NEW ev, NEW m, RaisedHaveEvents(ls, ev, m)
  PROVE  Awaiting(ls, ev, m) = UnraisedIndices(ls)
<1>1. ASSUME NEW i \in 1..Len(ls), ls[i].raised
      PROVE  ~(/\ ls[i].read.id \notin m
               /\ \A j \in 1..Len(ev) : ev[j].read # ls[i].read)
  BY <1>1 DEF RaisedHaveEvents
<1>2. ASSUME NEW i \in 1..Len(ls), ~ls[i].raised
      PROVE  /\ ls[i].read.id \notin m
             /\ \A j \in 1..Len(ev) : ev[j].read # ls[i].read
  <2>1. /\ ls[i].read.id \notin m
        /\ \A j \in 1..Len(ev) : ev[j].read.id # ls[i].read.id
    BY <1>2 DEF RaisedHaveEvents
  <2>2. QED
    BY <2>1
<1>3. \A i \in 1..Len(ls) :
        ~ls[i].raised <=> /\ ls[i].read.id \notin m
                          /\ \A j \in 1..Len(ev) : ev[j].read # ls[i].read
  BY <1>1, <1>2
<1>4. QED
  BY <1>3 DEF Awaiting, UnraisedIndices

(* No two of the listeners chosen are of one read.                         *)
LEMMA ChosenOnce ==
  ASSUME NEW q, NEW ls \in Seq(Listener), NEW ev, NEW m, IdsOnce(q, ls, ev, m),
         NEW I, Indices(I, ls), NEW to, to = Entries(ls, I)
  PROVE  ReadOnce(to)
<1>1. ASSUME NEW a \in 1..Len(to), NEW b \in 1..Len(to), a < b
      PROVE  to[a].read # to[b].read
  <2>1. PICK i \in I, j \in I : i < j /\ to[a] = ls[i] /\ to[b] = ls[j]
    BY <1>1, EntriesOrder
  <2>2. i \in 1..Len(ls) /\ j \in 1..Len(ls) /\ i # j
    BY <2>1 DEF Indices
  <2>3. QED
    BY <2>1, <2>2 DEF IdsOnce
<1>2. to \in Seq(Listener)
  BY EntriesPicks
<1>3. \A a, b \in 1..Len(to) : a < b \/ b < a \/ a = b
  BY <1>2, LenProperties
<1>4. QED
  BY <1>1, <1>3 DEF ReadOnce

(* A post to all the listeners answers those that wait.                    *)
LEMMA PostToAll ==
  ASSUME NEW q, NEW ls \in Seq(Listener), NEW ev \in Seq(Store!Answer),
         NEW m, NEW n, ReadsFit(q, ls, ev, m, n),
         NEW ev2, NEW ok, NEW docs, Posted(ev, ev2, ls, ok, docs)
  PROVE  First(ev2, m) = Joined(First(ev, m), Told(WaitingOf(ls), ok, docs))
<1>1. ReadOnce(ls)
  BY DEF ReadsFit, IdsOnce, ReadOnce
<1>2. PICK I : I = UnraisedIndices(ls)
  OBVIOUS
<1>3. Awaiting(ls, ev, m) = I
  BY <1>2, AwaitingUnraised DEF ReadsFit
<1>4. Indices(I, ls)
  BY <1>2 DEF Indices, UnraisedIndices
<1>5. First(ev2, m) = First(ev, m) \o Answers(ls, I, ok, docs)
  BY <1>1, <1>3, PostedFirst
<1>6. Answers(ls, I, ok, docs) = Told(ReadsOf(Entries(ls, I)), ok, docs)
  BY <1>4, AnswersTell
<1>7. QED
  BY <1>2, <1>5, <1>6 DEF WaitingOf, UnraisedOf, Joined

(* So does a post to those that wait alone.                                *)
LEMMA PostToUnraised ==
  ASSUME NEW q, NEW ls \in Seq(Listener), NEW ev \in Seq(Store!Answer),
         NEW m, NEW n, ReadsFit(q, ls, ev, m, n),
         NEW to, to = UnraisedOf(ls),
         NEW ev2, NEW ok, NEW docs, Posted(ev, ev2, to, ok, docs)
  PROVE  First(ev2, m) = Joined(First(ev, m), Told(WaitingOf(ls), ok, docs))
<1>1. PICK I : I = UnraisedIndices(ls)
  OBVIOUS
<1>2. Indices(I, ls) /\ to = Entries(ls, I)
  BY <1>1 DEF Indices, UnraisedIndices, UnraisedOf
<1>3. ReadOnce(to)
  <2>1. IdsOnce(q, ls, ev, m)
    BY DEF ReadsFit
  <2>2. QED
    BY <1>2, <2>1, ChosenOnce
<1>4. /\ to \in Seq(Listener)
      /\ \A k \in 1..Len(to) : \E i \in UnraisedIndices(ls) : to[k] = ls[i]
  BY UnraisedRange
<1>5. ASSUME NEW k \in 1..Len(to)
      PROVE  /\ to[k].read.id \notin m
             /\ \A j \in 1..Len(ev) : ev[j].read # to[k].read
  <2>1. PICK i \in 1..Len(ls) : to[k] = ls[i] /\ ~ls[i].raised
    BY <1>4 DEF UnraisedIndices
  <2>2. /\ ls[i].read.id \notin m
        /\ \A j \in 1..Len(ev) : ev[j].read.id # ls[i].read.id
    BY <2>1 DEF ReadsFit, RaisedHaveEvents
  <2>3. QED
    BY <2>1, <2>2
<1>6. PICK J : J = 1..Len(to)
  OBVIOUS
<1>7. Awaiting(to, ev, m) = J
  BY <1>5, <1>6 DEF Awaiting
<1>8. First(ev2, m) = First(ev, m) \o Answers(to, J, ok, docs)
  BY <1>3, <1>4, <1>7, PostedFirst
<1>9. Entries(to, J) = to /\ Indices(J, to)
  BY <1>4, <1>6, EntriesAll DEF Indices
<1>10. Answers(to, J, ok, docs) = Told(ReadsOf(to), ok, docs)
  BY <1>4, <1>9, AnswersTell
<1>11. QED
  BY <1>8, <1>10 DEF WaitingOf, Joined

(* A post to the listeners that were raised answers nobody.                *)
LEMMA PostToRaised ==
  ASSUME NEW q, NEW ls \in Seq(Listener), NEW ev \in Seq(Store!Answer),
         NEW m, NEW n, ReadsFit(q, ls, ev, m, n),
         NEW to, to = RaisedOf(ls),
         NEW ev2, NEW ok, NEW docs, Posted(ev, ev2, to, ok, docs)
  PROVE  First(ev2, m) = First(ev, m)
<1>1. PICK I : I = RaisedIndices(ls)
  OBVIOUS
<1>2. Indices(I, ls) /\ to = Entries(ls, I)
  BY <1>1 DEF Indices, RaisedIndices, RaisedOf
<1>3. ReadOnce(to)
  <2>1. IdsOnce(q, ls, ev, m)
    BY DEF ReadsFit
  <2>2. QED
    BY <1>2, <2>1, ChosenOnce
<1>4. /\ to \in Seq(Listener)
      /\ \A k \in 1..Len(to) : \E i \in RaisedIndices(ls) : to[k] = ls[i]
  BY RaisedRange
<1>5. ASSUME NEW k \in 1..Len(to)
      PROVE  ~(/\ to[k].read.id \notin m
               /\ \A j \in 1..Len(ev) : ev[j].read # to[k].read)
  <2>1. PICK i \in 1..Len(ls) : to[k] = ls[i] /\ ls[i].raised
    BY <1>4 DEF RaisedIndices
  <2>2. \/ ls[i].read.id \in m
        \/ \E j \in 1..Len(ev) : ev[j].read = ls[i].read
    BY <2>1 DEF ReadsFit, RaisedHaveEvents
  <2>3. QED
    BY <2>1, <2>2
<1>6. PICK J : J = {}
  OBVIOUS
<1>7. Awaiting(to, ev, m) = J
  BY <1>5, <1>6 DEF Awaiting
<1>8. First(ev2, m) = First(ev, m) \o Answers(to, J, ok, docs)
  BY <1>3, <1>4, <1>7, PostedFirst
<1>9. Indices(J, to)
  BY <1>6 DEF Indices
<1>10. Entries(to, J) = <<>>
  BY <1>4, <1>6, <1>9, EntriesEmpty
<1>11. Answers(to, J, ok, docs) = <<>>
  <2>1. Len(Entries(to, J)) = 0
    BY <1>10, EmptySeq
  <2>2. QED
    BY <2>1 DEF Answers
<1>12. First(ev, m) \in Seq(Store!Answer)
  <2>1. PICK F : F = FirstIndices(ev, m)
    OBVIOUS
  <2>2. Indices(F, ev)
    BY <2>1 DEF Indices, FirstIndices
  <2>3. QED
    BY <2>1, <2>2, EntriesPicks DEF First
<1>13. QED
  BY <1>8, <1>11, <1>12, ConcatEmptySeq

(* A post to a listener just added answers its read.                       *)
LEMMA PostToNew ==
  ASSUME NEW ev \in Seq(Store!Answer), NEW m, NEW to \in Seq(Listener),
         Len(to) = 1, to[1].read.id \notin m,
         \A j \in 1..Len(ev) : ev[j].read.id # to[1].read.id,
         NEW ev2, NEW ok, NEW docs, Posted(ev, ev2, to, ok, docs)
  PROVE  First(ev2, m) = Joined(First(ev, m), Told(ReadsOf(to), ok, docs))
<1>1. \A k \in 1..1 : k = 1
  OBVIOUS
<1>2. ReadOnce(to)
  BY <1>1 DEF ReadOnce
<1>3. PICK J : J = 1..Len(to)
  OBVIOUS
<1>4. Awaiting(to, ev, m) = J
  BY <1>1, <1>3 DEF Awaiting
<1>5. First(ev2, m) = First(ev, m) \o Answers(to, J, ok, docs)
  BY <1>1, <1>2, <1>4, PostedFirst
<1>6. Entries(to, J) = to /\ Indices(J, to)
  BY <1>1, <1>3, EntriesAll DEF Indices
<1>7. Answers(to, J, ok, docs) = Told(ReadsOf(to), ok, docs)
  BY <1>1, <1>6, AnswersTell
<1>8. QED
  BY <1>5, <1>7 DEF Joined

-----------------------------------------------------------------------------
\* Who is raised with a post.

(* An event for every listener is one for each that is raised by it.       *)
LEMMA RaisedForAll ==
  ASSUME NEW ls \in Seq(Listener)
  PROVE  RaisedFor(ls, ls, AllRaisedOf(ls))
<1>1. PICK k : k = AllRaisedOf(ls)
  OBVIOUS
<1>2. /\ k \in Seq(Listener) /\ Len(k) = Len(ls)
      /\ \A i \in 1..Len(ls) : k[i].read = ls[i].read /\ k[i].raised
  BY <1>1, AllRaisedRange
<1>3. QED
  BY <1>1, <1>2 DEF RaisedFor

(* So are events for those that wait: the others had been raised.          *)
LEMMA RaisedForUnraised ==
  ASSUME NEW ls \in Seq(Listener), NEW to, to = UnraisedOf(ls)
  PROVE  RaisedFor(ls, to, AllRaisedOf(ls))
<1>1. PICK k : k = AllRaisedOf(ls)
  OBVIOUS
<1>2. /\ k \in Seq(Listener) /\ Len(k) = Len(ls)
      /\ \A i \in 1..Len(ls) : k[i].read = ls[i].read /\ k[i].raised
  BY <1>1, AllRaisedRange
<1>a. \A a \in 1..Len(to) : \E i \in UnraisedIndices(ls) : to[a] = ls[i]
  BY UnraisedRange
<1>3. \A i \in UnraisedIndices(ls) : \E a \in 1..Len(to) : to[a] = ls[i]
  BY UnraisedRange
<1>4. \A a \in 1..Len(to) : \E i \in 1..Len(ls) : to[a].read = ls[i].read
  BY <1>a DEF UnraisedIndices
<1>5. \A i \in 1..Len(ls) :
        ls[i].raised \/ \E a \in 1..Len(to) : to[a].read = ls[i].read
  BY <1>3 DEF UnraisedIndices
<1>6. QED
  BY <1>1, <1>2, <1>4, <1>5 DEF RaisedFor

(* Events for the raised listeners alone raise nobody.                     *)
LEMMA RaisedForRaised ==
  ASSUME NEW q, NEW ls \in Seq(Listener), NEW ev, NEW m, IdsOnce(q, ls, ev, m),
         NEW to, to = RaisedOf(ls)
  PROVE  RaisedFor(ls, to, ls)
<1>1. \A a \in 1..Len(to) : \E i \in 1..Len(ls) : to[a] = ls[i] /\ ls[i].raised
  BY RaisedRange DEF RaisedIndices
<1>2. \A a \in 1..Len(to) : \E i \in 1..Len(ls) : to[a].read = ls[i].read
  BY <1>1
<1>3. ASSUME NEW i \in 1..Len(ls), ~ls[i].raised, NEW a \in 1..Len(to)
      PROVE  to[a].read # ls[i].read
  <2>1. PICK j \in 1..Len(ls) : to[a] = ls[j] /\ ls[j].raised
    BY <1>1
  <2>2. j # i
    BY <1>3, <2>1
  <2>3. QED
    BY <2>1, <2>2 DEF IdsOnce
<1>4. QED
  BY <1>2, <1>3 DEF RaisedFor

(* An event for a new listener is for the one that is added raised.        *)
LEMMA RaisedForNew ==
  ASSUME NEW ls \in Seq(Listener), NEW l \in Listener, NEW w \in Listener,
         l.read = w.read, l.raised, ~w.raised,
         \A i \in 1..Len(ls) : ls[i].read.id # l.read.id
  PROVE  RaisedFor(Append(ls, w), <<l>>, Append(ls, l))
<1>1. PICK a, k, to : a = Append(ls, w) /\ k = Append(ls, l) /\ to = <<l>>
  OBVIOUS
<1>2. PICK n \in Nat : n = Len(ls)
  BY LenProperties
<1>3. /\ a \in Seq(Listener) /\ Len(a) = n + 1 /\ a[n + 1] = w
      /\ \A i \in 1..n : a[i] = ls[i]
  BY <1>1, <1>2, AppendProperties
<1>4. /\ k \in Seq(Listener) /\ Len(k) = n + 1 /\ k[n + 1] = l
      /\ \A i \in 1..n : k[i] = ls[i]
  BY <1>1, <1>2, AppendProperties
<1>5. Len(to) = 1 /\ to[1] = l /\ \A i \in 1..1 : i = 1
  BY <1>1
<1>6. n + 1 \in 1..(n + 1) /\ \A i \in 1..(n + 1) : i \in 1..n \/ i = n + 1
  OBVIOUS
<1>7. \A x \in 1..Len(to) : \E j \in 1..Len(a) : to[x].read = a[j].read
  BY <1>3, <1>5, <1>6
<1>8. ASSUME NEW i \in 1..Len(a)
      PROVE  /\ k[i].read = a[i].read
             /\ k[i].raised => \/ a[i].raised
                               \/ \E j \in 1..Len(to) : to[j].read = a[i].read
             /\ ~k[i].raised => /\ ~a[i].raised
                                /\ \A j \in 1..Len(to) : to[j].read # a[i].read
  <2>1. CASE i = n + 1
    <3>1. k[i] = l /\ a[i] = w /\ 1 \in 1..Len(to) /\ to[1].read = w.read
      BY <1>3, <1>4, <1>5, <2>1
    <3>2. QED
      BY <3>1
  <2>2. CASE i \in 1..n
    <3>1. k[i] = ls[i] /\ a[i] = ls[i] /\ ls[i].read.id # l.read.id
      BY <1>2, <1>3, <1>4, <2>2
    <3>2. \A j \in 1..Len(to) : to[j].read # a[i].read
      BY <1>5, <3>1
    <3>3. QED
      BY <3>1, <3>2
  <2>3. QED
    BY <1>3, <1>6, <2>1, <2>2
<1>9. RaisedFor(a, to, k)
  BY <1>3, <1>4, <1>7, <1>8 DEF RaisedFor
<1>10. QED
  BY <1>1, <1>9

-----------------------------------------------------------------------------
\* What the event manager does with the listeners.

(* ev2 is ev with results, of these documents, for the listeners ls.       *)
PostedOk(ev, ev2, ls, docs) == Posted(ev, ev2, ls, TRUE, docs)

(* Results posted are answers posted, told as EventStore raises them.      *)
LEMMA PostedOkIs ==
  ASSUME NEW ev, NEW ev2, NEW ls, NEW docs, PostedOk(ev, ev2, ls, docs)
  PROVE  \E ok \in BOOLEAN \ {FALSE} :
           Posted(ev, ev2, ls, ok, docs) /\ \A reads :
             Told(reads, ok, docs) = Store!Raise(reads, docs)
<1>1. Posted(ev, ev2, ls, TRUE, docs)
  BY DEF PostedOk
<1>2. \A reads : Told(reads, TRUE, docs) = Store!Raise(reads, docs)
  BY DEF Store!Raise, Told, Event
<1>3. TRUE \in BOOLEAN \ {FALSE}
  OBVIOUS
<1>4. QED
  BY <1>1, <1>2, <1>3, Zenon

(* Post with a snapshot posts results.                                     *)
LEMMA PostPostsOk ==
  ASSUME mainQueue \in Seq(Store!Answer), NEW ls \in Seq(Listener),
         NEW docs \in SUBSET Docs
  PROVE  PostedOk(mainQueue, Post(ls, TRUE, docs), ls, docs)
  BY PostPosts, Zenon DEF PostedOk

QueueTypes(ls, ev) == ls \in Seq(Listener) /\ ev \in Seq(Store!Answer)

(* The listeners k and the events ev2 after all listeners ls were raised.  *)
RaisedAll(ls, ev, k, ev2, m, docs) ==
  /\ WaitingOf(k) = <<>>
  /\ First(ev2, m) = Joined(First(ev, m), Store!Raise(WaitingOf(ls), docs))

(* None of those that wait was answered.                                   *)
RaisedNone(ls, ev, k, ev2, m) ==
  WaitingOf(k) = WaitingOf(ls) /\ First(ev2, m) = First(ev, m)

(* Results for all listeners, or for all that wait, raise everybody: those *)
(* that waited have their first answer with these documents, in their      *)
(* order.                                                                  *)
LEMMA RaiseThem ==
  ASSUME NEW q, NEW ls, NEW ev, NEW m, NEW n, QueueTypes(ls, ev),
         ReadsFit(q, ls, ev, m, n), NEW to, NEW ev2, NEW docs,
         PostedOk(ev, ev2, to, docs),
         to = ls \/ to = UnraisedOf(ls), NEW k, k = AllRaisedOf(ls)
  PROVE  /\ QueueTypes(k, ev2) /\ ReadsFit(q, k, ev2, m, n) /\ Len(k) = Len(ls)
         /\ RaisedAll(ls, ev, k, ev2, m, docs)
<1>1. PICK ok :
        /\ ok \in BOOLEAN \ {FALSE} /\ Posted(ev, ev2, to, ok, docs)
        /\ \A reads : Told(reads, ok, docs) = Store!Raise(reads, docs)
  BY PostedOkIs
<1>2. /\ ls \in Seq(Listener) /\ ev \in Seq(Store!Answer)
      /\ Posted(ev, ev2, to, ok, docs)
  BY <1>1 DEF QueueTypes
<1>3. k \in Seq(Listener) /\ Len(k) = Len(ls)
  BY <1>2, AllRaisedRange
<1>a. ok \in BOOLEAN \ {FALSE}
  BY <1>1
<1>4. WaitingOf(k) = <<>>
  BY <1>2, NobodyWaits
<1>5. to \in Seq(Listener) /\ RaisedFor(ls, to, k)
  <2>1. CASE to = ls
    BY <1>2, <2>1, RaisedForAll
  <2>2. CASE to = UnraisedOf(ls)
    BY <1>2, <2>2, RaisedForUnraised, UnraisedRange
  <2>3. QED
    BY <2>1, <2>2
<1>6. ev2 \in Seq(Store!Answer)
  BY <1>2, <1>5, PostedEvents
<1>7. ReadsFit(q, k, ev2, m, n)
  BY <1>2, <1>5, <1>a, FitPost
<1>8. First(ev2, m) = Joined(First(ev, m), Told(WaitingOf(ls), ok, docs))
  <2>1. CASE to = ls
    <3>1. Posted(ev, ev2, ls, ok, docs)
      BY <1>1, <2>1
    <3>2. QED
      BY <1>2, <3>1, PostToAll
  <2>2. CASE to = UnraisedOf(ls)
    BY <1>2, <2>2, PostToUnraised
  <2>3. QED
    BY <2>1, <2>2
<1>9. RaisedAll(ls, ev, k, ev2, m, docs)
  BY <1>1, <1>4, <1>8 DEF RaisedAll
<1>10. QED
  BY <1>3, <1>6, <1>7, <1>9 DEF QueueTypes

(* Results for the listeners that are raised already answer nobody new.    *)
LEMMA RaiseNobody ==
  ASSUME NEW q, NEW ls, NEW ev, NEW m, NEW n, QueueTypes(ls, ev),
         ReadsFit(q, ls, ev, m, n), NEW to, to = RaisedOf(ls), NEW ev2, NEW docs,
         PostedOk(ev, ev2, to, docs)
  PROVE  /\ QueueTypes(ls, ev2) /\ ReadsFit(q, ls, ev2, m, n)
         /\ RaisedNone(ls, ev, ls, ev2, m)
<1>1. PICK ok \in BOOLEAN \ {FALSE} : Posted(ev, ev2, to, ok, docs)
  BY PostedOkIs
<1>2. ls \in Seq(Listener) /\ ev \in Seq(Store!Answer)
  BY DEF QueueTypes
<1>3. to \in Seq(Listener)
  BY <1>2, RaisedRange
<1>4. RaisedFor(ls, to, ls)
  <2>1. IdsOnce(q, ls, ev, m)
    BY DEF ReadsFit
  <2>2. QED
    BY <1>2, <2>1, RaisedForRaised
<1>5. ev2 \in Seq(Store!Answer)
  BY <1>1, <1>2, <1>3, PostedEvents
<1>6. ReadsFit(q, ls, ev2, m, n)
  BY <1>1, <1>2, <1>3, <1>4, FitPost
<1>7. First(ev2, m) = First(ev, m)
  BY <1>1, <1>2, PostToRaised
<1>8. QED
  BY <1>2, <1>5, <1>6, <1>7 DEF QueueTypes, RaisedNone

(* OnViewSnapshots: when the view becomes synced, or while the client is   *)
(* offline, all are raised, else nobody; who waits on waits for a view     *)
(* that is not more synced than it was.                                    *)
LEMMA Emitted ==
  ASSUME QueueTypes(listeners, mainQueue),
         ReadsFit(workerQueue, listeners, mainQueue, muted, nextRead),
         NEW v, v.docs \in SUBSET Docs, EmitSnapshot(v)
  PROVE  /\ QueueTypes(listeners', mainQueue')
         /\ ReadsFit(workerQueue, listeners', mainQueue', muted, nextRead)
         /\ Len(listeners') = Len(listeners)
         /\ \/ /\ RaisedAll(listeners, mainQueue, listeners', mainQueue', muted, v.docs)
               /\ ShouldRaiseInitialEvent(v)
            \/ /\ RaisedNone(listeners, mainQueue, listeners', mainQueue', muted)
               /\ IsSynced(v) => IsSynced(view)
<1>1. /\ Raised = RaisedOf(listeners) /\ AllRaised = AllRaisedOf(listeners)
      /\ listeners \in Seq(Listener) /\ mainQueue \in Seq(Store!Answer)
  BY UnraisedIs DEF QueueTypes
<1>2. CASE v.docs = view.docs /\ v.local = view.local /\ IsSynced(v) = IsSynced(view)
  <2>1. UNCHANGED <<listeners, mainQueue>>
    BY <1>2 DEF EmitSnapshot
  <2>2. QED
    BY <1>2, <2>1 DEF RaisedNone
<1>3. CASE /\ ~(v.docs = view.docs /\ v.local = view.local
                  /\ IsSynced(v) = IsSynced(view))
           /\ ShouldRaiseInitialEvent(v)
  <2>1. listeners' = AllRaised /\ mainQueue' = Post(listeners, TRUE, v.docs)
    BY <1>3 DEF EmitSnapshot
  <2>2. PostedOk(mainQueue, mainQueue', listeners, v.docs)
    <3>1. PostedOk(mainQueue, Post(listeners, TRUE, v.docs), listeners, v.docs)
      BY <1>1, PostPostsOk
    <3>2. QED
      BY <2>1, <3>1, Zenon
  <2>3. listeners' = AllRaisedOf(listeners)
    BY <1>1, <2>1
  <2>4. QED
    BY <1>3, <2>2, <2>3, RaiseThem
<1>4. CASE /\ ~(v.docs = view.docs /\ v.local = view.local
                  /\ IsSynced(v) = IsSynced(view))
           /\ ~ShouldRaiseInitialEvent(v)
  <2>1. UNCHANGED listeners /\ mainQueue' = Post(Raised, TRUE, v.docs)
    BY <1>4 DEF EmitSnapshot
  <2>2. PICK to : to = RaisedOf(listeners)
    OBVIOUS
  <2>3. PostedOk(mainQueue, mainQueue', to, v.docs)
    <3>1. to \in Seq(Listener)
      BY <1>1, <2>2, RaisedRange
    <3>2. PostedOk(mainQueue, Post(to, TRUE, v.docs), to, v.docs)
      BY <1>1, <3>1, PostPostsOk
    <3>3. to = Raised
      BY <1>1, <2>2
    <3>4. QED
      BY <2>1, <3>2, <3>3, Zenon
  <2>4. /\ QueueTypes(listeners, mainQueue')
        /\ ReadsFit(workerQueue, listeners, mainQueue', muted, nextRead)
        /\ RaisedNone(listeners, mainQueue, listeners, mainQueue', muted)
    BY <2>2, <2>3, RaiseNobody
  <2>5. ~IsSynced(v)
    BY <1>4 DEF ShouldRaiseInitialEvent
  <2>6. QED
    BY <2>1, <2>4, <2>5
<1>5. QED
  BY <1>2, <1>3, <1>4

(* The client goes offline: all are raised.                                *)
LEMMA WentOffline ==
  ASSUME QueueTypes(listeners, mainQueue),
         ReadsFit(workerQueue, listeners, mainQueue, muted, nextRead),
         view.docs \in SUBSET Docs, GoOffline
  PROVE  /\ QueueTypes(listeners', mainQueue')
         /\ ReadsFit(workerQueue, listeners', mainQueue', muted, nextRead)
         /\ Len(listeners') = Len(listeners)
         /\ RaisedAll(listeners, mainQueue, listeners', mainQueue', muted, view.docs)
<1>1. /\ Unraised = UnraisedOf(listeners) /\ AllRaised = AllRaisedOf(listeners)
      /\ listeners \in Seq(Listener) /\ mainQueue \in Seq(Store!Answer)
  BY UnraisedIs DEF QueueTypes
<1>2. PICK to : /\ to = IF IsSynced(view) THEN listeners ELSE Unraised
                /\ mainQueue' = Post(to, TRUE, view.docs)
  BY DEF GoOffline
<1>3. to = listeners \/ to = UnraisedOf(listeners)
  BY <1>1, <1>2
<1>4. to \in Seq(Listener)
  BY <1>1, <1>3, UnraisedRange
<1>5. PostedOk(mainQueue, mainQueue', to, view.docs)
  <2>1. PostedOk(mainQueue, Post(to, TRUE, view.docs), to, view.docs)
    BY <1>1, <1>4, PostPostsOk
  <2>2. QED
    BY <1>2, <2>1, Zenon
<1>6. listeners' = AllRaisedOf(listeners)
  BY <1>1 DEF GoOffline
<1>7. QED
  BY <1>3, <1>5, <1>6, RaiseThem

-----------------------------------------------------------------------------
\* The type invariant, in parts.

ViewType == [open: BOOLEAN, docs: SUBSET Docs, local: SUBSET MyDocs,
             current: BOOLEAN, limbo: SUBSET Docs]
TrackerType == [state: {"Unknown", "Online", "Offline"}, failures: 0..1,
                timer: BOOLEAN]

QueuesOK == workerQueue \in Seq(Tasks) /\ muted \in SUBSET (1..MaxReads)
EngineOK == /\ QueueTypes(listeners, mainQueue) /\ view \in ViewType
            /\ limboTargets \subseteq Docs
StoreOK == /\ synced \subseteq Docs /\ shown \subseteq Docs
           /\ remoteDocs \subseteq Docs /\ committed \subseteq remoteDocs
           /\ mutations \in [Users -> SUBSET MyDocs] /\ sdkUser \in Users
           /\ withdrawn \in SUBSET Docs
StreamOK == /\ stream \in {"Initial", "Starting", "Open", "Error", "Backoff"}
            /\ idle \in BOOLEAN /\ orphaned \in BOOLEAN /\ tracker \in TrackerType
CallsOK == /\ nextRead \in 1..(MaxReads + 1) /\ nextWrite \in 1..(MaxWrites + 1)
           /\ switches \in 0..MaxSwitches

(* The types, part by part.                                                *)
LEMMA TypeIs ==
  TypeOK <=> QueuesOK /\ EngineOK /\ StoreOK /\ StreamOK /\ CallsOK
  BY DEF TypeOK, QueuesOK, EngineOK, StoreOK, StreamOK, CallsOK, Tasks,
         QueueTypes, Listener, ViewType, TrackerType

(* The types after a step, part by part.                                   *)
LEMMA TypeIsNext ==
  TypeOK' <=> QueuesOK' /\ EngineOK' /\ StoreOK' /\ StreamOK' /\ CallsOK'
  BY DEF TypeOK, QueuesOK, EngineOK, StoreOK, StreamOK, CallsOK, Tasks,
         QueueTypes, Listener, ViewType, TrackerType

ReadsInv == ReadsFit(workerQueue, listeners, mainQueue, muted, nextRead)

(* How the event manager has told of the view: everybody, or nobody who    *)
(* waits; then the view has not become synced.                             *)
ToldOfView ==
  \/ /\ RaisedAll(listeners, mainQueue, listeners', mainQueue', muted, view'.docs)
     /\ ShouldRaiseInitialEvent(view')
  \/ /\ RaisedNone(listeners, mainQueue, listeners', mainQueue', muted)
     /\ IsSynced(view') => IsSynced(view)

(* ApplyChanges raises listeners, and opens or closes no view.             *)
LEMMA Applied ==
  ASSUME EngineOK, ReadsInv, StoreOK', NEW changed, NEW current \in BOOLEAN,
         ApplyChanges(changed, current)
  PROVE  /\ EngineOK'
         /\ ReadsFit(workerQueue, listeners', mainQueue', muted, nextRead)
         /\ Len(listeners') = Len(listeners)
         /\ view'.open <=> view.open
         /\ ToldOfView
<1>1. CASE ~view.open
  <2>1. UNCHANGED <<listeners, view, limboTargets, mainQueue>>
    BY <1>1 DEF ApplyChanges, engineVars
  <2>2. RaisedNone(listeners, mainQueue, listeners', mainQueue', muted)
    BY <2>1 DEF RaisedNone
  <2>3. QED
    BY <2>1, <2>2 DEF EngineOK, ReadsInv, ToldOfView
<1>2. CASE view.open
  <2>1. PICK docs, local, limbo, v :
          /\ docs = (view.docs \ changed)
                      \cup (changed \cap (remoteDocs' \cup mutations'[sdkUser']))
          /\ local = {d \in docs : IF d \in changed THEN StillLocal(d)
                                                    ELSE d \in view.local}
          /\ limbo = IF current THEN docs \ (synced' \cup local) ELSE view.limbo
          /\ v = [open |-> TRUE, docs |-> docs, local |-> local,
                  current |-> current, limbo |-> limbo]
          /\ view' = v /\ EmitSnapshot(v)
          /\ limboTargets' = (limboTargets \ (view.limbo \ limbo))
                               \cup (limbo \ view.limbo)
    BY <1>2 DEF ApplyChanges
  <2>2. view.docs \subseteq Docs /\ view.local \subseteq MyDocs
        /\ view.limbo \subseteq Docs /\ limboTargets \subseteq Docs
    BY DEF EngineOK, ViewType
  <2>3. remoteDocs' \subseteq Docs /\ mutations'[sdkUser'] \subseteq MyDocs
    BY DEF StoreOK
  <2>4. docs \subseteq Docs
    BY <2>1, <2>2, <2>3 DEF Docs
  <2>5. local \subseteq MyDocs
    BY <2>1, <2>2, <2>3 DEF StillLocal
  <2>6. limbo \subseteq Docs
    BY <2>1, <2>2, <2>4
  <2>7. v \in ViewType /\ v.docs = docs /\ v.open
    BY <2>1, <2>4, <2>5, <2>6 DEF ViewType
  <2>8. view' = v /\ EmitSnapshot(v) /\ limboTargets' \subseteq Docs
    BY <2>1, <2>2, <2>6
  <2>9. v.docs \in SUBSET Docs
    BY <2>4, <2>7
  <2>10. /\ QueueTypes(listeners', mainQueue')
         /\ ReadsFit(workerQueue, listeners', mainQueue', muted, nextRead)
         /\ Len(listeners') = Len(listeners)
         /\ \/ /\ RaisedAll(listeners, mainQueue, listeners', mainQueue', muted, v.docs)
               /\ ShouldRaiseInitialEvent(v)
            \/ /\ RaisedNone(listeners, mainQueue, listeners', mainQueue', muted)
               /\ IsSynced(v) => IsSynced(view)
    BY <2>8, <2>9, Emitted DEF EngineOK, ReadsInv
  <2>11. ToldOfView
    BY <2>8, <2>10 DEF ToldOfView
  <2>12. EngineOK'
    BY <2>7, <2>8, <2>10 DEF EngineOK
  <2>13. QED
    BY <1>2, <2>7, <2>8, <2>10, <2>11, <2>12
<1>3. QED
  BY <1>1, <1>2

(* The tasks of the queue, and what is appended to it or left of it.       *)
LEMMA TaskTypes ==
  ASSUME NEW t \in Tasks
  PROVE  /\ t.op = "read" => t \in Store!Read
         /\ t.op = "write" => t.doc \in MyDocs
         /\ t.op = "unlisten" => t.id \in 1..MaxReads
         /\ t.op \in {"initialize", "credential"} => t.user \in Users
  BY DEF Tasks, Store!Read, Store!Write, Store!MyDocs, MyDocs

(* The task that runs was the oldest of the worker queue.                  *)
LEMMA TaskTaken ==
  ASSUME QueuesOK, NEW op, Task(op)
  PROVE  /\ workerQueue # <<>> /\ workerQueue' = Tail(workerQueue)
         /\ Head(workerQueue).op = op /\ Head(workerQueue) \in Tasks
         /\ workerQueue' \in Seq(Tasks)
<1>1. workerQueue # <<>> /\ workerQueue' = Tail(workerQueue)
      /\ Head(workerQueue).op = op /\ workerQueue \in Seq(Tasks)
  BY DEF Task, QueuesOK
<1>2. QED
  BY <1>1, Taken

(* A task put on the worker queue keeps its type.                          *)
LEMMA TaskGiven ==
  ASSUME QueuesOK, NEW t \in Tasks, workerQueue' = Append(workerQueue, t)
  PROVE  workerQueue' \in Seq(Tasks)
  BY AppendProperties DEF QueuesOK

(* No listeners, no events and no view have their types.                   *)
LEMMA EmptyTypes == QueueTypes(<<>>, <<>>) /\ NoView \in ViewType
  BY DEF QueueTypes, NoView, ViewType

-----------------------------------------------------------------------------
\* The tracker.

(* The tracker keeps its type when a stream is started or fails, and when  *)
(* its timer runs out.                                                     *)
LEMMA TrackerTypes ==
  ASSUME NEW t \in TrackerType
  PROVE  /\ StreamStarted(t) \in TrackerType
         /\ StreamFailed(t) \in TrackerType
         /\ [t EXCEPT !.timer = FALSE, !.state = "Offline"] \in TrackerType
<1>1. /\ [t EXCEPT !.state = "Unknown", !.timer = TRUE] \in TrackerType
      /\ [t EXCEPT !.timer = FALSE, !.state = "Offline"] \in TrackerType
      /\ [t EXCEPT !.state = "Unknown"] \in TrackerType
      /\ [state |-> "Offline", failures |-> 1, timer |-> FALSE] \in TrackerType
  <2>1. [t EXCEPT !.state = "Unknown", !.timer = TRUE] \in TrackerType
    BY DEF TrackerType
  <2>2. [t EXCEPT !.timer = FALSE, !.state = "Offline"] \in TrackerType
    BY DEF TrackerType
  <2>3. [t EXCEPT !.state = "Unknown"] \in TrackerType
    BY DEF TrackerType
  <2>4. [state |-> "Offline", failures |-> 1, timer |-> FALSE] \in TrackerType
    BY DEF TrackerType
  <2>5. QED
    BY <2>1, <2>2, <2>3, <2>4
<1>2. StreamStarted(t) \in TrackerType
  BY <1>1 DEF StreamStarted
<1>3. StreamFailed(t) \in TrackerType
  BY <1>1 DEF StreamFailed
<1>4. QED
  BY <1>1, <1>2, <1>3

(* The states the tracker is set to have its type.                         *)
LEMMA StateTypes ==
  /\ Unknown \in TrackerType /\ UpdateState("Unknown") \in TrackerType
  /\ UpdateState("Online") \in TrackerType
  BY DEF TrackerType, Unknown, UpdateState

-----------------------------------------------------------------------------
\* What each step does to the reads: types, and where the reads are.

ReadsOK == TypeOK /\ ReadsInv

(* The reads after a step, from the queues after it.                       *)
LEMMA ReadsOKNext ==
  ASSUME ReadsFit(workerQueue', listeners', mainQueue', muted', nextRead')
  PROVE  ReadsInv'
  BY DEF ReadsInv

(* getDocuments issues a read that is new.                                 *)
LEMMA GetDocumentsReads ==
  ASSUME ReadsOK, NEW c \in Completions, GetDocuments(c)
  PROVE  ReadsOK'
<1> DEFINE t == [op |-> "read", id |-> nextRead, seen |-> nextWrite - 1,
                 completion |-> c]
<1>1. /\ QueuesOK /\ EngineOK /\ StoreOK /\ StreamOK /\ CallsOK /\ ReadsInv
  BY TypeIs DEF ReadsOK
<1>2. /\ workerQueue' = Append(workerQueue, t) /\ nextRead' = nextRead + 1
      /\ UNCHANGED <<listeners, view, limboTargets, mainQueue, muted, nextWrite,
                     switches>>
      /\ UNCHANGED <<storeVars, streamVars>> /\ nextRead <= MaxReads
  BY DEF GetDocuments, engineVars
<1>3. /\ MaxReads \in Nat /\ MaxWrites \in Nat
      /\ nextRead \in 1..MaxReads /\ nextWrite - 1 \in 0..MaxWrites
      /\ nextRead + 1 \in 1..(MaxReads + 1)
  BY <1>1, <1>2, FirestoreAssumption DEF CallsOK
<1>4. t \in Tasks /\ t.op = "read" /\ t.id = nextRead
  BY <1>3 DEF Tasks, Store!Read
<1> HIDE DEF t
<1>5. workerQueue' \in Seq(Tasks)
  BY <1>1, <1>2, <1>4, TaskGiven
<1>6. QueuesOK' /\ CallsOK'
  BY <1>1, <1>2, <1>3, <1>5 DEF QueuesOK, CallsOK
<1>7. EngineOK' /\ StoreOK' /\ StreamOK'
  BY <1>1, <1>2 DEF EngineOK, StoreOK, StreamOK, storeVars, streamVars
<1>8. ReadsFit(Append(workerQueue, t), listeners, mainQueue, muted, nextRead + 1)
  <2>1. /\ workerQueue \in Seq(Tasks) /\ listeners \in Seq(Listener)
        /\ mainQueue \in Seq(Store!Answer)
        /\ ReadsFit(workerQueue, listeners, mainQueue, muted, nextRead)
    BY <1>1 DEF QueuesOK, EngineOK, QueueTypes, ReadsInv
  <2>2. nextRead \in Nat /\ muted \in SUBSET Nat
    BY <1>1, <1>3 DEF QueuesOK
  <2>3. QED
    BY <1>4, <2>1, <2>2, FitIssue
<1>9. ReadsInv'
  BY <1>2, <1>8 DEF ReadsInv
<1>10. QED
  BY <1>6, <1>7, <1>9, TypeIsNext DEF ReadsOK

(* A task is enqueued that is no read.                                     *)
LEMMA EnqueueReads ==
  ASSUME ReadsOK, NEW t \in Tasks, t.op # "read", t.op # "unlisten",
         workerQueue' = Append(workerQueue, t), CallsOK', nextRead' = nextRead,
         UNCHANGED <<muted, engineVars, storeVars, streamVars>>
  PROVE  ReadsOK'
<1>1. /\ QueuesOK /\ EngineOK /\ StoreOK /\ StreamOK /\ ReadsInv
  BY TypeIs DEF ReadsOK
<1>2. UNCHANGED <<listeners, view, limboTargets, mainQueue, muted>>
  BY DEF engineVars
<1>3. QueuesOK'
  BY <1>1, <1>2, TaskGiven DEF QueuesOK
<1>4. EngineOK' /\ StoreOK' /\ StreamOK'
  BY <1>1, <1>2 DEF EngineOK, StoreOK, StreamOK, storeVars, streamVars
<1>5. ReadsFit(Append(workerQueue, t), listeners, mainQueue, muted, nextRead)
  <2>1. /\ workerQueue \in Seq(Tasks)
        /\ ReadsFit(workerQueue, listeners, mainQueue, muted, nextRead)
    BY <1>1 DEF QueuesOK, ReadsInv
  <2>2. QED
    BY <2>1, FitEnqueue
<1>6. ReadsInv'
  BY <1>2, <1>5 DEF ReadsInv
<1>7. QED
  BY <1>3, <1>4, <1>6, TypeIsNext DEF ReadsOK

(* addDocument is no read.                                                 *)
LEMMA AddDocumentReads ==
  ASSUME ReadsOK, AddDocument
  PROVE  ReadsOK'
<1>1. CallsOK
  BY TypeIs DEF ReadsOK
<1> DEFINE t == [op |-> "write", doc |-> nextWrite]
<1>2. /\ workerQueue' = Append(workerQueue, t) /\ nextWrite <= MaxWrites
      /\ nextWrite' = nextWrite + 1 /\ UNCHANGED <<nextRead, switches>>
      /\ UNCHANGED <<muted, engineVars, storeVars, streamVars>>
  BY DEF AddDocument
<1>3. nextWrite \in MyDocs /\ CallsOK'
  BY <1>1, <1>2, FirestoreAssumption DEF CallsOK, MyDocs
<1>4. t \in Tasks /\ t.op = "write"
  BY <1>3 DEF Tasks, Store!Write, Store!MyDocs, MyDocs
<1> HIDE DEF t
<1>5. QED
  BY <1>2, <1>3, <1>4, EnqueueReads

(* A change of credentials is no read.                                     *)
LEMMA CredentialReads ==
  ASSUME ReadsOK, NEW u \in Users, CredentialChange(u)
  PROVE  ReadsOK'
<1>1. CallsOK
  BY TypeIs DEF ReadsOK
<1> DEFINE t == [op |-> "credential", user |-> u]
<1>2. /\ workerQueue' = Append(workerQueue, t) /\ switches < MaxSwitches
      /\ switches' = switches + 1 /\ UNCHANGED <<nextRead, nextWrite>>
      /\ UNCHANGED <<muted, engineVars, storeVars, streamVars>>
  BY DEF CredentialChange
<1>3. CallsOK'
  BY <1>1, <1>2, FirestoreAssumption DEF CallsOK
<1>4. t \in Tasks /\ t.op = "credential"
  BY DEF Tasks
<1> HIDE DEF t
<1>5. QED
  BY <1>2, <1>3, <1>4, EnqueueReads

(* An event: what it does to the answers besides.                          *)
LEMMA DeliverReads ==
  ASSUME ReadsOK, Deliver
  PROVE  /\ ReadsOK'
         /\ \/ First(mainQueue', muted') = First(mainQueue, muted)
            \/ /\ First(mainQueue, muted) # <<>>
               /\ First(mainQueue', muted') = Tail(First(mainQueue, muted))
<1>1. /\ QueuesOK /\ EngineOK /\ StoreOK /\ StreamOK /\ CallsOK /\ ReadsInv
  BY TypeIs DEF ReadsOK
<1>2. PICK e : e = Head(mainQueue)
  OBVIOUS
<1>3. PICK id : id = e.read.id
  OBVIOUS
<1>4. /\ mainQueue # <<>> /\ mainQueue' = Tail(mainQueue)
      /\ UNCHANGED <<nextRead, nextWrite, switches, listeners, view, limboTargets>>
      /\ UNCHANGED <<storeVars, streamVars>>
  BY DEF Deliver, callVars
<1>5. \/ /\ e.ok /\ id \notin muted /\ muted' = muted \cup {id}
         /\ workerQueue' = Append(workerQueue, [op |-> "unlisten", id |-> id])
      \/ /\ ~(e.ok /\ id \notin muted) /\ UNCHANGED <<muted, workerQueue>>
  BY <1>2, <1>3 DEF Deliver
<1>6. /\ workerQueue \in Seq(Tasks) /\ listeners \in Seq(Listener)
      /\ mainQueue \in Seq(Store!Answer)
      /\ ReadsFit(workerQueue, listeners, mainQueue, muted, nextRead)
  BY <1>1 DEF QueuesOK, EngineOK, QueueTypes, ReadsInv
<1>7. e \in Store!Answer /\ mainQueue' \in Seq(Store!Answer)
  BY <1>2, <1>4, <1>6, Taken
<1>8. id \in 1..MaxReads
  BY <1>3, <1>7 DEF Store!Answer, Store!Read
<1>9. muted' = muted \/ muted' = muted \cup {Head(mainQueue).read.id}
  BY <1>2, <1>3, <1>5
<1>10. Head(mainQueue).ok => Head(mainQueue).read.id \in muted'
  BY <1>2, <1>3, <1>5
<1>11. ReadsFit(workerQueue, listeners, mainQueue', muted', nextRead)
  <2>1. ReadsFit(workerQueue, listeners, Tail(mainQueue), muted', nextRead)
    BY <1>4, <1>6, <1>9, <1>10, FitTake
  <2>2. QED
    BY <1>4, <2>1
<1>12. workerQueue' \in Seq(Tasks) /\ ReadsInv'
  <2>1. CASE UNCHANGED workerQueue
    BY <1>4, <1>6, <1>11, <2>1 DEF ReadsInv
  <2>2. CASE /\ muted' = muted \cup {id}
             /\ workerQueue' = Append(workerQueue, [op |-> "unlisten", id |-> id])
    <3> DEFINE t == [op |-> "unlisten", id |-> id]
    <3>1. t \in Tasks /\ t.op = "unlisten" /\ t.id = id
      BY <1>8 DEF Tasks
    <3>a. workerQueue' = Append(workerQueue, t)
      BY <2>2
    <3> HIDE DEF t
    <3>2. t.op # "read" /\ (t.op = "unlisten" => t.id \in muted')
      BY <2>2, <3>1
    <3>3. ReadsFit(Append(workerQueue, t), listeners, mainQueue', muted', nextRead)
      BY <1>6, <1>11, <3>1, <3>2, FitEnqueue
    <3>4. workerQueue' = Append(workerQueue, t)
      BY <3>a
    <3>5. workerQueue' \in Seq(Tasks)
      BY <1>1, <3>1, <3>4, TaskGiven
    <3>6. QED
      BY <1>4, <3>3, <3>4, <3>5 DEF ReadsInv
  <2>3. QED
    BY <1>5, <2>1, <2>2
<1>13. QueuesOK'
  BY <1>1, <1>5, <1>8, <1>12 DEF QueuesOK
<1>14. EngineOK' /\ StoreOK' /\ StreamOK' /\ CallsOK'
  BY <1>1, <1>4, <1>7
  DEF EngineOK, StoreOK, StreamOK, CallsOK, QueueTypes, storeVars, streamVars
<1>15. /\ Head(mainQueue).read.id \in muted =>
            First(Tail(mainQueue), muted') = First(mainQueue, muted)
       /\ Head(mainQueue).read.id \notin muted =>
            /\ First(mainQueue, muted) # <<>>
            /\ First(Tail(mainQueue), muted') = Tail(First(mainQueue, muted))
  <2>1. EventsFit(listeners, mainQueue)
    BY <1>6 DEF ReadsFit
  <2>2. PICK q, m, n : q = mainQueue /\ m = muted /\ n = muted'
    OBVIOUS
  <2>3. /\ q \in Seq(Store!Answer) /\ q # <<>> /\ EventsFit(listeners, q)
        /\ n = m \/ n = m \cup {Head(q).read.id}
        /\ Head(q).ok => Head(q).read.id \in n
    BY <1>4, <1>6, <1>9, <1>10, <2>1, <2>2
  <2>4. /\ Head(q).read.id \in m => First(Tail(q), n) = First(q, m)
        /\ Head(q).read.id \notin m =>
             /\ First(q, m) # <<>>
             /\ First(Tail(q), n) = Tail(First(q, m))
    BY <2>3, FirstTake
  <2>5. QED
    BY <2>2, <2>4
<1>16. QED
  BY <1>4, <1>12, <1>13, <1>14, <1>15, TypeIsNext DEF ReadsOK

(* A new process has no reads.                                             *)
LEMMA RelaunchReads ==
  ASSUME ReadsOK, NEW u \in Users, Relaunch(u)
  PROVE  ReadsOK'
<1>1. /\ QueuesOK /\ EngineOK /\ StoreOK /\ StreamOK /\ CallsOK /\ ReadsInv
  BY TypeIs DEF ReadsOK
<1> DEFINE t == [op |-> "initialize", user |-> u]
<1>2. /\ workerQueue' = <<t>> /\ mainQueue' = <<>> /\ muted' = {}
      /\ listeners' = <<>> /\ view' = NoView /\ limboTargets' = {}
      /\ stream' = "Initial" /\ idle' = FALSE /\ orphaned' = FALSE
      /\ tracker' = Unknown /\ withdrawn' = withdrawn \cup QueuedWrites
      /\ UNCHANGED <<nextRead, nextWrite, switches>>
      /\ UNCHANGED <<synced, shown, remoteDocs, committed, mutations, sdkUser>>
  BY DEF Relaunch, callVars
<1>3. t \in Tasks /\ t.op = "initialize"
  BY DEF Tasks
<1> HIDE DEF t
<1>4. ReadsInv'
  BY <1>2, <1>3, FitBegin DEF ReadsInv
<1>5. QueuesOK' /\ CallsOK'
  BY <1>1, <1>2, <1>3 DEF QueuesOK, CallsOK
<1>6. QueuedWrites \subseteq Docs
  <2>1. \A i \in 1..Len(workerQueue) : workerQueue[i] \in Tasks
    BY <1>1, ElementOfSeq DEF QueuesOK
  <2>2. \A i \in 1..Len(workerQueue) :
          workerQueue[i].op = "write" => workerQueue[i].doc \in MyDocs
    BY <2>1, TaskTypes
  <2>3. QED
    BY <2>2 DEF QueuedWrites, Docs
<1>7. StoreOK'
  BY <1>1, <1>2, <1>6 DEF StoreOK
<1>8. EngineOK' /\ StreamOK'
  BY <1>2, EmptyTypes, StateTypes DEF EngineOK, StreamOK
<1>9. QED
  BY <1>4, <1>5, <1>7, <1>8, TypeIsNext DEF ReadsOK

(* A listener is added: its read waits, or is answered at once.            *)
LEMMA ListenReads ==
  ASSUME ReadsOK, AddQueryListener
  PROVE  LET read == Head(workerQueue)
             v == IF view.open THEN view ELSE FreshView
         IN  /\ ReadsOK' /\ listeners' # <<>>
             /\ \/ /\ ~ShouldRaiseInitialEvent(v)
                   /\ WaitingOf(listeners') = Append(WaitingOf(listeners), read)
                   /\ First(mainQueue', muted') = First(mainQueue, muted)
                \/ /\ ShouldRaiseInitialEvent(v)
                   /\ WaitingOf(listeners') = WaitingOf(listeners)
                   /\ First(mainQueue', muted') =
                        Joined(First(mainQueue, muted),
                               Store!Raise(<<read>>, v.docs))
<1>1. /\ QueuesOK /\ EngineOK /\ StoreOK /\ StreamOK /\ CallsOK /\ ReadsInv
  BY TypeIs DEF ReadsOK
<1>2. PICK read, v, l :
        /\ read = Head(workerQueue) /\ v = IF view.open THEN view ELSE FreshView
        /\ l = [read |-> read, raised |-> ShouldRaiseInitialEvent(v)]
        /\ view' = v /\ listeners' = Append(listeners, l)
        /\ mainQueue' = IF l.raised THEN Post(<<l>>, TRUE, v.docs) ELSE mainQueue
  BY DEF AddQueryListener
<1>3. /\ Task("read") /\ UNCHANGED <<muted, limboTargets>>
      /\ UNCHANGED <<nextRead, nextWrite, switches>> /\ UNCHANGED storeVars
  BY DEF AddQueryListener, callVars
<1>4. /\ workerQueue # <<>> /\ workerQueue' = Tail(workerQueue)
      /\ read.op = "read" /\ read \in Store!Read /\ workerQueue' \in Seq(Tasks)
  BY <1>1, <1>2, <1>3, TaskTaken, TaskTypes
<1>5. l \in Listener /\ l.read = read /\ (l.raised <=> ShouldRaiseInitialEvent(v))
  BY <1>2, <1>4 DEF Listener, ShouldRaiseInitialEvent
<1>6. v \in ViewType /\ v.docs \in SUBSET Docs
  <2>1. FreshView \in ViewType
    <3>1. LocalView \subseteq Docs /\ mutations[sdkUser] \subseteq MyDocs
      BY <1>1 DEF StoreOK, LocalView, Docs
    <3>2. NoView \in ViewType
      BY EmptyTypes
    <3>3. QED
      BY <3>1, <3>2 DEF ViewType, FreshView
  <2>2. v \in ViewType
    BY <1>1, <1>2, <2>1 DEF EngineOK
  <2>3. QED
    BY <2>2 DEF ViewType
<1>7. /\ workerQueue \in Seq(Tasks) /\ listeners \in Seq(Listener)
      /\ mainQueue \in Seq(Store!Answer)
      /\ ReadsFit(workerQueue, listeners, mainQueue, muted, nextRead)
  BY <1>1 DEF QueuesOK, EngineOK, QueueTypes, ReadsInv
<1>8. StreamOK'
  <2>1. tracker' = tracker \/ tracker' = StreamStarted(tracker)
    BY DEF AddQueryListener, StartWatchStream
  <2>2. tracker' \in TrackerType
    BY <1>1, <2>1, TrackerTypes DEF StreamOK
  <2>3. /\ stream' \in {"Initial", "Starting", "Open", "Error", "Backoff"}
        /\ idle' \in BOOLEAN /\ orphaned' \in BOOLEAN
    BY <1>1 DEF AddQueryListener, StartWatchStream, StreamOK
  <2>4. QED
    BY <2>2, <2>3 DEF StreamOK
<1>9. QueuesOK' /\ CallsOK' /\ StoreOK'
  BY <1>1, <1>3, <1>4 DEF QueuesOK, CallsOK, StoreOK, storeVars
<1>10. listeners' \in Seq(Listener) /\ listeners' # <<>>
  BY <1>2, <1>5, <1>7, AppendProperties
<1>11. PICK w \in Listener : w.read = read /\ ~w.raised /\ w.raised = FALSE
  <2>1. [read |-> read, raised |-> FALSE] \in Listener
    BY <1>4 DEF Listener
  <2>2. QED
    BY <2>1
<1>12. ReadsFit(Tail(workerQueue), Append(listeners, w), mainQueue, muted, nextRead)
  BY <1>2, <1>4, <1>7, <1>11, FitListen
<1>13. CASE ~l.raised
  <2>1. l = w
    BY <1>5, <1>11, <1>13 DEF Listener
  <2>2. mainQueue' = mainQueue
    BY <1>2, <1>13
  <2>3. ReadsInv'
    BY <1>2, <1>3, <1>4, <1>12, <2>1, <2>2 DEF ReadsInv
  <2>4. EngineOK'
    BY <1>1, <1>2, <1>3, <1>6, <1>10, <2>2 DEF EngineOK, QueueTypes
  <2>5. WaitingOf(listeners') = Append(WaitingOf(listeners), read)
    BY <1>2, <1>5, <1>7, <1>13, WaitingAppend
  <2>6. QED
    BY <1>2, <1>3, <1>5, <1>8, <1>9, <1>10, <1>13, <2>2, <2>3, <2>4, <2>5,
       TypeIsNext DEF ReadsOK
<1>14. CASE l.raised
  <2>1. PICK to : to = <<l>>
    OBVIOUS
  <2>2. to \in Seq(Listener) /\ Len(to) = 1 /\ to[1] = l
    BY <1>5, <2>1
  <2>3. PostedOk(mainQueue, mainQueue', to, v.docs)
    <3>1. PostedOk(mainQueue, Post(to, TRUE, v.docs), to, v.docs)
      BY <1>6, <1>7, <2>2, PostPostsOk
    <3>2. mainQueue' = Post(to, TRUE, v.docs)
      BY <1>2, <1>14, <2>1, Zenon
    <3>3. QED
      BY <3>1, <3>2, Zenon
  <2>4. PICK ok : /\ ok \in BOOLEAN \ {FALSE}
                  /\ Posted(mainQueue, mainQueue', to, ok, v.docs)
                  /\ \A reads : Told(reads, ok, v.docs) = Store!Raise(reads, v.docs)
    BY <2>3, PostedOkIs
  <2>5. Posted(mainQueue, mainQueue', to, ok, v.docs)
    BY <2>4
  <2>6. mainQueue' \in Seq(Store!Answer)
    BY <1>7, <2>2, <2>5, PostedEvents
  <2>7. /\ read.id \notin muted
        /\ \A i \in 1..Len(listeners) : listeners[i].read.id # read.id
        /\ \A j \in 1..Len(mainQueue) : mainQueue[j].read.id # read.id
    <3>1. 1 \in 1..Len(workerQueue) /\ workerQueue[1] = read
      BY <1>2, <1>4, <1>7, Taken
    <3>2. QED
      BY <1>4, <1>7, <3>1 DEF ReadsFit, IdsOnce
  <2>8. PICK a, k : a = Append(listeners, w) /\ k = Append(listeners, l)
    OBVIOUS
  <2>9. a \in Seq(Listener) /\ RaisedFor(a, to, k)
    <3>1. RaisedFor(Append(listeners, w), <<l>>, Append(listeners, l))
      BY <1>5, <1>7, <1>11, <1>14, <2>7, RaisedForNew
    <3>2. a \in Seq(Listener)
      BY <1>7, <1>11, <2>8, AppendProperties
    <3>3. QED
      BY <2>1, <2>8, <3>1, <3>2
  <2>10. ReadsFit(Tail(workerQueue), k, mainQueue', muted, nextRead)
    <3>1. ReadsFit(Tail(workerQueue), a, mainQueue, muted, nextRead)
      BY <1>12, <2>8
    <3>2. ok \in BOOLEAN \ {FALSE}
      BY <2>4
    <3>3. QED
      BY <1>7, <2>2, <2>5, <2>9, <3>1, <3>2, FitPost
  <2>11. ReadsInv'
    BY <1>2, <1>3, <1>4, <2>8, <2>10 DEF ReadsInv
  <2>12. EngineOK'
    BY <1>1, <1>2, <1>3, <1>6, <1>10, <2>6 DEF EngineOK, QueueTypes
  <2>13. WaitingOf(listeners') = WaitingOf(listeners)
    BY <1>2, <1>5, <1>7, <1>14, WaitingAppend
  <2>14. First(mainQueue', muted) =
           Joined(First(mainQueue, muted), Told(ReadsOf(to), ok, v.docs))
    <3>1. /\ Len(to) = 1 /\ to[1].read.id \notin muted
          /\ \A j \in 1..Len(mainQueue) : mainQueue[j].read.id # to[1].read.id
      BY <1>5, <2>2, <2>7
    <3>2. QED
      BY <1>7, <2>2, <2>5, <3>1, PostToNew
  <2>15. Told(ReadsOf(to), ok, v.docs) = Store!Raise(<<read>>, v.docs)
    <3>1. ReadsOf(to) = <<read>>
      BY <1>5, <2>2 DEF ReadsOf
    <3>2. QED
      BY <2>4, <3>1
  <2>16. QED
    BY <1>2, <1>3, <1>5, <1>8, <1>9, <1>10, <1>14, <2>11, <2>12, <2>13, <2>14,
       <2>15, TypeIsNext DEF ReadsOK
<1>15. QED
  BY <1>13, <1>14

(* A listener is removed that waits no more.                               *)
LEMMA UnlistenReads ==
  ASSUME ReadsOK, RemoveQueryListener
  PROVE  /\ ReadsOK'
         /\ WaitingOf(listeners') = WaitingOf(listeners)
         /\ \A i \in 1..Len(listeners') : \E j \in 1..Len(listeners) :
              listeners'[i] = listeners[j]
<1>1. /\ QueuesOK /\ EngineOK /\ StoreOK /\ StreamOK /\ CallsOK /\ ReadsInv
  BY TypeIs DEF ReadsOK
<1>2. PICK t, I : /\ t = Head(workerQueue)
                  /\ I = {i \in 1..Len(listeners) : listeners[i].read.id # t.id}
  OBVIOUS
<1>3. /\ Task("unlisten") /\ listeners' = Entries(listeners, I)
      /\ UNCHANGED <<muted, mainQueue, nextRead, nextWrite, switches, stream>>
      /\ UNCHANGED storeVars
  BY <1>2 DEF RemoveQueryListener, ListenersBut, callVars
<1>4. /\ workerQueue # <<>> /\ workerQueue' = Tail(workerQueue)
      /\ t.op = "unlisten" /\ workerQueue' \in Seq(Tasks)
  BY <1>1, <1>2, <1>3, TaskTaken
<1>5. /\ workerQueue \in Seq(Tasks) /\ listeners \in Seq(Listener)
      /\ mainQueue \in Seq(Store!Answer)
      /\ ReadsFit(workerQueue, listeners, mainQueue, muted, nextRead)
  BY <1>1 DEF QueuesOK, EngineOK, QueueTypes, ReadsInv
<1>6. t.id \in muted
  <2>1. 1 \in 1..Len(workerQueue) /\ workerQueue[1] = t
    BY <1>2, <1>4, <1>5, Taken
  <2>2. QED
    BY <1>4, <1>5, <2>1 DEF ReadsFit, IdsIssued
<1>7. Indices(I, listeners)
  BY <1>2 DEF Indices
<1>8. \A i \in 1..Len(listeners) : ~listeners[i].raised => i \in I
  BY <1>2, <1>5, <1>6 DEF ReadsFit, RaisedHaveEvents
<1>9. WaitingOf(listeners') = WaitingOf(listeners)
  BY <1>3, <1>5, <1>7, <1>8, WaitingRemove
<1>10. /\ listeners' \in Seq(Listener)
       /\ \A i \in 1..Len(listeners') : \E j \in I : listeners'[i] = listeners[j]
  BY <1>3, <1>5, <1>7, EntriesRange
<1>11. ReadsInv'
  <2>1. ReadsFit(workerQueue, Entries(listeners, I), mainQueue, muted, nextRead)
    BY <1>5, <1>7, FitRemove
  <2>2. ReadsFit(Tail(workerQueue), Entries(listeners, I), mainQueue, muted, nextRead)
    BY <1>4, <1>5, <2>1, FitDequeue
  <2>3. QED
    BY <1>3, <1>4, <2>2 DEF ReadsInv
<1>12. QueuesOK' /\ CallsOK' /\ StoreOK'
  BY <1>1, <1>3, <1>4 DEF QueuesOK, CallsOK, StoreOK, storeVars
<1>13. /\ view' \in ViewType /\ limboTargets' \subseteq Docs
       /\ idle' \in BOOLEAN /\ orphaned' \in BOOLEAN /\ tracker' \in TrackerType
  BY <1>1, EmptyTypes, StateTypes
  DEF RemoveQueryListener, StopListening, EngineOK, StreamOK
<1>14. EngineOK' /\ StreamOK'
  BY <1>1, <1>3, <1>5, <1>10, <1>13 DEF EngineOK, StreamOK, QueueTypes
<1>15. QED
  BY <1>2, <1>9, <1>10, <1>11, <1>12, <1>14, TypeIsNext DEF ReadsOK

(* The step keeps the types and the reads; the event manager tells of the  *)
(* view, and no listener comes or goes.                                    *)
ToldReads == /\ ReadsOK' /\ Len(listeners') = Len(listeners)
             /\ view'.open <=> view.open
             /\ ToldOfView

(* Documents have changed, by a task of the worker queue or by an answer   *)
(* of the server.                                                          *)
LEMMA ChangedReads ==
  ASSUME ReadsOK, StoreOK', StreamOK', CallsOK',
         NEW changed, NEW current \in BOOLEAN, ApplyChanges(changed, current),
         UNCHANGED workerQueue \/ (workerQueue # <<>> /\ workerQueue' = Tail(workerQueue)),
         UNCHANGED <<muted, nextRead>>
  PROVE  ToldReads
<1>1. QueuesOK /\ EngineOK /\ ReadsInv
  BY TypeIs DEF ReadsOK
<1>2. /\ EngineOK' /\ ToldOfView
      /\ ReadsFit(workerQueue, listeners', mainQueue', muted, nextRead)
      /\ Len(listeners') = Len(listeners) /\ (view'.open <=> view.open)
  BY <1>1, Applied
<1>3. workerQueue \in Seq(Tasks)
  BY <1>1 DEF QueuesOK
<1>4. /\ workerQueue' \in Seq(Tasks)
      /\ ReadsFit(workerQueue', listeners', mainQueue', muted, nextRead)
  <2>1. CASE UNCHANGED workerQueue
    BY <1>2, <1>3, <2>1
  <2>2. CASE workerQueue # <<>> /\ workerQueue' = Tail(workerQueue)
    <3>1. ReadsFit(Tail(workerQueue), listeners', mainQueue', muted, nextRead)
      BY <1>2, <1>3, <2>2, FitDequeue
    <3>2. workerQueue' \in Seq(Tasks)
      BY <1>3, <2>2, Taken
    <3>3. QED
      BY <2>2, <3>1, <3>2
  <2>3. QED
    BY <2>1, <2>2
<1>5. ReadsInv' /\ QueuesOK'
  BY <1>1, <1>4 DEF ReadsInv, QueuesOK
<1>6. ReadsOK'
  BY <1>2, <1>5, TypeIsNext DEF ReadsOK
<1>7. QED
  BY <1>2, <1>6 DEF ToldReads

(* WriteMutations tells the listeners of the view.                         *)
LEMMA WriteReads ==
  ASSUME ReadsOK, WriteMutations
  PROVE  ToldReads
<1>1. QueuesOK /\ EngineOK /\ StoreOK /\ StreamOK /\ CallsOK
  BY TypeIs DEF ReadsOK
<1>2. PICK d : /\ d = Head(workerQueue).doc
               /\ mutations' = [mutations EXCEPT ![sdkUser] = @ \cup {d}]
               /\ ApplyChanges({d}, view.current)
  BY DEF WriteMutations
<1>3. /\ Task("write") /\ UNCHANGED <<muted, nextRead, nextWrite, switches>>
      /\ UNCHANGED <<synced, shown, remoteDocs, committed, sdkUser, withdrawn>>
      /\ UNCHANGED streamVars
  BY DEF WriteMutations, callVars
<1>4. /\ workerQueue # <<>> /\ workerQueue' = Tail(workerQueue) /\ d \in MyDocs
  BY <1>1, <1>2, <1>3, TaskTaken, TaskTypes
<1>5. StoreOK'
  BY <1>1, <1>2, <1>3, <1>4 DEF StoreOK
<1>6. StreamOK' /\ CallsOK'
  BY <1>1, <1>3 DEF StreamOK, CallsOK, streamVars
<1>7. view.current \in BOOLEAN
  BY <1>1 DEF EngineOK, ViewType
<1>8. QED
  BY <1>2, <1>3, <1>4, <1>5, <1>6, <1>7, ChangedReads

(* HandleCredentialChange tells the listeners of the view.                 *)
LEMMA CredentialTaskReads ==
  ASSUME ReadsOK, HandleCredentialChange
  PROVE  ToldReads
<1>1. QueuesOK /\ EngineOK /\ StoreOK /\ StreamOK /\ CallsOK
  BY TypeIs DEF ReadsOK
<1>2. PICK u : /\ u = Head(workerQueue).user /\ sdkUser' = u
               /\ withdrawn' = withdrawn \cup (mutations[sdkUser] \ mutations[u])
               /\ ApplyChanges(ChangedByUser(u), view.current)
  BY DEF HandleCredentialChange
<1>3. /\ Task("credential") /\ UNCHANGED <<muted, nextRead, nextWrite, switches>>
      /\ UNCHANGED <<synced, shown, remoteDocs, committed, mutations>>
      /\ idle' = FALSE /\ orphaned' = FALSE
      /\ tracker' \in {StreamStarted(UpdateState("Unknown")), UpdateState("Unknown")}
      /\ stream' \in {"Backoff", "Starting", "Error", "Initial"}
  BY DEF HandleCredentialChange, callVars
<1>4. /\ workerQueue # <<>> /\ workerQueue' = Tail(workerQueue) /\ u \in Users
  BY <1>1, <1>2, <1>3, TaskTaken, TaskTypes
<1>5. StoreOK'
  <2>1. mutations[sdkUser] \subseteq Docs
    BY <1>1 DEF StoreOK, Docs
  <2>2. QED
    BY <1>1, <1>2, <1>3, <1>4, <2>1 DEF StoreOK
<1>6. StreamOK' /\ CallsOK'
  <2>1. tracker' \in TrackerType
    BY <1>3, StateTypes, TrackerTypes
  <2>2. QED
    BY <1>1, <1>3, <2>1 DEF StreamOK, CallsOK
<1>7. view.current \in BOOLEAN
  BY <1>1 DEF EngineOK, ViewType
<1>8. QED
  BY <1>2, <1>3, <1>4, <1>5, <1>6, <1>7, ChangedReads

(* The documents of the mutation queues.                                   *)
AllMutations == UNION {mutations[u] : u \in Users}

(* A document is in the mutation queues when it is in that of some user.   *)
LEMMA InMutations ==
  \A d : d \in AllMutations <=> \E u \in Users : d \in mutations[u]
  BY DEF AllMutations

(* What the server may send, by where it comes from.                       *)
LEMMA SentBefore ==
  Sendable = OtherDocs \cup remoteDocs \cup withdrawn \cup AllMutations
  BY Zenon DEF Sendable, AllMutations

(* ApplyRemoteEvent tells the listeners of the view.                       *)
LEMMA RemoteEventReads ==
  ASSUME ReadsOK, NEW S \in SUBSET Sendable, NEW current \in BOOLEAN,
         ApplyRemoteEvent(S, current)
  PROVE  ToldReads
<1>1. QueuesOK /\ EngineOK /\ StoreOK /\ StreamOK /\ CallsOK
  BY TypeIs DEF ReadsOK
<1>2. S \subseteq Docs
  <2>1. \A u \in Users : mutations[u] \subseteq Docs
    BY <1>1 DEF StoreOK, Docs
  <2>2. AllMutations \subseteq Docs
    BY <2>1, InMutations
  <2>3. OtherDocs \subseteq Docs /\ remoteDocs \subseteq Docs /\ withdrawn \subseteq Docs
    BY <1>1 DEF StoreOK, Docs
  <2>4. S \subseteq OtherDocs \cup remoteDocs \cup AllMutations \cup withdrawn
    BY SentBefore
  <2>5. QED
    BY <2>2, <2>3, <2>4
<1>3. /\ UNCHANGED <<workerQueue, muted, nextRead, nextWrite, switches>>
      /\ UNCHANGED <<stream, idle, mutations, sdkUser, withdrawn>>
      /\ tracker' = UpdateState("Online") /\ orphaned' = FALSE
      /\ synced' = S /\ shown' = shown \cup S /\ remoteDocs' = remoteDocs \cup S
      /\ committed' = committed \ S
  BY DEF ApplyRemoteEvent, WatchMessage, StreamStep, callVars
<1>4. StoreOK' /\ CallsOK'
  BY <1>1, <1>2, <1>3 DEF StoreOK, CallsOK
<1>5. StreamOK'
  BY <1>1, <1>3, StateTypes DEF StreamOK
<1>6. ApplyChanges((S \ remoteDocs) \cup (S \cap committed), current)
  BY DEF ApplyRemoteEvent
<1>7. QED
  BY <1>3, <1>4, <1>5, <1>6, ChangedReads

(* HandleSuccessfulWrite tells the listeners of the view.                  *)
LEMMA SuccessfulWriteReads ==
  ASSUME ReadsOK, NEW d \in MyDocs, HandleSuccessfulWrite(d)
  PROVE  ToldReads
<1>1. QueuesOK /\ EngineOK /\ StoreOK /\ StreamOK /\ CallsOK
  BY TypeIs DEF ReadsOK
<1>2. /\ mutations' = [mutations EXCEPT ![sdkUser] = @ \ {d}]
      /\ remoteDocs' = remoteDocs \cup {d}
      /\ committed' = committed \cup ({d} \ remoteDocs)
      /\ UNCHANGED <<synced, shown, sdkUser, withdrawn>>
      /\ UNCHANGED <<workerQueue, muted, nextRead, nextWrite, switches>>
      /\ UNCHANGED streamVars /\ ApplyChanges({d}, view.current)
  BY DEF HandleSuccessfulWrite, StreamStep, callVars
<1>3. StoreOK'
  BY <1>1, <1>2 DEF StoreOK, Docs
<1>4. StreamOK' /\ CallsOK'
  BY <1>1, <1>2 DEF StreamOK, CallsOK, streamVars
<1>5. view.current \in BOOLEAN
  BY <1>1 DEF EngineOK, ViewType
<1>6. QED
  BY <1>2, <1>3, <1>4, <1>5, ChangedReads

(* HandleRejectedWrite tells the listeners of the view.                    *)
LEMMA RejectedWriteReads ==
  ASSUME ReadsOK, NEW d \in MyDocs, HandleRejectedWrite(d)
  PROVE  ToldReads
<1>1. QueuesOK /\ EngineOK /\ StoreOK /\ StreamOK /\ CallsOK
  BY TypeIs DEF ReadsOK
<1>2. /\ mutations' = [mutations EXCEPT ![sdkUser] = @ \ {d}]
      /\ withdrawn' = withdrawn \cup {d}
      /\ UNCHANGED <<synced, shown, remoteDocs, committed, sdkUser>>
      /\ UNCHANGED <<workerQueue, muted, nextRead, nextWrite, switches>>
      /\ UNCHANGED streamVars /\ ApplyChanges({d}, view.current)
  BY DEF HandleRejectedWrite, StreamStep, callVars
<1>3. StoreOK'
  BY <1>1, <1>2 DEF StoreOK, Docs
<1>4. StreamOK' /\ CallsOK'
  BY <1>1, <1>2 DEF StreamOK, CallsOK, streamVars
<1>5. view.current \in BOOLEAN
  BY <1>1 DEF EngineOK, ViewType
<1>6. QED
  BY <1>2, <1>3, <1>4, <1>5, ChangedReads

(* Initialize, and the steps of the stream that touch no view.             *)
LEMMA InitializeReads ==
  ASSUME ReadsOK, Initialize
  PROVE  ReadsOK'
<1>1. QueuesOK /\ EngineOK /\ StoreOK /\ StreamOK /\ CallsOK /\ ReadsInv
  BY TypeIs DEF ReadsOK
<1>2. /\ Task("initialize") /\ sdkUser' = Head(workerQueue).user
      /\ withdrawn' = withdrawn \cup (mutations[sdkUser] \ mutations[sdkUser'])
      /\ UNCHANGED <<synced, shown, remoteDocs, committed, mutations, muted>>
      /\ UNCHANGED <<nextRead, nextWrite, switches>>
      /\ UNCHANGED <<listeners, view, limboTargets, mainQueue, streamVars>>
  BY DEF Initialize, callVars, engineVars
<1>3. /\ workerQueue # <<>> /\ workerQueue' = Tail(workerQueue)
      /\ workerQueue' \in Seq(Tasks) /\ sdkUser' \in Users
  BY <1>1, <1>2, TaskTaken, TaskTypes
<1>4. StoreOK'
  <2>1. mutations[sdkUser] \subseteq Docs
    BY <1>1 DEF StoreOK, Docs
  <2>2. QED
    BY <1>1, <1>2, <1>3, <2>1 DEF StoreOK
<1>5. QueuesOK' /\ EngineOK' /\ StreamOK' /\ CallsOK'
  BY <1>1, <1>2, <1>3 DEF QueuesOK, EngineOK, StreamOK, CallsOK, streamVars
<1>6. ReadsInv'
  <2>1. /\ workerQueue \in Seq(Tasks)
        /\ ReadsFit(workerQueue, listeners, mainQueue, muted, nextRead)
    BY <1>1 DEF QueuesOK, ReadsInv
  <2>2. ReadsFit(Tail(workerQueue), listeners, mainQueue, muted, nextRead)
    BY <1>3, <2>1, FitDequeue
  <2>3. QED
    BY <1>2, <1>3, <2>2 DEF ReadsInv
<1>7. QED
  BY <1>4, <1>5, <1>6, TypeIsNext DEF ReadsOK

(* Opening, backoff, the idle timeout and messages without a snapshot      *)
(* leave the reads alone.                                                  *)
LEMMA StreamReads ==
  ASSUME ReadsOK, \/ OnWatchStreamOpen \/ BackoffElapsed
                  \/ IdleTimeout \/ OnWatchStreamChange
  PROVE  ReadsOK'
<1>1. QueuesOK /\ EngineOK /\ StoreOK /\ StreamOK /\ CallsOK /\ ReadsInv
  BY TypeIs DEF ReadsOK
<1>2. /\ UNCHANGED <<workerQueue, muted, nextRead, nextWrite, switches>>
      /\ UNCHANGED <<listeners, view, limboTargets, mainQueue, storeVars>>
  BY DEF OnWatchStreamOpen, BackoffElapsed, IdleTimeout, OnWatchStreamChange,
         WatchMessage, StreamStep, callVars, engineVars
<1>3. /\ tracker' = tracker \/ tracker' = UpdateState("Unknown")
           \/ tracker' = UpdateState("Online")
      /\ stream' = stream \/ stream' \in {"Open", "Starting", "Initial"}
      /\ idle' = idle \/ idle' = FALSE
      /\ orphaned' = orphaned \/ orphaned' = FALSE
  BY DEF OnWatchStreamOpen, BackoffElapsed, IdleTimeout, OnWatchStreamChange,
         WatchMessage
<1>4. StreamOK'
  BY <1>1, <1>3, StateTypes DEF StreamOK
<1>5. QueuesOK' /\ EngineOK' /\ StoreOK' /\ CallsOK' /\ ReadsInv'
  BY <1>1, <1>2 DEF QueuesOK, EngineOK, StoreOK, CallsOK, ReadsInv, storeVars
<1>6. QED
  BY <1>4, <1>5, TypeIsNext DEF ReadsOK

(* The client goes offline, or has been: all are raised, or nobody.        *)
OfflineReads ==
  \/ /\ view' = [view EXCEPT !.current = FALSE] /\ Len(listeners') = Len(listeners)
     /\ RaisedAll(listeners, mainQueue, listeners', mainQueue', muted, view.docs)
  \/ UNCHANGED <<listeners, view, mainQueue>>

(* A failed stream and the online timeout raise everybody or change        *)
(* nothing.                                                                *)
LEMMA ClosedReads ==
  ASSUME ReadsOK, OnWatchStreamClose \/ OnlineStateTimeout
  PROVE  ReadsOK' /\ OfflineReads
<1>1. QueuesOK /\ EngineOK /\ StoreOK /\ StreamOK /\ CallsOK /\ ReadsInv
  BY TypeIs DEF ReadsOK
<1>2. /\ UNCHANGED <<workerQueue, muted, nextRead, nextWrite, switches>>
      /\ UNCHANGED <<limboTargets, storeVars>>
  BY DEF OnWatchStreamClose, OnlineStateTimeout, StreamStep, callVars
<1>3. GoOffline \/ UNCHANGED <<listeners, view, mainQueue>>
  BY DEF OnWatchStreamClose, OnlineStateTimeout
<1>4. /\ idle' = FALSE \/ idle' = idle
      /\ orphaned' = FALSE \/ orphaned' = orphaned
      /\ stream' = stream \/ stream' \in {"Backoff", "Error"}
      /\ \/ tracker' = StreamStarted(StreamFailed(tracker))
         \/ tracker' = UpdateState("Unknown")
         \/ tracker' = [tracker EXCEPT !.timer = FALSE, !.state = "Offline"]
  BY DEF OnWatchStreamClose, OnlineStateTimeout
<1>5. StreamOK'
  <2>1. tracker' \in TrackerType
    BY <1>1, <1>4, StateTypes, TrackerTypes DEF StreamOK
  <2>2. QED
    BY <1>1, <1>4, <2>1 DEF StreamOK
<1>6. QueuesOK' /\ StoreOK' /\ CallsOK'
  BY <1>1, <1>2 DEF QueuesOK, StoreOK, CallsOK, storeVars
<1>7. EngineOK' /\ ReadsInv' /\ OfflineReads
  <2>1. /\ QueueTypes(listeners, mainQueue) /\ view \in ViewType
        /\ ReadsFit(workerQueue, listeners, mainQueue, muted, nextRead)
        /\ limboTargets \subseteq Docs
    BY <1>1 DEF EngineOK, ReadsInv
  <2>2. CASE UNCHANGED <<listeners, view, mainQueue>>
    BY <1>2, <2>1, <2>2 DEF EngineOK, ReadsInv, OfflineReads
  <2>3. CASE GoOffline
    <3>1. view.docs \in SUBSET Docs
      BY <2>1 DEF ViewType
    <3>2. /\ QueueTypes(listeners', mainQueue') /\ Len(listeners') = Len(listeners)
          /\ ReadsFit(workerQueue, listeners', mainQueue', muted, nextRead)
          /\ RaisedAll(listeners, mainQueue, listeners', mainQueue', muted, view.docs)
      BY <2>1, <2>3, <3>1, WentOffline
    <3>3. view' = [view EXCEPT !.current = FALSE]
      BY <2>3 DEF GoOffline
    <3>4. view' \in ViewType
      BY <2>1, <3>3 DEF ViewType
    <3>5. QED
      BY <1>2, <2>1, <3>2, <3>3, <3>4 DEF EngineOK, ReadsInv, OfflineReads
  <2>4. QED
    BY <1>3, <2>2, <2>3
<1>8. QED
  BY <1>5, <1>6, <1>7, TypeIsNext DEF ReadsOK

(* Without listeners nobody waits.                                         *)
LEMMA WaitingNone == WaitingOf(<<>>) = <<>>
<1>1. PICK e : e = <<>>
  OBVIOUS
<1>2. e \in Seq(Listener) /\ Len(e) = 0
  BY <1>1
<1>3. \A i \in 1..Len(e) : e[i].raised
  BY <1>2
<1>4. WaitingOf(e) = <<>>
  BY <1>2, <1>3, WaitingEmpty
<1>5. QED
  BY <1>1, <1>4

(* The query is rejected: each that waits gets the error.                  *)
LEMMA RejectedListenReads ==
  ASSUME ReadsOK, HandleRejectedListen
  PROVE  /\ ReadsOK' /\ WaitingOf(listeners') = <<>>
         /\ First(mainQueue', muted') =
              Joined(First(mainQueue, muted), Store!RaiseError(WaitingOf(listeners)))
<1>1. QueuesOK /\ EngineOK /\ StoreOK /\ StreamOK /\ CallsOK /\ ReadsInv
  BY TypeIs DEF ReadsOK
<1>2. /\ UNCHANGED <<workerQueue, muted, nextRead, nextWrite, switches, stream>>
      /\ UNCHANGED storeVars
      /\ tracker' = UpdateState("Online") /\ orphaned' = FALSE
      /\ idle' = (limboTargets # {}) /\ mainQueue' = Post(listeners, FALSE, {})
      /\ listeners' = <<>> /\ view' = NoView /\ limboTargets' = {}
  BY DEF HandleRejectedListen, StreamStep, callVars
<1>3. /\ listeners \in Seq(Listener) /\ mainQueue \in Seq(Store!Answer)
      /\ ReadsFit(workerQueue, listeners, mainQueue, muted, nextRead)
  BY <1>1 DEF EngineOK, ReadsInv, QueueTypes
<1>4. PICK ok, docs :
        /\ ok \in BOOLEAN /\ docs \in SUBSET Docs
        /\ Posted(mainQueue, mainQueue', listeners, ok, docs)
        /\ \A reads : Told(reads, ok, docs) = Store!RaiseError(reads)
  <2>1. Posted(mainQueue, Post(listeners, FALSE, {}), listeners, FALSE, {})
    BY <1>3, PostPosts
  <2>2. Posted(mainQueue, mainQueue', listeners, FALSE, {})
    BY <1>2, <2>1, Zenon
  <2>3. \A reads : Told(reads, FALSE, {}) = Store!RaiseError(reads)
    BY DEF Told, Store!RaiseError, Event
  <2>4. FALSE \in BOOLEAN /\ {} \in SUBSET Docs
    OBVIOUS
  <2>5. QED
    BY <2>2, <2>3, <2>4, Zenon
<1>5. mainQueue' \in Seq(Store!Answer)
  BY <1>3, <1>4, PostedEvents
<1>6. ReadsFit(workerQueue, <<>>, mainQueue', muted, nextRead)
  BY <1>3, <1>4, FitFail
<1>7. First(mainQueue', muted) =
        Joined(First(mainQueue, muted), Told(WaitingOf(listeners), ok, docs))
  BY <1>3, <1>4, PostToAll
<1>9. ReadsInv' /\ QueuesOK' /\ StoreOK' /\ CallsOK'
  BY <1>1, <1>2, <1>6 DEF ReadsInv, QueuesOK, StoreOK, CallsOK, storeVars
<1>10. EngineOK' /\ StreamOK'
  BY <1>1, <1>2, <1>5, EmptyTypes, StateTypes DEF EngineOK, StreamOK, QueueTypes
<1>11. QED
  BY <1>2, <1>4, <1>7, <1>9, <1>10, WaitingNone, TypeIsNext DEF ReadsOK

(* A limbo document is refused.                                            *)
LEMMA RejectedLimboReads ==
  ASSUME ReadsOK, NEW d \in Docs, HandleRejectedLimbo(d)
  PROVE  ToldReads
<1>1. QueuesOK /\ EngineOK /\ StoreOK /\ StreamOK /\ CallsOK /\ ReadsInv
  BY TypeIs DEF ReadsOK
<1>2. /\ UNCHANGED <<workerQueue, muted, nextRead, nextWrite, switches>>
      /\ UNCHANGED <<stream, idle, synced, shown, mutations, sdkUser>>
      /\ tracker' = UpdateState("Online") /\ orphaned' = FALSE
      /\ remoteDocs' = remoteDocs \ {d} /\ committed' = committed \ {d}
      /\ withdrawn' = withdrawn \cup {d}
  BY DEF HandleRejectedLimbo, WatchMessage, StreamStep, callVars
<1>3. PICK docs, v :
        /\ docs = view.docs \ ({d} \ mutations[sdkUser])
        /\ v = [view EXCEPT !.docs = docs, !.local = @ \cap docs,
                            !.limbo = IF view.current THEN @ \ {d} ELSE @]
        /\ view' = v /\ EmitSnapshot(v) /\ limboTargets' = limboTargets \ {d}
  BY DEF HandleRejectedLimbo
<1>4. /\ view \in ViewType /\ limboTargets \subseteq Docs
      /\ QueueTypes(listeners, mainQueue)
      /\ ReadsFit(workerQueue, listeners, mainQueue, muted, nextRead)
  BY <1>1 DEF EngineOK, ReadsInv
<1>5. /\ view.docs \subseteq Docs /\ view.local \subseteq MyDocs
      /\ view.limbo \subseteq Docs /\ docs \subseteq Docs
  BY <1>3, <1>4 DEF ViewType
<1>6. v \in ViewType /\ v.docs = docs /\ v.open = view.open
  <2>1. PICK local, limbo :
          /\ local = view.local \cap docs
          /\ limbo = IF view.current THEN view.limbo \ {d} ELSE view.limbo
          /\ v = [view EXCEPT !.docs = docs, !.local = local, !.limbo = limbo]
    BY <1>3
  <2>2. local \subseteq MyDocs /\ limbo \subseteq Docs
    BY <1>5, <2>1
  <2>3. QED
    BY <1>4, <1>5, <2>1, <2>2 DEF ViewType
<1>7. v.docs \in SUBSET Docs
  BY <1>5, <1>6
<1>8. /\ QueueTypes(listeners', mainQueue') /\ Len(listeners') = Len(listeners)
      /\ ReadsFit(workerQueue, listeners', mainQueue', muted, nextRead)
      /\ \/ /\ RaisedAll(listeners, mainQueue, listeners', mainQueue', muted, v.docs)
            /\ ShouldRaiseInitialEvent(v)
         \/ /\ RaisedNone(listeners, mainQueue, listeners', mainQueue', muted)
            /\ IsSynced(v) => IsSynced(view)
  BY <1>3, <1>4, <1>7, Emitted
<1>9. ToldOfView
  BY <1>3, <1>8 DEF ToldOfView
<1>10. EngineOK' /\ ReadsInv' /\ QueuesOK' /\ CallsOK'
  BY <1>1, <1>2, <1>3, <1>4, <1>6, <1>8 DEF EngineOK, ReadsInv, QueuesOK, CallsOK
<1>11. StoreOK' /\ StreamOK'
  BY <1>1, <1>2, StateTypes DEF StoreOK, StreamOK
<1>12. QED
  BY <1>3, <1>6, <1>8, <1>9, <1>10, <1>11, TypeIsNext DEF ReadsOK, ToldReads

-----------------------------------------------------------------------------
\* The worker queue.

Queued(q) == {q[i].doc : i \in {j \in 1..Len(q) : q[j].op = "write"}}

(* Each addDocument is queued once.                                        *)
WritesOnce(q) ==
  \A i, j \in 1..Len(q) : /\ q[i].op = "write" /\ q[j].op = "write"
                          /\ q[i].doc = q[j].doc
                          => i = j

(* A process begins with Initialize, and without a view.                   *)
BeginsOnce(q, open) ==
  \A i \in 1..Len(q) : q[i].op = "initialize" => i = 1 /\ ~open

(* A document is queued where there is a write of it.                      *)
LEMMA InQueued ==
  \A q, d : d \in Queued(q) <=>
              \E i \in 1..Len(q) : q[i].op = "write" /\ q[i].doc = d
  BY DEF Queued

(* A task is put on the queue: only a write queues a document.             *)
LEMMA QueueAppend ==
  ASSUME NEW q \in Seq(Tasks), NEW t \in Tasks, NEW r, r = Append(q, t),
         NEW open
  PROVE  /\ \A d : d \in Queued(r) <=>
                     d \in Queued(q) \/ (t.op = "write" /\ t.doc = d)
         /\ WritesOnce(q) /\ (t.op = "write" => t.doc \notin Queued(q))
              => WritesOnce(r)
         /\ BeginsOnce(q, open) /\ t.op # "initialize" => BeginsOnce(r, open)
<1>1. /\ r \in Seq(Tasks) /\ Len(q) \in Nat /\ Len(r) = Len(q) + 1
      /\ \A i \in 1..Len(r) : \/ i \in 1..Len(q) /\ r[i] = q[i]
                              \/ i = Len(q) + 1 /\ r[i] = t
  BY Appended
<1>2. \A i \in 1..Len(q) : i \in 1..Len(r) /\ r[i] = q[i]
  BY <1>1
<1>3. Len(q) + 1 \in 1..Len(r) /\ r[Len(q) + 1] = t
  BY <1>1
<1>4. ASSUME NEW d
      PROVE  d \in Queued(r) <=> d \in Queued(q) \/ (t.op = "write" /\ t.doc = d)
  <2>1. /\ d \in Queued(r) <=> \E i \in 1..Len(r) : r[i].op = "write" /\ r[i].doc = d
        /\ d \in Queued(q) <=> \E i \in 1..Len(q) : q[i].op = "write" /\ q[i].doc = d
    BY InQueued
  <2>2. QED
    BY <1>1, <1>2, <1>3, <2>1
<1>5. ASSUME WritesOnce(q), t.op = "write" => t.doc \notin Queued(q)
      PROVE  WritesOnce(r)
  <2>1. \A i \in 1..Len(q) : q[i].op = "write" => q[i].doc \in Queued(q)
    BY InQueued
  <2>2. QED
    BY <1>1, <1>5, <2>1 DEF WritesOnce
<1>6. ASSUME BeginsOnce(q, open), t.op # "initialize"
      PROVE  BeginsOnce(r, open)
  BY <1>1, <1>6 DEF BeginsOnce
<1>7. QED
  BY <1>4, <1>5, <1>6

(* A task is taken from the queue: its document is queued no more.         *)
LEMMA QueueTail ==
  ASSUME NEW q \in Seq(Tasks), q # <<>>, NEW r, r = Tail(q)
  PROVE  /\ \A d : d \in Queued(r) => d \in Queued(q)
         /\ WritesOnce(q) => WritesOnce(r)
         /\ Head(q).op = "write" => Head(q).doc \in Queued(q)
         /\ WritesOnce(q) /\ Head(q).op = "write" => Head(q).doc \notin Queued(r)
         /\ \A open, open2 : BeginsOnce(q, open) => BeginsOnce(r, open2)
<1>1. /\ 1 \in 1..Len(q) /\ Head(q) = q[1] /\ Len(r) = Len(q) - 1
      /\ Len(q) \in Nat \ {0}
      /\ \A i \in 1..Len(r) : i + 1 \in 1..Len(q) /\ r[i] = q[i + 1]
  BY Taken
<1>2. ASSUME NEW d, d \in Queued(r)
      PROVE  d \in Queued(q)
  <2>1. PICK i \in 1..Len(r) : r[i].op = "write" /\ r[i].doc = d
    BY <1>2, InQueued
  <2>2. \E j \in 1..Len(q) : q[j].op = "write" /\ q[j].doc = d
    BY <1>1, <2>1
  <2>3. QED
    BY <2>2, InQueued
<1>3. ASSUME WritesOnce(q)
      PROVE  WritesOnce(r)
  <2>1. SUFFICES ASSUME NEW i \in 1..Len(r), NEW j \in 1..Len(r),
                        r[i].op = "write", r[j].op = "write", r[i].doc = r[j].doc
                 PROVE  i = j
    BY DEF WritesOnce
  <2>2. i + 1 = j + 1
    BY <1>1, <1>3, <2>1 DEF WritesOnce
  <2>3. QED
    BY <2>2
<1>4. Head(q).op = "write" => Head(q).doc \in Queued(q)
  BY <1>1, InQueued
<1>5. ASSUME WritesOnce(q), Head(q).op = "write", Head(q).doc \in Queued(r)
      PROVE  FALSE
  <2>1. PICK i \in 1..Len(r) : r[i].op = "write" /\ r[i].doc = Head(q).doc
    BY <1>5, Zenon DEF Queued
  <2>2. i + 1 = 1
    BY <1>1, <1>5, <2>1 DEF WritesOnce
  <2>3. QED
    BY <2>2
<1>6. ASSUME NEW open, NEW open2, BeginsOnce(q, open)
      PROVE  BeginsOnce(r, open2)
  <2>1. SUFFICES ASSUME NEW i \in 1..Len(r), r[i].op = "initialize"
                 PROVE  FALSE
    BY DEF BeginsOnce
  <2>2. i + 1 = 1
    BY <1>1, <1>6, <2>1 DEF BeginsOnce
  <2>3. QED
    BY <2>2
<1>7. QED
  BY <1>2, <1>3, <1>4, <1>5, <1>6

-----------------------------------------------------------------------------
\* The inductive invariant, in parts.

InitializeFirst == BeginsOnce(workerQueue, view.open)

(* Where a document can be: its mutation is in one queue, and what is also *)
(* in the cache was sent by the server, not committed.                     *)
DocsInv ==
  /\ \A u, w \in Users : \A d : d \in mutations[u] /\ d \in mutations[w] => u = w
  /\ \A d \in AllMutations : d \in remoteDocs => d \in shown
  /\ \A d \in AllMutations : d \notin committed

(* A document is new until its write is stored.                            *)
Fresh(d) == d \in MyDocs /\ (d >= nextWrite \/ d \in Queued(workerQueue))

WritesInv ==
  /\ WritesOnce(workerQueue)
  /\ \A d \in Queued(workerQueue) : d < nextWrite
  /\ \A d : Fresh(d) =>
       d \notin remoteDocs /\ d \notin AllMutations /\ d \notin withdrawn

(* The view: its documents, the local ones of them, and those in limbo.    *)
ViewInv ==
  /\ view.open => /\ view.docs = LocalView
                  /\ mutations[sdkUser] \subseteq view.local
                  /\ view.local \subseteq view.docs
                  /\ view.local \subseteq mutations[sdkUser] \cup committed
  /\ ~view.open => view = NoView /\ limboTargets = {}
  /\ view.current => /\ view.limbo = view.docs \ (synced \cup view.local)
                     /\ shown \subseteq synced
                     /\ limboTargets = view.limbo

(* Limbo listens: a document in limbo without one was refused, and is only *)
(* known again once the server has sent it.                                *)
LimboInv ==
  /\ limboTargets \subseteq view.limbo
  /\ limboTargets \subseteq remoteDocs
  /\ \A d \in view.limbo \ limboTargets :
       /\ d \in withdrawn
       /\ d \in remoteDocs \/ d \in AllMutations => d \in shown

(* The tracker and the streams.                                            *)
StreamInv ==
  /\ TimerFitsState
  /\ tracker.failures = 1 => tracker.state = "Offline"
  /\ stream \in {"Starting", "Open", "Backoff"} /\ tracker.state = "Unknown"
       => tracker.timer \/ orphaned

(* Who waits, waits for a view that is not synced, and is not offline.     *)
WaitInv ==
  /\ view.open <=> listeners # <<>>
  /\ WaitingOf(listeners) # <<>> => ~IsSynced(view) /\ tracker.state # "Offline"

FireInv ==
  /\ ReadsOK /\ InitializeFirst /\ DocsInv /\ WritesInv
  /\ ViewInv /\ LimboInv /\ StreamInv /\ WaitInv

(* The same after a step.                                                  *)
LEMMA InMutationsNext ==
  \A d : d \in AllMutations' <=> \E u \in Users : d \in mutations'[u]
  BY DEF AllMutations

(* How the mutation queues change: nothing, one document more, one less.   *)
LEMMA MutationsKept ==
  ASSUME UNCHANGED mutations
  PROVE  AllMutations' = AllMutations
  BY DEF AllMutations

(* The mutation queue of the current user takes a document or lets one go; *)
(* those of the others stay.                                               *)
LEMMA MutationsChanged ==
  ASSUME StoreOK, NEW d
  PROVE  /\ mutations' = [mutations EXCEPT ![sdkUser] = @ \cup {d}] =>
              /\ \A e : e \in AllMutations' <=> e \in AllMutations \/ e = d
              /\ mutations'[sdkUser] = mutations[sdkUser] \cup {d}
              /\ \A u \in Users : u # sdkUser => mutations'[u] = mutations[u]
         /\ mutations' = [mutations EXCEPT ![sdkUser] = @ \ {d}] =>
              /\ \A e \in AllMutations' : e \in AllMutations
              /\ DocsInv /\ d \in mutations[sdkUser] => d \notin AllMutations'
              /\ mutations'[sdkUser] = mutations[sdkUser] \ {d}
              /\ \A u \in Users : u # sdkUser => mutations'[u] = mutations[u]
<1>1. sdkUser \in Users /\ mutations \in [Users -> SUBSET MyDocs]
  BY DEF StoreOK
<1>2. ASSUME mutations' = [mutations EXCEPT ![sdkUser] = @ \cup {d}]
      PROVE  /\ \A e : e \in AllMutations' <=> e \in AllMutations \/ e = d
             /\ mutations'[sdkUser] = mutations[sdkUser] \cup {d}
             /\ \A u \in Users : u # sdkUser => mutations'[u] = mutations[u]
  <2>1. /\ mutations'[sdkUser] = mutations[sdkUser] \cup {d}
        /\ \A u \in Users : u # sdkUser => mutations'[u] = mutations[u]
    BY <1>1, <1>2
  <2>2. QED
    BY <1>1, <2>1, InMutations, InMutationsNext
<1>3. ASSUME mutations' = [mutations EXCEPT ![sdkUser] = @ \ {d}]
      PROVE  /\ \A e \in AllMutations' : e \in AllMutations
             /\ DocsInv /\ d \in mutations[sdkUser] => d \notin AllMutations'
             /\ mutations'[sdkUser] = mutations[sdkUser] \ {d}
             /\ \A u \in Users : u # sdkUser => mutations'[u] = mutations[u]
  <2>1. /\ mutations'[sdkUser] = mutations[sdkUser] \ {d}
        /\ \A u \in Users : u # sdkUser => mutations'[u] = mutations[u]
    BY <1>1, <1>3
  <2>2. \A e \in AllMutations' : e \in AllMutations
    BY <1>1, <2>1, InMutations, InMutationsNext
  <2>3. DocsInv /\ d \in mutations[sdkUser] => d \notin AllMutations'
    BY <1>1, <2>1, InMutationsNext DEF DocsInv
  <2>4. QED
    BY <2>1, <2>2, <2>3
<1>4. QED
  BY <1>2, <1>3

-----------------------------------------------------------------------------
\* What ApplyChanges keeps.

(* The documents that are not looked at have stayed as they were, for the  *)
(* current user.                                                           *)
LooksAtAll(changed) ==
  \A d : d \notin changed =>
    /\ d \in LocalView' <=> d \in LocalView
    /\ d \in mutations'[sdkUser'] => d \in mutations[sdkUser]
    /\ d \in mutations[sdkUser] \/ d \in committed =>
         d \in mutations'[sdkUser'] \/ d \in committed'

(* Limbo documents stay in the cache as long as they have a listen; the    *)
(* refused ones stay away until the server sends them.                     *)
LimboKept ==
  /\ limboTargets \subseteq remoteDocs'
  /\ \A d \in view.limbo \ limboTargets :
       /\ d \in withdrawn'
       /\ d \in remoteDocs' \/ d \in AllMutations' => d \in shown'

(* No view is open, and none is opened.                                    *)
LEMMA ViewClosed ==
  ASSUME ~view'.open, view' = NoView, limboTargets' = {}
  PROVE  ViewInv' /\ LimboInv'
  BY DEF ViewInv, LimboInv, NoView

(* ApplyChanges keeps the view and its limbo documents right, when it      *)
(* looks at all documents that changed and a snapshot that is current      *)
(* holds all the server has sent.                                          *)
LEMMA ViewApplied ==
  ASSUME ViewInv, LimboInv, NEW changed, NEW current \in BOOLEAN,
         ApplyChanges(changed, current),
         view.open => LooksAtAll(changed) /\ LimboKept,
         view.open /\ current => shown' \subseteq synced'
  PROVE  ViewInv' /\ LimboInv'
<1>1. CASE ~view.open
  <2>1. view' = view /\ limboTargets' = limboTargets
    BY <1>1 DEF ApplyChanges, engineVars
  <2>2. view = NoView /\ limboTargets = {}
    BY <1>1 DEF ViewInv
  <2>3. QED
    BY <1>1, <2>1, <2>2, ViewClosed
<1>2. CASE view.open
  <2>1. PICK docs, local, limbo :
          /\ docs = (view.docs \ changed)
                      \cup (changed \cap (remoteDocs' \cup mutations'[sdkUser']))
          /\ local = {d \in docs : IF d \in changed THEN StillLocal(d)
                                                    ELSE d \in view.local}
          /\ limbo = IF current THEN docs \ (synced' \cup local) ELSE view.limbo
          /\ view' = [open |-> TRUE, docs |-> docs, local |-> local,
                      current |-> current, limbo |-> limbo]
          /\ limboTargets' = (limboTargets \ (view.limbo \ limbo))
                               \cup (limbo \ view.limbo)
    BY <1>2 DEF ApplyChanges
  <2>2. /\ view'.open /\ view'.docs = docs /\ view'.local = local
        /\ view'.limbo = limbo /\ view'.current = current
    BY <2>1
  <2>3. /\ view.docs = LocalView /\ mutations[sdkUser] \subseteq view.local
        /\ view.local \subseteq mutations[sdkUser] \cup committed
    BY <1>2 DEF ViewInv
  <2>4. LooksAtAll(changed) /\ LimboKept /\ (current => shown' \subseteq synced')
    BY <1>2
  <2>5. docs = LocalView'
    BY <2>1, <2>3, <2>4 DEF LooksAtAll, LocalView
  <2>6. \A d : d \in local <=> /\ d \in docs
                               /\ d \in changed => StillLocal(d)
                               /\ d \notin changed => d \in view.local
    BY <2>1
  <2>7. /\ mutations'[sdkUser'] \subseteq local /\ local \subseteq docs
        /\ local \subseteq mutations'[sdkUser'] \cup committed'
    <3>1. ASSUME NEW d \in mutations'[sdkUser']
          PROVE  d \in local
      BY <2>3, <2>4, <2>5, <2>6 DEF LooksAtAll, LocalView, StillLocal
    <3>2. ASSUME NEW d \in local
          PROVE  d \in docs /\ (d \in mutations'[sdkUser'] \/ d \in committed')
      BY <2>3, <2>4, <2>6 DEF LooksAtAll, StillLocal
    <3>3. QED
      BY <3>1, <3>2
  <2>8. limboTargets' \subseteq limbo /\ limboTargets' \subseteq remoteDocs'
    <3>1. limboTargets \subseteq view.limbo
      BY DEF LimboInv
    <3>2. CASE ~current
      BY <2>1, <2>4, <3>1, <3>2 DEF LimboKept
    <3>3. CASE current
      BY <2>1, <2>5, <2>7, <3>1, <3>3 DEF LocalView
    <3>4. QED
      BY <3>2, <3>3
  <2>9. current => limboTargets' = limbo
    <3>1. SUFFICES ASSUME current, NEW d \in limbo, d \notin limboTargets'
                   PROVE  FALSE
      BY <2>8
    <3>2. d \in view.limbo \ limboTargets
      BY <2>1, <3>1
    <3>3. d \in remoteDocs' /\ d \notin synced'
      BY <2>1, <2>5, <2>7, <3>1 DEF LocalView
    <3>4. QED
      BY <2>4, <3>1, <3>2, <3>3 DEF LimboKept
  <2>10. ViewInv'
    BY <2>1, <2>2, <2>4, <2>5, <2>7, <2>9 DEF ViewInv
  <2>11. LimboInv'
    <3>1. CASE current
      BY <2>2, <2>8, <2>9, <3>1 DEF LimboInv
    <3>2. CASE ~current
      <4>1. limbo = view.limbo /\ limboTargets' = limboTargets
        BY <2>1, <3>2
      <4>2. QED
        BY <2>2, <2>4, <2>8, <4>1 DEF LimboInv, LimboKept
    <3>3. QED
      BY <3>1, <3>2
  <2>12. QED
    BY <2>10, <2>11
<1>3. QED
  BY <1>1, <1>2

(* The engine and the store stay as they are.                              *)
LEMMA ViewKept ==
  ASSUME ViewInv, LimboInv, UNCHANGED <<view, limboTargets>>, UNCHANGED storeVars
  PROVE  ViewInv' /\ LimboInv'
<1>1. /\ UNCHANGED <<synced, shown, remoteDocs, committed, mutations, sdkUser>>
      /\ withdrawn' = withdrawn /\ AllMutations' = AllMutations
  BY MutationsKept DEF storeVars
<1>2. LocalView' = LocalView
  BY <1>1 DEF LocalView
<1>3. QED
  BY <1>1, <1>2 DEF ViewInv, LimboInv

(* The view is no longer current.                                          *)
LEMMA ViewOffline ==
  ASSUME ViewInv, LimboInv, UNCHANGED limboTargets, UNCHANGED storeVars,
         view \in ViewType,
         view' = [view EXCEPT !.current = FALSE]
  PROVE  ViewInv' /\ LimboInv' /\ (view'.open <=> view.open)
<1>1. /\ UNCHANGED <<synced, shown, remoteDocs, committed, mutations, sdkUser>>
      /\ withdrawn' = withdrawn /\ AllMutations' = AllMutations
  BY MutationsKept DEF storeVars
<1>2. LocalView' = LocalView
  BY <1>1 DEF LocalView
<1>3. /\ view'.open = view.open /\ view'.docs = view.docs
      /\ view'.local = view.local /\ view'.limbo = view.limbo /\ ~view'.current
  BY DEF ViewType
<1>4. LimboInv'
  BY <1>1, <1>3 DEF LimboInv
<1>5. ASSUME ~view.open
      PROVE  view' = NoView
  <2>1. view' = [NoView EXCEPT !.current = FALSE]
    BY <1>5 DEF ViewInv
  <2>2. QED
    BY <2>1 DEF NoView
<1>6. ViewInv'
  BY <1>1, <1>2, <1>3, <1>5 DEF ViewInv
<1>7. QED
  BY <1>3, <1>4, <1>6

-----------------------------------------------------------------------------
\* Who waits.

(* Told of the view, nobody is left waiting for one that is synced.        *)
LEMMA WaitTold ==
  ASSUME ReadsOK, WaitInv, ToldReads,
         tracker' = tracker \/ tracker'.state # "Offline"
  PROVE  WaitInv'
<1>1. listeners \in Seq(Listener) /\ listeners' \in Seq(Listener)
  BY TypeIs, TypeIsNext DEF ReadsOK, ToldReads, EngineOK, QueueTypes
<1>2. Len(listeners') = Len(listeners) /\ (view'.open <=> view.open) /\ ToldOfView
  BY DEF ToldReads
<1>3. listeners' # <<>> <=> listeners # <<>>
  BY <1>1, <1>2, EmptySeq
<1>4. CASE WaitingOf(listeners') = <<>>
  BY <1>2, <1>3, <1>4 DEF WaitInv
<1>5. CASE /\ WaitingOf(listeners') = WaitingOf(listeners)
           /\ IsSynced(view') => IsSynced(view)
  BY <1>2, <1>3, <1>5 DEF WaitInv
<1>6. QED
  BY <1>2, <1>4, <1>5 DEF ToldOfView, RaisedAll, RaisedNone

(* Who waited goes on waiting while view and listeners stay and the client *)
(* does not go offline.                                                    *)
LEMMA WaitKept ==
  ASSUME WaitInv, UNCHANGED <<view, listeners>>,
         tracker' = tracker \/ tracker'.state # "Offline"
  PROVE  WaitInv'
  BY DEF WaitInv, IsSynced

(* Where nobody waits there is nothing to wait for.                        *)
LEMMA WaitOver ==
  ASSUME WaitInv, listeners' # <<>> <=> listeners # <<>>, view'.open <=> view.open,
         WaitingOf(listeners') = <<>>
  PROVE  WaitInv'
  BY DEF WaitInv

(* The streams and the tracker stay as they are.                           *)
LEMMA StreamKept ==
  ASSUME StreamInv, UNCHANGED streamVars, view'.open <=> view.open
  PROVE  StreamInv'
  BY DEF StreamInv, TimerFitsState, streamVars

-----------------------------------------------------------------------------
\* The store and the queue.

(* The documents stay where they are.                                      *)
LEMMA DocsKept ==
  ASSUME DocsInv, UNCHANGED storeVars
  PROVE  DocsInv'
<1>1. UNCHANGED <<remoteDocs, shown, committed, mutations>>
      /\ AllMutations' = AllMutations
  BY MutationsKept DEF storeVars
<1>2. QED
  BY <1>1 DEF DocsInv

(* A step takes a task from the queue or leaves it, and stores nothing new *)
(* of this phone.                                                          *)
NothingNew ==
  \A d \in MyDocs : d \in remoteDocs' \/ d \in AllMutations' \/ d \in withdrawn' =>
                      d \in remoteDocs \/ d \in AllMutations \/ d \in withdrawn

QueueStep ==
  UNCHANGED workerQueue \/ (workerQueue # <<>> /\ workerQueue' = Tail(workerQueue))

(* A write stays new until it is stored, while a step brings no new        *)
(* document into the store.                                                *)
LEMMA WritesKept ==
  ASSUME QueuesOK, WritesInv, InitializeFirst, QueueStep, nextWrite' = nextWrite,
         NothingNew, UNCHANGED workerQueue => (view'.open <=> view.open)
  PROVE  WritesInv' /\ InitializeFirst'
<1>1. workerQueue \in Seq(Tasks)
  BY DEF QueuesOK
<1>2. PICK r : r = workerQueue'
  OBVIOUS
<1>3. CASE UNCHANGED workerQueue
  <2>1. InitializeFirst'
    BY <1>3 DEF InitializeFirst, BeginsOnce
  <2>2. \A d : Fresh(d)' => Fresh(d) /\ d \in MyDocs
    BY <1>3 DEF Fresh, MyDocs
  <2>3. WritesInv'
    BY <1>3, <2>2 DEF WritesInv, NothingNew
  <2>4. QED
    BY <2>1, <2>3
<1>4. CASE workerQueue # <<>> /\ workerQueue' = Tail(workerQueue)
  <2>1. /\ \A d : d \in Queued(r) => d \in Queued(workerQueue)
        /\ WritesOnce(workerQueue) => WritesOnce(r)
        /\ \A o, p : BeginsOnce(workerQueue, o) => BeginsOnce(r, p)
    BY <1>1, <1>2, <1>4, QueueTail
  <2>2. BeginsOnce(r, view'.open)
    BY <2>1 DEF InitializeFirst
  <2>3. \A d : Fresh(d)' => Fresh(d)
    BY <1>2, <2>1 DEF Fresh, MyDocs
  <2>4. \A d : Fresh(d)' => d \in MyDocs
    BY DEF Fresh, MyDocs
  <2>5. /\ WritesOnce(workerQueue')
        /\ \A d \in Queued(workerQueue') : d < nextWrite'
    BY <1>2, <2>1 DEF WritesInv
  <2>6. \A d : Fresh(d)' =>
          d \notin remoteDocs' /\ d \notin AllMutations' /\ d \notin withdrawn'
    BY <2>3, <2>4 DEF WritesInv, NothingNew
  <2>7. WritesInv'
    BY <2>5, <2>6 DEF WritesInv
  <2>8. QED
    BY <1>2, <2>2, <2>7 DEF InitializeFirst
<1>5. QED
  BY <1>3, <1>4 DEF QueueStep

-----------------------------------------------------------------------------
\* Each step keeps the inductive invariant: the calls.

(* A task is enqueued, or nothing, and nothing else changes that counts.   *)
LEMMA EnqueueInv ==
  ASSUME FireInv, ReadsOK', NEW t \in Tasks, t.op # "initialize",
         workerQueue' = workerQueue \/ workerQueue' = Append(workerQueue, t),
         t.op = "write" => t.doc = nextWrite /\ nextWrite' = nextWrite + 1,
         t.op # "write" => nextWrite' = nextWrite,
         t.op = "write" => workerQueue' = Append(workerQueue, t),
         UNCHANGED <<listeners, view, limboTargets>>,
         UNCHANGED <<storeVars, streamVars>>
  PROVE  FireInv'
<1>1. /\ ReadsOK /\ InitializeFirst /\ DocsInv /\ WritesInv
      /\ ViewInv /\ LimboInv /\ StreamInv /\ WaitInv
  BY DEF FireInv
<1>2. QueuesOK /\ CallsOK
  BY <1>1, TypeIs DEF ReadsOK
<1>3. /\ UNCHANGED storeVars /\ UNCHANGED streamVars /\ tracker' = tracker
      /\ UNCHANGED <<remoteDocs, withdrawn, mutations>>
      /\ AllMutations' = AllMutations
  BY MutationsKept DEF storeVars, streamVars
<1>4. DocsInv' /\ ViewInv' /\ LimboInv' /\ StreamInv' /\ WaitInv'
  BY <1>1, <1>3, DocsKept, ViewKept, StreamKept, WaitKept
<1>5. workerQueue \in Seq(Tasks) /\ nextWrite \in Nat
  BY <1>2, FirestoreAssumption DEF QueuesOK, CallsOK
<1>6. PICK r : r = workerQueue'
  OBVIOUS
<1>7. CASE workerQueue' = workerQueue
  <2>1. t.op # "write" \/ workerQueue' = Append(workerQueue, t)
    OBVIOUS
  <2>2. t.op # "write"
    <3>1. Len(Append(workerQueue, t)) = Len(workerQueue) + 1 /\ Len(workerQueue) \in Nat
      BY <1>5, Appended
    <3>2. QED
      BY <1>7, <2>1, <3>1
  <2>3. WritesInv' /\ InitializeFirst'
    BY <1>1, <1>3, <1>7, <2>2 DEF WritesInv, InitializeFirst, Fresh
  <2>4. QED
    BY <1>4, <2>3 DEF FireInv
<1>8. CASE workerQueue' = Append(workerQueue, t)
  <2>1. /\ \A d : d \in Queued(r) <=>
                    d \in Queued(workerQueue) \/ (t.op = "write" /\ t.doc = d)
        /\ WritesOnce(workerQueue) /\ (t.op = "write" => t.doc \notin Queued(workerQueue))
             => WritesOnce(r)
        /\ BeginsOnce(workerQueue, view.open) => BeginsOnce(r, view.open)
    BY <1>5, <1>6, <1>8, QueueAppend
  <2>2. InitializeFirst'
    BY <1>1, <1>6, <2>1 DEF InitializeFirst
  <2>3. nextWrite \notin Queued(workerQueue)
    BY <1>1, <1>5 DEF WritesInv
  <2>4. WritesOnce(r) /\ \A d \in Queued(r) : d < nextWrite'
    <3>1. \A d \in Queued(workerQueue) : d \in Nat
      <4>1. SUFFICES ASSUME NEW d \in Queued(workerQueue)
                     PROVE  d \in Nat
        OBVIOUS
      <4>2. PICK i \in 1..Len(workerQueue) :
              workerQueue[i].op = "write" /\ workerQueue[i].doc = d
        BY InQueued
      <4>3. workerQueue[i] \in Tasks
        BY <1>5, ElementOfSeq
      <4>4. QED
        BY <4>2, <4>3, TaskTypes DEF MyDocs
    <3>2. QED
      BY <1>1, <1>5, <2>1, <2>3, <3>1 DEF WritesInv
  <2>5. \A d : Fresh(d)' => Fresh(d)
    <3>1. SUFFICES ASSUME NEW d, Fresh(d)'
                   PROVE  Fresh(d)
      OBVIOUS
    <3>2. d \in MyDocs /\ (d >= nextWrite' \/ d \in Queued(r))
      BY <1>6, <3>1 DEF Fresh, MyDocs
    <3>3. d \in Nat
      BY <3>2 DEF MyDocs
    <3>4. QED
      BY <1>5, <2>1, <3>2, <3>3 DEF Fresh
  <2>6. WritesInv'
    BY <1>1, <1>3, <1>6, <2>4, <2>5 DEF WritesInv
  <2>7. QED
    BY <1>4, <2>2, <2>6 DEF FireInv
<1>9. QED
  BY <1>7, <1>8

(* getDocuments keeps the invariant.                                       *)
LEMMA GetDocumentsInv ==
  ASSUME FireInv, NEW c \in Completions, GetDocuments(c)
  PROVE  FireInv'
<1>1. ReadsOK
  BY DEF FireInv
<1>2. ReadsOK'
  BY <1>1, GetDocumentsReads
<1> DEFINE t == [op |-> "read", id |-> nextRead, seen |-> nextWrite - 1,
                 completion |-> c]
<1>3. /\ workerQueue' = Append(workerQueue, t) /\ nextWrite' = nextWrite
      /\ UNCHANGED <<listeners, view, limboTargets>>
      /\ UNCHANGED <<storeVars, streamVars>> /\ nextRead <= MaxReads
  BY DEF GetDocuments, engineVars
<1>4. t \in Tasks /\ t.op = "read"
  <2>1. CallsOK
    BY <1>1, TypeIs DEF ReadsOK
  <2>2. nextRead \in 1..MaxReads /\ nextWrite - 1 \in 0..MaxWrites
    BY <1>3, <2>1, FirestoreAssumption DEF CallsOK
  <2>3. QED
    BY <2>2 DEF Tasks, Store!Read
<1> HIDE DEF t
<1>5. QED
  BY <1>2, <1>3, <1>4, EnqueueInv

(* addDocument keeps the invariant: its document is new.                   *)
LEMMA AddDocumentInv ==
  ASSUME FireInv, AddDocument
  PROVE  FireInv'
<1>1. ReadsOK
  BY DEF FireInv
<1>2. ReadsOK'
  BY <1>1, AddDocumentReads
<1> DEFINE t == [op |-> "write", doc |-> nextWrite]
<1>3. /\ workerQueue' = Append(workerQueue, t) /\ nextWrite' = nextWrite + 1
      /\ UNCHANGED <<listeners, view, limboTargets>>
      /\ UNCHANGED <<storeVars, streamVars>> /\ nextWrite <= MaxWrites
  BY DEF AddDocument, engineVars
<1>4. t \in Tasks /\ t.op = "write" /\ t.doc = nextWrite
  <2>1. CallsOK
    BY <1>1, TypeIs DEF ReadsOK
  <2>2. nextWrite \in MyDocs
    BY <1>3, <2>1, FirestoreAssumption DEF CallsOK, MyDocs
  <2>3. QED
    BY <2>2 DEF Tasks, Store!Write, Store!MyDocs, MyDocs
<1> HIDE DEF t
<1>5. QED
  BY <1>2, <1>3, <1>4, EnqueueInv

(* A change of credentials keeps the invariant until its task runs.        *)
LEMMA CredentialChangeInv ==
  ASSUME FireInv, NEW u \in Users, CredentialChange(u)
  PROVE  FireInv'
<1>1. ReadsOK
  BY DEF FireInv
<1>2. ReadsOK'
  BY <1>1, CredentialReads
<1> DEFINE t == [op |-> "credential", user |-> u]
<1>3. /\ workerQueue' = Append(workerQueue, t) /\ nextWrite' = nextWrite
      /\ UNCHANGED <<listeners, view, limboTargets>>
      /\ UNCHANGED <<storeVars, streamVars>>
  BY DEF CredentialChange, engineVars
<1>4. t \in Tasks /\ t.op = "credential"
  BY DEF Tasks
<1> HIDE DEF t
<1>5. QED
  BY <1>2, <1>3, <1>4, EnqueueInv

(* The main queue keeps the invariant.                                     *)
LEMMA DeliverInv ==
  ASSUME FireInv, Deliver
  PROVE  FireInv'
<1>1. ReadsOK
  BY DEF FireInv
<1>2. ReadsOK'
  BY <1>1, DeliverReads
<1>3. PICK id : id = Head(mainQueue).read.id
  OBVIOUS
<1> DEFINE t == [op |-> "unlisten", id |-> id]
<1>4. /\ workerQueue' = workerQueue \/ workerQueue' = Append(workerQueue, t)
      /\ nextWrite' = nextWrite /\ mainQueue # <<>>
      /\ UNCHANGED <<listeners, view, limboTargets>>
      /\ UNCHANGED <<storeVars, streamVars>>
  BY <1>3 DEF Deliver, callVars
<1>5. t \in Tasks /\ t.op = "unlisten"
  <2>1. mainQueue \in Seq(Store!Answer)
    BY <1>1, TypeIs DEF ReadsOK, EngineOK, QueueTypes
  <2>2. Head(mainQueue) \in Store!Answer
    BY <1>4, <2>1, Taken
  <2>3. id \in 1..MaxReads
    BY <1>3, <2>2 DEF Store!Answer, Store!Read
  <2>4. QED
    BY <2>3 DEF Tasks
<1> HIDE DEF t
<1>6. QED
  BY <1>2, <1>4, <1>5, EnqueueInv

-----------------------------------------------------------------------------
\* The tasks of the worker queue.

(* The invariant, part by part.                                            *)
LEMMA InvParts ==
  ASSUME FireInv
  PROVE  /\ ReadsOK /\ InitializeFirst /\ DocsInv /\ WritesInv
         /\ ViewInv /\ LimboInv /\ StreamInv /\ WaitInv
         /\ QueuesOK /\ EngineOK /\ StoreOK /\ StreamOK /\ CallsOK
  BY TypeIs DEF FireInv, ReadsOK

(* An unchanged store has no new documents.                                *)
LEMMA NothingNewKept ==
  ASSUME UNCHANGED storeVars
  PROVE  NothingNew
  BY MutationsKept DEF NothingNew, storeVars

(* Without its first task the queue is another.                            *)
LEMMA TaskLeaves ==
  ASSUME NEW q \in Seq(Tasks), q # <<>>, NEW r, r = Tail(q)
  PROVE  r # q
<1>1. PICK n \in Nat : n = Len(q) /\ n - 1 = Len(r)
  BY Taken
<1>2. n - 1 # n
  OBVIOUS
<1>3. QED
  BY <1>1, <1>2, Zenon

(* An attempt without a failure before it has the timer.                   *)
LEMMA StreamStartedIs ==
  ASSUME NEW t \in TrackerType
  PROVE  \/ /\ StreamStarted(t).state = "Unknown" /\ StreamStarted(t).timer
            /\ StreamStarted(t).failures = 0
         \/ StreamStarted(t) = t /\ t.failures = 1
<1>1. CASE t.failures = 0
  <2>1. StreamStarted(t) = [t EXCEPT !.state = "Unknown", !.timer = TRUE]
    BY <1>1 DEF StreamStarted
  <2>2. QED
    BY <1>1, <2>1 DEF TrackerType
<1>2. CASE t.failures # 0
  BY <1>2 DEF StreamStarted, TrackerType
<1>3. QED
  BY <1>1, <1>2

(* AddQueryListener keeps the invariant: a fresh view shows the local      *)
(* store, and the listener that joins waits only where the others do.      *)
LEMMA AddQueryListenerInv ==
  ASSUME FireInv, AddQueryListener
  PROVE  FireInv'
<1>1. /\ ReadsOK /\ InitializeFirst /\ DocsInv /\ WritesInv
      /\ ViewInv /\ LimboInv /\ StreamInv /\ WaitInv
      /\ QueuesOK /\ EngineOK /\ StoreOK /\ StreamOK /\ CallsOK
  BY InvParts
<1>2. PICK read, v :
        /\ read = Head(workerQueue) /\ v = IF view.open THEN view ELSE FreshView
        /\ view' = v
  BY DEF AddQueryListener
<1>3. /\ ReadsOK' /\ listeners' # <<>>
      /\ \/ /\ ~ShouldRaiseInitialEvent(v)
            /\ WaitingOf(listeners') = Append(WaitingOf(listeners), read)
         \/ WaitingOf(listeners') = WaitingOf(listeners)
  BY <1>1, <1>2, ListenReads
<1>4. /\ workerQueue # <<>> /\ workerQueue' = Tail(workerQueue)
      /\ UNCHANGED <<limboTargets, nextWrite>> /\ UNCHANGED storeVars
  BY <1>1, TaskTaken DEF AddQueryListener, callVars
<1>5. DocsInv' /\ WritesInv' /\ InitializeFirst'
  <2>1. NothingNew /\ QueueStep
    BY <1>4, NothingNewKept DEF QueueStep
  <2>2. UNCHANGED workerQueue => (view'.open <=> view.open)
    <3>1. workerQueue \in Seq(Tasks)
      BY <1>1 DEF QueuesOK
    <3>2. QED
      BY <1>4, <3>1, TaskLeaves
  <2>3. QED
    BY <1>1, <1>4, <2>1, <2>2, DocsKept, WritesKept
<1>6. /\ FreshView.open /\ FreshView.docs = LocalView
      /\ FreshView.local = mutations[sdkUser] /\ ~FreshView.current
      /\ FreshView.limbo = {}
  BY DEF FreshView, NoView
<1>7. view'.open
  BY <1>2, <1>6
<1>8. ViewInv' /\ LimboInv'
  <2>1. CASE view.open
    <3>1. UNCHANGED <<view, limboTargets>>
      BY <1>2, <1>4, <2>1
    <3>2. QED
      BY <1>1, <1>4, <3>1, ViewKept
  <2>2. CASE ~view.open
    <3>1. view' = FreshView /\ limboTargets' = {}
      BY <1>1, <1>2, <1>4, <2>2 DEF ViewInv
    <3>2. /\ remoteDocs' = remoteDocs /\ mutations' = mutations
          /\ sdkUser' = sdkUser /\ committed' = committed
      BY <1>4 DEF storeVars
    <3>3. /\ view'.open /\ view'.docs = LocalView' /\ ~view'.current
          /\ view'.local = mutations'[sdkUser'] /\ view'.limbo = {}
      BY <1>6, <3>1, <3>2 DEF LocalView
    <3>4. mutations'[sdkUser'] \subseteq LocalView'
      BY DEF LocalView
    <3>5. ViewInv'
      BY <3>3, <3>4 DEF ViewInv
    <3>6. LimboInv'
      BY <3>1, <3>3 DEF LimboInv
    <3>7. QED
      BY <3>5, <3>6
  <2>3. QED
    BY <2>1, <2>2
<1>9. /\ ~view.open /\ stream \in {"Initial", "Error"} =>
           /\ stream' \in {"Starting", "Backoff"} /\ idle' = idle
           /\ tracker' = StreamStarted(tracker)
      /\ ~(~view.open /\ stream \in {"Initial", "Error"}) =>
           /\ idle' = (idle /\ view.open) /\ UNCHANGED <<stream, tracker, orphaned>>
  BY DEF AddQueryListener, StartWatchStream
<1>10. \/ /\ StreamStarted(tracker).state = "Unknown" /\ StreamStarted(tracker).timer
          /\ StreamStarted(tracker).failures = 0
       \/ StreamStarted(tracker) = tracker /\ tracker.failures = 1
  BY <1>1, StreamStartedIs DEF StreamOK
<1>11. StreamInv'
  <2>1. CASE ~view.open /\ stream \in {"Initial", "Error"}
    <3>1. \/ tracker'.state = "Unknown" /\ tracker'.timer /\ tracker'.failures = 0
          \/ tracker' = tracker /\ tracker.failures = 1
      BY <1>9, <1>10, <2>1
    <3>2. stream' \in {"Starting", "Backoff"} /\ idle' = FALSE
      BY <1>1, <1>9, <2>1 DEF StreamInv, TimerFitsState, StreamOK
    <3>3. QED
      BY <1>1, <3>1, <3>2 DEF StreamInv, TimerFitsState
  <2>2. CASE ~(~view.open /\ stream \in {"Initial", "Error"})
    <3>1. idle' = FALSE /\ UNCHANGED <<stream, tracker, orphaned>>
      BY <1>1, <1>9, <2>2 DEF StreamInv, TimerFitsState, StreamOK
    <3>2. stream \notin {"Initial", "Error"}
      BY <1>1, <2>2 DEF StreamInv, TimerFitsState
    <3>3. QED
      BY <1>1, <3>1, <3>2 DEF StreamInv, TimerFitsState
  <2>3. QED
    BY <2>1, <2>2
<1>12. WaitInv'
  <2>1. tracker.state # "Offline" => tracker'.state # "Offline"
    BY <1>9, <1>10
  <2>2. CASE ~ShouldRaiseInitialEvent(v)
    BY <1>2, <1>3, <1>7, <2>1, <2>2 DEF WaitInv, ShouldRaiseInitialEvent
  <2>3. CASE WaitingOf(listeners') = WaitingOf(listeners)
    <3>1. CASE WaitingOf(listeners) = <<>>
      BY <1>3, <1>7, <2>3, <3>1 DEF WaitInv
    <3>2. CASE WaitingOf(listeners) # <<>>
      <4>1. view.open
        BY <1>1, <3>2, WaitingNone DEF WaitInv
      <4>2. QED
        BY <1>1, <1>2, <1>3, <1>7, <2>1, <3>2, <4>1 DEF WaitInv
    <3>3. QED
      BY <3>1, <3>2
  <2>4. QED
    BY <1>3, <2>2, <2>3
<1>13. QED
  BY <1>3, <1>5, <1>8, <1>11, <1>12 DEF FireInv

(* RemoveQueryListener keeps the invariant: the last listener takes the    *)
(* view and the limbo listens with it.                                     *)
LEMMA RemoveQueryListenerInv ==
  ASSUME FireInv, RemoveQueryListener
  PROVE  FireInv'
<1>1. /\ ReadsOK /\ InitializeFirst /\ DocsInv /\ WritesInv
      /\ ViewInv /\ LimboInv /\ StreamInv /\ WaitInv
      /\ QueuesOK /\ EngineOK /\ StoreOK /\ StreamOK /\ CallsOK
  BY InvParts
<1>2. PICK left : /\ left = ListenersBut(Head(workerQueue).id) /\ listeners' = left
                  /\ IF left = <<>> /\ view.open
                     THEN view' = NoView /\ limboTargets' = {} /\ StopListening
                     ELSE UNCHANGED <<view, limboTargets, idle, tracker, orphaned>>
  BY DEF RemoveQueryListener
<1>3. /\ ReadsOK' /\ WaitingOf(listeners') = WaitingOf(listeners)
      /\ \A i \in 1..Len(listeners') : \E j \in 1..Len(listeners) :
           listeners'[i] = listeners[j]
  BY <1>1, UnlistenReads
<1>4. /\ workerQueue # <<>> /\ workerQueue' = Tail(workerQueue)
      /\ UNCHANGED <<nextWrite, stream>> /\ UNCHANGED storeVars
  BY <1>1, TaskTaken DEF RemoveQueryListener, callVars
<1>5. listeners = <<>> => listeners' = <<>>
  <2>1. listeners' \in Seq(Listener)
    BY <1>3, TypeIsNext DEF ReadsOK, EngineOK, QueueTypes
  <2>2. SUFFICES ASSUME listeners = <<>>, listeners' # <<>>
                 PROVE  FALSE
    OBVIOUS
  <2>3. 1 \in 1..Len(listeners') /\ Len(listeners) = 0
    BY <2>1, <2>2, EmptySeq
  <2>4. \E j \in 1..0 : TRUE
    BY <1>3, <2>3
  <2>5. QED
    BY <2>4
<1>6. DocsInv' /\ WritesInv' /\ InitializeFirst'
  <2>1. NothingNew /\ QueueStep
    BY <1>4, NothingNewKept DEF QueueStep
  <2>2. UNCHANGED workerQueue => (view'.open <=> view.open)
    <3>1. workerQueue \in Seq(Tasks)
      BY <1>1 DEF QueuesOK
    <3>2. QED
      BY <1>4, <3>1, TaskLeaves
  <2>3. QED
    BY <1>1, <1>4, <2>1, <2>2, DocsKept, WritesKept
<1>7. ~NoView.open
  BY DEF NoView
<1>8. CASE left = <<>> /\ view.open
  <2>1. /\ view' = NoView /\ limboTargets' = {} /\ listeners' = <<>> /\ ~view'.open
        /\ StopListening
    BY <1>2, <1>7, <1>8
  <2>2. ViewInv' /\ LimboInv'
    BY <2>1, ViewClosed
  <2>3. WaitInv'
    BY <2>1, WaitingNone DEF WaitInv
  <2>4. StreamInv'
    <3>1. /\ ~idle /\ stream \in {"Starting", "Open", "Backoff"}
      BY <1>1, <1>8 DEF StreamInv, TimerFitsState, StreamOK
    <3>2. CASE stream = "Open"
      <4>1. UNCHANGED <<stream, tracker, orphaned>>
        BY <1>4, <2>1, <3>2 DEF StopListening
      <4>2. QED
        BY <1>1, <2>1, <3>2, <4>1 DEF StreamInv, TimerFitsState
    <3>3. CASE stream # "Open"
      <4>1. /\ tracker' = [state |-> "Unknown", failures |-> 0, timer |-> FALSE]
            /\ orphaned' = TRUE /\ idle' = idle /\ stream' = stream
        BY <1>4, <2>1, <3>3 DEF StopListening, UpdateState
      <4>2. QED
        BY <2>1, <3>1, <4>1 DEF StreamInv, TimerFitsState
    <3>4. QED
      BY <3>2, <3>3
  <2>5. QED
    BY <1>3, <1>6, <2>2, <2>3, <2>4 DEF FireInv
<1>9. CASE ~(left = <<>> /\ view.open)
  <2>1. UNCHANGED <<view, limboTargets, idle, tracker, orphaned, stream>>
    BY <1>2, <1>4, <1>9
  <2>2. ViewInv' /\ LimboInv' /\ StreamInv'
    BY <1>1, <1>4, <2>1, ViewKept, StreamKept DEF streamVars
  <2>3. listeners' # <<>> <=> listeners # <<>>
    BY <1>1, <1>2, <1>5, <1>9 DEF WaitInv
  <2>4. WaitInv'
    BY <1>1, <1>3, <2>1, <2>3 DEF WaitInv, IsSynced
  <2>5. QED
    BY <1>3, <1>6, <2>2, <2>4 DEF FireInv
<1>10. QED
  BY <1>8, <1>9

(* WriteMutations keeps the invariant: the document it stores is in no     *)
(* other queue and not in the cache.                                       *)
LEMMA WriteMutationsInv ==
  ASSUME FireInv, WriteMutations
  PROVE  FireInv'
<1>1. /\ ReadsOK /\ InitializeFirst /\ DocsInv /\ WritesInv
      /\ ViewInv /\ LimboInv /\ StreamInv /\ WaitInv
      /\ QueuesOK /\ EngineOK /\ StoreOK /\ StreamOK /\ CallsOK
  BY InvParts
<1>2. PICK d : /\ d = Head(workerQueue).doc
               /\ mutations' = [mutations EXCEPT ![sdkUser] = @ \cup {d}]
               /\ ApplyChanges({d}, view.current)
  BY DEF WriteMutations
<1>3. /\ Task("write") /\ nextWrite' = nextWrite
      /\ UNCHANGED <<synced, shown, remoteDocs, committed, sdkUser, withdrawn>>
      /\ UNCHANGED streamVars
  BY DEF WriteMutations, callVars
<1>4. ToldReads
  BY <1>1, WriteReads
<1>5. ReadsOK' /\ (view'.open <=> view.open)
  BY <1>4 DEF ToldReads
<1>6. /\ workerQueue # <<>> /\ workerQueue' = Tail(workerQueue) /\ d \in MyDocs
      /\ Head(workerQueue).op = "write" /\ workerQueue \in Seq(Tasks)
  BY <1>1, <1>2, <1>3, TaskTaken, TaskTypes DEF QueuesOK
<1>7. PICK r : r = workerQueue'
  OBVIOUS
<1>8. /\ \A e : e \in Queued(r) => e \in Queued(workerQueue)
      /\ WritesOnce(r) /\ d \in Queued(workerQueue) /\ d \notin Queued(r)
      /\ \A o, p : BeginsOnce(workerQueue, o) => BeginsOnce(r, p)
  BY <1>1, <1>2, <1>6, <1>7, QueueTail DEF WritesInv
<1>9. Fresh(d) /\ d < nextWrite
  BY <1>1, <1>6, <1>8 DEF Fresh, WritesInv
<1>10. d \notin remoteDocs /\ d \notin AllMutations /\ d \notin withdrawn
  BY <1>1, <1>9 DEF WritesInv
<1>11. /\ \A e : e \in AllMutations' <=> e \in AllMutations \/ e = d
       /\ mutations'[sdkUser] = mutations[sdkUser] \cup {d}
       /\ \A u \in Users : u # sdkUser => mutations'[u] = mutations[u]
  BY <1>1, <1>2, MutationsChanged
<1>12. InitializeFirst'
  BY <1>1, <1>7, <1>8 DEF InitializeFirst
<1>13. DocsInv'
  <2>1. d \notin committed
    BY <1>1, <1>10 DEF StoreOK
  <2>2. \A u \in Users : d \notin mutations[u]
    BY <1>10, InMutations
  <2>3. \A u, w \in Users : \A e : e \in mutations'[u] /\ e \in mutations'[w] => u = w
    BY <1>1, <1>11, <2>2 DEF DocsInv
  <2>4. QED
    BY <1>1, <1>3, <1>10, <1>11, <2>1, <2>3 DEF DocsInv
<1>14. WritesInv'
  <2>1. nextWrite \in Nat /\ d \in Nat
    BY <1>1, <1>6, FirestoreAssumption DEF CallsOK, MyDocs
  <2>2. \A e : Fresh(e)' => Fresh(e) /\ e # d
    BY <1>3, <1>7, <1>8, <1>9, <2>1 DEF Fresh, MyDocs
  <2>3. \A e \in Queued(workerQueue') : e < nextWrite'
    BY <1>1, <1>3, <1>7, <1>8 DEF WritesInv
  <2>4. \A e : Fresh(e)' =>
          e \notin remoteDocs' /\ e \notin AllMutations' /\ e \notin withdrawn'
    BY <1>1, <1>3, <1>11, <2>2 DEF WritesInv
  <2>5. QED
    BY <1>7, <1>8, <2>3, <2>4 DEF WritesInv
<1>15. ViewInv' /\ LimboInv'
  <2>1. LooksAtAll({d})
    BY <1>3, <1>11 DEF LooksAtAll, LocalView
  <2>2. LimboKept
    BY <1>1, <1>3, <1>10, <1>11 DEF LimboInv, LimboKept
  <2>3. view.current \in BOOLEAN
    BY <1>1 DEF EngineOK, ViewType
  <2>4. view.current => shown' \subseteq synced'
    BY <1>1, <1>3 DEF ViewInv
  <2>5. QED
    BY <1>1, <1>2, <2>1, <2>2, <2>3, <2>4, ViewApplied
<1>16. WaitInv' /\ StreamInv'
  <2>1. tracker' = tracker
    BY <1>3 DEF streamVars
  <2>2. QED
    BY <1>1, <1>3, <1>4, <1>5, <2>1, WaitTold, StreamKept
<1>17. QED
  BY <1>5, <1>12, <1>13, <1>14, <1>15, <1>16 DEF FireInv

(* Initialize keeps the invariant: no view is open yet.                    *)
LEMMA InitializeInv ==
  ASSUME FireInv, Initialize
  PROVE  FireInv'
<1>1. /\ ReadsOK /\ InitializeFirst /\ DocsInv /\ WritesInv
      /\ ViewInv /\ LimboInv /\ StreamInv /\ WaitInv
      /\ QueuesOK /\ EngineOK /\ StoreOK /\ StreamOK /\ CallsOK
  BY InvParts
<1>2. ReadsOK'
  BY <1>1, InitializeReads
<1>3. /\ Task("initialize") /\ nextWrite' = nextWrite
      /\ withdrawn' = withdrawn \cup (mutations[sdkUser] \ mutations[sdkUser'])
      /\ UNCHANGED <<synced, shown, remoteDocs, committed, mutations>>
      /\ UNCHANGED <<listeners, view, limboTargets>>
      /\ UNCHANGED streamVars /\ tracker' = tracker
  BY DEF Initialize, callVars, engineVars, streamVars
<1>4. /\ workerQueue # <<>> /\ workerQueue' = Tail(workerQueue)
      /\ Head(workerQueue).op = "initialize" /\ workerQueue \in Seq(Tasks)
  BY <1>1, <1>3, TaskTaken DEF QueuesOK
<1>5. AllMutations' = AllMutations
  BY <1>3, MutationsKept
<1>6. ~view.open
  <2>1. 1 \in 1..Len(workerQueue) /\ workerQueue[1].op = "initialize"
    BY <1>4, Taken
  <2>2. QED
    BY <1>1, <2>1 DEF InitializeFirst, BeginsOnce
<1>7. WritesInv' /\ InitializeFirst'
  <2>1. NothingNew
    BY <1>1, <1>3, <1>5, InMutations DEF NothingNew, StoreOK
  <2>2. QED
    BY <1>1, <1>3, <1>4, <2>1, WritesKept DEF QueueStep
<1>8. DocsInv'
  BY <1>1, <1>3, <1>5 DEF DocsInv
<1>9. ViewInv' /\ LimboInv'
  <2>1. view' = NoView /\ limboTargets' = {} /\ ~view'.open
    BY <1>1, <1>3, <1>6 DEF ViewInv
  <2>2. QED
    BY <2>1, ViewClosed
<1>10. WaitInv' /\ StreamInv'
  BY <1>1, <1>3, WaitKept, StreamKept
<1>11. QED
  BY <1>2, <1>7, <1>8, <1>9, <1>10 DEF FireInv

(* HandleCredentialChange keeps the invariant: the documents of both users *)
(* are looked at, so that the view shows the new one.                      *)
LEMMA HandleCredentialChangeInv ==
  ASSUME FireInv, HandleCredentialChange
  PROVE  FireInv'
<1>1. /\ ReadsOK /\ InitializeFirst /\ DocsInv /\ WritesInv
      /\ ViewInv /\ LimboInv /\ StreamInv /\ WaitInv
      /\ QueuesOK /\ EngineOK /\ StoreOK /\ StreamOK /\ CallsOK
  BY InvParts
<1>2. PICK u : /\ sdkUser' = u /\ u = Head(workerQueue).user
               /\ withdrawn' = withdrawn \cup (mutations[sdkUser] \ mutations[u])
               /\ ApplyChanges(ChangedByUser(u), view.current)
  BY DEF HandleCredentialChange
<1>3. /\ Task("credential") /\ nextWrite' = nextWrite
      /\ UNCHANGED <<synced, shown, remoteDocs, committed, mutations>>
      /\ idle' = FALSE /\ orphaned' = FALSE
      /\ view.open => /\ stream' \in {"Backoff", "Starting"}
                      /\ tracker' = StreamStarted(UpdateState("Unknown"))
      /\ ~view.open => /\ stream' \in {"Error", "Initial"}
                       /\ tracker' = UpdateState("Unknown")
  BY DEF HandleCredentialChange, callVars
<1>4. ToldReads
  BY <1>1, CredentialTaskReads
<1>5. ReadsOK' /\ (view'.open <=> view.open)
  BY <1>4 DEF ToldReads
<1>6. workerQueue # <<>> /\ workerQueue' = Tail(workerQueue)
  BY <1>1, <1>3, TaskTaken
<1>7. AllMutations' = AllMutations
  BY <1>3, MutationsKept
<1>8. WritesInv' /\ InitializeFirst'
  <2>1. NothingNew
    BY <1>1, <1>2, <1>3, <1>7, InMutations DEF NothingNew, StoreOK
  <2>2. QED
    BY <1>1, <1>3, <1>5, <1>6, <2>1, WritesKept DEF QueueStep
<1>9. DocsInv'
  BY <1>1, <1>3, <1>7 DEF DocsInv
<1>10. ViewInv' /\ LimboInv'
  <2>1. LooksAtAll(ChangedByUser(u))
    BY <1>2, <1>3 DEF LooksAtAll, LocalView, ChangedByUser
  <2>2. LimboKept
    BY <1>1, <1>2, <1>3, <1>7 DEF LimboInv, LimboKept
  <2>3. view.current \in BOOLEAN
    BY <1>1 DEF EngineOK, ViewType
  <2>4. view.current => shown' \subseteq synced'
    BY <1>1, <1>3 DEF ViewInv
  <2>5. QED
    BY <1>1, <1>2, <2>1, <2>2, <2>3, <2>4, ViewApplied
<1>11. /\ UpdateState("Unknown") = [state |-> "Unknown", failures |-> 0, timer |-> FALSE]
       /\ StreamStarted(UpdateState("Unknown")) =
            [state |-> "Unknown", failures |-> 0, timer |-> TRUE]
  BY DEF UpdateState, StreamStarted
<1>12. StreamInv'
  BY <1>3, <1>5, <1>11 DEF StreamInv, TimerFitsState
<1>13. WaitInv'
  <2>1. tracker'.state # "Offline"
    BY <1>3, <1>11
  <2>2. QED
    BY <1>1, <1>4, <2>1, WaitTold
<1>14. QED
  BY <1>5, <1>8, <1>9, <1>10, <1>12, <1>13 DEF FireInv

-----------------------------------------------------------------------------
\* The watch stream and its timers.

(* What a step keeps that leaves queue, view and store alone.              *)
LEMMA StoreStays ==
  ASSUME FireInv, UNCHANGED <<workerQueue, nextWrite>>, UNCHANGED storeVars,
         view'.open <=> view.open
  PROVE  DocsInv' /\ WritesInv' /\ InitializeFirst'
<1>1. InitializeFirst /\ DocsInv /\ WritesInv /\ QueuesOK
  BY InvParts
<1>2. NothingNew /\ QueueStep
  BY NothingNewKept DEF QueueStep
<1>3. QED
  BY <1>1, <1>2, DocsKept, WritesKept

(* What the tracker is after UpdateState.                                  *)
LEMMA UpdateStateIs ==
  /\ UpdateState("Unknown").state = "Unknown" /\ UpdateState("Unknown").failures = 0
  /\ UpdateState("Online").state = "Online" /\ UpdateState("Online").failures = 0
  /\ ~UpdateState("Unknown").timer /\ ~UpdateState("Online").timer
  BY DEF UpdateState

(* The steps of the stream that tell nobody keep the invariant.            *)
LEMMA StreamStepInv ==
  ASSUME FireInv, \/ OnWatchStreamOpen \/ BackoffElapsed
                  \/ IdleTimeout \/ OnWatchStreamChange
  PROVE  FireInv'
<1>1. ReadsOK /\ ViewInv /\ LimboInv /\ StreamInv /\ WaitInv
  BY InvParts
<1>2. ReadsOK'
  BY <1>1, StreamReads
<1>3. /\ UNCHANGED <<workerQueue, nextWrite, listeners, view, limboTargets>>
      /\ UNCHANGED storeVars
      /\ tracker' = tracker \/ tracker' = UpdateState("Unknown")
           \/ tracker' = UpdateState("Online")
  BY DEF OnWatchStreamOpen, BackoffElapsed, IdleTimeout, OnWatchStreamChange,
         WatchMessage, StreamStep, callVars, engineVars
<1>4. DocsInv' /\ WritesInv' /\ InitializeFirst' /\ ViewInv' /\ LimboInv'
  BY <1>1, <1>3, StoreStays, ViewKept
<1>5. WaitInv'
  BY <1>1, <1>3, UpdateStateIs, WaitKept
<1>6. StreamInv'
  <2>1. CASE OnWatchStreamOpen
    <3>1. /\ stream = "Starting" /\ stream' = "Open"
          /\ UNCHANGED <<idle, tracker, orphaned, view>>
      BY <1>3, <2>1 DEF OnWatchStreamOpen
    <3>2. QED
      BY <1>1, <3>1 DEF StreamInv, TimerFitsState
  <2>2. CASE BackoffElapsed
    <3>1. /\ stream = "Backoff" /\ stream' = "Starting"
          /\ UNCHANGED <<idle, tracker, orphaned, view>>
      BY <1>3, <2>2 DEF BackoffElapsed
    <3>2. QED
      BY <1>1, <3>1 DEF StreamInv, TimerFitsState
  <2>3. CASE IdleTimeout
    <3>1. /\ idle /\ stream' = "Initial" /\ idle' = FALSE /\ view' = view
          /\ tracker' = UpdateState("Unknown")
      BY <1>3, <2>3 DEF IdleTimeout
    <3>2. QED
      BY <1>1, <3>1, UpdateStateIs DEF StreamInv, TimerFitsState
  <2>4. CASE OnWatchStreamChange
    <3>1. /\ stream = "Open" /\ stream' = stream /\ idle' = idle /\ view' = view
          /\ tracker' = UpdateState("Online")
      BY <1>3, <2>4 DEF OnWatchStreamChange, WatchMessage
    <3>2. QED
      BY <1>1, <3>1, UpdateStateIs DEF StreamInv, TimerFitsState
  <2>5. QED
    BY <2>1, <2>2, <2>3, <2>4
<1>7. QED
  BY <1>2, <1>4, <1>5, <1>6 DEF FireInv

(* The state of the tracker after a failure, and the attempt that follows. *)
LEMMA StreamFailedIs ==
  ASSUME NEW t \in TrackerType, t.state = "Online" => t.failures = 0
  PROVE  LET s == StreamStarted(StreamFailed(t))
         IN  \/ s.state = "Unknown" /\ s.failures = 0 /\ s.timer
             \/ s.state = "Offline" /\ s.failures = 1 /\ ~s.timer
<1>1. StreamFailed(t) \in TrackerType
  BY TrackerTypes
<1>2. \/ StreamFailed(t).failures = 0
      \/ /\ StreamFailed(t).state = "Offline" /\ StreamFailed(t).failures = 1
         /\ ~StreamFailed(t).timer
  BY DEF StreamFailed, TrackerType
<1>3. QED
  BY <1>1, <1>2, StreamStartedIs

(* The engine after the client has gone offline.                           *)
LEMMA OfflineEngine ==
  ASSUME FireInv, ReadsOK', UNCHANGED limboTargets, UNCHANGED storeVars,
         OfflineReads,
         UNCHANGED listeners => tracker'.state # "Offline" \/ tracker.state = "Offline"
                                  \/ WaitingOf(listeners') = <<>>
  PROVE  ViewInv' /\ LimboInv' /\ WaitInv' /\ (view'.open <=> view.open)
<1>1. ViewInv /\ LimboInv /\ WaitInv /\ EngineOK
  BY InvParts
<1>2. CASE UNCHANGED <<listeners, view, mainQueue>>
  <2>1. ViewInv' /\ LimboInv'
    BY <1>1, <1>2, ViewKept
  <2>2. WaitInv'
    BY <1>1, <1>2 DEF WaitInv, IsSynced
  <2>3. QED
    BY <1>2, <2>1, <2>2
<1>3. CASE /\ view' = [view EXCEPT !.current = FALSE]
           /\ Len(listeners') = Len(listeners) /\ WaitingOf(listeners') = <<>>
  <2>1. view \in ViewType /\ listeners \in Seq(Listener)
    BY <1>1 DEF EngineOK, QueueTypes
  <2>2. ViewInv' /\ LimboInv' /\ (view'.open <=> view.open)
    BY <1>1, <1>3, <2>1, ViewOffline
  <2>3. listeners' \in Seq(Listener)
    BY TypeIsNext DEF ReadsOK, EngineOK, QueueTypes
  <2>4. listeners' # <<>> <=> listeners # <<>>
    BY <1>3, <2>1, <2>3, EmptySeq
  <2>5. WaitInv'
    BY <1>1, <1>3, <2>2, <2>4, WaitOver
  <2>6. QED
    BY <2>2, <2>5
<1>4. QED
  BY <1>2, <1>3 DEF OfflineReads, RaisedAll

(* OnWatchStreamClose keeps the invariant: offline, everybody is raised.   *)
LEMMA OnWatchStreamCloseInv ==
  ASSUME FireInv, OnWatchStreamClose
  PROVE  FireInv'
<1>1. ReadsOK /\ ViewInv /\ LimboInv /\ StreamInv /\ WaitInv /\ StreamOK
  BY InvParts
<1>2. ReadsOK' /\ OfflineReads
  BY <1>1, ClosedReads
<1>3. /\ UNCHANGED <<workerQueue, nextWrite, limboTargets>> /\ UNCHANGED storeVars
      /\ idle' = FALSE /\ orphaned' = FALSE
      /\ view.open =>
           /\ stream' = "Backoff" /\ tracker' = StreamStarted(StreamFailed(tracker))
           /\ tracker'.state = "Offline" /\ tracker.state # "Offline" => GoOffline
      /\ ~view.open =>
           /\ stream' = "Error" /\ tracker' = UpdateState("Unknown")
  BY DEF OnWatchStreamClose, StreamStep, callVars
<1>4. GoOffline => WaitingOf(listeners') = <<>>
  <2>1. /\ QueueTypes(listeners, mainQueue) /\ view.docs \in SUBSET Docs
        /\ ReadsFit(workerQueue, listeners, mainQueue, muted, nextRead)
    BY InvParts DEF EngineOK, ReadsOK, ReadsInv, ViewType
  <2>2. QED
    BY <2>1, WentOffline DEF RaisedAll
<1>5. tracker'.state # "Offline" \/ tracker.state = "Offline"
        \/ WaitingOf(listeners') = <<>>
  BY <1>3, <1>4, UpdateStateIs
<1>6. ViewInv' /\ LimboInv' /\ WaitInv' /\ (view'.open <=> view.open)
  BY <1>2, <1>3, <1>5, OfflineEngine
<1>7. DocsInv' /\ WritesInv' /\ InitializeFirst'
  BY <1>3, <1>6, StoreStays
<1>8. StreamInv'
  <2>1. CASE view.open
    <3>1. \/ tracker'.state = "Unknown" /\ tracker'.failures = 0 /\ tracker'.timer
          \/ tracker'.state = "Offline" /\ tracker'.failures = 1 /\ ~tracker'.timer
      BY <1>1, <1>3, <2>1, StreamFailedIs DEF StreamOK, StreamInv, TimerFitsState
    <3>2. QED
      BY <1>3, <1>6, <2>1, <3>1 DEF StreamInv, TimerFitsState
  <2>2. CASE ~view.open
    BY <1>3, <1>6, <2>2, UpdateStateIs DEF StreamInv, TimerFitsState
  <2>3. QED
    BY <2>1, <2>2
<1>9. QED
  BY <1>2, <1>6, <1>7, <1>8 DEF FireInv

(* OnlineStateTimeout keeps the invariant: offline, everybody is raised.   *)
LEMMA OnlineStateTimeoutInv ==
  ASSUME FireInv, OnlineStateTimeout
  PROVE  FireInv'
<1>1. ReadsOK /\ ViewInv /\ LimboInv /\ StreamInv /\ WaitInv /\ StreamOK
  BY InvParts
<1>2. ReadsOK' /\ OfflineReads
  BY <1>1, ClosedReads
<1>3. /\ UNCHANGED <<workerQueue, nextWrite, limboTargets>> /\ UNCHANGED storeVars
      /\ UNCHANGED <<stream, idle, orphaned>> /\ GoOffline /\ tracker.timer
      /\ tracker' = [tracker EXCEPT !.timer = FALSE, !.state = "Offline"]
  BY DEF OnlineStateTimeout, StreamStep, callVars
<1>4. WaitingOf(listeners') = <<>>
  <2>1. /\ QueueTypes(listeners, mainQueue) /\ view.docs \in SUBSET Docs
        /\ ReadsFit(workerQueue, listeners, mainQueue, muted, nextRead)
    BY InvParts DEF EngineOK, ReadsOK, ReadsInv, ViewType
  <2>2. QED
    BY <1>3, <2>1, WentOffline DEF RaisedAll
<1>5. ViewInv' /\ LimboInv' /\ WaitInv' /\ (view'.open <=> view.open)
  BY <1>2, <1>3, <1>4, OfflineEngine
<1>6. DocsInv' /\ WritesInv' /\ InitializeFirst'
  BY <1>3, <1>5, StoreStays
<1>7. tracker'.state = "Offline" /\ ~tracker'.timer
      /\ tracker'.failures = tracker.failures
  BY <1>1, <1>3 DEF StreamOK, TrackerType
<1>8. StreamInv'
  BY <1>1, <1>3, <1>5, <1>7 DEF StreamInv, TimerFitsState
<1>9. QED
  BY <1>2, <1>5, <1>6, <1>8 DEF FireInv

(* HandleRejectedListen keeps the invariant: listeners, view and limbo     *)
(* listens go together.                                                    *)
LEMMA HandleRejectedListenInv ==
  ASSUME FireInv, HandleRejectedListen
  PROVE  FireInv'
<1>1. ReadsOK /\ InitializeFirst /\ WritesInv /\ StreamInv /\ QueuesOK /\ DocsInv
  BY InvParts
<1>2. ReadsOK' /\ WaitingOf(listeners') = <<>>
  BY <1>1, RejectedListenReads
<1>3. /\ UNCHANGED <<workerQueue, nextWrite, stream>> /\ UNCHANGED storeVars
      /\ stream = "Open" /\ tracker' = UpdateState("Online") /\ orphaned' = FALSE
      /\ listeners' = <<>> /\ view' = NoView /\ limboTargets' = {} /\ view.open
  BY DEF HandleRejectedListen, StreamStep, callVars
<1>4. ~view'.open
  BY <1>3 DEF NoView
<1>5. ViewInv' /\ LimboInv'
  BY <1>3, <1>4, ViewClosed
<1>6. WaitInv'
  BY <1>2, <1>3, <1>4 DEF WaitInv
<1>7. StreamInv'
  BY <1>3, <1>4, UpdateStateIs DEF StreamInv, TimerFitsState
<1>8. InitializeFirst'
  BY <1>1, <1>3, <1>4 DEF InitializeFirst, BeginsOnce
<1>9. WritesInv'
  <2>1. NothingNew
    BY <1>3, NothingNewKept
  <2>2. \A d : Fresh(d)' => Fresh(d) /\ d \in MyDocs
    BY <1>3 DEF Fresh, MyDocs
  <2>3. QED
    BY <1>1, <1>3, <2>1, <2>2 DEF WritesInv, NothingNew
<1>10. DocsInv'
  BY <1>1, <1>3, DocsKept
<1>11. QED
  BY <1>2, <1>5, <1>6, <1>7, <1>8, <1>9, <1>10 DEF FireInv

-----------------------------------------------------------------------------
\* Answers of the server.

(* ApplyRemoteEvent keeps the invariant: what is new or confirmed is       *)
(* looked at, and limbo documents that the snapshot holds leave limbo.     *)
LEMMA ApplyRemoteEventInv ==
  ASSUME FireInv, NEW S \in SUBSET Sendable, NEW current \in BOOLEAN,
         ApplyRemoteEvent(S, current)
  PROVE  FireInv'
<1>1. /\ ReadsOK /\ InitializeFirst /\ DocsInv /\ WritesInv
      /\ ViewInv /\ LimboInv /\ StreamInv /\ WaitInv
      /\ QueuesOK /\ EngineOK /\ StoreOK
  BY InvParts
<1>2. ToldReads
  BY <1>1, RemoteEventReads
<1>3. ReadsOK' /\ (view'.open <=> view.open)
  BY <1>2 DEF ToldReads
<1>4. /\ UNCHANGED <<workerQueue, nextWrite, stream, idle>>
      /\ UNCHANGED <<mutations, sdkUser, withdrawn>>
      /\ tracker' = UpdateState("Online") /\ stream = "Open"
      /\ synced' = S /\ shown' = shown \cup S
      /\ remoteDocs' = remoteDocs \cup S /\ committed' = committed \ S
      /\ current => shown \subseteq S
  BY DEF ApplyRemoteEvent, WatchMessage, StreamStep, callVars
<1>5. AllMutations' = AllMutations
  BY <1>4, MutationsKept
<1>6. S \subseteq OtherDocs \cup remoteDocs \cup withdrawn \cup AllMutations
  BY SentBefore
<1>7. WritesInv' /\ InitializeFirst'
  <2>1. \A d \in MyDocs : d \notin OtherDocs
    BY FirestoreAssumption DEF MyDocs
  <2>2. NothingNew
    BY <1>4, <1>5, <1>6, <2>1 DEF NothingNew
  <2>3. QED
    BY <1>1, <1>3, <1>4, <2>2, WritesKept DEF QueueStep
<1>8. DocsInv'
  BY <1>1, <1>4, <1>5 DEF DocsInv
<1>9. ViewInv' /\ LimboInv'
  <2>1. PICK changed : /\ changed = (S \ remoteDocs) \cup (S \cap committed)
                       /\ ApplyChanges(changed, current)
    BY DEF ApplyRemoteEvent
  <2>2. LooksAtAll(changed)
    BY <1>4, <2>1 DEF LooksAtAll, LocalView
  <2>3. LimboKept
    BY <1>1, <1>4, <1>5 DEF LimboInv, LimboKept
  <2>4. current => shown' \subseteq synced'
    BY <1>4
  <2>5. QED
    BY <1>1, <2>1, <2>2, <2>3, <2>4, ViewApplied
<1>10. WaitInv'
  BY <1>1, <1>2, <1>4, UpdateStateIs, WaitTold
<1>11. StreamInv'
  BY <1>1, <1>3, <1>4, UpdateStateIs DEF StreamInv, TimerFitsState
<1>12. QED
  BY <1>3, <1>7, <1>8, <1>9, <1>10, <1>11 DEF FireInv

(* HandleRejectedLimbo keeps the invariant: the document leaves cache and  *)
(* limbo, and the view unless it is pending again.                         *)
LEMMA HandleRejectedLimboInv ==
  ASSUME FireInv, NEW d \in Docs, HandleRejectedLimbo(d)
  PROVE  FireInv'
<1>1. /\ ReadsOK /\ InitializeFirst /\ DocsInv /\ WritesInv
      /\ ViewInv /\ LimboInv /\ StreamInv /\ WaitInv
      /\ QueuesOK /\ EngineOK /\ StoreOK
  BY InvParts
<1>2. ToldReads
  BY <1>1, RejectedLimboReads
<1>3. ReadsOK' /\ (view'.open <=> view.open)
  BY <1>2 DEF ToldReads
<1>4. /\ UNCHANGED <<workerQueue, nextWrite, stream, idle>>
      /\ UNCHANGED <<synced, shown, mutations, sdkUser>>
      /\ tracker' = UpdateState("Online") /\ stream = "Open"
      /\ remoteDocs' = remoteDocs \ {d} /\ committed' = committed \ {d}
      /\ withdrawn' = withdrawn \cup {d} /\ d \in limboTargets
      /\ limboTargets' = limboTargets \ {d}
  BY DEF HandleRejectedLimbo, WatchMessage, StreamStep, callVars
<1>5. PICK docs :
        /\ docs = view.docs \ ({d} \ mutations[sdkUser])
        /\ view' = [view EXCEPT !.docs = docs, !.local = @ \cap docs,
                                !.limbo = IF view.current THEN @ \ {d} ELSE @]
  BY DEF HandleRejectedLimbo
<1>6. /\ view'.docs = docs /\ view'.local = view.local \cap docs
      /\ view'.limbo = (IF view.current THEN view.limbo \ {d} ELSE view.limbo)
      /\ view'.current = view.current /\ view'.open = view.open
  <2>1. PICK local, limbo :
          /\ local = view.local \cap docs
          /\ limbo = IF view.current THEN view.limbo \ {d} ELSE view.limbo
          /\ view' = [view EXCEPT !.docs = docs, !.local = local, !.limbo = limbo]
    BY <1>5
  <2>2. view \in ViewType
    BY <1>1 DEF EngineOK
  <2>3. QED
    BY <2>1, <2>2 DEF ViewType
<1>7. AllMutations' = AllMutations
  BY <1>4, MutationsKept
<1>8. d \in remoteDocs /\ d \in view.limbo /\ view.open
  BY <1>1, <1>4 DEF LimboInv, ViewInv
<1>9. WritesInv' /\ InitializeFirst'
  <2>1. NothingNew
    BY <1>4, <1>7, <1>8 DEF NothingNew
  <2>2. QED
    BY <1>1, <1>3, <1>4, <2>1, WritesKept DEF QueueStep
<1>10. DocsInv'
  BY <1>1, <1>4, <1>7 DEF DocsInv
<1>11. ViewInv'
  <2>1. /\ view.docs = LocalView /\ mutations[sdkUser] \subseteq view.local
        /\ view.local \subseteq view.docs
        /\ view.local \subseteq mutations[sdkUser] \cup committed
    BY <1>1, <1>8 DEF ViewInv
  <2>2. docs = LocalView'
    BY <1>4, <1>5, <2>1 DEF LocalView
  <2>3. /\ mutations'[sdkUser'] \subseteq view'.local
        /\ view'.local \subseteq view'.docs
        /\ view'.local \subseteq mutations'[sdkUser'] \cup committed'
    BY <1>4, <1>5, <1>6, <2>1
  <2>4. ASSUME view.current
        PROVE  /\ view'.limbo = view'.docs \ (synced' \cup view'.local)
               /\ shown' \subseteq synced' /\ limboTargets' = view'.limbo
    <3>1. /\ view.limbo = view.docs \ (synced \cup view.local)
          /\ shown \subseteq synced /\ limboTargets = view.limbo
      BY <1>1, <2>4 DEF ViewInv
    <3>2. view'.limbo = view.limbo \ {d}
      BY <1>6, <2>4
    <3>3. view.limbo \ {d} = docs \ (synced \cup (view.local \cap docs))
      BY <1>5, <2>1, <3>1
    <3>4. QED
      BY <1>4, <1>6, <3>1, <3>2, <3>3
  <2>5. QED
    BY <1>6, <1>8, <2>2, <2>3, <2>4 DEF ViewInv
<1>12. LimboInv'
  <2>1. limboTargets' \subseteq view'.limbo /\ limboTargets' \subseteq remoteDocs'
    BY <1>1, <1>4, <1>6 DEF LimboInv
  <2>2. ASSUME NEW e \in view'.limbo \ limboTargets'
        PROVE  /\ e \in withdrawn'
               /\ e \in remoteDocs' \/ e \in AllMutations' => e \in shown'
    <3>1. CASE e = d
      BY <1>1, <1>4, <1>7, <1>8, <3>1 DEF DocsInv
    <3>2. CASE e # d
      <4>1. e \in view.limbo \ limboTargets
        BY <1>4, <1>6, <2>2, <3>2
      <4>2. QED
        BY <1>1, <1>4, <1>7, <4>1 DEF LimboInv
    <3>3. QED
      BY <3>1, <3>2
  <2>3. QED
    BY <2>1, <2>2 DEF LimboInv
<1>13. WaitInv'
  BY <1>1, <1>2, <1>4, UpdateStateIs, WaitTold
<1>14. StreamInv'
  BY <1>1, <1>3, <1>4, UpdateStateIs DEF StreamInv, TimerFitsState
<1>15. QED
  BY <1>3, <1>9, <1>10, <1>11, <1>12, <1>13, <1>14 DEF FireInv

(* HandleSuccessfulWrite keeps the invariant: from the mutation queue the  *)
(* document goes into the cache, committed unless it was sent before.      *)
LEMMA HandleSuccessfulWriteInv ==
  ASSUME FireInv, NEW d \in MyDocs, HandleSuccessfulWrite(d)
  PROVE  FireInv'
<1>1. /\ ReadsOK /\ InitializeFirst /\ DocsInv /\ WritesInv
      /\ ViewInv /\ LimboInv /\ StreamInv /\ WaitInv
      /\ QueuesOK /\ EngineOK /\ StoreOK
  BY InvParts
<1>2. ToldReads
  BY <1>1, SuccessfulWriteReads
<1>3. ReadsOK' /\ (view'.open <=> view.open)
  BY <1>2 DEF ToldReads
<1>4. /\ UNCHANGED <<workerQueue, nextWrite>> /\ UNCHANGED streamVars
      /\ UNCHANGED <<synced, shown, sdkUser, withdrawn>>
      /\ mutations' = [mutations EXCEPT ![sdkUser] = @ \ {d}]
      /\ remoteDocs' = remoteDocs \cup {d}
      /\ committed' = committed \cup ({d} \ remoteDocs)
      /\ d \in mutations[sdkUser] /\ ApplyChanges({d}, view.current)
  BY DEF HandleSuccessfulWrite, StreamStep, callVars
<1>5. /\ \A e \in AllMutations' : e \in AllMutations
      /\ d \notin AllMutations' /\ d \in AllMutations
      /\ mutations'[sdkUser] = mutations[sdkUser] \ {d}
      /\ \A u \in Users : u # sdkUser => mutations'[u] = mutations[u]
  BY <1>1, <1>4, MutationsChanged, InMutations DEF StoreOK
<1>6. WritesInv' /\ InitializeFirst'
  <2>1. NothingNew
    BY <1>4, <1>5 DEF NothingNew
  <2>2. QED
    BY <1>1, <1>3, <1>4, <2>1, WritesKept DEF QueueStep
<1>7. DocsInv'
  <2>1. \A u, w \in Users : \A e : e \in mutations'[u] /\ e \in mutations'[w] => u = w
    BY <1>1, <1>5 DEF DocsInv
  <2>2. QED
    BY <1>1, <1>4, <1>5, <2>1 DEF DocsInv
<1>8. ViewInv' /\ LimboInv'
  <2>1. LooksAtAll({d})
    BY <1>4, <1>5 DEF LooksAtAll, LocalView
  <2>2. LimboKept
    BY <1>1, <1>4, <1>5 DEF LimboInv, LimboKept
  <2>3. view.current \in BOOLEAN
    BY <1>1 DEF EngineOK, ViewType
  <2>4. view.current => shown' \subseteq synced'
    BY <1>1, <1>4 DEF ViewInv
  <2>5. QED
    BY <1>1, <1>4, <2>1, <2>2, <2>3, <2>4, ViewApplied
<1>9. WaitInv' /\ StreamInv'
  <2>1. tracker' = tracker
    BY <1>4 DEF streamVars
  <2>2. QED
    BY <1>1, <1>2, <1>3, <1>4, <2>1, WaitTold, StreamKept
<1>10. QED
  BY <1>3, <1>6, <1>7, <1>8, <1>9 DEF FireInv

(* HandleRejectedWrite keeps the invariant: the document is withdrawn and  *)
(* leaves the view unless it is cached.                                    *)
LEMMA HandleRejectedWriteInv ==
  ASSUME FireInv, NEW d \in MyDocs, HandleRejectedWrite(d)
  PROVE  FireInv'
<1>1. /\ ReadsOK /\ InitializeFirst /\ DocsInv /\ WritesInv
      /\ ViewInv /\ LimboInv /\ StreamInv /\ WaitInv
      /\ QueuesOK /\ EngineOK /\ StoreOK
  BY InvParts
<1>2. ToldReads
  BY <1>1, RejectedWriteReads
<1>3. ReadsOK' /\ (view'.open <=> view.open)
  BY <1>2 DEF ToldReads
<1>4. /\ UNCHANGED <<workerQueue, nextWrite>> /\ UNCHANGED streamVars
      /\ UNCHANGED <<synced, shown, remoteDocs, committed, sdkUser>>
      /\ mutations' = [mutations EXCEPT ![sdkUser] = @ \ {d}]
      /\ withdrawn' = withdrawn \cup {d}
      /\ d \in mutations[sdkUser] /\ ApplyChanges({d}, view.current)
  BY DEF HandleRejectedWrite, StreamStep, callVars
<1>5. /\ \A e \in AllMutations' : e \in AllMutations
      /\ d \notin AllMutations' /\ d \in AllMutations
      /\ mutations'[sdkUser] = mutations[sdkUser] \ {d}
      /\ \A u \in Users : u # sdkUser => mutations'[u] = mutations[u]
  BY <1>1, <1>4, MutationsChanged, InMutations DEF StoreOK
<1>6. WritesInv' /\ InitializeFirst'
  <2>1. NothingNew
    BY <1>4, <1>5 DEF NothingNew
  <2>2. QED
    BY <1>1, <1>3, <1>4, <2>1, WritesKept DEF QueueStep
<1>7. DocsInv'
  <2>1. \A u, w \in Users : \A e : e \in mutations'[u] /\ e \in mutations'[w] => u = w
    BY <1>1, <1>5 DEF DocsInv
  <2>2. QED
    BY <1>1, <1>4, <1>5, <2>1 DEF DocsInv
<1>8. ViewInv' /\ LimboInv'
  <2>1. LooksAtAll({d})
    BY <1>4, <1>5 DEF LooksAtAll, LocalView
  <2>2. LimboKept
    BY <1>1, <1>4, <1>5 DEF LimboInv, LimboKept
  <2>3. view.current \in BOOLEAN
    BY <1>1 DEF EngineOK, ViewType
  <2>4. view.current => shown' \subseteq synced'
    BY <1>1, <1>4 DEF ViewInv
  <2>5. QED
    BY <1>1, <1>4, <2>1, <2>2, <2>3, <2>4, ViewApplied
<1>9. WaitInv' /\ StreamInv'
  <2>1. tracker' = tracker
    BY <1>4 DEF streamVars
  <2>2. QED
    BY <1>1, <1>2, <1>3, <1>4, <2>1, WaitTold, StreamKept
<1>10. QED
  BY <1>3, <1>6, <1>7, <1>8, <1>9 DEF FireInv

-----------------------------------------------------------------------------
\* Restart and start.

(* A process begins with one task, which is no write.                      *)
LEMMA BeginQueue ==
  ASSUME NEW t, t.op = "initialize"
  PROVE  /\ BeginsOnce(<<t>>, FALSE) /\ WritesOnce(<<t>>)
         /\ \A d : d \notin Queued(<<t>>)
<1>1. Len(<<t>>) = 1 /\ <<t>>[1] = t /\ \A i \in 1..1 : i = 1
  OBVIOUS
<1>2. BeginsOnce(<<t>>, FALSE) /\ WritesOnce(<<t>>)
  BY <1>1 DEF BeginsOnce, WritesOnce
<1>3. \A d : d \notin Queued(<<t>>)
  BY <1>1 DEF Queued
<1>4. QED
  BY <1>2, <1>3

(* A new process keeps the invariant: what was in memory is gone, what is  *)
(* on disk stays.                                                          *)
LEMMA RelaunchInv ==
  ASSUME FireInv, NEW u \in Users, Relaunch(u)
  PROVE  FireInv'
<1>1. ReadsOK /\ DocsInv /\ WritesInv /\ CallsOK
  BY InvParts
<1>2. ReadsOK'
  BY <1>1, RelaunchReads
<1>3. PICK t : /\ t = [op |-> "initialize", user |-> u]
               /\ t.op = "initialize"
  <2>1. [op |-> "initialize", user |-> u].op = "initialize"
    OBVIOUS
  <2>2. QED
    BY <2>1, Zenon
<1>4. /\ workerQueue' = <<t>> /\ listeners' = <<>> /\ nextWrite' = nextWrite
      /\ view' = NoView /\ limboTargets' = {} /\ stream' = "Initial"
      /\ idle' = FALSE /\ tracker' = Unknown
      /\ withdrawn' = withdrawn \cup QueuedWrites
      /\ UNCHANGED <<shown, remoteDocs, committed, mutations>>
  BY <1>3 DEF Relaunch, callVars
<1>5. AllMutations' = AllMutations
  BY <1>4, MutationsKept
<1>6. ~view'.open
  BY <1>4 DEF NoView
<1>7. /\ BeginsOnce(workerQueue', FALSE) /\ WritesOnce(workerQueue')
      /\ \A d : d \notin Queued(workerQueue')
  BY <1>3, <1>4, BeginQueue, Zenon
<1>8. InitializeFirst'
  BY <1>6, <1>7 DEF InitializeFirst, BeginsOnce
<1>9. WritesInv'
  <2>1. \A d \in QueuedWrites : d < nextWrite
    <3>1. QueuedWrites = Queued(workerQueue)
      BY DEF QueuedWrites, Queued
    <3>2. QED
      BY <1>1, <3>1 DEF WritesInv
  <2>2. \A d : Fresh(d)' => d \in MyDocs /\ d >= nextWrite
    BY <1>4, <1>7 DEF Fresh, MyDocs
  <2>3. \A d \in MyDocs : d >= nextWrite => d \notin QueuedWrites
    BY <1>1, <2>1, FirestoreAssumption DEF CallsOK, MyDocs
  <2>4. \A d : Fresh(d)' => Fresh(d) /\ d \notin QueuedWrites
    BY <2>2, <2>3 DEF Fresh
  <2>5. QED
    BY <1>1, <1>4, <1>5, <1>7, <2>4 DEF WritesInv
<1>10. DocsInv'
  BY <1>1, <1>4, <1>5 DEF DocsInv
<1>11. ViewInv' /\ LimboInv'
  BY <1>4, <1>6, ViewClosed
<1>12. WaitInv'
  BY <1>4, <1>6, WaitingNone DEF WaitInv
<1>13. StreamInv'
  BY <1>4, <1>6 DEF StreamInv, TimerFitsState, Unknown
<1>14. QED
  BY <1>2, <1>8, <1>9, <1>10, <1>11, <1>12, <1>13 DEF FireInv

(* The invariant holds at first.                                           *)
LEMMA InitInv ==
  ASSUME Init
  PROVE  FireInv
<1>1. PICK t : /\ t = [op |-> "initialize", user |-> sdkUser]
               /\ t.op = "initialize"
  <2>1. [op |-> "initialize", user |-> sdkUser].op = "initialize"
    OBVIOUS
  <2>2. QED
    BY <2>1, Zenon
<1>2. /\ sdkUser \in Users /\ workerQueue = <<t>> /\ mainQueue = <<>>
      /\ muted = {} /\ listeners = <<>> /\ view = NoView /\ limboTargets = {}
      /\ remoteDocs \in SUBSET OtherDocs /\ synced = remoteDocs
      /\ shown = {} /\ committed = {} /\ withdrawn = {}
      /\ mutations = [v \in Users |-> {}]
      /\ stream = "Initial" /\ idle = FALSE /\ orphaned = FALSE
      /\ tracker = Unknown
      /\ nextRead = 1 /\ nextWrite = 1 /\ switches = 0
  BY <1>1 DEF Init
<1>3. t \in Tasks
  BY <1>1, <1>2 DEF Tasks
<1>4. ReadsInv
  BY <1>1, <1>2, <1>3, FitBegin DEF ReadsInv
<1>5. TypeOK
  <2>1. QueuesOK
    BY <1>2, <1>3 DEF QueuesOK
  <2>2. EngineOK /\ StreamOK
    BY <1>2, EmptyTypes, StateTypes DEF EngineOK, StreamOK
  <2>3. StoreOK /\ CallsOK
    BY <1>2, FirestoreAssumption DEF StoreOK, CallsOK, Docs
  <2>4. QED
    BY <2>1, <2>2, <2>3, TypeIs
<1>6. ~view.open
  BY <1>2 DEF NoView
<1>7. \A d : d \notin AllMutations
  BY <1>2, InMutations
<1>8. /\ BeginsOnce(workerQueue, FALSE) /\ WritesOnce(workerQueue)
      /\ \A d : d \notin Queued(workerQueue)
  BY <1>1, <1>2, BeginQueue, Zenon
<1>9. InitializeFirst
  BY <1>6, <1>8 DEF InitializeFirst, BeginsOnce
<1>10. WritesInv
  <2>1. \A d \in MyDocs : d \notin remoteDocs
    BY <1>2, FirestoreAssumption DEF MyDocs
  <2>2. QED
    BY <1>2, <1>7, <1>8, <2>1 DEF WritesInv, Fresh
<1>11. DocsInv
  BY <1>2, <1>7 DEF DocsInv
<1>12. ViewInv /\ LimboInv
  BY <1>2, <1>6 DEF ViewInv, LimboInv, NoView
<1>13. WaitInv
  BY <1>2, <1>6, WaitingNone DEF WaitInv
<1>14. StreamInv
  BY <1>2, <1>6 DEF StreamInv, TimerFitsState, Unknown
<1>15. QED
  BY <1>4, <1>5, <1>9, <1>10, <1>11, <1>12, <1>13, <1>14 DEF FireInv, ReadsOK

-----------------------------------------------------------------------------
\* The invariant.

(* Nothing happens.                                                        *)
LEMMA StutterInv ==
  ASSUME FireInv, UNCHANGED vars
  PROVE  FireInv'
<1>1. /\ UNCHANGED <<workerQueue, muted, nextRead, nextWrite, switches>>
      /\ UNCHANGED <<listeners, view, limboTargets, mainQueue>>
      /\ UNCHANGED storeVars /\ UNCHANGED streamVars
      /\ UNCHANGED <<synced, shown, remoteDocs, committed, mutations, sdkUser,
                     withdrawn>>
      /\ UNCHANGED <<stream, idle, tracker, orphaned>>
  BY DEF vars, callVars, engineVars, storeVars, streamVars
<1>2. ReadsOK /\ ViewInv /\ LimboInv /\ StreamInv /\ WaitInv
  BY InvParts
<1>3. ReadsOK'
  BY <1>1, <1>2 DEF ReadsOK, TypeOK, ReadsInv
<1>4. DocsInv' /\ WritesInv' /\ InitializeFirst'
  BY <1>1, StoreStays
<1>5. ViewInv' /\ LimboInv' /\ StreamInv' /\ WaitInv'
  BY <1>1, <1>2, ViewKept, StreamKept, WaitKept
<1>6. QED
  BY <1>3, <1>4, <1>5 DEF FireInv

(* Every step keeps the invariant.                                         *)
LEMMA NextInv ==
  ASSUME FireInv, [Next]_vars
  PROVE  FireInv'
<1>1. CASE UNCHANGED vars
  BY <1>1, StutterInv
<1>2. ASSUME NEW c \in Completions, GetDocuments(c)
      PROVE  FireInv'
  BY <1>2, GetDocumentsInv
<1>3. CASE AddDocument
  BY <1>3, AddDocumentInv
<1>4. CASE Deliver
  BY <1>4, DeliverInv
<1>5. ASSUME NEW u \in Users, CredentialChange(u) \/ Relaunch(u)
      PROVE  FireInv'
  BY <1>5, CredentialChangeInv, RelaunchInv
<1>6. CASE WorkerStep
  BY <1>6, InitializeInv, AddQueryListenerInv, RemoveQueryListenerInv,
     WriteMutationsInv, HandleCredentialChangeInv DEF WorkerStep
<1>7. CASE OnWatchStreamOpen \/ BackoffElapsed \/ IdleTimeout \/ OnWatchStreamChange
  BY <1>7, StreamStepInv
<1>8. CASE OnWatchStreamClose
  BY <1>8, OnWatchStreamCloseInv
<1>9. CASE OnlineStateTimeout
  BY <1>9, OnlineStateTimeoutInv
<1>10. ASSUME NEW S \in SUBSET Sendable, NEW current \in BOOLEAN,
              ApplyRemoteEvent(S, current)
       PROVE  FireInv'
  BY <1>10, ApplyRemoteEventInv
<1>11. CASE HandleRejectedListen
  BY <1>11, HandleRejectedListenInv
<1>12. ASSUME NEW d \in Docs, HandleRejectedLimbo(d)
       PROVE  FireInv'
  BY <1>12, HandleRejectedLimboInv
<1>13. ASSUME NEW d \in MyDocs, HandleSuccessfulWrite(d) \/ HandleRejectedWrite(d)
       PROVE  FireInv'
  BY <1>13, HandleSuccessfulWriteInv, HandleRejectedWriteInv
<1>14. QED
  BY <1>1, <1>2, <1>3, <1>4, <1>5, <1>6, <1>7, <1>8, <1>9, <1>10, <1>11, <1>12,
     <1>13 DEF Next

(* The inductive invariant holds in every state of the client.             *)
THEOREM FirestoreInvariant == Spec => []FireInv
<1>1. Init => FireInv
  BY InitInv
<1>2. FireInv /\ [Next]_vars => FireInv'
  BY NextInv
<1>3. QED
  BY <1>1, <1>2, PTL DEF Spec

(* Every variable of the client keeps its type, and committed documents    *)
(* are in the cache.                                                       *)
THEOREM FirestoreTypes == Spec => []TypeOK
<1>1. FireInv => TypeOK
  BY DEF FireInv, ReadsOK
<1>2. QED
  BY <1>1, FirestoreInvariant, PTL

(* A view that is changed event by event shows what a query of the local   *)
(* store would: View::ComputeDocumentChanges and HandleUserChange look at  *)
(* every document that changed.                                            *)
THEOREM ViewsShowTheStore == Spec => []ViewIsLocalView
<1>1. FireInv => ViewIsLocalView
  BY DEF FireInv, ViewInv, ViewIsLocalView
<1>2. QED
  BY <1>1, FirestoreInvariant, PTL

(* The limbo documents of a current view have their listens, and no listen *)
(* outlives its view (SyncEngine::UpdateTrackedLimboDocuments).            *)
THEOREM LimboDocumentsAreWatched == Spec => []LimboIsWatched
<1>1. FireInv => LimboIsWatched
  BY DEF FireInv, ViewInv, LimboInv, LimboIsWatched
<1>2. QED
  BY <1>1, FirestoreInvariant, PTL

(* Reads wait exactly where listeners are not raised.                      *)
LEMMA WaitersAreUnraised ==
  ASSUME FireInv
  PROVE  Unraised # <<>> <=> WaitingOf(listeners) # <<>>
<1>1. listeners \in Seq(Listener) /\ Unraised = UnraisedOf(listeners)
  BY InvParts, UnraisedIs DEF EngineOK, QueueTypes
<1>2. QED
  BY <1>1, WaitingEmpty

(* The assertions of event manager, sync engine, tracker and remote store  *)
(* that compare their states always hold.                                  *)
THEOREM ReadPathFits == Spec => []ReadPathAsserts
<1>1. FireInv => ListenersHaveView
  BY WaitersAreUnraised DEF FireInv, WaitInv, ListenersHaveView
<1>2. FireInv => TimerFitsState
  BY DEF FireInv, StreamInv
<1>3. FireInv => ReadPathAsserts
  BY <1>1, <1>2 DEF ReadPathAsserts
<1>4. QED
  BY <1>3, FirestoreInvariant, PTL

(* A read that waits while the online state is unknown has the ten-second  *)
(* timer of OnlineStateTracker, unless its stream was begun for reads that *)
(* are gone.                                                               *)
THEOREM WaitingReadsAreTimed == Spec => []WaitsAreTimed
<1>1. ASSUME FireInv, Unraised # <<>>, tracker.state = "Unknown"
      PROVE  tracker.timer \/ orphaned
  <2>1. WaitingOf(listeners) # <<>>
    BY <1>1, WaitersAreUnraised
  <2>2. listeners # <<>>
    BY <2>1, WaitingNone
  <2>3. StreamInv /\ WaitInv /\ StreamOK
    BY <1>1, InvParts
  <2>4. stream \notin {"Initial", "Error"}
    BY <2>2, <2>3 DEF WaitInv, StreamInv, TimerFitsState
  <2>5. QED
    BY <1>1, <2>3, <2>4 DEF StreamInv, StreamOK
<1>2. FireInv => WaitsAreTimed
  BY <1>1 DEF WaitsAreTimed
<1>3. QED
  BY <1>2, FirestoreInvariant, PTL

-----------------------------------------------------------------------------
\* The client as EventStore: the requests.

RequestIndices(q) == {i \in 1..Len(q) : q[i].op \in {"read", "write"}}
RequestsOf(q) == Entries(q, RequestIndices(q))

(* A task put on the worker queue is a request when it is a read or a      *)
(* write.                                                                  *)
LEMMA RequestsAppend ==
  ASSUME NEW q \in Seq(Tasks), NEW t \in Tasks
  PROVE  /\ t.op \notin {"read", "write"} => RequestsOf(Append(q, t)) = RequestsOf(q)
         /\ t.op \in {"read", "write"} =>
              RequestsOf(Append(q, t)) = Append(RequestsOf(q), t)
<1>1. PICK r, I, J : /\ r = Append(q, t) /\ I = RequestIndices(q)
                     /\ J = RequestIndices(r)
  OBVIOUS
<1>2. /\ Len(q) \in Nat /\ Len(r) = Len(q) + 1
      /\ r[Len(q) + 1] = t /\ \A i \in 1..Len(q) : r[i] = q[i]
  BY <1>1, AppendProperties, LenProperties
<1>3. PICK n \in Nat : n = Len(q)
  BY <1>2
<1>4. \A i \in 1..(n + 1) : (i \in 1..n /\ i # n + 1) \/ i = n + 1
  OBVIOUS
<1>5. Indices(I, q) /\ \A i \in I : i \in 1..n
  BY <1>1, <1>3 DEF RequestIndices, Indices
<1>6. \A i \in 1..n : i \in J <=> i \in I
  BY <1>1, <1>2, <1>3, <1>4 DEF RequestIndices
<1>7. n + 1 \in J <=> t.op \in {"read", "write"}
  BY <1>1, <1>2, <1>3 DEF RequestIndices
<1>8. J \subseteq 1..(n + 1)
  BY <1>1, <1>2, <1>3 DEF RequestIndices
<1>9. /\ Entries(r, I) = RequestsOf(q)
      /\ Entries(r, I \cup {n + 1}) = Append(RequestsOf(q), t)
  <2>1. /\ Entries(Append(q, t), I) = Entries(q, I)
        /\ Entries(Append(q, t), I \cup {Len(q) + 1}) = Append(Entries(q, I), t)
    BY <1>5, EntriesAppend
  <2>2. QED
    BY <1>1, <1>3, <2>1 DEF RequestsOf
<1>10. CASE t.op \notin {"read", "write"}
  <2>1. \A i : i \in J <=> i \in I
    BY <1>4, <1>5, <1>6, <1>7, <1>8, <1>10
  <2>2. J = I
    BY <2>1
  <2>3. QED
    BY <1>1, <1>9, <1>10, <2>2 DEF RequestsOf
<1>11. CASE t.op \in {"read", "write"}
  <2>1. \A i : i \in J <=> i \in I \cup {n + 1}
    BY <1>4, <1>5, <1>6, <1>7, <1>8, <1>11
  <2>2. J = I \cup {n + 1}
    BY <2>1
  <2>3. QED
    BY <1>1, <1>9, <1>11, <2>2 DEF RequestsOf
<1>12. QED
  BY <1>10, <1>11

(* A task taken from the worker queue is the first request when it is one. *)
LEMMA RequestsTail ==
  ASSUME NEW q \in Seq(Tasks), q # <<>>
  PROVE  /\ Head(q).op \notin {"read", "write"} => RequestsOf(Tail(q)) = RequestsOf(q)
         /\ Head(q).op \in {"read", "write"} =>
              /\ RequestsOf(q) # <<>> /\ Head(RequestsOf(q)) = Head(q)
              /\ RequestsOf(Tail(q)) = Tail(RequestsOf(q))
<1>1. PICK r, I, J : /\ r = Tail(q) /\ I = RequestIndices(q)
                     /\ J = RequestIndices(r)
  OBVIOUS
<1>2. /\ 1 \in 1..Len(q) /\ Head(q) = q[1]
      /\ \A i \in 1..Len(r) : i + 1 \in 1..Len(q) /\ r[i] = q[i + 1]
  BY <1>1, Taken
<1>3. J = {i \in 1..Len(Tail(q)) : i + 1 \in I}
  <2>1. \A i \in 1..Len(r) : i \in J <=> i + 1 \in I
    BY <1>1, <1>2 DEF RequestIndices
  <2>2. \A i \in J : i \in 1..Len(r)
    BY <1>1 DEF RequestIndices
  <2>3. QED
    BY <1>1, <2>1, <2>2
<1>4. 1 \in I <=> Head(q).op \in {"read", "write"}
  BY <1>1, <1>2 DEF RequestIndices
<1>5. Indices(I, q)
  BY <1>1 DEF Indices, RequestIndices
<1>6. PICK p : p = Entries(q, I)
  OBVIOUS
<1>7. /\ 1 \notin I => Entries(Tail(q), J) = p
      /\ 1 \in I => /\ p # <<>> /\ Head(p) = Head(q)
                    /\ Entries(Tail(q), J) = Tail(p)
  BY <1>3, <1>5, <1>6, EntriesTail
<1>8. RequestsOf(q) = p /\ RequestsOf(Tail(q)) = Entries(Tail(q), J)
  BY <1>1, <1>6 DEF RequestsOf
<1>9. QED
  BY <1>4, <1>7, <1>8

(* A new process has no requests.                                          *)
LEMMA RequestsBegin ==
  ASSUME NEW t \in Tasks, t.op = "initialize"
  PROVE  RequestsOf(<<t>>) = <<>>
<1>1. PICK q : q = <<t>>
  OBVIOUS
<1>2. q \in Seq(Tasks) /\ Len(q) = 1 /\ q[1] = t /\ \A i \in 1..1 : i = 1
  BY <1>1
<1>3. RequestIndices(q) = {}
  BY <1>2 DEF RequestIndices
<1>4. Indices({}, q)
  BY DEF Indices
<1>5. Entries(q, {}) = <<>>
  BY <1>2, <1>4, EntriesEmpty
<1>6. QED
  BY <1>1, <1>3, <1>5 DEF RequestsOf

(* The writes among the requests are those of the queue.                   *)
LEMMA RequestedWrites ==
  ASSUME NEW q \in Seq(Tasks)
  PROVE  Queued(RequestsOf(q)) = Queued(q)
<1>1. PICK I : I = RequestIndices(q)
  OBVIOUS
<1>2. I \subseteq 1..Len(q)
  BY <1>1 DEF RequestIndices
<1>3. PICK r : Indices(I, q) /\ r = Entries(q, I)
  BY <1>2 DEF Indices
<1>4. /\ r \in Seq(Tasks)
      /\ \A k \in 1..Len(r) : \E i \in I : r[k] = q[i]
      /\ \A i \in I : \E k \in 1..Len(r) : r[k] = q[i]
  BY <1>3, EntriesRange
<1>5. ASSUME NEW d, d \in Queued(r)
      PROVE  d \in Queued(q)
  <2>1. PICK k \in 1..Len(r) : r[k].op = "write" /\ r[k].doc = d
    BY <1>5, InQueued
  <2>2. \E i \in 1..Len(q) : q[i].op = "write" /\ q[i].doc = d
    BY <1>2, <1>4, <2>1
  <2>3. QED
    BY <2>2, InQueued
<1>6. ASSUME NEW d, d \in Queued(q)
      PROVE  d \in Queued(r)
  <2>1. PICK i \in 1..Len(q) : q[i].op = "write" /\ q[i].doc = d
    BY <1>6, InQueued
  <2>2. i \in I
    BY <1>1, <2>1 DEF RequestIndices
  <2>3. \E k \in 1..Len(r) : r[k].op = "write" /\ r[k].doc = d
    BY <1>4, <2>1, <2>2
  <2>4. QED
    BY <2>3, InQueued
<1>7. Queued(r) = Queued(q)
  BY <1>5, <1>6
<1>8. QED
  BY <1>1, <1>3, <1>7 DEF RequestsOf

-----------------------------------------------------------------------------
\* The state of the store that the client's state stands for.

(* The state of the store, by the queues and listeners that stand for it,  *)
(* before and after a step.                                                *)
LEMMA Abstraction ==
  /\ StoreRequests = RequestsOf(workerQueue)
  /\ WaitingReads = WaitingOf(listeners)
  /\ FirstEvents = First(mainQueue, muted)
  /\ StoreRequests' = RequestsOf(workerQueue')
  /\ WaitingReads' = WaitingOf(listeners')
  /\ FirstEvents' = First(mainQueue', muted')
<1>1. StoreRequests = RequestsOf(workerQueue)
  BY DEF StoreRequests, RequestsOf, RequestIndices
<1>2. StoreRequests' = RequestsOf(workerQueue')
  BY DEF StoreRequests, RequestsOf, RequestIndices
<1>3. FirstEvents = First(mainQueue, muted)
  BY DEF FirstEvents, First, FirstIndices, IsFirst
<1>4. FirstEvents' = First(mainQueue', muted')
  BY DEF FirstEvents, First, FirstIndices, IsFirst
<1>5. WaitingReads = WaitingOf(listeners)
  BY UnraisedIs
<1>6. WaitingReads' = WaitingOf(listeners')
  BY DEF WaitingReads, WaitingOf, ReadsOf, Unraised, UnraisedOf, UnraisedIndices
<1>7. QED
  BY <1>1, <1>2, <1>3, <1>4, <1>5, <1>6

(* Parked documents are those of the users who are not signed in.          *)
LEMMA InParked ==
  \A d : d \in Parked <=> \E u \in Users : u # sdkUser /\ d \in mutations[u]
  BY DEF Parked

(* The same after a step.                                                  *)
LEMMA InParkedNext ==
  \A d : d \in Parked' <=> \E u \in Users : u # sdkUser' /\ d \in mutations'[u]
  BY DEF Parked

(* No read is answered, or all that wait are, with these documents.        *)
AnswersKept == WaitingReads' = WaitingReads /\ FirstEvents' = FirstEvents
AnswersGiven(docs) ==
  /\ WaitingReads' = <<>>
  /\ FirstEvents' = FirstEvents \o Store!Raise(WaitingReads, docs)

(* The answers to nobody change nothing.                                   *)
LEMMA RaiseNothing ==
  ASSUME ReadsOK, NEW docs
  PROVE  Joined(First(mainQueue, muted), Store!Raise(<<>>, docs))
           = First(mainQueue, muted)
<1>1. mainQueue \in Seq(Store!Answer)
  BY TypeIs DEF ReadsOK, EngineOK, QueueTypes
<1>2. PICK f : f = First(mainQueue, muted)
  OBVIOUS
<1>3. PICK I : I = FirstIndices(mainQueue, muted)
  OBVIOUS
<1>4. Indices(I, mainQueue) /\ f = Entries(mainQueue, I)
  BY <1>2, <1>3 DEF First, FirstIndices, Indices
<1>5. /\ f \in Seq(Store!Answer)
      /\ \A k \in 1..Len(f) : \E i \in I : f[k] = mainQueue[i]
      /\ \A i \in I : \E k \in 1..Len(f) : f[k] = mainQueue[i]
  BY <1>1, <1>4, EntriesRange
<1>6. Store!Raise(<<>>, docs) = <<>>
  BY DEF Store!Raise
<1>7. f \o <<>> = f
  BY <1>5, ConcatEmptySeq
<1>8. QED
  BY <1>2, <1>6, <1>7, Zenon DEF Joined

(* The requests and the answers stay while the queues do.                  *)
LEMMA RequestsStay ==
  ASSUME UNCHANGED workerQueue
  PROVE  StoreRequests' = StoreRequests
  BY Abstraction

(* Answers and waiting reads stay while the main queue, the muted reads    *)
(* and the listeners do.                                                   *)
LEMMA AnswersStay ==
  ASSUME UNCHANGED <<listeners, mainQueue, muted>>
  PROVE  AnswersKept
  BY Abstraction DEF AnswersKept

(* Told of the view, the readers are answered, or not, as EventStore has   *)
(* it; they are not while the view stays unsynced.                         *)
LEMMA ToldAnswers ==
  ASSUME ReadsOK, ToldReads, UNCHANGED muted
  PROVE  AnswersKept \/ AnswersGiven(view'.docs)
<1>1. First(mainQueue', muted') = First(mainQueue', muted)
  BY Zenon
<1>2. CASE RaisedAll(listeners, mainQueue, listeners', mainQueue', muted, view'.docs)
  BY <1>1, <1>2, Abstraction, Zenon DEF RaisedAll, AnswersGiven, Joined
<1>3. CASE RaisedNone(listeners, mainQueue, listeners', mainQueue', muted)
  BY <1>1, <1>3, Abstraction, Zenon DEF RaisedNone, AnswersKept
<1>4. QED
  BY <1>2, <1>3 DEF ToldReads, ToldOfView

(* Told of a view that is not synced, nobody who waits is answered.        *)
LEMMA UnsyncedAnswers ==
  ASSUME FireInv, ToldReads, UNCHANGED muted,
         WaitingOf(listeners) # <<>> => ~IsSynced(view')
  PROVE  AnswersKept
<1>1. First(mainQueue', muted') = First(mainQueue', muted)
  BY Zenon
<1>2. CASE RaisedAll(listeners, mainQueue, listeners', mainQueue', muted, view'.docs)
           /\ ShouldRaiseInitialEvent(view')
  <2>1. WaitingOf(listeners) = <<>>
    BY <1>2, InvParts DEF WaitInv, ShouldRaiseInitialEvent
  <2>2. First(mainQueue', muted)
          = Joined(First(mainQueue, muted), Store!Raise(<<>>, view'.docs))
    BY <1>2, <2>1, Zenon DEF RaisedAll
  <2>3. First(mainQueue', muted) = First(mainQueue, muted)
    BY <2>2, RaiseNothing, InvParts, Zenon
  <2>4. WaitingOf(listeners') = <<>>
    BY <1>2 DEF RaisedAll
  <2>5. QED
    BY <1>1, <2>1, <2>3, <2>4, Abstraction, Zenon DEF AnswersKept
<1>3. CASE RaisedNone(listeners, mainQueue, listeners', mainQueue', muted)
  BY <1>1, <1>3, Abstraction, Zenon DEF RaisedNone, AnswersKept
<1>4. QED
  BY <1>2, <1>3 DEF ToldReads, ToldOfView

(* A current view that waits for a limbo document goes on waiting: only    *)
(* the answer to the limbo listen, or a snapshot, ends that.               *)
LEMMA StaysUnsynced ==
  ASSUME FireInv, NEW changed, ApplyChanges(changed, view.current),
         UNCHANGED synced, remoteDocs \subseteq remoteDocs',
         \A e \in remoteDocs : e \in mutations'[sdkUser'] =>
            e \in mutations[sdkUser] \/ e \in shown,
         WaitingOf(listeners) # <<>>
  PROVE  ~IsSynced(view')
<1>1. ViewInv /\ LimboInv /\ view.open /\ ~IsSynced(view)
  <2>1. listeners # <<>>
    BY WaitingNone, Zenon
  <2>2. ViewInv /\ LimboInv /\ WaitInv
    BY InvParts
  <2>3. QED
    BY <2>1, <2>2 DEF WaitInv
<1>2. PICK docs, local, limbo :
        /\ docs = (view.docs \ changed)
                    \cup (changed \cap (remoteDocs' \cup mutations'[sdkUser']))
        /\ local = {d \in docs : IF d \in changed THEN StillLocal(d)
                                                  ELSE d \in view.local}
        /\ limbo = IF view.current THEN docs \ (synced' \cup local) ELSE view.limbo
        /\ view' = [open |-> TRUE, docs |-> docs, local |-> local,
                    current |-> view.current, limbo |-> limbo]
  BY <1>1 DEF ApplyChanges
<1>3. view'.current = view.current /\ view'.limbo = limbo
  BY <1>2
<1>4. CASE ~view.current
  BY <1>3, <1>4 DEF IsSynced
<1>5. CASE view.current
  <2>1. PICK e \in view.limbo : TRUE
    BY <1>1, <1>5 DEF IsSynced
  <2>2. /\ e \in view.docs /\ e \notin synced /\ e \notin view.local
        /\ e \in remoteDocs /\ e \notin mutations[sdkUser] /\ e \notin shown
    BY <1>1, <1>5, <2>1 DEF ViewInv, LimboInv
  <2>3. e \notin mutations'[sdkUser'] /\ e \in remoteDocs'
    BY <2>2
  <2>4. e \in docs
    BY <1>2, <2>2, <2>3
  <2>5. e \notin local
    BY <1>2, <2>2, <2>3 DEF StillLocal
  <2>6. e \in limbo
    BY <1>2, <1>5, <2>2, <2>4, <2>5
  <2>7. QED
    BY <1>3, <2>6 DEF IsSynced
<1>6. QED
  BY <1>4, <1>5

-----------------------------------------------------------------------------
\* Each step of the client is one of EventStore, or changes nothing there.

(* The calls and the main queue.                                           *)
LEMMA GetDocumentsStep ==
  ASSUME FireInv, NEW c \in Completions, GetDocuments(c)
  PROVE  Store!GetDocuments(c)
<1>1. PICK t : /\ t = [op |-> "read", id |-> nextRead, seen |-> nextWrite - 1,
                       completion |-> c]
               /\ t.op = "read" /\ workerQueue' = Append(workerQueue, t)
  BY Zenon DEF GetDocuments
<1>2. workerQueue \in Seq(Tasks) /\ CallsOK /\ nextRead <= MaxReads
  BY InvParts DEF QueuesOK, GetDocuments
<1>3. t \in Tasks
  BY <1>1, <1>2, FirestoreAssumption DEF CallsOK, Tasks, Store!Read
<1>4. StoreRequests' = Append(StoreRequests, t)
  <2>1. RequestsOf(Append(workerQueue, t)) = Append(RequestsOf(workerQueue), t)
    BY <1>1, <1>2, <1>3, RequestsAppend
  <2>2. QED
    BY <1>1, <2>1, Abstraction, Zenon
<1>5. AnswersKept
  BY AnswersStay DEF GetDocuments, engineVars
<1>6. UNCHANGED <<remoteDocs, mutations[sdkUser], Parked, nextWrite, withdrawn>>
      /\ nextRead' = nextRead + 1
  BY DEF GetDocuments, storeVars, Parked
<1>7. QED
  BY <1>1, <1>2, <1>4, <1>5, <1>6 DEF Store!GetDocuments, AnswersKept

(* addDocument is a request.                                               *)
LEMMA AddDocumentStep ==
  ASSUME FireInv, AddDocument
  PROVE  Store!AddDocument
<1>1. PICK t : /\ t = [op |-> "write", doc |-> nextWrite]
               /\ t.op = "write" /\ workerQueue' = Append(workerQueue, t)
  BY Zenon DEF AddDocument
<1>2. workerQueue \in Seq(Tasks) /\ CallsOK /\ nextWrite <= MaxWrites
  BY InvParts DEF QueuesOK, AddDocument
<1>3. t \in Tasks
  BY <1>1, <1>2, FirestoreAssumption DEF CallsOK, Tasks, Store!Write, Store!MyDocs
<1>4. StoreRequests' = Append(StoreRequests, t)
  <2>1. RequestsOf(Append(workerQueue, t)) = Append(RequestsOf(workerQueue), t)
    BY <1>1, <1>2, <1>3, RequestsAppend
  <2>2. QED
    BY <1>1, <2>1, Abstraction, Zenon
<1>5. AnswersKept
  BY AnswersStay DEF AddDocument, engineVars
<1>6. UNCHANGED <<remoteDocs, mutations[sdkUser], Parked, nextRead, withdrawn>>
      /\ nextWrite' = nextWrite + 1
  BY DEF AddDocument, storeVars, Parked
<1>7. QED
  BY <1>1, <1>2, <1>4, <1>5, <1>6 DEF Store!AddDocument, AnswersKept

(* The documents and the calls stay.                                       *)
StoreKept == UNCHANGED <<remoteDocs, mutations[sdkUser], Parked, nextRead,
                         nextWrite, withdrawn>>

(* Documents and calls stay while the local store and the counters do.     *)
LEMMA StoreKeeps ==
  ASSUME UNCHANGED storeVars, UNCHANGED <<nextRead, nextWrite>>
  PROVE  StoreKept
  BY DEF StoreKept, storeVars, Parked

(* A step that EventStore does not see.                                    *)
LEMMA Unseen ==
  ASSUME StoreKept, AnswersKept, StoreRequests' = StoreRequests
  PROVE  UNCHANGED Store!storeVars
  BY DEF StoreKept, AnswersKept, Store!storeVars

(* A task that is neither a read nor a write comes to the queue.           *)
LEMMA EnqueueStep ==
  ASSUME FireInv, NEW t \in Tasks, t.op \notin {"read", "write"},
         workerQueue' = workerQueue \/ workerQueue' = Append(workerQueue, t)
  PROVE  StoreRequests' = StoreRequests
<1>1. CASE workerQueue' = workerQueue
  BY <1>1, RequestsStay
<1>2. CASE workerQueue' = Append(workerQueue, t)
  <2>1. RequestsOf(Append(workerQueue, t)) = RequestsOf(workerQueue)
    BY InvParts, RequestsAppend DEF QueuesOK
  <2>2. QED
    BY <1>2, <2>1, Abstraction, Zenon
<1>3. QED
  BY <1>1, <1>2

(* A change of credentials is not seen until its task runs.                *)
LEMMA CredentialChangeStep ==
  ASSUME FireInv, NEW u \in Users, CredentialChange(u)
  PROVE  UNCHANGED Store!storeVars
<1>1. PICK t : /\ t = [op |-> "credential", user |-> u]
               /\ t.op = "credential" /\ workerQueue' = Append(workerQueue, t)
  BY Zenon DEF CredentialChange
<1>2. t \in Tasks
  BY <1>1 DEF Tasks
<1>3. StoreRequests' = StoreRequests
  BY <1>1, <1>2, EnqueueStep
<1>4. AnswersKept
  BY AnswersStay DEF CredentialChange, engineVars
<1>5. StoreKept
  BY StoreKeeps DEF CredentialChange
<1>6. QED
  BY <1>3, <1>4, <1>5, Unseen

(* Delivering the first event of a read that is not muted is delivering    *)
(* its answer; later events are not seen.                                  *)
LEMMA DeliverStep ==
  ASSUME FireInv, Deliver
  PROVE  Store!Deliver \/ UNCHANGED Store!storeVars
<1>1. ReadsOK /\ EngineOK /\ QueuesOK
  BY InvParts
<1>2. PICK e : e = Head(mainQueue)
  OBVIOUS
<1>3. e \in Store!Answer
  BY <1>1, <1>2, Taken DEF EngineOK, QueueTypes, Deliver
<1>4. PICK t : /\ t = [op |-> "unlisten", id |-> e.read.id]
               /\ t.op = "unlisten"
               /\ workerQueue' = workerQueue \/ workerQueue' = Append(workerQueue, t)
  <2>1. PICK t : t = [op |-> "unlisten", id |-> e.read.id]
    OBVIOUS
  <2>2. t.op = "unlisten"
    BY <2>1
  <2>3. workerQueue' = workerQueue \/ workerQueue' = Append(workerQueue, t)
    BY <1>2, <2>1, Zenon DEF Deliver
  <2>4. QED
    BY <2>1, <2>2, <2>3, Zenon
<1>5. t \in Tasks
  BY <1>3, <1>4 DEF Tasks, Store!Answer, Store!Read
<1>6. StoreRequests' = StoreRequests
  BY <1>4, <1>5, EnqueueStep
<1>7. StoreKept
  BY StoreKeeps DEF Deliver, callVars
<1>8. WaitingReads' = WaitingReads
  BY Abstraction DEF Deliver
<1>9. \/ FirstEvents' = FirstEvents
      \/ FirstEvents # <<>> /\ FirstEvents' = Tail(FirstEvents)
  BY <1>1, DeliverReads, Abstraction
<1>10. CASE FirstEvents' = FirstEvents
  BY <1>6, <1>7, <1>8, <1>10, Unseen DEF AnswersKept
<1>11. CASE FirstEvents # <<>> /\ FirstEvents' = Tail(FirstEvents)
  BY <1>6, <1>7, <1>8, <1>11 DEF Store!Deliver, StoreKept
<1>12. QED
  BY <1>9, <1>10, <1>11

(* An empty main queue holds no answers.                                   *)
LEMMA FirstNone ==
  ASSUME NEW m
  PROVE  First(<<>>, m) = <<>>
<1>1. PICK q : q = <<>> /\ q \in Seq(Store!Answer) /\ Len(q) = 0
  <2>1. <<>> \in Seq(Store!Answer) /\ Len(<<>>) = 0
    OBVIOUS
  <2>2. QED
    BY <2>1, Zenon
<1>2. FirstIndices(q, m) = {}
  BY <1>1 DEF FirstIndices
<1>3. Indices({}, q)
  BY DEF Indices
<1>4. Entries(q, {}) = <<>>
  BY <1>1, <1>3, EntriesEmpty
<1>5. QED
  BY <1>1, <1>2, <1>4, Zenon DEF First

(* A new process of the client is a relaunch of the store.                 *)
LEMMA RelaunchStep ==
  ASSUME FireInv, NEW u \in Users, Relaunch(u)
  PROVE  Store!Relaunch
<1>1. PICK t : /\ t = [op |-> "initialize", user |-> u]
               /\ t.op = "initialize" /\ workerQueue' = <<t>>
  BY Zenon DEF Relaunch
<1>2. t \in Tasks
  BY <1>1 DEF Tasks
<1>3. StoreRequests' = <<>>
  BY <1>1, <1>2, RequestsBegin, Abstraction, Zenon
<1>4. WaitingReads' = <<>>
  BY Abstraction, WaitingNone, Zenon DEF Relaunch
<1>5. FirstEvents' = <<>>
  <2>1. First(mainQueue', muted') = First(<<>>, muted')
    BY Zenon DEF Relaunch
  <2>2. QED
    BY <2>1, FirstNone, Abstraction, Zenon
<1>6. Store!QueuedWrites = QueuedWrites
  <2>1. Queued(RequestsOf(workerQueue)) = Queued(workerQueue)
    BY InvParts, RequestedWrites DEF QueuesOK
  <2>2. Store!QueuedWrites = Queued(StoreRequests) /\ QueuedWrites = Queued(workerQueue)
    BY DEF Store!QueuedWrites, QueuedWrites, Queued
  <2>3. QED
    BY <2>1, <2>2, Abstraction
<1>7. /\ UNCHANGED <<remoteDocs, mutations[sdkUser], Parked, nextRead, nextWrite>>
      /\ withdrawn' = withdrawn \cup QueuedWrites
  BY DEF Relaunch, callVars, Parked
<1>8. QED
  BY <1>3, <1>4, <1>5, <1>6, <1>7 DEF Store!Relaunch

(* The tasks of the worker queue.                                          *)

(* A task that is neither a read nor a write is taken from the queue.      *)
LEMMA TakenUnseen ==
  ASSUME QueuesOK, NEW op, Task(op), op \notin {"read", "write"}
  PROVE  StoreRequests' = StoreRequests
<1>1. /\ workerQueue # <<>> /\ workerQueue' = Tail(workerQueue)
      /\ Head(workerQueue).op = op /\ workerQueue \in Seq(Tasks)
  BY TaskTaken DEF QueuesOK
<1>2. RequestsOf(Tail(workerQueue)) = RequestsOf(workerQueue)
  BY <1>1, RequestsTail
<1>3. QED
  BY <1>1, <1>2, Abstraction, Zenon

(* A read or a write is the first request.                                 *)
LEMMA TakenRequest ==
  ASSUME QueuesOK, NEW op, Task(op), op \in {"read", "write"}
  PROVE  /\ StoreRequests # <<>> /\ Head(StoreRequests) = Head(workerQueue)
         /\ StoreRequests' = Tail(StoreRequests) /\ Head(StoreRequests).op = op
<1>1. /\ workerQueue # <<>> /\ workerQueue' = Tail(workerQueue)
      /\ Head(workerQueue).op = op /\ workerQueue \in Seq(Tasks)
  BY TaskTaken DEF QueuesOK
<1>2. PICK r : r = RequestsOf(workerQueue)
  OBVIOUS
<1>3. r # <<>> /\ Head(r) = Head(workerQueue) /\ RequestsOf(Tail(workerQueue)) = Tail(r)
  BY <1>1, <1>2, RequestsTail
<1>4. StoreRequests = r /\ StoreRequests' = Tail(r)
  BY <1>1, <1>2, <1>3, Abstraction, Zenon
<1>5. QED
  BY <1>1, <1>3, <1>4

(* AddQueryListener takes a read: it waits, or is answered at once from    *)
(* the local store; then nobody was waiting.                               *)
LEMMA AddQueryListenerStep ==
  ASSUME FireInv, AddQueryListener
  PROVE  Store!ProcessRead
<1>1. ReadsOK /\ QueuesOK /\ ViewInv /\ WaitInv
  BY InvParts
<1>2. Task("read")
  BY DEF AddQueryListener
<1>3. PICK read, v :
        /\ read = Head(workerQueue) /\ v = IF view.open THEN view ELSE FreshView
  OBVIOUS
<1>4. /\ StoreRequests # <<>> /\ Head(StoreRequests) = read
      /\ StoreRequests' = Tail(StoreRequests) /\ Head(StoreRequests).op = "read"
  BY <1>1, <1>2, <1>3, TakenRequest
<1>5. v.docs = LocalView
  BY <1>1, <1>3 DEF FreshView, NoView, ViewInv
<1>6. \/ /\ ~ShouldRaiseInitialEvent(v)
         /\ WaitingOf(listeners') = Append(WaitingOf(listeners), read)
         /\ First(mainQueue', muted') = First(mainQueue, muted)
      \/ /\ ShouldRaiseInitialEvent(v)
         /\ WaitingOf(listeners') = WaitingOf(listeners)
         /\ First(mainQueue', muted') =
              Joined(First(mainQueue, muted), Store!Raise(<<read>>, v.docs))
  BY <1>1, <1>3, ListenReads
<1>7. StoreKept
  BY StoreKeeps DEF AddQueryListener, callVars
<1>8. CASE ~ShouldRaiseInitialEvent(v)
  <2>1. /\ WaitingReads' = Append(WaitingReads, read)
        /\ FirstEvents' = FirstEvents
    BY <1>6, <1>8, Abstraction
  <2>2. QED
    BY <1>4, <1>7, <2>1 DEF Store!ProcessRead, StoreKept
<1>9. CASE ShouldRaiseInitialEvent(v)
  <2>1. WaitingOf(listeners) = <<>>
    <3>1. CASE view.open
      BY <1>1, <1>3, <1>9, <3>1 DEF WaitInv, ShouldRaiseInitialEvent
    <3>2. CASE ~view.open
      <4>1. listeners = <<>>
        BY <1>1, <3>2 DEF WaitInv
      <4>2. QED
        BY <4>1, WaitingNone, Zenon
    <3>3. QED
      BY <3>1, <3>2
  <2>2. WaitingReads = <<>> /\ WaitingReads' = <<>>
    BY <1>6, <1>9, <2>1, Abstraction
  <2>3. FirstEvents' = FirstEvents \o Store!Raise(<<read>>, LocalView)
    BY <1>5, <1>6, <1>9, Abstraction, Zenon DEF Joined
  <2>4. Append(WaitingReads, Head(StoreRequests)) = <<read>>
    <3>1. Append(<<>>, read) = <<read>>
      OBVIOUS
    <3>2. QED
      BY <1>4, <2>2, <3>1, Zenon
  <2>5. Store!LocalView = LocalView
    BY DEF Store!LocalView, LocalView
  <2>6. FirstEvents' = FirstEvents
          \o Store!Raise(Append(WaitingReads, Head(StoreRequests)), Store!LocalView)
    BY <2>3, <2>4, <2>5, Zenon
  <2>7. QED
    BY <1>4, <1>7, <2>2, <2>6, Zenon DEF Store!ProcessRead, StoreKept
<1>10. QED
  BY <1>8, <1>9

(* Removing a listener is not seen: it is raised, and its read is          *)
(* answered.                                                               *)
LEMMA RemoveQueryListenerStep ==
  ASSUME FireInv, RemoveQueryListener
  PROVE  UNCHANGED Store!storeVars
<1>1. ReadsOK /\ QueuesOK
  BY InvParts
<1>2. StoreRequests' = StoreRequests
  BY <1>1, TakenUnseen DEF RemoveQueryListener
<1>3. AnswersKept
  <2>1. WaitingReads' = WaitingReads
    BY <1>1, UnlistenReads, Abstraction
  <2>2. FirstEvents' = FirstEvents
    BY Abstraction, Zenon DEF RemoveQueryListener
  <2>3. QED
    BY <2>1, <2>2 DEF AnswersKept
<1>4. StoreKept
  BY StoreKeeps DEF RemoveQueryListener, callVars
<1>5. QED
  BY <1>2, <1>3, <1>4, Unseen

(* Where the documents are: one user's mutation queue changes.             *)
LEMMA ParkedStays ==
  ASSUME StoreOK, sdkUser' = sdkUser,
         \A u \in Users : u # sdkUser => mutations'[u] = mutations[u]
  PROVE  Parked' = Parked
<1>1. \A d : d \in Parked' <=> d \in Parked
  BY InParked, InParkedNext
<1>2. QED
  BY <1>1

(* WriteMutations stores a write and answers nobody.                       *)
LEMMA WriteMutationsStep ==
  ASSUME FireInv, WriteMutations
  PROVE  Store!ProcessWrite
<1>1. ReadsOK /\ QueuesOK /\ StoreOK /\ WritesInv
  BY InvParts
<1>2. PICK d : d = Head(workerQueue).doc
  OBVIOUS
<1>3. Task("write") /\ UNCHANGED <<muted, callVars>>
      /\ mutations' = [mutations EXCEPT ![sdkUser] = @ \cup {d}]
      /\ UNCHANGED <<synced, shown, remoteDocs, committed, sdkUser, withdrawn>>
      /\ ApplyChanges({d}, view.current)
  BY <1>2 DEF WriteMutations
<1>4. /\ StoreRequests # <<>> /\ Head(StoreRequests) = Head(workerQueue)
      /\ StoreRequests' = Tail(StoreRequests) /\ Head(StoreRequests).op = "write"
  BY <1>1, <1>3, TakenRequest
<1>5. /\ mutations'[sdkUser] = mutations[sdkUser] \cup {d}
      /\ \A u \in Users : u # sdkUser => mutations'[u] = mutations[u]
  BY <1>1, <1>3, MutationsChanged
<1>6. Parked' = Parked
  BY <1>1, <1>3, <1>5, ParkedStays
<1>7. d \notin remoteDocs
  <2>1. /\ workerQueue # <<>> /\ Head(workerQueue).op = "write"
        /\ Head(workerQueue) \in Tasks /\ workerQueue \in Seq(Tasks)
    BY <1>1, <1>3, TaskTaken DEF QueuesOK
  <2>2. d \in Queued(workerQueue)
    BY <1>2, <2>1, QueueTail
  <2>3. d \in MyDocs
    BY <1>2, <2>1, TaskTypes
  <2>4. QED
    BY <1>1, <2>2, <2>3 DEF WritesInv, Fresh
<1>8. AnswersKept
  <2>1. ToldReads
    BY <1>1, WriteReads
  <2>2. \A e \in remoteDocs : e \in mutations'[sdkUser'] =>
          e \in mutations[sdkUser] \/ e \in shown
    BY <1>3, <1>5, <1>7
  <2>3. WaitingOf(listeners) # <<>> => ~IsSynced(view')
    BY <1>3, <2>2, StaysUnsynced
  <2>4. QED
    BY <1>3, <2>1, <2>3, UnsyncedAnswers
<1>9. QED
  BY <1>2, <1>3, <1>4, <1>5, <1>6, <1>8
     DEF Store!ProcessWrite, AnswersKept, callVars

(* The users' mutation queues are swapped: one user's documents are        *)
(* pending, the others' are parked.                                        *)
LEMMA SwitchStep ==
  ASSUME FireInv, NEW u \in Users, sdkUser' = u,
         withdrawn' = withdrawn \cup (mutations[sdkUser] \ mutations[u]),
         UNCHANGED <<mutations, remoteDocs, nextRead, nextWrite>>, AnswersKept,
         StoreRequests' = StoreRequests
  PROVE  Store!SwitchUser
<1>1. DocsInv /\ sdkUser \in Users
  BY InvParts DEF StoreOK
<1>2. PICK P : P = mutations[u]
  OBVIOUS
<1>3. \A d : d \in P => d \in mutations[sdkUser] \/ d \in Parked
  BY <1>2, InParked
<1>4. mutations'[sdkUser'] = P
  BY <1>2
<1>5. \A d : d \in Parked' <=> (d \in mutations[sdkUser] \/ d \in Parked) /\ d \notin P
  <2>1. \A d : d \in Parked' <=> \E w \in Users : w # u /\ d \in mutations[w]
    BY InParkedNext
  <2>2. \A w \in Users : \A d : w # u /\ d \in mutations[w] => d \notin P
    BY <1>1, <1>2 DEF DocsInv
  <2>3. QED
    BY <1>1, <1>2, <2>1, <2>2, InParked
<1>6. /\ P \in SUBSET (mutations[sdkUser] \cup Parked)
      /\ Parked' = (mutations[sdkUser] \cup Parked) \ P
  BY <1>3, <1>5
<1>7. withdrawn' = withdrawn \cup (mutations[sdkUser] \ P)
  BY <1>2
<1>8. QED
  BY <1>4, <1>6, <1>7 DEF Store!SwitchUser, AnswersKept

(* Initialize signs the first user of the process in.                      *)
LEMMA InitializeStep ==
  ASSUME FireInv, Initialize
  PROVE  Store!SwitchUser
<1>1. QueuesOK
  BY InvParts
<1>2. Task("initialize")
  BY DEF Initialize
<1>3. PICK u : u = Head(workerQueue).user
  OBVIOUS
<1>4. u \in Users
  BY <1>1, <1>2, <1>3, TaskTaken, TaskTypes
<1>5. StoreRequests' = StoreRequests
  BY <1>1, <1>2, TakenUnseen
<1>6. AnswersKept
  BY AnswersStay DEF Initialize, engineVars
<1>7. /\ sdkUser' = u /\ withdrawn' = withdrawn \cup (mutations[sdkUser] \ mutations[u])
      /\ UNCHANGED <<mutations, remoteDocs, nextRead, nextWrite>>
  BY <1>3 DEF Initialize, callVars
<1>8. QED
  BY <1>4, <1>5, <1>6, <1>7, SwitchStep

(* HandleCredentialChange swaps the mutation queues and answers nobody.    *)
LEMMA HandleCredentialChangeStep ==
  ASSUME FireInv, HandleCredentialChange
  PROVE  Store!SwitchUser
<1>1. QueuesOK /\ ReadsOK /\ DocsInv
  BY InvParts
<1>2. Task("credential")
  BY DEF HandleCredentialChange
<1>3. PICK u : u = Head(workerQueue).user
  OBVIOUS
<1>4. u \in Users
  BY <1>1, <1>2, <1>3, TaskTaken, TaskTypes
<1>5. StoreRequests' = StoreRequests
  BY <1>1, <1>2, TakenUnseen
<1>6. /\ sdkUser' = u /\ withdrawn' = withdrawn \cup (mutations[sdkUser] \ mutations[u])
      /\ UNCHANGED <<mutations, remoteDocs, nextRead, nextWrite, synced, shown, muted>>
      /\ ApplyChanges(ChangedByUser(u), view.current)
  BY <1>3 DEF HandleCredentialChange, callVars
<1>7. AnswersKept
  <2>1. ToldReads
    BY <1>1, CredentialTaskReads
  <2>2. \A e \in remoteDocs : e \in mutations'[sdkUser'] =>
          e \in mutations[sdkUser] \/ e \in shown
    BY <1>1, <1>4, <1>6, InMutations DEF DocsInv
  <2>3. WaitingOf(listeners) # <<>> => ~IsSynced(view')
    BY <1>6, <2>2, StaysUnsynced
  <2>4. QED
    BY <1>6, <2>1, <2>3, UnsyncedAnswers
<1>8. QED
  BY <1>4, <1>5, <1>6, <1>7, SwitchStep

(* The watch stream, its timers, and the server.                           *)
LEMMA StreamStepStep ==
  ASSUME FireInv, \/ OnWatchStreamOpen \/ BackoffElapsed
                  \/ IdleTimeout \/ OnWatchStreamChange
  PROVE  UNCHANGED Store!storeVars
<1>1. /\ UNCHANGED workerQueue /\ UNCHANGED <<nextRead, nextWrite>>
      /\ UNCHANGED <<listeners, mainQueue, muted>> /\ UNCHANGED storeVars
  BY DEF OnWatchStreamOpen, BackoffElapsed, IdleTimeout, OnWatchStreamChange,
         WatchMessage, StreamStep, callVars, engineVars
<1>2. StoreRequests' = StoreRequests /\ AnswersKept /\ StoreKept
  BY <1>1, RequestsStay, AnswersStay, StoreKeeps
<1>3. QED
  BY <1>2, Unseen

(* The client goes offline: who waits is answered from the cache.          *)
LEMMA OfflineStep ==
  ASSUME FireInv, OnWatchStreamClose \/ OnlineStateTimeout
  PROVE  Store!AnswerFromCache \/ UNCHANGED Store!storeVars
<1>1. ReadsOK /\ ViewInv /\ WaitInv
  BY InvParts
<1>2. /\ UNCHANGED <<workerQueue, muted, nextRead, nextWrite>>
      /\ UNCHANGED storeVars
  BY DEF OnWatchStreamClose, OnlineStateTimeout, StreamStep, callVars
<1>3. StoreRequests' = StoreRequests /\ StoreKept
  BY <1>2, RequestsStay, StoreKeeps
<1>4. OfflineReads
  BY <1>1, ClosedReads
<1>5. CASE UNCHANGED <<listeners, view, mainQueue>>
  BY <1>2, <1>3, <1>5, AnswersStay, Unseen
<1>6. CASE RaisedAll(listeners, mainQueue, listeners', mainQueue', muted, view.docs)
  <2>1. /\ WaitingOf(listeners') = <<>>
        /\ First(mainQueue', muted) =
             Joined(First(mainQueue, muted),
                    Store!Raise(WaitingOf(listeners), view.docs))
    BY <1>6, Zenon DEF RaisedAll
  <2>2. First(mainQueue', muted') = First(mainQueue', muted)
    BY <1>2, Zenon
  <2>3. CASE WaitingOf(listeners) = <<>>
    <3>1. First(mainQueue', muted)
            = Joined(First(mainQueue, muted), Store!Raise(<<>>, view.docs))
      BY <2>1, <2>3, Zenon
    <3>2. First(mainQueue', muted') = First(mainQueue, muted)
      BY <1>1, <2>2, <3>1, RaiseNothing, Zenon
    <3>3. AnswersKept
      BY <2>1, <2>3, <3>2, Abstraction, Zenon DEF AnswersKept
    <3>4. QED
      BY <1>3, <3>3, Unseen
  <2>4. CASE WaitingOf(listeners) # <<>>
    <3>1. view.open
      <4>1. listeners # <<>>
        BY <2>4, WaitingNone, Zenon
      <4>2. QED
        BY <1>1, <4>1 DEF WaitInv
    <3>2. view.docs = Store!LocalView
      BY <1>1, <3>1 DEF ViewInv, LocalView, Store!LocalView
    <3>3. FirstEvents' = FirstEvents \o Store!Raise(WaitingReads, Store!LocalView)
      BY <2>1, <2>2, <3>2, Abstraction, Zenon DEF Joined
    <3>4. WaitingReads # <<>> /\ WaitingReads' = <<>>
      BY <2>1, <2>4, Abstraction
    <3>5. QED
      BY <1>3, <3>3, <3>4 DEF Store!AnswerFromCache, StoreKept
  <2>5. QED
    BY <2>3, <2>4
<1>7. QED
  BY <1>4, <1>5, <1>6 DEF OfflineReads

(* A rejected query fails the reads that wait.                             *)
LEMMA HandleRejectedListenStep ==
  ASSUME FireInv, HandleRejectedListen
  PROVE  Store!FailReads \/ UNCHANGED Store!storeVars
<1>1. ReadsOK
  BY InvParts
<1>2. /\ UNCHANGED <<workerQueue, muted, nextRead, nextWrite>>
      /\ UNCHANGED storeVars
  BY DEF HandleRejectedListen, StreamStep, callVars
<1>3. StoreRequests' = StoreRequests /\ StoreKept
  BY <1>2, RequestsStay, StoreKeeps
<1>4. /\ WaitingOf(listeners') = <<>>
      /\ First(mainQueue', muted') =
           Joined(First(mainQueue, muted), Store!RaiseError(WaitingOf(listeners)))
  BY <1>1, RejectedListenReads
<1>5. CASE WaitingOf(listeners) = <<>>
  <2>1. \A docs : Store!RaiseError(<<>>) = Store!Raise(<<>>, docs)
    BY DEF Store!RaiseError, Store!Raise
  <2>2. First(mainQueue', muted')
          = Joined(First(mainQueue, muted), Store!Raise(<<>>, {}))
    BY <1>4, <1>5, <2>1, Zenon
  <2>3. First(mainQueue', muted') = First(mainQueue, muted)
    BY <1>1, <2>2, RaiseNothing, Zenon
  <2>4. AnswersKept
    BY <1>4, <1>5, <2>3, Abstraction, Zenon DEF AnswersKept
  <2>5. QED
    BY <1>3, <2>4, Unseen
<1>6. CASE WaitingOf(listeners) # <<>>
  <2>1. FirstEvents' = FirstEvents \o Store!RaiseError(WaitingReads)
    BY <1>4, Abstraction, Zenon DEF Joined
  <2>2. WaitingReads # <<>> /\ WaitingReads' = <<>>
    BY <1>4, <1>6, Abstraction
  <2>3. QED
    BY <1>3, <2>1, <2>2 DEF Store!FailReads, StoreKept
<1>7. QED
  BY <1>5, <1>6

(* What the view tells is what the local store now holds.                  *)
LEMMA ToldStore ==
  ASSUME FireInv, FireInv', ToldReads, UNCHANGED muted, view.open
  PROVE  \/ WaitingReads' = WaitingReads /\ FirstEvents' = FirstEvents
         \/ /\ WaitingReads' = <<>>
            /\ FirstEvents' = FirstEvents
                 \o Store!Raise(WaitingReads, remoteDocs' \cup mutations'[sdkUser'])
<1>1. AnswersKept \/ AnswersGiven(view'.docs)
  BY InvParts, ToldAnswers
<1>2. view'.docs = remoteDocs' \cup mutations'[sdkUser']
  <2>1. view'.open
    BY DEF ToldReads
  <2>2. ViewInv'
    BY DEF FireInv
  <2>3. QED
    BY <2>1, <2>2 DEF ViewInv, LocalView
<1>3. QED
  BY <1>1, <1>2, Zenon DEF AnswersKept, AnswersGiven

(* A snapshot of the server brings documents; the reads that wait are      *)
(* answered together or not at all.                                        *)
LEMMA ApplyRemoteEventStep ==
  ASSUME FireInv, NEW S \in SUBSET Sendable, NEW current \in BOOLEAN,
         ApplyRemoteEvent(S, current)
  PROVE  Store!Learn
<1>1. ReadsOK /\ StoreOK
  BY InvParts
<1>2. /\ UNCHANGED <<workerQueue, muted, nextRead, nextWrite>> /\ view.open
      /\ remoteDocs' = remoteDocs \cup S
      /\ UNCHANGED <<mutations, sdkUser, withdrawn>>
  BY DEF ApplyRemoteEvent, WatchMessage, StreamStep, callVars
<1>3. StoreRequests' = StoreRequests
  BY <1>2, RequestsStay
<1>4. PICK D : D = S \ remoteDocs
  OBVIOUS
<1>5. D \in SUBSET (OtherDocs \cup mutations[sdkUser] \cup Parked \cup withdrawn)
  <2>1. \A d \in D : d \in OtherDocs \/ d \in withdrawn \/ d \in AllMutations
    BY <1>4, SentBefore
  <2>2. \A d \in AllMutations : d \in mutations[sdkUser] \/ d \in Parked
    BY InMutations, InParked
  <2>3. QED
    BY <2>1, <2>2
<1>6. remoteDocs' = remoteDocs \cup D
  BY <1>2, <1>4
<1>7. /\ mutations'[sdkUser'] = mutations[sdkUser] /\ Parked' = Parked
  BY <1>2 DEF Parked
<1>8. \/ WaitingReads' = WaitingReads /\ FirstEvents' = FirstEvents
      \/ /\ WaitingReads' = <<>>
         /\ FirstEvents' = FirstEvents
              \o Store!Raise(WaitingReads, remoteDocs' \cup mutations'[sdkUser'])
  BY <1>1, <1>2, RemoteEventReads, ApplyRemoteEventInv, ToldStore
<1>9. \/ WaitingReads' = WaitingReads /\ FirstEvents' = FirstEvents
      \/ /\ WaitingReads' = <<>>
         /\ FirstEvents' = FirstEvents
              \o Store!Raise(WaitingReads, remoteDocs' \cup mutations[sdkUser])
  BY <1>7, <1>8, Zenon
<1>10. QED
  BY <1>2, <1>3, <1>5, <1>6, <1>7, <1>9 DEF Store!Learn

(* A refused limbo document is forgotten.                                  *)
LEMMA HandleRejectedLimboStep ==
  ASSUME FireInv, NEW d \in Docs, HandleRejectedLimbo(d)
  PROVE  Store!Forget(d)
<1>1. ReadsOK /\ ViewInv /\ LimboInv
  BY InvParts
<1>2. /\ UNCHANGED <<workerQueue, muted, nextRead, nextWrite>> /\ d \in limboTargets
      /\ remoteDocs' = remoteDocs \ {d} /\ withdrawn' = withdrawn \cup {d}
      /\ UNCHANGED <<mutations, sdkUser>>
  BY DEF HandleRejectedLimbo, WatchMessage, StreamStep, callVars
<1>3. d \in remoteDocs /\ view.open
  BY <1>1, <1>2 DEF LimboInv, ViewInv
<1>4. StoreRequests' = StoreRequests
  BY <1>2, RequestsStay
<1>5. mutations'[sdkUser'] = mutations[sdkUser] /\ Parked' = Parked
  BY <1>2 DEF Parked
<1>6. \/ WaitingReads' = WaitingReads /\ FirstEvents' = FirstEvents
      \/ /\ WaitingReads' = <<>>
         /\ FirstEvents' = FirstEvents
              \o Store!Raise(WaitingReads, remoteDocs' \cup mutations'[sdkUser'])
  BY <1>1, <1>2, <1>3, RejectedLimboReads, HandleRejectedLimboInv, ToldStore
<1>7. \/ WaitingReads' = WaitingReads /\ FirstEvents' = FirstEvents
      \/ /\ WaitingReads' = <<>>
         /\ FirstEvents' = FirstEvents
              \o Store!Raise(WaitingReads, remoteDocs' \cup mutations[sdkUser])
  BY <1>5, <1>6, Zenon
<1>8. QED
  BY <1>2, <1>3, <1>4, <1>5, <1>7 DEF Store!Forget

(* The answers to writes.                                                  *)
LEMMA HandleSuccessfulWriteStep ==
  ASSUME FireInv, NEW d \in MyDocs, HandleSuccessfulWrite(d)
  PROVE  Store!Acknowledge(d)
<1>1. ReadsOK /\ StoreOK
  BY InvParts
<1>2. /\ d \in mutations[sdkUser]
      /\ mutations' = [mutations EXCEPT ![sdkUser] = @ \ {d}]
      /\ remoteDocs' = remoteDocs \cup {d}
      /\ UNCHANGED <<workerQueue, muted, nextRead, nextWrite, synced, shown,
                     sdkUser, withdrawn>>
      /\ ApplyChanges({d}, view.current)
  BY DEF HandleSuccessfulWrite, StreamStep, callVars
<1>3. /\ mutations'[sdkUser] = mutations[sdkUser] \ {d}
      /\ \A u \in Users : u # sdkUser => mutations'[u] = mutations[u]
  BY <1>1, <1>2, MutationsChanged
<1>4. Parked' = Parked
  BY <1>1, <1>2, <1>3, ParkedStays
<1>5. StoreRequests' = StoreRequests
  BY <1>2, RequestsStay
<1>6. AnswersKept
  <2>1. ToldReads
    BY <1>1, SuccessfulWriteReads
  <2>2. \A e \in remoteDocs : e \in mutations'[sdkUser'] =>
          e \in mutations[sdkUser] \/ e \in shown
    BY <1>2, <1>3
  <2>3. WaitingOf(listeners) # <<>> => ~IsSynced(view')
    BY <1>2, <2>2, StaysUnsynced
  <2>4. QED
    BY <1>2, <2>1, <2>3, UnsyncedAnswers
<1>7. QED
  BY <1>2, <1>3, <1>4, <1>5, <1>6 DEF Store!Acknowledge, AnswersKept

(* A rejected write leaves the store and answers nobody.                   *)
LEMMA HandleRejectedWriteStep ==
  ASSUME FireInv, NEW d \in MyDocs, HandleRejectedWrite(d)
  PROVE  Store!Reject(d)
<1>1. ReadsOK /\ StoreOK
  BY InvParts
<1>2. /\ d \in mutations[sdkUser]
      /\ mutations' = [mutations EXCEPT ![sdkUser] = @ \ {d}]
      /\ withdrawn' = withdrawn \cup {d}
      /\ UNCHANGED <<workerQueue, muted, nextRead, nextWrite, synced, shown,
                     sdkUser, remoteDocs>>
      /\ ApplyChanges({d}, view.current)
  BY DEF HandleRejectedWrite, StreamStep, callVars
<1>3. /\ mutations'[sdkUser] = mutations[sdkUser] \ {d}
      /\ \A u \in Users : u # sdkUser => mutations'[u] = mutations[u]
  BY <1>1, <1>2, MutationsChanged
<1>4. Parked' = Parked
  BY <1>1, <1>2, <1>3, ParkedStays
<1>5. StoreRequests' = StoreRequests
  BY <1>2, RequestsStay
<1>6. AnswersKept
  <2>1. ToldReads
    BY <1>1, RejectedWriteReads
  <2>2. \A e \in remoteDocs : e \in mutations'[sdkUser'] =>
          e \in mutations[sdkUser] \/ e \in shown
    BY <1>2, <1>3
  <2>3. WaitingOf(listeners) # <<>> => ~IsSynced(view')
    BY <1>2, <2>2, StaysUnsynced
  <2>4. QED
    BY <1>2, <2>1, <2>3, UnsyncedAnswers
<1>7. QED
  BY <1>2, <1>3, <1>4, <1>5, <1>6 DEF Store!Reject, AnswersKept

-----------------------------------------------------------------------------
\* The refinement.

(* At first the store is as EventStore has it.                             *)
LEMMA InitStep ==
  ASSUME Init
  PROVE  Store!StoreInit
<1>1. PICK t : /\ t = [op |-> "initialize", user |-> sdkUser]
               /\ t.op = "initialize" /\ workerQueue = <<t>>
  BY Zenon DEF Init
<1>2. t \in Tasks
  BY <1>1 DEF Init, Tasks
<1>3. StoreRequests = <<>>
  BY <1>1, <1>2, RequestsBegin, Abstraction, Zenon
<1>4. WaitingReads = <<>> /\ FirstEvents = <<>>
  BY WaitingNone, FirstNone, Abstraction, Zenon DEF Init
<1>5. /\ remoteDocs \in SUBSET OtherDocs /\ nextRead = 1 /\ nextWrite = 1
      /\ withdrawn = {} /\ mutations[sdkUser] = {}
  BY DEF Init
<1>6. Parked = {}
  <2>1. \A d : d \notin Parked
    BY InParked DEF Init
  <2>2. QED
    BY <2>1
<1>7. QED
  BY <1>3, <1>4, <1>5, <1>6 DEF Store!StoreInit

(* When the client does nothing, nor does the store.                       *)
LEMMA StutterStep ==
  ASSUME UNCHANGED vars
  PROVE  UNCHANGED Store!storeVars
<1>1. /\ UNCHANGED workerQueue /\ UNCHANGED <<nextRead, nextWrite>>
      /\ UNCHANGED <<listeners, mainQueue, muted>> /\ UNCHANGED storeVars
  BY DEF vars, callVars, engineVars
<1>2. StoreRequests' = StoreRequests /\ AnswersKept /\ StoreKept
  BY <1>1, RequestsStay, AnswersStay, StoreKeeps
<1>3. QED
  BY <1>2, Unseen

(* Every step of the client is a step of EventStore or changes nothing     *)
(* there.                                                                  *)
LEMMA NextStep ==
  ASSUME FireInv, [Next]_vars
  PROVE  Store!StoreNext \/ UNCHANGED Store!storeVars
<1>1. CASE UNCHANGED vars
  BY <1>1, StutterStep
<1>2. ASSUME NEW c \in Completions, GetDocuments(c)
      PROVE  Store!StoreNext
  BY <1>2, GetDocumentsStep DEF Store!StoreNext
<1>3. CASE AddDocument
  BY <1>3, AddDocumentStep DEF Store!StoreNext
<1>4. CASE Deliver
  BY <1>4, DeliverStep DEF Store!StoreNext
<1>5. ASSUME NEW u \in Users, CredentialChange(u) \/ Relaunch(u)
      PROVE  Store!StoreNext \/ UNCHANGED Store!storeVars
  BY <1>5, CredentialChangeStep, RelaunchStep DEF Store!StoreNext
<1>6. CASE WorkerStep
  BY <1>6, InitializeStep, AddQueryListenerStep, RemoveQueryListenerStep,
     WriteMutationsStep, HandleCredentialChangeStep
     DEF WorkerStep, Store!StoreNext, Store!StoreStep
<1>7. CASE OnWatchStreamOpen \/ BackoffElapsed \/ IdleTimeout \/ OnWatchStreamChange
  BY <1>7, StreamStepStep
<1>8. CASE OnWatchStreamClose \/ OnlineStateTimeout
  BY <1>8, OfflineStep DEF Store!StoreNext, Store!StoreStep
<1>9. ASSUME NEW S \in SUBSET Sendable, NEW current \in BOOLEAN,
              ApplyRemoteEvent(S, current)
      PROVE  Store!StoreNext
  BY <1>9, ApplyRemoteEventStep DEF Store!StoreNext, Store!StoreStep
<1>10. CASE HandleRejectedListen
  BY <1>10, HandleRejectedListenStep DEF Store!StoreNext, Store!StoreStep
<1>11. ASSUME NEW d \in Docs, HandleRejectedLimbo(d)
       PROVE  Store!StoreNext
  <2>1. Store!Forget(d) /\ d \in Store!Docs
    BY <1>11, HandleRejectedLimboStep DEF Docs, MyDocs, Store!Docs, Store!MyDocs
  <2>2. QED
    BY <2>1 DEF Store!StoreNext, Store!StoreStep
<1>12. ASSUME NEW d \in MyDocs, HandleSuccessfulWrite(d) \/ HandleRejectedWrite(d)
       PROVE  Store!StoreNext
  <2>1. (Store!Acknowledge(d) \/ Store!Reject(d)) /\ d \in Store!MyDocs
    BY <1>12, HandleSuccessfulWriteStep, HandleRejectedWriteStep
       DEF MyDocs, Store!MyDocs
  <2>2. QED
    BY <2>1 DEF Store!StoreNext, Store!StoreStep
<1>13. QED
  BY <1>1, <1>2, <1>3, <1>4, <1>5, <1>6, <1>7, <1>8, <1>9, <1>10, <1>11, <1>12
     DEF Next

(* The client implements EventStore: for all numbers of reads, writes,     *)
(* users and documents, whatever its streams, timers and credentials do,   *)
(* DataHandler sees only what EventStore allows.                           *)
THEOREM ClientImplementsEventStore == Spec => ImplementsEventStore
<1>1. Init => Store!StoreInit
  BY InitStep
<1>2. FireInv /\ [Next]_vars => [Store!StoreNext]_(Store!storeVars)
  BY NextStep
<1>3. QED
  BY <1>1, <1>2, FirestoreInvariant, PTL DEF Spec, ImplementsEventStore, Store!StoreSpec
=============================================================================
