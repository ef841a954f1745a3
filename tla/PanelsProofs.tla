------------------------------ MODULE PanelsProofs ------------------------------
(***************************************************************************)
(* Proofs about the panels (MCPanels), for every value of the constants.   *)
(* Each part has an inductive invariant of its own; the last section puts  *)
(* them together, as the parts do not share a step.                        *)
(***************************************************************************)
EXTENDS MCPanels, FiniteSetTheorems, SequenceTheorems, WellFoundedInduction, TLAPS

-----------------------------------------------------------------------------
\* A set of natural numbers has a least member.
LEMMA Least ==
  ASSUME NEW T \in SUBSET Nat, T # {}
  PROVE  \E m \in T : \A k \in T : m <= k
<1>1. IsWellFoundedOn(OpToRel(<, Nat), Nat)
  BY NatLessThanWellFounded
<1>2. PICK x \in T : \A y \in T : ~ (<<y, x>> \in OpToRel(<, Nat))
  BY <1>1, WFMin
<1>3. ASSUME NEW y \in T PROVE x <= y
  <2>1. x \in Nat /\ y \in Nat
    OBVIOUS
  <2>2. ~(y < x)
    BY <1>2, <2>1 DEF OpToRel
  <2> QED BY <2>1, <2>2
<1> QED BY <1>3

\* Induction over the natural numbers, by the least number that is left out.
LEMMA Induct ==
  ASSUME NEW S, 0 \in S, \A n \in Nat : n \in S => n + 1 \in S
  PROVE  Nat \subseteq S
<1> SUFFICES ASSUME ~(Nat \subseteq S) PROVE FALSE
  OBVIOUS
<1> DEFINE T == {n \in Nat : n \notin S}
<1>1. PICK m \in T : \A k \in T : m <= k
  <2>1. T # {} /\ T \in SUBSET Nat
    OBVIOUS
  <2> HIDE DEF T
  <2> QED BY <2>1, Least
<1>2. m # 0
  OBVIOUS
<1>3. m - 1 \in Nat /\ m - 1 \notin T
  BY <1>1, <1>2
<1> QED BY <1>3

\* The elements of s that are in S, in their order, as the panels write it.
Among(s, S) ==
  LET Kept[i \in 0..Len(s)] ==
        IF i = 0 THEN <<>> ELSE IF s[i] \in S THEN Append(Kept[i - 1], s[i]) ELSE Kept[i - 1]
  IN  Kept[Len(s)]

\* The recursion up to n.
AmongUpTo(s, S, n, K) == K = [i \in 0..n |-> IF i = 0 THEN <<>> ELSE IF s[i] \in S THEN Append(K[i - 1], s[i]) ELSE K[i - 1]]

\* The prefixes of a filtered sequence exist: the recursion of Among is well
\* defined.
LEMMA AmongExists ==
  ASSUME NEW s, NEW S, NEW n \in Nat
  PROVE  \E K : AmongUpTo(s, S, n, K)
<1> DEFINE T == {m \in Nat : \E K : AmongUpTo(s, S, m, K)}
<1>1. 0 \in T
  <2>1. AmongUpTo(s, S, 0, [i \in 0..0 |-> <<>>])
    BY DEF AmongUpTo
  <2> QED BY <2>1
<1>2. ASSUME NEW m \in Nat, m \in T PROVE m + 1 \in T
  <2>1. PICK K : AmongUpTo(s, S, m, K)
    BY <1>2
  <2> DEFINE L == [i \in 0..m + 1 |-> IF i = m + 1 THEN IF s[i] \in S THEN Append(K[m], s[i]) ELSE K[m] ELSE K[i]]
  <2>2. ASSUME NEW i \in 0..m + 1
        PROVE  L[i] = IF i = 0 THEN <<>> ELSE IF s[i] \in S THEN Append(L[i - 1], s[i]) ELSE L[i - 1]
    <3>1. CASE i = m + 1
      BY <3>1
    <3>2. CASE i # m + 1
      <4>1. i \in 0..m
        BY <3>2
      <4>2. K[i] = IF i = 0 THEN <<>> ELSE IF s[i] \in S THEN Append(K[i - 1], s[i]) ELSE K[i - 1]
        BY <2>1, <4>1 DEF AmongUpTo
      <4> QED BY <4>1, <4>2
    <3> QED BY <3>1, <3>2
  <2>3. AmongUpTo(s, S, m + 1, L)
    BY <2>2 DEF AmongUpTo
  <2> QED BY <2>3
<1> HIDE DEF T
<1>3. Nat \subseteq T
  BY <1>1, <1>2, Induct
<1> QED BY <1>3 DEF T

\* What a filter keeps: elements of the sequence that are in the set, in their
\* order, and all of them.
Picks(f, s, S, n, k) ==
  /\ f \in [1..Len(k) -> 1..n]
  /\ \A i \in 1..Len(k) : k[i] = s[f[i]] /\ s[f[i]] \in S
  /\ \A i, j \in 1..Len(k) : i < j => f[i] < f[j]
  /\ \A j \in 1..n : s[j] \in S => \E i \in 1..Len(k) : f[i] = j
Keeps(s, S, n, k) == \E f : Picks(f, s, S, n, k)

\* What Among keeps of a sequence: its members in the set, in their order, and
\* each of them (Array.prototype.filter).
LEMMA AmongKeeps ==
  ASSUME NEW T, NEW s \in Seq(T), NEW S
  PROVE  LET k == Among(s, S) IN k \in Seq(T) /\ Keeps(s, S, Len(s), k)
<1>1. Len(s) \in Nat
  OBVIOUS
<1> DEFINE K == CHOOSE K : AmongUpTo(s, S, Len(s), K)
<1>2. AmongUpTo(s, S, Len(s), K)
  BY <1>1, AmongExists
<1>3. Among(s, S) = K[Len(s)]
  BY DEF Among, AmongUpTo
<1> HIDE DEF K
<1>4. K[0] = <<>> /\ \A i \in 1..Len(s) : K[i] = IF s[i] \in S THEN Append(K[i - 1], s[i]) ELSE K[i - 1]
  <2>1. \A i \in 0..Len(s) : K[i] = IF i = 0 THEN <<>> ELSE IF s[i] \in S THEN Append(K[i - 1], s[i]) ELSE K[i - 1]
    BY <1>2 DEF AmongUpTo
  <2>2. 0 \in 0..Len(s) /\ \A i \in 1..Len(s) : i \in 0..Len(s) /\ i # 0
    BY <1>1
  <2> QED BY <2>1, <2>2
<1> DEFINE I == {n \in Nat : n <= Len(s) => K[n] \in Seq(T) /\ Keeps(s, S, n, K[n])}
<1>5. 0 \in I
  <2>1. Keeps(s, S, 0, <<>>)
    <3> DEFINE f == [i \in 1..0 |-> 0]
    <3>1. Len(<<>>) = 0 /\ 1..0 = {}
      OBVIOUS
    <3>2. f \in [1..Len(<<>>) -> 1..0]
      BY <3>1
    <3> HIDE DEF f
    <3> QED BY <3>1, <3>2 DEF Keeps, Picks
  <2>2. K[0] \in Seq(T) /\ Keeps(s, S, 0, K[0])
    BY <1>4, <2>1
  <2> QED BY <2>2
<1>6. ASSUME NEW n \in Nat, n \in I PROVE n + 1 \in I
  <2> SUFFICES ASSUME n + 1 <= Len(s) PROVE K[n + 1] \in Seq(T) /\ Keeps(s, S, n + 1, K[n + 1])
    OBVIOUS
  <2>1. K[n] \in Seq(T) /\ Keeps(s, S, n, K[n])
    BY <1>1, <1>6
  <2> DEFINE k == K[n]
             l == Len(k)
  <2>2. PICK f : /\ f \in [1..l -> 1..n]
                 /\ \A i \in 1..l : k[i] = s[f[i]] /\ s[f[i]] \in S
                 /\ \A i, j \in 1..l : i < j => f[i] < f[j]
                 /\ \A j \in 1..n : s[j] \in S => \E i \in 1..l : f[i] = j
    BY <2>1 DEF Keeps, Picks
  <2>3. n + 1 \in 1..Len(s) /\ s[n + 1] \in T /\ K[n + 1] = IF s[n + 1] \in S THEN Append(k, s[n + 1]) ELSE k
    BY <1>1, <1>4, ElementOfSeq
  <2>l. l \in Nat /\ k \in Seq(T)
    BY <2>1
  <2> HIDE DEF I, k, l
  <2>4. CASE s[n + 1] \notin S
    <3>1. K[n + 1] = k /\ f \in [1..l -> 1..n + 1] /\ \A j \in 1..n + 1 : s[j] \in S => j \in 1..n
      BY <2>2, <2>3, <2>4, <2>l
    <3> QED BY <2>2, <2>l, <3>1 DEF Keeps, Picks, l
  <2>5. CASE s[n + 1] \in S
    <3> DEFINE q == Append(k, s[n + 1])
               g == [i \in 1..l + 1 |-> IF i = l + 1 THEN n + 1 ELSE f[i]]
    <3>1. K[n + 1] = q /\ q \in Seq(T) /\ Len(q) = l + 1 /\ q[l + 1] = s[n + 1] /\ \A i \in 1..l : q[i] = k[i]
      BY <2>3, <2>5, <2>l DEF l
    <3>2. g \in [1..l + 1 -> 1..n + 1]
      BY <2>2, <2>l
    <3>3. g[l + 1] = n + 1 /\ \A i \in 1..l : g[i] = f[i] /\ g[i] \in 1..n
      BY <2>2, <2>l
    <3> HIDE DEF g, q
    <3>4. \A i \in 1..l + 1 : q[i] = s[g[i]] /\ s[g[i]] \in S
      BY <2>2, <2>5, <2>l, <3>1, <3>3
    <3>5. \A i, j \in 1..l + 1 : i < j => g[i] < g[j]
      <4> SUFFICES ASSUME NEW i \in 1..l + 1, NEW j \in 1..l + 1, i < j PROVE g[i] < g[j]
        OBVIOUS
      <4>1. i \in 1..l
        BY <2>l
      <4>2. CASE j = l + 1
        BY <3>3, <4>1, <4>2
      <4>3. CASE j \in 1..l
        BY <2>2, <3>3, <4>1, <4>3
      <4> QED BY <2>l, <4>2, <4>3
    <3>6. \A j \in 1..n + 1 : s[j] \in S => \E i \in 1..l + 1 : g[i] = j
      <4> SUFFICES ASSUME NEW j \in 1..n + 1, s[j] \in S PROVE \E i \in 1..l + 1 : g[i] = j
        OBVIOUS
      <4>1. CASE j = n + 1
        BY <2>l, <3>3, <4>1
      <4>2. CASE j \in 1..n
        <5>1. PICK i \in 1..l : f[i] = j
          BY <2>2, <4>2
        <5> QED BY <2>l, <3>3, <5>1
      <4> QED BY <4>1, <4>2
    <3>7. Keeps(s, S, n + 1, q)
      <4>1. 1..Len(q) = 1..l + 1
        BY <3>1
      <4>2. g \in [1..Len(q) -> 1..n + 1]
        BY <3>2, <4>1
      <4>3. \A i \in 1..Len(q) : q[i] = s[g[i]] /\ s[g[i]] \in S
        BY <3>1, <3>4
      <4>4. \A i, j \in 1..Len(q) : i < j => g[i] < g[j]
        BY <3>1, <3>5
      <4>5. \A j \in 1..n + 1 : s[j] \in S => \E i \in 1..Len(q) : g[i] = j
        BY <3>1, <3>6
      <4> QED BY <4>2, <4>3, <4>4, <4>5, Zenon DEF Keeps, Picks
    <3> QED BY <3>1, <3>7
  <2> QED BY <2>4, <2>5
<1> HIDE DEF I
<1>7. Nat \subseteq I
  BY <1>5, <1>6, Induct
<1> QED BY <1>1, <1>3, <1>7 DEF I

\* An increasing function from 1..m into 1..n: m is at most n.
LEMMA OrderShortens ==
  ASSUME NEW m \in Nat, NEW n \in Nat, NEW f \in [1..m -> 1..n], \A i, j \in 1..m : i < j => f[i] < f[j]
  PROVE  m <= n
<1> DEFINE I == {k \in Nat : k \in 1..m => k <= f[k]}
<1>1. 0 \in I
  OBVIOUS
<1>2. ASSUME NEW k \in Nat, k \in I PROVE k + 1 \in I
  <2> SUFFICES ASSUME k + 1 \in 1..m PROVE k + 1 <= f[k + 1]
    OBVIOUS
  <2>1. f[k + 1] \in 1..n
    OBVIOUS
  <2>2. CASE k = 0
    BY <2>1, <2>2
  <2>3. CASE k \in 1..m
    <3>1. k <= f[k] /\ f[k] < f[k + 1] /\ f[k] \in 1..n
      BY <1>2, <2>3
    <3> QED BY <2>1, <3>1
  <2> QED BY <2>2, <2>3
<1> HIDE DEF I
<1>3. m \in I
  BY <1>1, <1>2, Induct
<1>4. CASE m = 0
  BY <1>4
<1>5. CASE m \in 1..m
  <2>1. m <= f[m] /\ f[m] \in 1..n
    BY <1>3, <1>5 DEF I
  <2> QED BY <2>1
<1> QED BY <1>4, <1>5

\* What a filter keeps, by its members.
Filters(k, s, S) ==
  /\ Len(k) <= Len(s)
  /\ \A i \in 1..Len(k) : k[i] \in S /\ \E j \in 1..Len(s) : k[i] = s[j]
  /\ \A j \in 1..Len(s) : s[j] \in S => \E i \in 1..Len(k) : k[i] = s[j]
  /\ \A i, j \in 1..Len(k) : i < j => \E a, b \in 1..Len(s) : a < b /\ k[i] = s[a] /\ k[j] = s[b]

\* What a filter keeps, by its members: they are in the set and in the
\* sequence, in the order of the sequence (Array.prototype.filter).
LEMMA AmongMembers ==
  ASSUME NEW T, NEW s \in Seq(T), NEW S
  PROVE  Among(s, S) \in Seq(T) /\ Filters(Among(s, S), s, S)
<1> DEFINE k == Among(s, S)
           m == Len(k)
           n == Len(s)
<1>1. k \in Seq(T) /\ Keeps(s, S, n, k)
  BY AmongKeeps
<1>2. m \in Nat /\ n \in Nat
  BY <1>1
<1>3. PICK f : /\ f \in [1..m -> 1..n]
               /\ \A i \in 1..m : k[i] = s[f[i]] /\ s[f[i]] \in S
               /\ \A i, j \in 1..m : i < j => f[i] < f[j]
               /\ \A j \in 1..n : s[j] \in S => \E i \in 1..m : f[i] = j
  BY <1>1 DEF Keeps, Picks
<1> HIDE DEF k, m, n
<1>4. m <= n
  BY <1>2, <1>3, OrderShortens
<1>5. \A i \in 1..m : f[i] \in 1..n
  BY <1>3
<1>6. \A i \in 1..m : k[i] \in S /\ \E j \in 1..n : k[i] = s[j]
  BY <1>3, <1>5
<1>7. \A j \in 1..n : s[j] \in S => \E i \in 1..m : k[i] = s[j]
  BY <1>3
<1>8. \A i, j \in 1..m : i < j => \E a, b \in 1..n : a < b /\ k[i] = s[a] /\ k[j] = s[b]
  BY <1>3, <1>5
<1>9. Filters(k, s, S)
  BY <1>4, <1>6, <1>7, <1>8 DEF Filters, m, n
<1> QED BY <1>1, <1>9 DEF k

Rising(f, n) == \A i, j \in 1..n : i < j => f[i] < f[j]
Covers(g, n, f, m) == \A i \in 1..m : \E j \in 1..n : g[j] = f[i]

\* Two increasing sequences of numbers with the same members start alike.
LEMMA SameOrder ==
  ASSUME NEW m \in Nat, NEW n \in Nat, NEW f \in [1..m -> Nat], NEW g \in [1..n -> Nat],
         Rising(f, m), Rising(g, n), Covers(f, m, g, n), Covers(g, n, f, m)
  PROVE  m <= n /\ \A i \in 1..m : f[i] = g[i]
<1> DEFINE I == {k \in Nat : k <= m => k <= n /\ \A i \in 1..k : f[i] = g[i]}
<1>1. 0 \in I
  OBVIOUS
<1>2. ASSUME NEW k \in Nat, k \in I PROVE k + 1 \in I
  <2> SUFFICES ASSUME k + 1 <= m PROVE k + 1 <= n /\ \A i \in 1..k + 1 : f[i] = g[i]
    OBVIOUS
  <2>1. k <= n /\ (\A i \in 1..k : f[i] = g[i]) /\ \A i \in 1..k : i \in 1..m /\ i \in 1..n
    BY <1>2
  <2>a. k + 1 \in 1..m
    OBVIOUS
  <2> HIDE DEF I
  <2>2. PICK j \in 1..n : g[j] = f[k + 1]
    BY <2>a DEF Covers
  <2>3. j \notin 1..k
    <3>1. ASSUME j \in 1..k PROVE FALSE
      <4>1. f[j] = f[k + 1] /\ f[j] < f[k + 1]
        BY <2>1, <2>a, <2>2, <3>1 DEF Rising
      <4>2. f[j] \in Nat
        BY <2>1, <3>1
      <4> QED BY <4>1, <4>2
    <3> QED BY <3>1
  <2>4. k + 1 \in 1..n
    BY <2>2, <2>3
  <2>5. PICK i \in 1..m : f[i] = g[k + 1]
    BY <2>4 DEF Covers
  <2>6. i \notin 1..k
    <3>1. ASSUME i \in 1..k PROVE FALSE
      <4>1. g[i] = g[k + 1] /\ g[i] < g[k + 1]
        BY <2>1, <2>4, <2>5, <3>1 DEF Rising
      <4>2. g[i] \in Nat
        BY <2>1, <3>1
      <4> QED BY <4>1, <4>2
    <3> QED BY <3>1
  <2>8. j = k + 1 \/ g[k + 1] < g[j]
    BY <2>2, <2>3, <2>4 DEF Rising
  <2>9. i = k + 1 \/ f[k + 1] < f[i]
    <3>1. i = k + 1 \/ k + 1 < i
      BY <2>5, <2>6
    <3> QED BY <2>5, <2>a, <3>1 DEF Rising
  <2>10. f[k + 1] = g[k + 1]
    <3> DEFINE a == f[k + 1]
               b == g[k + 1]
    <3>1. a \in Nat /\ b \in Nat
      BY <2>a, <2>4
    <3>2. (j = k + 1 \/ b < a) /\ (i = k + 1 \/ a < b) /\ (j = k + 1 => a = b) /\ (i = k + 1 => a = b)
      BY <2>2, <2>5, <2>8, <2>9
    <3> HIDE DEF a, b
    <3>3. a = b
      BY <3>1, <3>2
    <3> QED BY <3>3 DEF a, b
  <2>11. ASSUME NEW h \in 1..k + 1 PROVE f[h] = g[h]
    <3>1. h \in 1..k \/ h = k + 1
      OBVIOUS
    <3> QED BY <2>1, <2>10, <3>1
  <2> QED BY <2>4, <2>11
<1> HIDE DEF I
<1>3. m \in I
  BY <1>1, <1>2, Induct
<1> QED BY <1>3 DEF I

\* A filter keeps one sequence only: the one of the elements in the set, in
\* their order (Array.prototype.filter).
LEMMA AmongIs ==
  ASSUME NEW T, NEW s \in Seq(T), NEW S, NEW k \in Seq(T), NEW g, Picks(g, s, S, Len(s), k)
  PROVE  Among(s, S) = k
<1> DEFINE q == Among(s, S)
           m == Len(q)
           n == Len(k)
           l == Len(s)
<1>1. q \in Seq(T) /\ Keeps(s, S, l, q)
  BY AmongKeeps
<1>2. m \in Nat /\ n \in Nat /\ l \in Nat
  BY <1>1
<1>3. PICK f : Picks(f, s, S, l, q)
  BY <1>1 DEF Keeps
<1>4. /\ g \in [1..n -> 1..l] /\ Rising(g, n)
      /\ \A i \in 1..n : k[i] = s[g[i]] /\ s[g[i]] \in S
      /\ \A j \in 1..l : s[j] \in S => \E i \in 1..n : g[i] = j
  BY DEF Picks, Rising
<1>5. /\ f \in [1..m -> 1..l] /\ Rising(f, m)
      /\ \A i \in 1..m : q[i] = s[f[i]] /\ s[f[i]] \in S
      /\ \A j \in 1..l : s[j] \in S => \E i \in 1..m : f[i] = j
  BY <1>3 DEF Picks, Rising
<1> HIDE DEF q, m, n, l
<1>6. f \in [1..m -> Nat] /\ g \in [1..n -> Nat]
  BY <1>4, <1>5
<1>7. Covers(f, m, g, n) /\ Covers(g, n, f, m)
  <2>1. ASSUME NEW i \in 1..m PROVE \E j \in 1..n : g[j] = f[i]
    <3>1. f[i] \in 1..l /\ s[f[i]] \in S
      BY <1>5
    <3> QED BY <1>4, <3>1
  <2>2. ASSUME NEW j \in 1..n PROVE \E i \in 1..m : f[i] = g[j]
    <3>1. g[j] \in 1..l /\ s[g[j]] \in S
      BY <1>4
    <3> QED BY <1>5, <3>1
  <2> QED BY <2>1, <2>2 DEF Covers
<1>a. Rising(f, m) /\ Rising(g, n)
  BY <1>4, <1>5
<1>8. m <= n /\ \A i \in 1..m : f[i] = g[i]
  BY <1>2, <1>6, <1>7, <1>a, SameOrder
<1>9. n <= m
  BY <1>2, <1>6, <1>7, <1>a, SameOrder
<1>10. m = n /\ \A i \in 1..m : q[i] = k[i]
  BY <1>2, <1>4, <1>5, <1>8, <1>9
<1> QED BY <1>1, <1>10 DEF q, m, n

\* A filter that everything passes changes nothing (Array.prototype.filter).
LEMMA AmongAll ==
  ASSUME NEW T, NEW s \in Seq(T), NEW S, \A i \in 1..Len(s) : s[i] \in S
  PROVE  Among(s, S) = s
<1> DEFINE g == [i \in 1..Len(s) |-> i]
<1>1. g \in [1..Len(s) -> 1..Len(s)] /\ \A i \in 1..Len(s) : g[i] = i
  OBVIOUS
<1> HIDE DEF g
<1>2. (\A i, j \in 1..Len(s) : i < j => g[i] < g[j]) /\ (\A j \in 1..Len(s) : s[j] \in S => \E i \in 1..Len(s) : g[i] = j)
      /\ (\A i \in 1..Len(s) : s[i] = s[g[i]] /\ s[g[i]] \in S)
  BY <1>1
<1>3. Picks(g, s, S, Len(s), s)
  BY <1>1, <1>2 DEF Picks
<1> QED BY <1>3, AmongIs

\* A filter that one element fails takes that one out (Array.prototype.filter).
LEMMA AmongRest ==
  ASSUME NEW T, NEW s \in Seq(T), NEW S, NEW p \in 1..Len(s),
         \A i \in 1..Len(s) : s[i] \in S <=> i # p
  PROVE  Among(s, S) = [i \in 1..Len(s) - 1 |-> IF i < p THEN s[i] ELSE s[i + 1]]
<1> DEFINE l == Len(s)
           k == [i \in 1..l - 1 |-> IF i < p THEN s[i] ELSE s[i + 1]]
           g == [i \in 1..l - 1 |-> IF i < p THEN i ELSE i + 1]
<1>1. l \in Nat /\ l - 1 \in Nat /\ p \in 1..l /\ \A i \in 1..l : s[i] \in T
  <2>1. \A i \in 1..l : s[i] \in T
    BY ElementOfSeq
  <2> QED BY <2>1
<1> HIDE DEF l
<1>2. k \in Seq(T) /\ Len(k) = l - 1
  <2>1. k \in [1..l - 1 -> T]
    BY <1>1
  <2> HIDE DEF k
  <2> QED BY <1>1, <2>1
<1>3. g \in [1..l - 1 -> 1..l] /\ \A i \in 1..l - 1 : g[i] = (IF i < p THEN i ELSE i + 1) /\ k[i] = s[g[i]] /\ g[i] # p
  BY <1>1
<1> HIDE DEF k, g
<1>4. \A i, j \in 1..l - 1 : i < j => g[i] < g[j]
  BY <1>1, <1>3
<1>5. ASSUME NEW j \in 1..l, j # p PROVE \E i \in 1..l - 1 : g[i] = j
  <2>1. CASE j < p
    <3>1. j \in 1..l - 1 /\ g[j] = j
      BY <1>1, <1>3, <2>1
    <3> QED BY <3>1
  <2>2. CASE j > p
    <3>1. j - 1 \in 1..l - 1 /\ g[j - 1] = j
      BY <1>1, <1>3, <2>2
    <3> QED BY <3>1
  <2> QED BY <1>1, <1>5, <2>1, <2>2
<1>6. /\ g \in [1..Len(k) -> 1..Len(s)] /\ \A i, j \in 1..Len(k) : i < j => g[i] < g[j]
      /\ \A i \in 1..Len(k) : k[i] = s[g[i]] /\ s[g[i]] \in S
      /\ \A j \in 1..Len(s) : s[j] \in S => \E i \in 1..Len(k) : g[i] = j
  BY <1>2, <1>3, <1>4, <1>5 DEF l
<1>7. Picks(g, s, S, Len(s), k)
  BY <1>6 DEF Picks
<1>8. Among(s, S) = k
  BY <1>2, <1>7, AmongIs
<1> QED BY <1>8 DEF k, l

-----------------------------------------------------------------------------
Folder == Dirs \cup {NoDir}
ModelsType ==
  [ dir : Folder, saved : Folder, requested : Folder, dirty : BOOLEAN, asked : BOOLEAN,
    timer : BOOLEAN, gen : 0..MaxScans, scanning : BOOLEAN, scans : SUBSET [gen : Nat, dir : Folder],
    shown : [gen : Nat, dir : Folder], saving : Seq(Folder), deleting : SUBSET Folder,
    server : Models!Servers, adapters : {"none", "listed"}, adapterBusy : BOOLEAN,
    applying : Nat, asking : Nat, edits : 0..MaxFolderEdits ]

ModelsScans(m) ==
  /\ \A s \in m.scans \cup {m.shown} : s.gen <= m.gen
  /\ \A s, t \in m.scans : s.gen = t.gen => s = t
  /\ m.scanning <=> \E s \in m.scans : s.gen = m.gen
  /\ m.adapterBusy => m.asking > 0

ModelsInv == panel \in ModelsType /\ ModelsScans(panel)

\* An effect of the folder that is saved keeps the invariant and what is shown
\* (Models.tsx).
LEMMA ModelsRendered ==
  ASSUME NEW m \in ModelsType, NEW b
  PROVE  /\ Models!Rendered(m, b) \in ModelsType
         /\ ModelsScans(m) => ModelsScans(Models!Rendered(m, b))
         /\ Models!Rendered(m, b).shown = m.shown
<1> DEFINE n == [m EXCEPT !.dir = m.saved, !.requested = m.saved, !.asked = TRUE]
<1>1. n \in ModelsType /\ (ModelsScans(m) => ModelsScans(n)) /\ n.shown = m.shown
  BY DEF ModelsType, ModelsScans
<1>2. ASSUME NEW k \in ModelsType
      PROVE  [k EXCEPT !.timer = TRUE] \in ModelsType /\ (ModelsScans(k) => ModelsScans([k EXCEPT !.timer = TRUE]))
             /\ [k EXCEPT !.timer = TRUE].shown = k.shown
  BY DEF ModelsType, ModelsScans
<1> HIDE DEF n
<1> QED BY <1>1, <1>2 DEF Models!Rendered, n

\* The panel starts with the invariant (Models.tsx).
LEMMA ModelsInit ==
  ASSUME Models!Init
  PROVE  ModelsInv
<1>1. PICK cfg \in Folder : panel = Models!Rendered(
      [ dir |-> cfg, saved |-> cfg, dirty |-> FALSE, requested |-> NoDir, asked |-> FALSE, timer |-> FALSE,
        gen |-> 0, scanning |-> FALSE, scans |-> {}, shown |-> Models!Nothing, saving |-> <<>>, deleting |-> {},
        server |-> "down", adapters |-> "none", adapterBusy |-> FALSE,
        applying |-> 0, asking |-> 0, edits |-> 0 ], FALSE)
  BY DEF Models!Init, Folder
<1> DEFINE r == [ dir |-> cfg, saved |-> cfg, dirty |-> FALSE, requested |-> NoDir, asked |-> FALSE, timer |-> FALSE,
        gen |-> 0, scanning |-> FALSE, scans |-> {}, shown |-> Models!Nothing, saving |-> <<>>, deleting |-> {},
        server |-> "down", adapters |-> "none", adapterBusy |-> FALSE,
        applying |-> 0, asking |-> 0, edits |-> 0 ]
<1>2. r \in ModelsType /\ ModelsScans(r)
  BY ModelsAssumption DEF ModelsType, ModelsScans, Models!Nothing, Models!Servers, Folder
<1> HIDE DEF r
<1> QED BY <1>1, <1>2, ModelsRendered DEF ModelsInv, r

\* A scan that begins is the newest; one of no folder is answered at once
\* (scan, in Models.tsx).
LEMMA ModelsScan ==
  ASSUME NEW m \in ModelsType, ModelsScans(m), m.gen < MaxScans, NEW d \in Folder
  PROVE  /\ Models!Scan(m, d) \in ModelsType /\ ModelsScans(Models!Scan(m, d))
         /\ Models!Scan(m, d).shown.gen >= m.shown.gen
<1>1. m.gen + 1 \in 0..MaxScans /\ m.gen + 1 \in Nat /\ m.gen \in Nat
  BY ModelsAssumption DEF ModelsType
<1> DEFINE k == Models!Scan(m, d)
           n == [gen |-> m.gen + 1, dir |-> d]
<1>2. n \in [gen : Nat, dir : Folder] /\ n.gen = m.gen + 1
  BY <1>1
<1>3. CASE d = NoDir
  <2>1. k = [m EXCEPT !.gen = m.gen + 1, !.scanning = FALSE, !.shown = n]
    BY <1>3 DEF Models!Scan, ModelsType
  <2> HIDE DEF n, k
  <2>2. k \in ModelsType
    BY <1>1, <1>2, <2>1 DEF ModelsType
  <2>3. k.gen = m.gen + 1 /\ k.shown = n /\ k.scans = m.scans /\ ~k.scanning
        /\ k.adapterBusy = m.adapterBusy /\ k.asking = m.asking
    BY <2>1 DEF ModelsType
  <2>4. ModelsScans(k) /\ k.shown.gen >= m.shown.gen
    BY <1>1, <1>2, <2>3 DEF ModelsType, ModelsScans
  <2> QED BY <2>2, <2>4 DEF k
<1>4. CASE d # NoDir
  <2>1. k = [m EXCEPT !.gen = m.gen + 1, !.scanning = TRUE, !.scans = m.scans \cup {n}]
    BY <1>4 DEF Models!Scan, ModelsType
  <2> HIDE DEF n, k
  <2>2. k \in ModelsType
    BY <1>1, <1>2, <2>1 DEF ModelsType
  <2>3. k.gen = m.gen + 1 /\ k.shown = m.shown /\ k.scans = m.scans \cup {n} /\ k.scanning
        /\ k.adapterBusy = m.adapterBusy /\ k.asking = m.asking
    BY <2>1 DEF ModelsType
  <2>4. ModelsScans(k) /\ k.shown.gen >= m.shown.gen
    BY <1>1, <1>2, <2>3 DEF ModelsType, ModelsScans
  <2> QED BY <2>2, <2>4 DEF k
<1> QED BY <1>3, <1>4

\* A scan that returns is shown only when it is the newest (scan, in
\* Models.tsx).
LEMMA ModelsReturned ==
  ASSUME NEW m \in ModelsType, ModelsScans(m), NEW s \in m.scans
  PROVE  /\ Models!Returned(m, s) \in ModelsType /\ ModelsScans(Models!Returned(m, s))
         /\ Models!Returned(m, s).shown.gen >= m.shown.gen
<1>1. CASE s.gen # m.gen
  BY <1>1 DEF Models!Returned, ModelsType, ModelsScans
<1>2. CASE s.gen = m.gen
  BY <1>2 DEF Models!Returned, ModelsType, ModelsScans
<1> QED BY <1>1, <1>2

\* Fields that the scans do not depend on may change.
LEMMA ModelsSame ==
  ASSUME NEW m \in ModelsType, ModelsScans(m), NEW k \in ModelsType,
         k.gen = m.gen, k.scans = m.scans, k.shown = m.shown, k.scanning = m.scanning,
         k.adapterBusy => k.asking > 0
  PROVE  ModelsScans(k)
BY DEF ModelsType, ModelsScans

\* Every handler of the Models panel keeps the invariant, and none shows an
\* older scan after a newer one (Models.tsx).
LEMMA ModelsNext ==
  ASSUME ModelsInv, Models!Next
  PROVE  ModelsInv' /\ Models!NeverOlder
<1> DEFINE Good(k) == k \in ModelsType /\ ModelsScans(k) /\ k.shown.gen >= panel.shown.gen
<1>0. panel \in ModelsType /\ ModelsScans(panel) /\ panel.gen \in Nat /\ panel.shown.gen \in Nat
  BY ModelsAssumption DEF ModelsInv, ModelsType
<1> SUFFICES Good(panel')
  BY DEF ModelsInv, Models!NeverOlder
<1>r. ASSUME NEW k, Good(k), NEW b \in BOOLEAN PROVE Good(Models!Rendered(k, b))
  BY <1>r, ModelsRendered
<1>s. ASSUME NEW k \in ModelsType, k.gen = panel.gen, k.scans = panel.scans, k.shown = panel.shown,
             k.scanning = panel.scanning, k.adapterBusy => k.asking > 0
      PROVE  Good(k)
  BY <1>0, <1>s, ModelsSame
<1> HIDE DEF Good
<1>e. panel.edits < MaxFolderEdits => panel.edits + 1 \in 0..MaxFolderEdits
  BY <1>0, ModelsAssumption DEF ModelsType
<1>n. \A n \in {panel.asking, panel.applying} : n \in Nat /\ n + 1 \in Nat /\ (n > 0 => n - 1 \in Nat) /\ n + 1 > 0
  BY <1>0 DEF ModelsType
<1>q. panel.dir \in Folder /\ Dirs \subseteq Folder /\ \A d \in Folder : Append(panel.saving, d) \in Seq(Folder)
  BY <1>0 DEF ModelsType, Folder
<1>1. CASE Models!ConfigLoads
  <2>1. PICK d \in Dirs : panel' = Models!Rendered([panel EXCEPT !.saved = d], FALSE)
    BY <1>1 DEF Models!ConfigLoads
  <2>2. Good([panel EXCEPT !.saved = d])
    <3> DEFINE k == [panel EXCEPT !.saved = d]
    <3>1. k \in ModelsType /\ k.gen = panel.gen /\ k.scans = panel.scans /\ k.shown = panel.shown
          /\ k.scanning = panel.scanning /\ (k.adapterBusy => k.asking > 0)
      BY <1>0 DEF ModelsType, ModelsScans, Folder
    <3> HIDE DEF k
    <3> QED BY <1>s, <3>1 DEF k
  <2> QED BY <1>r, <2>1, <2>2
<1>2. CASE Models!TimerFires
  <2> DEFINE k == [panel EXCEPT !.timer = FALSE]
  <2>1. k \in ModelsType /\ ModelsScans(k) /\ k.gen < MaxScans /\ panel.dir \in Folder /\ k.shown = panel.shown
    BY <1>0, <1>2 DEF Models!TimerFires, ModelsType, ModelsScans
  <2>2. panel' = Models!Scan(k, panel.dir)
    BY <1>2 DEF Models!TimerFires
  <2> HIDE DEF k
  <2> QED BY <2>1, <2>2, ModelsScan DEF Good
<1>3. CASE Models!ScanReturns
  BY <1>0, <1>3, ModelsReturned DEF Models!ScanReturns, Good
<1>4. CASE Models!CancelScan
  <2> DEFINE k == [panel EXCEPT !.gen = panel.gen + 1, !.timer = FALSE, !.scanning = FALSE]
  <2>1. panel' = k /\ panel.gen + 1 \in 0..MaxScans
    BY <1>0, <1>4, ModelsAssumption DEF Models!CancelScan, ModelsType
  <2>2. k \in ModelsType /\ k.gen = panel.gen + 1 /\ k.scans = panel.scans /\ k.shown = panel.shown /\ ~k.scanning
        /\ k.adapterBusy = panel.adapterBusy /\ k.asking = panel.asking
    BY <1>0, <2>1 DEF ModelsType
  <2> HIDE DEF k
  <2>3. ModelsScans(k)
    BY <1>0, <2>2 DEF ModelsType, ModelsScans
  <2> QED BY <1>0, <2>1, <2>2, <2>3 DEF Good
<1>5. CASE Models!Rescan
  <2>1. panel' = [panel EXCEPT !.asked = TRUE, !.timer = TRUE]
    BY <1>5 DEF Models!Rescan
  <2>2. Good([panel EXCEPT !.asked = TRUE, !.timer = TRUE])
    <3> DEFINE k == [panel EXCEPT !.asked = TRUE, !.timer = TRUE]
    <3>1. k \in ModelsType /\ k.gen = panel.gen /\ k.scans = panel.scans /\ k.shown = panel.shown
          /\ k.scanning = panel.scanning /\ (k.adapterBusy => k.asking > 0)
      BY <1>0 DEF ModelsType, ModelsScans, Folder
    <3> HIDE DEF k
    <3> QED BY <1>s, <3>1 DEF k
  <2> QED BY <2>1, <2>2
<1>16. CASE Models!ScanAgain
  BY <1>0, <1>16, ModelsScan DEF Models!ScanAgain, Good, ModelsType
<1>17. CASE Models!RefreshAdapters
  <2> DEFINE u == [panel EXCEPT !.adapterBusy = TRUE, !.asking = @ + 1, !.edits = @ + 1]
  <2>1. panel.edits < MaxFolderEdits /\ panel' = u
    BY <1>17 DEF Models!RefreshAdapters, Models!Edits
  <2>2. u \in ModelsType /\ u.gen = panel.gen /\ u.scans = panel.scans /\ u.shown = panel.shown
        /\ u.scanning = panel.scanning /\ (u.adapterBusy => u.asking > 0)
    BY <1>0, <1>e, <1>n, <1>q, <2>1 DEF ModelsType
  <2> HIDE DEF u
  <2> QED BY <1>s, <2>1, <2>2
<1>6. CASE Models!Type
  <2>1. PICK d \in Folder : /\ panel.edits < MaxFolderEdits
                            /\ panel' = Models!Rendered([panel EXCEPT !.dir = d, !.dirty = TRUE, !.edits = @ + 1], TRUE)
    BY <1>6 DEF Models!Type, Models!Edits, Folder
  <2>2. Good([panel EXCEPT !.dir = d, !.dirty = TRUE, !.edits = @ + 1])
    <3> DEFINE k == [panel EXCEPT !.dir = d, !.dirty = TRUE, !.edits = @ + 1]
    <3>1. k \in ModelsType /\ k.gen = panel.gen /\ k.scans = panel.scans /\ k.shown = panel.shown
          /\ k.scanning = panel.scanning /\ (k.adapterBusy => k.asking > 0)
      BY <1>0, <1>e, <1>n, <1>q, <2>1 DEF ModelsType, ModelsScans, Folder
    <3> HIDE DEF k
    <3> QED BY <1>s, <3>1 DEF k
  <2> QED BY <1>r, <2>1, <2>2
<1>7. CASE Models!SaveFolder
  <2>1. /\ panel.edits < MaxFolderEdits
        /\ panel' = [panel EXCEPT !.saving = Append(@, panel.dir), !.edits = @ + 1]
    BY <1>7 DEF Models!SaveFolder, Models!Edits
  <2>2. Good([panel EXCEPT !.saving = Append(@, panel.dir), !.edits = @ + 1])
    <3> DEFINE k == [panel EXCEPT !.saving = Append(@, panel.dir), !.edits = @ + 1]
    <3>1. k \in ModelsType /\ k.gen = panel.gen /\ k.scans = panel.scans /\ k.shown = panel.shown
          /\ k.scanning = panel.scanning /\ (k.adapterBusy => k.asking > 0)
      BY <1>0, <1>e, <1>n, <1>q, <2>1 DEF ModelsType, ModelsScans, Folder
    <3> HIDE DEF k
    <3> QED BY <1>s, <3>1 DEF k
  <2> QED BY <2>1, <2>2
<1>8. CASE Models!Browse
  <2>1. PICK d \in Dirs : /\ panel.edits < MaxFolderEdits
                          /\ panel' = Models!Rendered([panel EXCEPT !.dir = d, !.saving = Append(@, d), !.edits = @ + 1],
                                                      d # panel.dir)
    BY <1>8 DEF Models!Browse, Models!Edits
  <2>2. Good([panel EXCEPT !.dir = d, !.saving = Append(@, d), !.edits = @ + 1])
    <3> DEFINE k == [panel EXCEPT !.dir = d, !.saving = Append(@, d), !.edits = @ + 1]
    <3>1. k \in ModelsType /\ k.gen = panel.gen /\ k.scans = panel.scans /\ k.shown = panel.shown
          /\ k.scanning = panel.scanning /\ (k.adapterBusy => k.asking > 0)
      BY <1>0, <1>e, <1>n, <1>q, <2>1 DEF ModelsType, ModelsScans, Folder
    <3> HIDE DEF k
    <3> QED BY <1>s, <3>1 DEF k
  <2> QED BY <1>r, <2>1, <2>2
<1>9. CASE Models!SaveReturns
  <2> DEFINE d == Head(panel.saving)
             m == [panel EXCEPT !.saving = Tail(@)]
             n == [m EXCEPT !.saved = d, !.dirty = FALSE, !.requested = d, !.asked = TRUE, !.timer = TRUE]
  <2>1. panel.saving # <<>> /\ (panel' = Models!Rendered(n, FALSE) \/ panel' = m)
    BY <1>9 DEF Models!SaveReturns
  <2>2. d \in Folder /\ Tail(panel.saving) \in Seq(Folder)
    BY <1>0, <1>n, <2>1 DEF ModelsType
  <2> HIDE DEF d
  <2>3. m \in ModelsType /\ m.gen = panel.gen /\ m.scans = panel.scans /\ m.shown = panel.shown
        /\ m.scanning = panel.scanning /\ (m.adapterBusy => m.asking > 0)
    BY <1>0, <2>2 DEF ModelsType, ModelsScans
  <2> HIDE DEF m
  <2>4. n \in ModelsType /\ n.gen = panel.gen /\ n.scans = panel.scans /\ n.shown = panel.shown
        /\ n.scanning = panel.scanning /\ (n.adapterBusy => n.asking > 0)
    BY <2>2, <2>3 DEF ModelsType
  <2> HIDE DEF n
  <2> QED BY <1>r, <1>s, <2>1, <2>3, <2>4
<1>10. CASE Models!Delete
  <2>1. /\ panel.edits < MaxFolderEdits
        /\ panel' = [panel EXCEPT !.deleting = @ \cup {panel.dir}, !.edits = @ + 1]
    BY <1>10 DEF Models!Delete, Models!Edits
  <2>2. Good([panel EXCEPT !.deleting = @ \cup {panel.dir}, !.edits = @ + 1])
    <3> DEFINE k == [panel EXCEPT !.deleting = @ \cup {panel.dir}, !.edits = @ + 1]
    <3>1. k \in ModelsType /\ k.gen = panel.gen /\ k.scans = panel.scans /\ k.shown = panel.shown
          /\ k.scanning = panel.scanning /\ (k.adapterBusy => k.asking > 0)
      BY <1>0, <1>e, <1>n, <1>q, <2>1 DEF ModelsType, ModelsScans, Folder
    <3> HIDE DEF k
    <3> QED BY <1>s, <3>1 DEF k
  <2> QED BY <2>1, <2>2
<1>11. CASE Models!DeleteReturns
  <2>1. PICK d \in panel.deleting :
           \/ panel.gen < MaxScans /\ panel' = Models!Scan([panel EXCEPT !.deleting = @ \ {d}], d)
           \/ panel' = [panel EXCEPT !.deleting = @ \ {d}]
    BY <1>11 DEF Models!DeleteReturns
  <2> DEFINE k == [panel EXCEPT !.deleting = @ \ {d}]
  <2>2. k \in ModelsType /\ k.gen = panel.gen /\ k.scans = panel.scans /\ k.shown = panel.shown
        /\ k.scanning = panel.scanning /\ (k.adapterBusy => k.asking > 0) /\ d \in Folder
    BY <1>0 DEF ModelsType, ModelsScans
  <2> HIDE DEF k
  <2>3. Good(k)
    BY <1>s, <2>2
  <2>4. CASE panel' = k
    BY <2>3, <2>4
  <2>5. CASE panel.gen < MaxScans /\ panel' = Models!Scan(k, d)
    BY <2>2, <2>3, <2>5, ModelsScan DEF Good
  <2> QED BY <2>1, <2>4, <2>5 DEF k
<1>12. CASE Models!ServerChanges
  <2> DEFINE u == [panel EXCEPT !.server = "up", !.adapterBusy = TRUE, !.asking = @ + 1, !.edits = @ + 1]
             v == [panel EXCEPT !.server = "down", !.adapters = "none", !.edits = @ + 1]
  <2>1. panel.edits < MaxFolderEdits /\ (panel' = u \/ panel' = v)
    BY <1>12 DEF Models!ServerChanges, Models!Edits
  <2>2. u \in ModelsType /\ u.gen = panel.gen /\ u.scans = panel.scans /\ u.shown = panel.shown
        /\ u.scanning = panel.scanning /\ (u.adapterBusy => u.asking > 0)
    BY <1>0, <1>e, <1>n, <1>q, <2>1 DEF ModelsType, Models!Servers
  <2>3. v \in ModelsType /\ v.gen = panel.gen /\ v.scans = panel.scans /\ v.shown = panel.shown
        /\ v.scanning = panel.scanning /\ (v.adapterBusy => v.asking > 0)
    BY <1>0, <1>e, <1>n, <1>q, <2>1 DEF ModelsType, ModelsScans, Models!Servers
  <2> HIDE DEF u, v
  <2> QED BY <1>s, <2>1, <2>2, <2>3
<1>13. CASE Models!AdaptersReturn
  <2>1. PICK has \in {"none", "listed"} :
          panel.asking > 0 /\ panel' = [panel EXCEPT !.asking = @ - 1, !.adapters = has, !.adapterBusy = FALSE]
    BY <1>13 DEF Models!AdaptersReturn
  <2>2. Good([panel EXCEPT !.asking = @ - 1, !.adapters = has, !.adapterBusy = FALSE])
    <3> DEFINE k == [panel EXCEPT !.asking = @ - 1, !.adapters = has, !.adapterBusy = FALSE]
    <3>1. k \in ModelsType /\ k.gen = panel.gen /\ k.scans = panel.scans /\ k.shown = panel.shown
          /\ k.scanning = panel.scanning /\ (k.adapterBusy => k.asking > 0)
      BY <1>0, <1>n, <2>1 DEF ModelsType, ModelsScans, Folder
    <3> HIDE DEF k
    <3> QED BY <1>s, <3>1 DEF k
  <2> QED BY <2>1, <2>2
<1>14. CASE Models!ApplyAdapters
  <2>1. panel.edits < MaxFolderEdits /\ panel' = [panel EXCEPT !.applying = @ + 1, !.edits = @ + 1]
    BY <1>14 DEF Models!ApplyAdapters, Models!Edits
  <2>2. Good([panel EXCEPT !.applying = @ + 1, !.edits = @ + 1])
    <3> DEFINE k == [panel EXCEPT !.applying = @ + 1, !.edits = @ + 1]
    <3>1. k \in ModelsType /\ k.gen = panel.gen /\ k.scans = panel.scans /\ k.shown = panel.shown
          /\ k.scanning = panel.scanning /\ (k.adapterBusy => k.asking > 0)
      BY <1>0, <1>e, <1>n, <1>q, <2>1 DEF ModelsType, ModelsScans, Folder
    <3> HIDE DEF k
    <3> QED BY <1>s, <3>1 DEF k
  <2> QED BY <2>1, <2>2
<1>15. CASE Models!ApplyReturns
  <2> DEFINE u == [panel EXCEPT !.applying = @ - 1, !.adapterBusy = TRUE, !.asking = @ + 1]
             v == [panel EXCEPT !.applying = @ - 1]
  <2>1. panel.applying > 0 /\ (panel' = u \/ panel' = v)
    BY <1>15 DEF Models!ApplyReturns
  <2>2. u \in ModelsType /\ u.gen = panel.gen /\ u.scans = panel.scans /\ u.shown = panel.shown
        /\ u.scanning = panel.scanning /\ (u.adapterBusy => u.asking > 0)
    BY <1>0, <1>n, <2>1 DEF ModelsType
  <2>3. v \in ModelsType /\ v.gen = panel.gen /\ v.scans = panel.scans /\ v.shown = panel.shown
        /\ v.scanning = panel.scanning /\ (v.adapterBusy => v.asking > 0)
    BY <1>0, <1>n, <2>1 DEF ModelsType, ModelsScans
  <2> HIDE DEF u, v
  <2> QED BY <1>s, <2>1, <2>2, <2>3
<1> QED
  BY <1>1, <1>2, <1>3, <1>4, <1>5, <1>6, <1>7, <1>8, <1>9, <1>10, <1>11, <1>12, <1>13, <1>14, <1>15,
     <1>16, <1>17 DEF Models!Next

\* What the invariant says of the Models panel: its type, and the spinner is
\* the newest scan's.
LEMMA ModelsShows ==
  ASSUME ModelsInv
  PROVE  Models!TypeOK /\ Models!SpinsForTheNewest
BY ModelsAssumption DEF ModelsInv, ModelsType, ModelsScans, Models!TypeOK, Models!SpinsForTheNewest, Folder, Models!Servers

-----------------------------------------------------------------------------
DiscoverType ==
  [ searching : BOOLEAN, found : BOOLEAN, selected : Repos \cup {NoRepo}, files : Repos \cup {NoRepo},
    gen : Nat, inspections : SUBSET [gen : Nat, of : Repos], loading : BOOLEAN,
    download : [of : Repos \cup {NoRepo}, projector : BOOLEAN], server : {"stopped", "running"},
    inView : BOOLEAN, view : Nat, registering : SUBSET Nat, listeners : SUBSET Nat ]

DiscoverAnswers(d) ==
  /\ \A i \in d.inspections : i.gen \in 1..d.gen
  /\ \A i, j \in d.inspections : i.gen = j.gen => i = j
  /\ d.loading <=> \E i \in d.inspections : i.gen = d.gen
  /\ \A i \in d.inspections : i.gen = d.gen => d.selected \in {NoRepo, i.of}
  /\ d.selected # NoRepo /\ d.files # NoRepo => d.files = d.selected

DiscoverListens(d) ==
  /\ d.registering \subseteq 1..d.view /\ d.listeners \subseteq 1..d.view
  /\ d.listeners \subseteq (IF d.inView THEN {d.view} ELSE {})

DiscoverInv == panel \in DiscoverType /\ DiscoverAnswers(panel) /\ DiscoverListens(panel)

\* The panel starts with the invariant (Discover.tsx).
LEMMA DiscoverInit ==
  ASSUME Discover!Init PROVE DiscoverInv
BY DiscoverAssumption DEF Discover!Init, Discover!NoDownload, DiscoverInv, DiscoverType, DiscoverAnswers, DiscoverListens

\* Every handler of the Discover panel, and every late answer, keeps the
\* invariant (Discover.tsx).
LEMMA DiscoverNext ==
  ASSUME DiscoverInv, Discover!Next PROVE DiscoverInv'
<1>0. panel \in DiscoverType /\ DiscoverAnswers(panel) /\ DiscoverListens(panel)
  BY DEF DiscoverInv
<1> DEFINE SameAnswers(k) == /\ k.gen = panel.gen /\ k.inspections = panel.inspections /\ k.loading = panel.loading
                             /\ k.selected = panel.selected /\ k.files = panel.files
           SameListeners(k) == /\ k.registering = panel.registering /\ k.view = panel.view
                               /\ k.listeners = panel.listeners /\ k.inView = panel.inView
<1>a. ASSUME NEW k \in DiscoverType, SameAnswers(k) PROVE DiscoverAnswers(k)
  BY <1>0, <1>a DEF DiscoverAnswers
<1>l. ASSUME NEW k \in DiscoverType, SameListeners(k) PROVE DiscoverListens(k)
  BY <1>0, <1>l DEF DiscoverListens
<1>1. CASE Discover!Search
  <2>1. PICK typed \in BOOLEAN : panel' = [panel EXCEPT !.selected = NoRepo, !.files = NoRepo, !.searching = typed]
    BY <1>1 DEF Discover!Search
  <2>2. panel' \in DiscoverType /\ SameListeners(panel')
    BY <1>0, <2>1 DEF DiscoverType
  <2>3. panel'.gen = panel.gen /\ panel'.inspections = panel.inspections /\ panel'.loading = panel.loading
        /\ panel'.selected = NoRepo
    BY <1>0, <2>1 DEF DiscoverType
  <2>4. DiscoverAnswers(panel')
    BY <1>0, <2>3 DEF DiscoverAnswers
  <2> QED BY <1>l, <2>2, <2>4 DEF DiscoverInv
<1>2. CASE Discover!SearchReturns
  <2>1. panel' \in DiscoverType /\ SameListeners(panel') /\ SameAnswers(panel')
    BY <1>0, <1>2 DEF Discover!SearchReturns, DiscoverType
  <2> QED BY <1>a, <1>l, <2>1 DEF DiscoverInv
<1>3. CASE Discover!Inspect
  <2> DEFINE n(r) == [gen |-> panel.gen + 1, of |-> r]
  <2>1. PICK r \in Repos : panel' = [panel EXCEPT !.gen = @ + 1, !.selected = r, !.files = NoRepo, !.loading = TRUE,
                                       !.inspections = @ \cup {n(r)}]
    BY <1>3 DEF Discover!Inspect
  <2>2. n(r) \in [gen : Nat, of : Repos] /\ n(r).gen = panel.gen + 1 /\ n(r).of = r /\ panel.gen \in Nat
    BY <1>0 DEF DiscoverType
  <2> HIDE DEF n
  <2>3. panel' \in DiscoverType /\ SameListeners(panel')
    BY <1>0, <2>1, <2>2 DEF DiscoverType
  <2>4. /\ panel'.gen = panel.gen + 1 /\ panel'.inspections = panel.inspections \cup {n(r)} /\ panel'.loading
        /\ panel'.selected = r /\ panel'.files = NoRepo
    BY <1>0, <2>1 DEF DiscoverType
  <2>5. DiscoverAnswers(panel')
    BY <1>0, <2>2, <2>4 DEF DiscoverAnswers
  <2> QED BY <1>l, <2>3, <2>5 DEF DiscoverInv
<1>4. CASE Discover!Inspected
  <2>1. PICK i \in panel.inspections : \E files \in {i.of, panel.files} : panel' = Discover!InspectReturns(panel, i, files)
    BY <1>4 DEF Discover!Inspected
  <2>2. PICK files \in {i.of, panel.files} : panel' = Discover!InspectReturns(panel, i, files)
    BY <2>1
  <2>3. i.gen \in Nat /\ i.of \in Repos /\ files \in Repos \cup {NoRepo}
    BY <1>0 DEF DiscoverType
  <2>4. CASE i.gen # panel.gen
    <3>1. panel' = [panel EXCEPT !.inspections = @ \ {i}]
      BY <2>2, <2>4 DEF Discover!InspectReturns
    <3>2. panel' \in DiscoverType /\ SameListeners(panel')
      BY <1>0, <3>1 DEF DiscoverType
    <3>3. /\ panel'.gen = panel.gen /\ panel'.inspections = panel.inspections \ {i} /\ panel'.loading = panel.loading
          /\ panel'.selected = panel.selected /\ panel'.files = panel.files
      BY <1>0, <3>1 DEF DiscoverType
    <3>4. DiscoverAnswers(panel')
      BY <1>0, <2>4, <3>3 DEF DiscoverAnswers
    <3> QED BY <1>l, <3>2, <3>4 DEF DiscoverInv
  <2>5. CASE i.gen = panel.gen
    <3>1. panel' = [panel EXCEPT !.inspections = @ \ {i}, !.files = files, !.loading = FALSE]
      BY <2>2, <2>5 DEF Discover!InspectReturns
    <3>2. panel' \in DiscoverType /\ SameListeners(panel')
      BY <1>0, <2>3, <3>1 DEF DiscoverType
    <3>3. /\ panel'.gen = panel.gen /\ panel'.inspections = panel.inspections \ {i} /\ ~panel'.loading
          /\ panel'.selected = panel.selected /\ panel'.files = files
      BY <1>0, <3>1 DEF DiscoverType
    <3>4. DiscoverAnswers(panel')
      BY <1>0, <2>5, <3>3 DEF DiscoverAnswers
    <3> QED BY <1>l, <3>2, <3>4 DEF DiscoverInv
  <2> QED BY <2>4, <2>5
<1>5. CASE Discover!Download
  <2>1. panel' \in DiscoverType /\ SameListeners(panel') /\ SameAnswers(panel')
    BY <1>0, <1>5 DEF Discover!Download, DiscoverType
  <2> QED BY <1>a, <1>l, <2>1 DEF DiscoverInv
<1>6. CASE Discover!DownloadReturns
  <2>1. panel' \in DiscoverType /\ SameListeners(panel') /\ SameAnswers(panel')
    BY <1>0, <1>6 DEF Discover!DownloadReturns, Discover!NoDownload, DiscoverType
  <2> QED BY <1>a, <1>l, <2>1 DEF DiscoverInv
<1>7. CASE Discover!ServerChanges
  <2>1. panel' \in DiscoverType /\ SameListeners(panel') /\ SameAnswers(panel')
    BY <1>0, <1>7 DEF Discover!ServerChanges, DiscoverType
  <2> QED BY <1>a, <1>l, <2>1 DEF DiscoverInv
<1>8. CASE Discover!ComesIntoView
  <2>1. ~panel.inView /\ panel' = [panel EXCEPT !.inView = TRUE, !.view = @ + 1, !.registering = @ \cup {panel.view + 1}]
    BY <1>8 DEF Discover!ComesIntoView
  <2>2. panel.view \in Nat /\ panel.view + 1 \in Nat
    BY <1>0 DEF DiscoverType
  <2>3. panel' \in DiscoverType /\ SameAnswers(panel')
    BY <1>0, <2>1, <2>2 DEF DiscoverType
  <2>4. /\ panel'.view = panel.view + 1 /\ panel'.registering = panel.registering \cup {panel.view + 1}
        /\ panel'.listeners = panel.listeners /\ panel'.inView
    BY <1>0, <2>1 DEF DiscoverType
  <2>5. DiscoverListens(panel')
    BY <1>0, <2>1, <2>2, <2>4 DEF DiscoverListens
  <2> QED BY <1>a, <2>3, <2>5 DEF DiscoverInv
<1>9. CASE Discover!GoesOutOfView
  <2>1. panel.inView /\ panel' = [panel EXCEPT !.inView = FALSE, !.listeners = @ \ {panel.view}]
    BY <1>9 DEF Discover!GoesOutOfView
  <2>2. panel' \in DiscoverType /\ SameAnswers(panel')
    BY <1>0, <2>1 DEF DiscoverType
  <2>3. /\ panel'.view = panel.view /\ panel'.registering = panel.registering
        /\ panel'.listeners = panel.listeners \ {panel.view} /\ ~panel'.inView
    BY <1>0, <2>1 DEF DiscoverType
  <2>4. DiscoverListens(panel')
    BY <1>0, <2>1, <2>3 DEF DiscoverListens
  <2> QED BY <1>a, <2>2, <2>4 DEF DiscoverInv
<1>10. CASE Discover!ListenerRegistered
  <2>1. PICK v \in panel.registering : panel' = Discover!Registered(panel, v)
    BY <1>10 DEF Discover!ListenerRegistered
  <2>2. v \in Nat
    BY <1>0 DEF DiscoverType
  <2>3. CASE Discover!Disposed(panel, v)
    <3>1. panel' = [panel EXCEPT !.registering = @ \ {v}]
      BY <2>1, <2>3 DEF Discover!Registered
    <3>2. panel' \in DiscoverType /\ SameAnswers(panel')
      BY <1>0, <3>1 DEF DiscoverType
    <3>3. /\ panel'.view = panel.view /\ panel'.registering = panel.registering \ {v}
          /\ panel'.listeners = panel.listeners /\ panel'.inView = panel.inView
      BY <1>0, <3>1 DEF DiscoverType
    <3>4. DiscoverListens(panel')
      BY <1>0, <3>3 DEF DiscoverListens
    <3> QED BY <1>a, <3>2, <3>4 DEF DiscoverInv
  <2>4. CASE ~Discover!Disposed(panel, v)
    <3>1. v = panel.view /\ panel.inView
      BY <2>4 DEF Discover!Disposed
    <3>2. panel' = [panel EXCEPT !.registering = @ \ {v}, !.listeners = @ \cup {v}]
      BY <2>1, <2>4 DEF Discover!Registered
    <3>3. panel' \in DiscoverType /\ SameAnswers(panel')
      BY <1>0, <2>2, <3>2 DEF DiscoverType
    <3>4. /\ panel'.view = panel.view /\ panel'.registering = panel.registering \ {v}
          /\ panel'.listeners = panel.listeners \cup {v} /\ panel'.inView = panel.inView
      BY <1>0, <3>2 DEF DiscoverType
    <3>5. DiscoverListens(panel')
      BY <1>0, <3>1, <3>4 DEF DiscoverListens
    <3> QED BY <1>a, <3>3, <3>5 DEF DiscoverInv
  <2> QED BY <2>3, <2>4
<1> QED
  BY <1>1, <1>2, <1>3, <1>4, <1>5, <1>6, <1>7, <1>8, <1>9, <1>10 DEF Discover!Next

\* What the invariant says of the Discover panel: its type, the files listed
\* are those of the selected repository, and no listener outlives its view.
LEMMA DiscoverShows ==
  ASSUME DiscoverInv
  PROVE  Discover!TypeOK /\ Discover!FilesOfSelected /\ Discover!NoListenerLeft
<1>1. panel.inspections \subseteq [gen : 1..panel.gen, of : Repos]
  BY DEF DiscoverInv, DiscoverType, DiscoverAnswers
<1> QED BY <1>1 DEF DiscoverInv, DiscoverType, DiscoverAnswers, DiscoverListens,
                    Discover!TypeOK, Discover!FilesOfSelected, Discover!NoListenerLeft

-----------------------------------------------------------------------------
\* Newest runs first.
Newest(h) == \A i, j \in DOMAIN h : i < j => h[i] > h[j]
BenchRun == [id : 1..MaxBenches, iters : 1..MaxIters, onto : Seq(1..MaxBenches)]
BenchType ==
  [ phase : {"idle", "running", "canceling"}, cfg : IterNumbers, draft : Bench!Drafts \cup 1..MaxIters, dirty : BOOLEAN,
    server : BOOLEAN, run : SUBSET BenchRun, cancels : 0..1,
    history : Seq(1..MaxBenches), stored : Seq(1..MaxBenches), runs : 0..MaxBenches ]

\* What the history, its copy and the closure of a run may be.
BenchList(h, limit, runs) ==
  /\ Len(h) <= limit /\ Newest(h) /\ \A i \in DOMAIN h : h[i] <= runs

BenchKeeps(b) ==
  /\ b.run = {} \/ \E r \in b.run : b.run = {r}
  /\ b.phase = "idle" <=> b.run = {}
  /\ BenchList(b.history, MaxHistory, b.runs) /\ BenchList(b.stored, MaxHistory, b.runs)
  /\ \A r \in b.run : r.id <= b.runs /\ BenchList(r.onto, MaxHistory, r.id - 1)

BenchInv == panel \in BenchType /\ BenchKeeps(panel)

\* The length, the domain and the items of a history.
LEMMA BenchItems ==
  ASSUME NEW h \in Seq(1..MaxBenches)
  PROVE  Len(h) \in Nat /\ DOMAIN h = 1..Len(h) /\ \A i \in 1..Len(h) : h[i] \in 1..MaxBenches
<1> DEFINE S == 1..MaxBenches
<1>1. h \in Seq(S)
  OBVIOUS
<1> HIDE DEF S
<1>2. \A i \in 1..Len(h) : h[i] \in S
  BY <1>1, ElementOfSeq
<1> QED BY <1>1, <1>2, LenProperties DEF S

\* A run that ends is put before the history of its closure and the end is cut
\* off: the newest first, within the limit (Bench.tsx).
LEMMA BenchTakes ==
  ASSUME NEW h \in Seq(1..MaxBenches), NEW id \in 1..MaxBenches, NEW runs \in Nat, id <= runs,
         BenchList(h, MaxHistory, id - 1)
  PROVE  LET next == Bench!Take(<<id>> \o h, MaxHistory) IN
         next \in Seq(1..MaxBenches) /\ BenchList(next, MaxHistory, runs)
<1> DEFINE s == <<id>> \o h
           n == IF Len(s) < MaxHistory THEN Len(s) ELSE MaxHistory
           next == SubSeq(s, 1, n)
<1>1. s \in Seq(1..MaxBenches) /\ Len(s) = Len(h) + 1 /\ s[1] = id /\ \A i \in 2..Len(s) : s[i] = h[i - 1]
  OBVIOUS
<1>2. n \in 0..Len(s) /\ n <= MaxHistory /\ n \in Nat
  BY BenchAssumption, <1>1
<1> HIDE DEF s, n
<1>3. next \in Seq(1..MaxBenches) /\ Len(next) = n /\ \A i \in 1..n : next[i] = s[i]
  <2>1. next = [i \in 1..n |-> s[i]]
    BY <1>1, <1>2
  <2>2. \A i \in 1..n : i \in DOMAIN s /\ s[i] \in 1..MaxBenches
    BY <1>1, <1>2, BenchItems
  <2> QED BY <1>2, <2>1, <2>2, SubSeqProperties
<1> HIDE DEF next
<1>4. ASSUME NEW i \in 1..n, NEW j \in 1..n, i < j PROVE next[i] > next[j]
  <2>1. j \in 2..Len(s) /\ next[j] = h[j - 1] /\ j - 1 \in DOMAIN h /\ h[j - 1] <= id - 1 /\ h[j - 1] \in Nat
    <3>1. j \in 2..Len(s) /\ j - 1 \in 1..Len(h)
      BY <1>1, <1>2, <1>4
    <3>2. next[j] = s[j] /\ s[j] = h[j - 1]
      BY <1>1, <1>3, <3>1
    <3>3. j - 1 \in DOMAIN h /\ h[j - 1] \in 1..MaxBenches
      BY <3>1, BenchItems
    <3> QED BY <3>1, <3>2, <3>3 DEF BenchList
  <2>2. CASE i = 1
    BY <1>1, <1>3, <2>1, <2>2
  <2>3. CASE i # 1
    <3>1. i \in 2..Len(s) /\ i - 1 \in 1..Len(h) /\ i - 1 < j - 1
      BY <1>1, <1>2, <1>4, <2>3
    <3>2. next[i] = h[i - 1] /\ i - 1 \in DOMAIN h
      BY <1>1, <1>3, <3>1
    <3> QED BY <2>1, <3>1, <3>2 DEF BenchList, Newest
  <2> QED BY <2>2, <2>3
<1>5. ASSUME NEW i \in 1..n PROVE next[i] <= runs
  <2>1. CASE i = 1
    BY <1>1, <1>3, <2>1
  <2>2. CASE i # 1
    <3>1. i \in 2..Len(s) /\ i - 1 \in 1..Len(h)
      BY <1>1, <1>2, <2>2
    <3>2. next[i] = h[i - 1] /\ i - 1 \in DOMAIN h /\ h[i - 1] \in 1..MaxBenches
      BY <1>1, <1>3, <3>1, BenchItems
    <3>3. h[i - 1] <= id - 1
      BY <3>2 DEF BenchList
    <3> QED BY <3>2, <3>3
  <2> QED BY <2>1, <2>2
<1>6. DOMAIN next = 1..n
  BY <1>3
<1>7. BenchList(next, MaxHistory, runs)
  BY <1>2, <1>3, <1>4, <1>5, <1>6 DEF BenchList, Newest
<1>8. Bench!Take(<<id>> \o h, MaxHistory) = next
  BY DEF Bench!Take, next, n, s
<1> HIDE DEF next
<1> QED BY <1>3, <1>7, <1>8

\* The panel starts with the invariant (Bench.tsx).
LEMMA BenchInit ==
  ASSUME Bench!Init PROVE BenchInv
BY BenchAssumption DEF Bench!Init, Bench!Drafts, BenchInv, BenchType, BenchKeeps, BenchList, Newest

\* A history stays one when more runs have begun.
LEMMA BenchLater ==
  ASSUME NEW h, NEW m \in Nat, NEW n \in Nat, m <= n, h \in Seq(1..MaxBenches), BenchList(h, MaxHistory, m)
  PROVE  BenchList(h, MaxHistory, n)
<1>1. \A i \in DOMAIN h : h[i] \in 1..MaxBenches
  BY BenchItems
<1> QED BY <1>1 DEF BenchList

\* The number of iterations is limited whatever the text says (Bench.tsx).
LEMMA BenchClamped ==
  ASSUME NEW b \in BenchType PROVE Bench!Clamped(b) \in 1..MaxIters
<1> DEFINE n == IF b.draft = NotANumber THEN b.cfg ELSE b.draft
<1>1. b.cfg \in Int /\ (b.draft = NotANumber \/ b.draft \in Int)
  <2>1. b.cfg \in IterNumbers /\ b.draft \in (IterNumbers \cup {NotANumber}) \cup 1..MaxIters
    BY DEF BenchType, Bench!Drafts
  <2>2. 1..MaxIters \subseteq Int
    OBVIOUS
  <2> QED BY <2>1, <2>2, BenchAssumption
<1>2. n \in Int
  BY <1>1
<1>3. Bench!Clamped(b) = IF n < 1 THEN 1 ELSE IF n > MaxIters THEN MaxIters ELSE n
  BY DEF Bench!Clamped
<1> HIDE DEF n
<1> QED BY <1>2, <1>3, BenchAssumption

\* Showing the configured iterations leaves the run and the history alone
\* (Bench.tsx).
LEMMA BenchShown ==
  ASSUME NEW b \in BenchType
  PROVE  LET k == Bench!Shown(b) IN
         /\ k \in BenchType
         /\ k.phase = b.phase /\ k.run = b.run /\ k.history = b.history /\ k.stored = b.stored /\ k.runs = b.runs
BY DEF Bench!Shown, BenchType, Bench!Drafts

\* Every handler of the benchmark panel, its cancellation and its late answers
\* keep the invariant (Bench.tsx).
LEMMA BenchNext ==
  ASSUME BenchInv, Bench!Next PROVE BenchInv'
<1> DEFINE Same(k) == /\ k.phase = panel.phase /\ k.run = panel.run /\ k.history = panel.history
                      /\ k.stored = panel.stored /\ k.runs = panel.runs
<1>0. panel \in BenchType /\ BenchKeeps(panel)
  BY DEF BenchInv
<1>s. ASSUME Same(panel'), panel' \in BenchType PROVE BenchInv'
  BY <1>0, <1>s DEF BenchInv, BenchKeeps
<1>1. CASE Bench!Configured
  <2>1. PICK n \in IterNumbers : panel' = Bench!Shown([panel EXCEPT !.cfg = n])
    BY <1>1 DEF Bench!Configured
  <2> DEFINE k == [panel EXCEPT !.cfg = n]
  <2>2. k \in BenchType /\ Same(k)
    BY <1>0 DEF BenchType
  <2> HIDE DEF k
  <2> QED BY <1>s, <2>1, <2>2, BenchShown DEF k
<1>2. CASE Bench!Type
  <2>1. panel' \in BenchType /\ Same(panel')
    BY <1>0, <1>2 DEF Bench!Type, BenchType
  <2> QED BY <1>s, <2>1
<1>3. CASE Bench!Blur
  <2> DEFINE k == [panel EXCEPT !.draft = Bench!Clamped(panel), !.dirty = FALSE]
  <2>1. panel' = Bench!Shown(k)
    BY <1>3 DEF Bench!Blur
  <2>2. k \in BenchType /\ Same(k)
    BY <1>0, BenchClamped DEF BenchType
  <2> HIDE DEF k
  <2> QED BY <1>s, <2>1, <2>2, BenchShown
<1>4. CASE Bench!ServerChanges
  <2>1. panel' \in BenchType /\ Same(panel')
    BY <1>0, <1>4 DEF Bench!ServerChanges, BenchType
  <2> QED BY <1>s, <2>1
<1>5. CASE Bench!Run
  <2> DEFINE r == [id |-> panel.runs + 1, iters |-> Bench!Clamped(panel), onto |-> panel.history]
             k == [panel EXCEPT !.phase = "running", !.dirty = FALSE, !.runs = @ + 1, !.run = {r}]
  <2>1. panel' = Bench!Shown(k) /\ panel.runs < MaxBenches
    BY <1>5 DEF Bench!Run
  <2>2. panel.runs \in Nat /\ panel.runs + 1 \in 1..MaxBenches
    BY <1>0, <2>1, BenchAssumption DEF BenchType
  <2>3. r \in BenchRun /\ r.id = panel.runs + 1 /\ r.onto = panel.history
    BY <1>0, <2>2, BenchClamped DEF BenchType, BenchRun
  <2> HIDE DEF r
  <2>4. k \in BenchType
    <3>1. panel.runs + 1 \in 0..MaxBenches /\ {r} \in SUBSET BenchRun
      BY <2>2, <2>3, BenchAssumption
    <3> QED BY <1>0, <3>1 DEF BenchType
  <2>5. /\ k.phase = "running" /\ k.run = {r} /\ k.history = panel.history /\ k.stored = panel.stored
        /\ k.runs = panel.runs + 1
    BY <1>0 DEF BenchType
  <2> HIDE DEF k
  <2>6. panel' \in BenchType /\ panel'.phase = "running" /\ panel'.run = {r} /\ panel'.history = panel.history
        /\ panel'.stored = panel.stored /\ panel'.runs = panel.runs + 1
    BY <2>1, <2>4, <2>5, BenchShown
  <2>7. /\ BenchList(panel.history, MaxHistory, panel.runs + 1) /\ BenchList(panel.stored, MaxHistory, panel.runs + 1)
        /\ BenchList(r.onto, MaxHistory, r.id - 1)
    <3>1. /\ panel.history \in Seq(1..MaxBenches) /\ panel.stored \in Seq(1..MaxBenches)
          /\ BenchList(panel.history, MaxHistory, panel.runs) /\ BenchList(panel.stored, MaxHistory, panel.runs)
      BY <1>0 DEF BenchType, BenchKeeps
    <3>2. r.id - 1 = panel.runs /\ panel.runs <= panel.runs + 1 /\ panel.runs + 1 \in Nat
      BY <2>2, <2>3
    <3> QED BY <2>2, <2>3, <3>1, <3>2, BenchLater
  <2> QED BY <2>2, <2>3, <2>6, <2>7 DEF BenchInv, BenchKeeps
<1>6. CASE Bench!RunReturns
  <2> DEFINE idle == [panel EXCEPT !.phase = "idle", !.run = {}]
             next(r) == Bench!Take(<<r.id>> \o r.onto, MaxHistory)
  <2>1. PICK r \in panel.run : \/ \E fits \in BOOLEAN :
                                    panel' = [idle EXCEPT !.history = next(r), !.stored = IF fits THEN next(r) ELSE @]
                               \/ panel' = idle
    BY <1>6 DEF Bench!RunReturns
  <2>2. /\ r.id \in 1..MaxBenches /\ r.onto \in Seq(1..MaxBenches) /\ r.id <= panel.runs /\ panel.runs \in Nat
        /\ BenchList(r.onto, MaxHistory, r.id - 1)
    BY <1>0 DEF BenchType, BenchKeeps, BenchRun
  <2>3. next(r) \in Seq(1..MaxBenches) /\ BenchList(next(r), MaxHistory, panel.runs)
    BY <2>2, BenchTakes
  <2> HIDE DEF next
  <2>4. /\ idle \in BenchType /\ idle.phase = "idle" /\ idle.run = {} /\ idle.history = panel.history
        /\ idle.stored = panel.stored /\ idle.runs = panel.runs
    BY <1>0 DEF BenchType
  <2> HIDE DEF idle
  <2>5. CASE panel' = idle
    BY <1>0, <2>4, <2>5 DEF BenchInv, BenchKeeps
  <2>6. ASSUME NEW fits \in BOOLEAN, panel' = [idle EXCEPT !.history = next(r), !.stored = IF fits THEN next(r) ELSE @]
        PROVE  BenchInv'
    <3>1. panel' \in BenchType
      BY <2>3, <2>4, <2>6 DEF BenchType
    <3>2. /\ panel'.phase = "idle" /\ panel'.run = {} /\ panel'.history = next(r)
          /\ panel'.stored \in {next(r), panel.stored} /\ panel'.runs = panel.runs
      BY <2>4, <2>6 DEF BenchType
    <3> QED BY <1>0, <2>3, <3>1, <3>2 DEF BenchInv, BenchKeeps
  <2> QED BY <2>1, <2>5, <2>6
<1>7. CASE Bench!Cancel
  <2>1. panel.phase = "running" /\ panel' = [panel EXCEPT !.phase = "canceling", !.cancels = 1]
    BY <1>7 DEF Bench!Cancel
  <2>2. /\ panel' \in BenchType /\ panel'.phase = "canceling" /\ panel'.run = panel.run
        /\ panel'.history = panel.history /\ panel'.stored = panel.stored /\ panel'.runs = panel.runs
    <3>1. 1 \in 0..1
      OBVIOUS
    <3> QED BY <1>0, <2>1, <3>1 DEF BenchType
  <2> QED BY <1>0, <2>1, <2>2 DEF BenchInv, BenchKeeps
<1>8. CASE Bench!CancelReturns
  <2>1. panel' \in BenchType /\ Same(panel')
    BY <1>0, <1>8 DEF Bench!CancelReturns, BenchType
  <2> QED BY <1>s, <2>1
<1>9. CASE Bench!Reload
  <2>1. panel.run = {} /\ panel' = [panel EXCEPT !.history = panel.stored, !.dirty = FALSE, !.draft = panel.cfg,
                                      !.cancels = 0]
    BY <1>9 DEF Bench!Reload
  <2>2. /\ panel' \in BenchType /\ panel'.phase = panel.phase /\ panel'.run = panel.run
        /\ panel'.history = panel.stored /\ panel'.stored = panel.stored /\ panel'.runs = panel.runs
    <3>1. 0 \in 0..1
      OBVIOUS
    <3> QED BY <1>0, <2>1, <3>1 DEF BenchType, Bench!Drafts
  <2>3. panel.run = {} /\ panel.phase = "idle"
    BY <1>0, <2>1 DEF BenchKeeps
  <2> QED BY <1>0, <2>2, <2>3 DEF BenchInv, BenchKeeps
<1> QED
  BY <1>1, <1>2, <1>3, <1>4, <1>5, <1>6, <1>7, <1>8, <1>9 DEF Bench!Next

\* What the invariant says of the benchmark panel: its type, its phase is that
\* of its run, and runs and history are within their limits.
LEMMA BenchShows ==
  ASSUME BenchInv PROVE Bench!TypeOK /\ Bench!PhaseFollowsRun /\ Bench!WithinLimits
<1>0. panel \in BenchType /\ BenchKeeps(panel)
  BY DEF BenchInv
<1>1. Bench!Cardinality(panel.run) <= 1
  <2>1. Bench!Cardinality(panel.run) = Cardinality(panel.run)
    BY DEF Bench!Cardinality, Cardinality
  <2>2. CASE panel.run = {}
    BY <2>1, <2>2, FS_EmptySet
  <2>3. CASE \E r \in panel.run : panel.run = {r}
    BY <2>1, <2>3, FS_Singleton
  <2> QED BY <1>0, <2>2, <2>3 DEF BenchKeeps
<1>2. \A r \in panel.run : r.id \in 1..panel.runs
  BY <1>0 DEF BenchType, BenchKeeps, BenchRun
<1>3. Bench!WithinLimits
  BY <1>0 DEF BenchType, BenchKeeps, BenchRun, BenchList, Newest, Bench!WithinLimits
<1> QED BY <1>0, <1>1, <1>2, <1>3 DEF BenchType, BenchKeeps, Bench!TypeOK, Bench!PhaseFollowsRun

-----------------------------------------------------------------------------
FrameType ==
  [ tab : Window!TabSet, mounted : SUBSET Window!TabSet, focus : Window!TabSet \cup {"none"}, loaded : BOOLEAN,
    failed : SUBSET Window!TabSet, requests : Nat, handled : Nat, flash : 0..MaxFlashes, timers : SUBSET (0..MaxFlashes) ]
FrameInv ==
  /\ panel \in FrameType /\ panel.tab \in panel.mounted /\ panel.failed \subseteq panel.mounted
  /\ panel.handled <= panel.requests
  /\ panel.timers = {panel.flash} \ {0}

\* The window starts with the invariant (App.tsx).
LEMMA FrameInit ==
  ASSUME Window!Init PROVE FrameInv
BY FrameAssumption DEF Window!Init, Window!TabSet, FrameInv, FrameType

\* Every handler of the window's frame and every timer keeps the invariant
\* (App.tsx, useFlashMessage.ts).
LEMMA FrameNext ==
  ASSUME FrameInv, Window!Next PROVE FrameInv'
<1>s. ASSUME NEW tab \in Window!TabSet
      PROVE  LET f == Window!Shown(panel, tab) IN
             /\ f \in FrameType /\ f.tab \in f.mounted /\ f.failed \subseteq f.mounted
             /\ f.handled <= f.requests /\ f.timers = {f.flash} \ {0} /\ f.requests = panel.requests
  BY DEF FrameInv, FrameType, Window!Shown
<1>a. ASSUME NEW tab \in Window!TabSet, Window!Activate(tab) PROVE FrameInv'
  <2> DEFINE f == Window!Shown(panel, tab)
  <2>1. panel' = [f EXCEPT !.focus = tab]
    BY <1>a DEF Window!Activate
  <2>2. /\ f \in FrameType /\ f.tab \in f.mounted /\ f.failed \subseteq f.mounted
        /\ f.handled <= f.requests /\ f.timers = {f.flash} \ {0}
    BY <1>s
  <2> HIDE DEF f
  <2> QED BY <2>1, <2>2 DEF FrameInv, FrameType
<1>t. Len(Tabs) \in Nat \ {0} /\ \A i \in 1..Len(Tabs) : Tabs[i] \in Window!TabSet
  BY FrameAssumption DEF Window!TabSet
<1>1. CASE Window!Click
  BY <1>1, <1>s DEF Window!Click, FrameInv
<1>2. CASE Window!Key
  <2>1. ASSUME NEW d \in {1, -1}, Window!Move(d) PROVE FrameInv'
    <3> DEFINE i == CHOOSE i \in DOMAIN Tabs : Tabs[i] = panel.tab
               j == 1 + ((Window!Index(panel.tab) + d + Len(Tabs)) % Len(Tabs))
    <3>1. i \in 1..Len(Tabs)
      BY FrameAssumption DEF FrameInv, FrameType, Window!TabSet
    <3>2. Window!Index(panel.tab) \in Int
      BY <3>1 DEF Window!Index
    <3>3. j \in 1..Len(Tabs)
      BY <1>t, <3>2
    <3>4. Window!Activate(Tabs[j])
      BY <2>1 DEF Window!Move
    <3> HIDE DEF j
    <3> QED BY <1>a, <1>t, <3>3, <3>4
  <2>2. Window!Move(1) \/ Window!Move(-1) \/ Window!Activate(Tabs[1]) \/ Window!Activate(Tabs[Len(Tabs)])
    BY <1>2 DEF Window!Key
  <2> QED BY <1>a, <1>t, <2>1, <2>2
<1>3. CASE Window!Focuses
  BY <1>3 DEF Window!Focuses, FrameInv, FrameType
<1>4. CASE Window!PanelFails
  BY <1>4 DEF Window!PanelFails, FrameInv, FrameType
<1>5. CASE Window!Recover
  BY <1>5 DEF Window!Recover, FrameInv, FrameType
<1>6. CASE Window!RequestApply
  <2> DEFINE f == Window!Shown(panel, "tuning")
  <2>1. panel' = [f EXCEPT !.requests = @ + 1]
    BY <1>6 DEF Window!RequestApply
  <2>2. /\ f \in FrameType /\ f.tab \in f.mounted /\ f.failed \subseteq f.mounted
        /\ f.handled <= f.requests /\ f.timers = {f.flash} \ {0}
    <3>1. "tuning" \in Window!TabSet
      BY FrameAssumption DEF Window!TabSet
    <3> QED BY <1>s, <3>1
  <2> HIDE DEF f
  <2> QED BY <2>1, <2>2 DEF FrameInv, FrameType
<1>7. CASE Window!ConfigLoads
  BY <1>7 DEF Window!ConfigLoads, FrameInv, FrameType
<1>8. CASE Window!Applies
  BY <1>8 DEF Window!Applies, FrameInv, FrameType
<1>9. CASE Window!ShowFlash
  <2>1. PICK n \in 0..MaxFlashes : panel' = [panel EXCEPT !.flash = n, !.timers = {n} \ {0}]
    BY <1>9 DEF Window!ShowFlash, Window!Flashed
  <2>2. panel' \in FrameType
    BY <2>1 DEF FrameInv, FrameType
  <2>3. /\ panel'.tab = panel.tab /\ panel'.mounted = panel.mounted /\ panel'.failed = panel.failed
        /\ panel'.handled = panel.handled /\ panel'.requests = panel.requests
        /\ panel'.flash = n /\ panel'.timers = {n} \ {0}
    BY <2>1 DEF FrameInv, FrameType
  <2> QED BY <2>2, <2>3 DEF FrameInv
<1>10. CASE Window!FlashExpires
  <2>1. PICK n \in panel.timers : panel' = [panel EXCEPT !.flash = 0, !.timers = @ \ {n}]
    BY <1>10 DEF Window!FlashExpires
  <2>2. panel \in FrameType /\ panel.timers = {panel.flash} \ {0}
    BY DEF FrameInv
  <2>3. panel.timers \ {n} = {0} \ {0} /\ 0 \in 0..MaxFlashes /\ panel.timers \ {n} \in SUBSET (0..MaxFlashes)
    BY <2>2, FrameAssumption DEF FrameType
  <2>4. panel' \in FrameType
    BY <2>1, <2>2, <2>3 DEF FrameType
  <2>5. /\ panel'.tab = panel.tab /\ panel'.mounted = panel.mounted /\ panel'.failed = panel.failed
        /\ panel'.handled = panel.handled /\ panel'.requests = panel.requests
        /\ panel'.flash = 0 /\ panel'.timers = {0} \ {0}
    BY <2>1, <2>2, <2>3 DEF FrameType
  <2> QED BY <2>4, <2>5 DEF FrameInv
<1> QED
  BY <1>1, <1>2, <1>3, <1>4, <1>5, <1>6, <1>7, <1>8, <1>9, <1>10 DEF Window!Next

\* What the invariant says of the frame: its type, and a message is cleared by
\* the timer set for it.
LEMMA FrameShows ==
  ASSUME FrameInv PROVE Window!TypeOK /\ Window!FlashIsItsOwn
BY DEF FrameInv, FrameType, Window!TypeOK, Window!FlashIsItsOwn

-----------------------------------------------------------------------------
Draft == Tune!Values \cup {Tune!NoDraft}
Save == { s \in [by : Tune!Savers, sets : SUBSET Tune!ServerFields, sent : Tune!Config, ahead : Nat] :
            /\ s.by = "field" => "n" \in s.sets
            /\ s.by = "args" => "args" \in s.sets }
TuningType ==
  [ cfg : Tune!Config, previous : Tune!Config, queue : Seq(Save), writing : BOOLEAN, moved : BOOLEAN,
    nDraft : Draft, argsDraft : Tune!Values, argsDirty : BOOLEAN, phase : Tune!Phases, lock : BOOLEAN,
    busy : BOOLEAN, running : BOOLEAN, restarting : BOOLEAN, before : Tune!Config, edits : Tune!Values,
    typed : [n : Draft, args : Draft], saved : SUBSET Tune!Values ]

\* A rollback that no save was ahead of is at the head, and until it is written the
\* configuration is what it sends.
FirstIsCurrent(queue, cfg, writing) ==
  \A i \in 1..Len(queue) : queue[i].by = "rollback" /\ queue[i].ahead = 0 => i = 1 /\ (~writing => cfg = queue[i].sent)

\* A draft is the last one typed, or that one was saved; while a restart goes
\* on, nothing was published unless `moved' says so.
TuningKeeps(t) ==
  /\ t.writing => t.queue # <<>>
  /\ t.restarting /\ ~t.moved => t.cfg = t.before
  /\ t.typed.n # Tune!NoDraft => t.nDraft = t.typed.n \/ t.typed.n \in t.saved
  /\ t.typed.args # Tune!NoDraft => (t.argsDirty /\ t.argsDraft = t.typed.args) \/ t.typed.args \in t.saved
  /\ FirstIsCurrent(t.queue, t.cfg, t.writing)

TuningInv == panel \in TuningType /\ TuningKeeps(panel)

\* The values of a field, and that none of them is the empty draft.
LEMMA TuningValues == 0 \in Tune!Values /\ Tune!NoDraft \notin Tune!Values
BY TuningAssumption DEF Tune!Values, Tune!NoDraft

\* A value the user types is a new one.
LEMMA TuningNewValue ==
  ASSUME panel \in TuningType, Tune!Edits
  PROVE  Tune!Value \in Tune!Values /\ panel.edits + 1 = Tune!Value
<1>1. panel.edits \in Tune!Values
  BY DEF TuningType
<1> QED BY <1>1, TuningAssumption DEF Tune!Values, Tune!Edits, Tune!Value

\* The panel starts with the invariant (useTuningController.ts).
LEMMA TuningInit ==
  ASSUME Tune!Init PROVE TuningInv
<1>1. panel \in TuningType
  BY TuningValues DEF Tune!Init, TuningType, Tune!Config, Draft, Tune!Phases
<1>2. TuningKeeps(panel)
  <2>1. panel.queue = <<>> /\ Len(<<>>) = 0
    BY DEF Tune!Init
  <2>2. FirstIsCurrent(panel.queue, panel.cfg, panel.writing)
    BY <2>1 DEF FirstIsCurrent
  <2> QED BY <2>2 DEF Tune!Init, TuningKeeps
<1> QED BY <1>1, <1>2 DEF TuningInv

\* A save that joins the queue keeps the invariant (configSaveQueue.ts).
LEMMA TuningEnqueues ==
  ASSUME NEW t \in TuningType, TuningKeeps(t), NEW by \in Tune!Savers, NEW sets \in SUBSET Tune!ServerFields,
         NEW sent \in Tune!Config, by = "field" => "n" \in sets, by = "args" => "args" \in sets, by = "rollback" => t.cfg = sent
  PROVE  LET k == Tune!Enqueue(t, by, sets, sent) IN
         /\ k \in TuningType /\ TuningKeeps(k) /\ k.writing = t.writing
         /\ by # "rollback" /\ Tune!Waiting(k) => Tune!Waiting(t)
<1> DEFINE s == [by |-> by, sets |-> sets, sent |-> sent,
                 ahead |-> IF by = "rollback" THEN Len(t.queue) ELSE 0]
           q == Append(t.queue, s)
           k == [t EXCEPT !.queue = q]
<1>1. s \in Save /\ t.queue \in Seq(Save)
  <2>1. t.queue \in Seq(Save)
    BY DEF TuningType
  <2>2. Len(t.queue) \in Nat
    BY <2>1, LenProperties
  <2> QED BY <2>1, <2>2 DEF Save
<1>2. q \in Seq(Save) /\ Len(q) = Len(t.queue) + 1 /\ q[Len(t.queue) + 1] = s
      /\ \A i \in 1..Len(t.queue) : q[i] = t.queue[i]
  <2> HIDE DEF s
  <2> QED BY <1>1
<1>3. s.by = by /\ s.sent = sent /\ (by = "rollback" => s.ahead = Len(t.queue))
  OBVIOUS
<1> HIDE DEF s, q
<1>4. k \in TuningType /\ k.queue = q /\ k.writing = t.writing
  BY <1>2 DEF TuningType
<1>q. q # <<>>
  BY <1>1, <1>2
<1>f. FirstIsCurrent(q, t.cfg, t.writing)
  <2>1. ASSUME NEW i \in 1..Len(q), q[i].by = "rollback", q[i].ahead = 0
        PROVE  i = 1 /\ (~t.writing => t.cfg = q[i].sent)
    <3>l. Len(t.queue) \in Nat
      BY <1>1, LenProperties
    <3>1. CASE i = Len(t.queue) + 1
      <4>1. q[i] = s /\ by = "rollback"
        BY <1>2, <1>3, <2>1, <3>1
      <4>2. Len(t.queue) = 0
        BY <1>3, <2>1, <4>1
      <4> QED BY <1>3, <3>1, <4>1, <4>2
    <3>2. CASE i # Len(t.queue) + 1
      <4>1. i \in 1..Len(t.queue)
        BY <1>2, <3>l, <3>2
      <4>2. q[i] = t.queue[i]
        BY <1>2, <4>1
      <4> QED BY <2>1, <4>1, <4>2 DEF FirstIsCurrent, TuningKeeps
    <3> QED BY <3>1, <3>2
  <2> QED BY <2>1 DEF FirstIsCurrent
<1>5. TuningKeeps(k)
  BY <1>f, <1>q DEF TuningKeeps, TuningType
<1>6. Tune!Enqueue(t, by, sets, sent) = k
  BY DEF Tune!Enqueue, k, q, s
<1>7. ASSUME by # "rollback", Tune!Waiting(k) PROVE Tune!Waiting(t)
  <2> HIDE DEF k
  <2>1. PICK i \in DOMAIN q : q[i].by = "rollback"
    BY <1>4, <1>7 DEF Tune!Waiting
  <2>2. DOMAIN q = 1..Len(t.queue) + 1 /\ Len(t.queue) \in Nat /\ DOMAIN t.queue = 1..Len(t.queue)
    BY <1>1, <1>2, LenProperties
  <2>3. i # Len(t.queue) + 1
    BY <1>2, <1>3, <1>7, <2>1
  <2>4. i \in DOMAIN t.queue /\ t.queue[i].by = "rollback"
    BY <1>2, <2>1, <2>2, <2>3
  <2> QED BY <2>4 DEF Tune!Waiting
<1> HIDE DEF k
<1> QED BY <1>4, <1>5, <1>6, <1>7

\* A publication: what it leaves alone.
LEMMA TuningPublishes ==
  ASSUME NEW t \in TuningType, TuningKeeps(t), NEW cfg \in Tune!Config, FirstIsCurrent(t.queue, cfg, t.writing)
  PROVE  LET k == Tune!Published(t, cfg) IN
         k \in TuningType /\ TuningKeeps(k) /\ k.queue = t.queue /\ k.saved = t.saved /\ k.writing = t.writing
<1> DEFINE a == IF t.argsDirty THEN t.argsDraft ELSE cfg.args
           k == [t EXCEPT !.cfg = cfg, !.moved = TRUE, !.argsDraft = a]
<1>1. a \in Tune!Values
  BY DEF TuningType, Tune!Config
<1>2. t.argsDirty => a = t.argsDraft
  OBVIOUS
<1>3. Tune!Published(t, cfg) = k
  BY DEF Tune!Published
<1> HIDE DEF a
<1>4. k \in TuningType
  BY <1>1 DEF TuningType
<1>5. /\ k.cfg = cfg /\ k.moved = TRUE /\ k.argsDraft = a /\ k.queue = t.queue /\ k.writing = t.writing /\ k.saved = t.saved /\ k.nDraft = t.nDraft
      /\ k.typed = t.typed /\ k.argsDirty = t.argsDirty /\ k.restarting = t.restarting /\ k.before = t.before
  BY DEF TuningType
<1> HIDE DEF k
<1>6. TuningKeeps(k)
  BY <1>2, <1>5 DEF TuningKeeps
<1> QED BY <1>3, <1>4, <1>5, <1>6

\* The answer to a save that succeeded.
LEMMA TuningSettles ==
  ASSUME NEW t \in TuningType, TuningKeeps(t), NEW save \in Save,
         save.by \in {"field", "args"} => \A f \in save.sets : save.sent[f] \in t.saved
  PROVE  LET k == Tune!Settled(t, save) IN k \in TuningType /\ TuningKeeps(k) /\ k.queue = t.queue /\ k.writing = t.writing
<1> DEFINE k == Tune!Settled(t, save)
<1>0. save.sent \in Tune!Config /\ (save.by = "field" => "n" \in save.sets) /\ (save.by = "args" => "args" \in save.sets)
  BY DEF Save
<1>t. {"dirty", "failed"} \subseteq Tune!Phases /\ t.cfg.args \in Tune!Values /\ Tune!NoDraft \in Draft
  BY DEF Tune!Phases, TuningType, Tune!Config, Draft
<1>1. CASE save.by = "field"
  <2> DEFINE d == IF t.nDraft = save.sent.n THEN Tune!NoDraft ELSE t.nDraft
  <2>1. k = [t EXCEPT !.nDraft = d, !.phase = "dirty"]
    BY <1>1 DEF Tune!Settled
  <2>2. d \in Draft /\ (d # t.nDraft => t.nDraft \in t.saved)
    BY <1>0, <1>1, <1>t DEF TuningType, Tune!Config
  <2> HIDE DEF d, k
  <2>3. k \in TuningType
    BY <1>t, <2>1, <2>2 DEF TuningType
  <2>4. /\ k.nDraft = d /\ k.queue = t.queue /\ k.writing = t.writing /\ k.saved = t.saved /\ k.typed = t.typed /\ k.cfg = t.cfg /\ k.before = t.before
        /\ k.restarting = t.restarting /\ k.moved = t.moved /\ k.argsDraft = t.argsDraft /\ k.argsDirty = t.argsDirty
    BY <2>1 DEF TuningType
  <2>5. TuningKeeps(k)
    BY <2>2, <2>4 DEF TuningKeeps
  <2> QED BY <2>3, <2>4, <2>5 DEF k
<1>2. CASE save.by = "args" /\ t.argsDraft = save.sent.args
  <2>1. k = [t EXCEPT !.argsDirty = FALSE, !.argsDraft = t.cfg.args, !.phase = "dirty"]
    BY <1>2 DEF Tune!Settled
  <2>2. t.argsDraft \in t.saved
    BY <1>0, <1>2 DEF Tune!Config
  <2> HIDE DEF k
  <2>3. k \in TuningType
    BY <1>t, <2>1, <2>2 DEF TuningType
  <2>4. /\ k.nDraft = t.nDraft /\ k.queue = t.queue /\ k.writing = t.writing /\ k.saved = t.saved /\ k.typed = t.typed /\ k.cfg = t.cfg
        /\ k.before = t.before /\ k.restarting = t.restarting /\ k.moved = t.moved
    BY <2>1 DEF TuningType
  <2>5. TuningKeeps(k)
    BY <2>2, <2>4 DEF TuningKeeps
  <2> QED BY <2>3, <2>4, <2>5 DEF k
<1>3. CASE save.by = "args" /\ t.argsDraft # save.sent.args
  <2>1. k = [t EXCEPT !.phase = "dirty"]
    BY <1>3 DEF Tune!Settled
  <2> QED BY <1>t, <2>1 DEF TuningType, TuningKeeps
<1>4. CASE save.by = "rollback"
  <2>1. k = [t EXCEPT !.phase = "failed", !.lock = FALSE]
    BY <1>4 DEF Tune!Settled
  <2> QED BY <1>t, <2>1 DEF TuningType, TuningKeeps
<1>5. CASE save.by \notin {"field", "args", "rollback"}
  <2>1. k = t
    BY <1>5 DEF Tune!Settled
  <2> QED BY <2>1
<1> QED BY <1>1, <1>2, <1>3, <1>4, <1>5

\* The types of the fields that the steps of the panel change.
LEMMA TuningParts ==
  ASSUME NEW t \in TuningType
  PROVE  /\ t.queue \in Seq(Save) /\ t.cfg \in Tune!Config /\ t.before \in Tune!Config /\ t.previous \in Tune!Config
         /\ t.argsDraft \in Tune!Values /\ t.nDraft \in Draft
BY DEF TuningType

\* Every handler of the Tuning panel, and every answer to a save or a restart, keeps the
\* invariant; a rollback is queued only when nothing was published since the restart that
\* failed began, and one that no save was ahead of finds its configuration in its turn
\* (useTuningController.ts, tuningAsync.ts, configSaveQueue.ts).
LEMMA TuningNext ==
  ASSUME TuningInv, Tune!Next
  PROVE  TuningInv' /\ Tune!RollbackIsCurrent
<1> DEFINE Good == /\ panel' \in TuningType /\ TuningKeeps(panel') /\ (Tune!Waiting(panel') => Tune!Waiting(panel))
                   /\ panel'.writing => panel.writing
<1>0. panel \in TuningType /\ TuningKeeps(panel)
  BY DEF TuningInv
<1> SUFFICES panel' \in TuningType /\ TuningKeeps(panel') /\ Tune!RollbackIsCurrent
  BY DEF TuningInv, TuningKeeps
<1>s. ASSUME Good PROVE panel' \in TuningType /\ TuningKeeps(panel') /\ Tune!RollbackIsCurrent
  BY <1>s DEF Tune!RollbackIsCurrent, Tune!QueuedWhenCurrent, Tune!FindsItsOwn
<1>q. ASSUME panel'.queue = panel.queue PROVE Tune!Waiting(panel') => Tune!Waiting(panel)
  BY <1>q DEF Tune!Waiting
<1>v. 0 \in Tune!Values /\ Tune!NoDraft \notin Tune!Values /\ Tune!NoDraft \in Draft /\ Tune!Values \subseteq Draft
  BY TuningValues DEF Draft
<1>w. ASSUME Tune!Edits PROVE Tune!Value \in Tune!Values /\ panel.edits + 1 = Tune!Value
  BY <1>0, <1>w, TuningNewValue
<1>c. ASSUME NEW v \in Tune!Values
      PROVE  [panel.cfg EXCEPT !.n = v] \in Tune!Config /\ [panel.cfg EXCEPT !.args = v] \in Tune!Config
  BY <1>0, TuningParts DEF Tune!Config
<1>1. CASE Tune!TypeNumber
  <2> DEFINE v == Tune!Value
  <2>1. panel' = [panel EXCEPT !.nDraft = v, !.typed.n = v, !.edits = @ + 1] /\ v \in Tune!Values /\ panel.edits + 1 = v
    BY <1>1, <1>w DEF Tune!TypeNumber
  <2> HIDE DEF v
  <2>2. panel' \in TuningType
    BY <1>0, <1>v, <2>1 DEF TuningType
  <2>3. /\ panel'.queue = panel.queue /\ panel'.writing = panel.writing /\ panel'.nDraft = v /\ panel'.typed.n = v /\ panel'.typed.args = panel.typed.args
        /\ panel'.argsDraft = panel.argsDraft /\ panel'.argsDirty = panel.argsDirty /\ panel'.saved = panel.saved
        /\ panel'.cfg = panel.cfg /\ panel'.before = panel.before /\ panel'.restarting = panel.restarting
        /\ panel'.moved = panel.moved
    BY <1>0, <2>1 DEF TuningType
  <2>4. TuningKeeps(panel')
    BY <1>0, <2>3 DEF TuningKeeps
  <2> QED BY <1>s, <1>q, <2>2, <2>3, <2>4
<1>2. CASE Tune!CommitNumber
  <2>1. CASE panel.nDraft # Tune!NoDraft
             /\ panel' = Tune!Enqueue(panel, "field", {"n"}, [panel.cfg EXCEPT !.n = panel.nDraft])
    <3>1. panel.nDraft \in Tune!Values /\ "field" \in Tune!Savers /\ {"n"} \in SUBSET Tune!ServerFields
      BY <1>0, <2>1, TuningParts DEF Draft, Tune!Savers, Tune!ServerFields
    <3>2. [panel.cfg EXCEPT !.n = panel.nDraft] \in Tune!Config
      BY <1>c, <3>1
    <3>3. /\ panel' \in TuningType /\ TuningKeeps(panel') /\ panel'.writing = panel.writing
          /\ Tune!Waiting(panel') => Tune!Waiting(panel)
      BY <1>0, <2>1, <3>1, <3>2, TuningEnqueues
    <3> QED BY <1>s, <3>3
  <2>2. CASE panel' = [panel EXCEPT !.nDraft = Tune!NoDraft, !.typed.n = Tune!NoDraft]
    <3>1. panel' \in TuningType
      BY <1>0, <1>v, <2>2 DEF TuningType
    <3>2. /\ panel'.queue = panel.queue /\ panel'.writing = panel.writing /\ panel'.typed.n = Tune!NoDraft /\ panel'.typed.args = panel.typed.args
          /\ panel'.argsDraft = panel.argsDraft /\ panel'.argsDirty = panel.argsDirty /\ panel'.saved = panel.saved
          /\ panel'.cfg = panel.cfg /\ panel'.before = panel.before /\ panel'.restarting = panel.restarting
          /\ panel'.moved = panel.moved
      BY <1>0, <2>2 DEF TuningType
    <3>3. TuningKeeps(panel')
      BY <1>0, <3>2 DEF TuningKeeps
    <3> QED BY <1>s, <1>q, <3>1, <3>2, <3>3
  <2> QED BY <1>2, <2>1, <2>2 DEF Tune!CommitNumber
<1>3. CASE Tune!TypeArgs
  <2> DEFINE v == Tune!Value
  <2>1. panel' = [panel EXCEPT !.argsDraft = v, !.argsDirty = TRUE, !.typed.args = v, !.edits = @ + 1]
        /\ v \in Tune!Values /\ panel.edits + 1 = v
    BY <1>3, <1>w DEF Tune!TypeArgs
  <2> HIDE DEF v
  <2>2. panel' \in TuningType
    BY <1>0, <1>v, <2>1 DEF TuningType
  <2>3. /\ panel'.queue = panel.queue /\ panel'.writing = panel.writing /\ panel'.nDraft = panel.nDraft /\ panel'.typed.n = panel.typed.n
        /\ panel'.typed.args = v /\ panel'.argsDraft = v /\ panel'.argsDirty = TRUE /\ panel'.saved = panel.saved
        /\ panel'.cfg = panel.cfg /\ panel'.before = panel.before /\ panel'.restarting = panel.restarting
        /\ panel'.moved = panel.moved
    BY <1>0, <2>1 DEF TuningType
  <2>4. TuningKeeps(panel')
    BY <1>0, <2>3 DEF TuningKeeps
  <2> QED BY <1>s, <1>q, <2>2, <2>3, <2>4
<1>4. CASE Tune!SaveArgs
  <2>1. panel' = Tune!Enqueue(panel, "args", {"args"}, [panel.cfg EXCEPT !.args = panel.argsDraft])
    BY <1>4 DEF Tune!SaveArgs
  <2>2. /\ "args" \in Tune!Savers /\ {"args"} \in SUBSET Tune!ServerFields
        /\ [panel.cfg EXCEPT !.args = panel.argsDraft] \in Tune!Config
    BY <1>0, <1>c, TuningParts DEF Tune!Savers, Tune!ServerFields
  <2>3. /\ panel' \in TuningType /\ TuningKeeps(panel') /\ panel'.writing = panel.writing
        /\ Tune!Waiting(panel') => Tune!Waiting(panel)
    BY <1>0, <2>1, <2>2, TuningEnqueues
  <2> QED BY <1>s, <2>3
<1>5. CASE Tune!Choice
  <2> DEFINE t == [panel EXCEPT !.phase = "dirty", !.edits = @ + 1]
  <2>1. panel' = Tune!Enqueue(t, "choice", {"n"}, [panel.cfg EXCEPT !.n = Tune!Value])
        /\ Tune!Value \in Tune!Values /\ panel.edits + 1 = Tune!Value
    BY <1>5, <1>w DEF Tune!Choice
  <2>2. t \in TuningType /\ TuningKeeps(t) /\ t.queue = panel.queue /\ t.writing = panel.writing
    BY <1>0, <2>1 DEF TuningType, TuningKeeps, Tune!Phases
  <2> HIDE DEF t
  <2>3. "choice" \in Tune!Savers /\ {"n"} \in SUBSET Tune!ServerFields /\ [panel.cfg EXCEPT !.n = Tune!Value] \in Tune!Config
    BY <1>c, <2>1 DEF Tune!Savers, Tune!ServerFields
  <2>4. panel' \in TuningType /\ TuningKeeps(panel') /\ (Tune!Waiting(panel') => Tune!Waiting(t)) /\ panel'.writing = t.writing
    BY <2>1, <2>2, <2>3, TuningEnqueues
  <2> QED BY <1>s, <2>2, <2>4 DEF Tune!Waiting
<1>6. CASE Tune!ResetDefaults
  <2> DEFINE t == [panel EXCEPT !.argsDraft = 0, !.argsDirty = FALSE, !.phase = "dirty", !.typed.args = Tune!NoDraft]
  <2>1. panel' = Tune!Enqueue(t, "choice", {"n", "args"}, [n |-> 0, args |-> 0])
    BY <1>6 DEF Tune!ResetDefaults
  <2>2. t \in TuningType
    BY <1>0, <1>v DEF TuningType, Tune!Phases
  <2>3. /\ t.queue = panel.queue /\ t.writing = panel.writing /\ t.nDraft = panel.nDraft /\ t.typed.n = panel.typed.n
        /\ t.typed.args = Tune!NoDraft /\ t.saved = panel.saved
        /\ t.cfg = panel.cfg /\ t.before = panel.before /\ t.restarting = panel.restarting
        /\ t.moved = panel.moved
    BY <1>0 DEF TuningType
  <2> HIDE DEF t
  <2>4. TuningKeeps(t)
    BY <1>0, <2>3 DEF TuningKeeps
  <2>5. "choice" \in Tune!Savers /\ {"n", "args"} \in SUBSET Tune!ServerFields /\ [n |-> 0, args |-> 0] \in Tune!Config
    BY <1>v DEF Tune!Savers, Tune!ServerFields, Tune!Config
  <2>6. panel' \in TuningType /\ TuningKeeps(panel') /\ (Tune!Waiting(panel') => Tune!Waiting(t)) /\ panel'.writing = t.writing
    BY <2>1, <2>2, <2>4, <2>5, TuningEnqueues
  <2> QED BY <1>s, <2>3, <2>6 DEF Tune!Waiting
<1>7. CASE Tune!OtherPanel
  <2> DEFINE t == [panel EXCEPT !.edits = @ + 1]
  <2>1. panel' = Tune!Enqueue(t, "other", {"n"}, [panel.cfg EXCEPT !.n = Tune!Value])
        /\ Tune!Value \in Tune!Values /\ panel.edits + 1 = Tune!Value
    BY <1>7, <1>w DEF Tune!OtherPanel
  <2>2. t \in TuningType /\ TuningKeeps(t) /\ t.queue = panel.queue /\ t.writing = panel.writing
    BY <1>0, <2>1 DEF TuningType, TuningKeeps
  <2> HIDE DEF t
  <2>3. "other" \in Tune!Savers /\ {"n"} \in SUBSET Tune!ServerFields /\ [panel.cfg EXCEPT !.n = Tune!Value] \in Tune!Config
    BY <1>c, <2>1 DEF Tune!Savers, Tune!ServerFields
  <2>4. panel' \in TuningType /\ TuningKeeps(panel') /\ (Tune!Waiting(panel') => Tune!Waiting(t)) /\ panel'.writing = t.writing
    BY <2>1, <2>2, <2>3, TuningEnqueues
  <2> QED BY <1>s, <2>2, <2>4 DEF Tune!Waiting
<1>8. CASE Tune!SaveBegins
  <2> DEFINE save == Head(panel.queue)
             c == [f \in {"n", "args"} |-> IF f \in save.sets THEN save.sent[f] ELSE panel.cfg[f]]
             t == [panel EXCEPT !.writing = TRUE, !.previous = panel.cfg]
  <2>1. panel.queue # <<>> /\ ~panel.writing /\ panel' = Tune!Published(t, c)
    BY <1>8 DEF Tune!SaveBegins
  <2>2. save \in Save /\ panel.cfg \in Tune!Config
    BY <1>0, <2>1, TuningParts, HeadTailProperties
  <2>3. save.sent \in Tune!Config
    BY <2>2 DEF Save
  <2>h. save.by = "rollback" /\ save.ahead = 0 => panel.cfg = save.sent
    <3>1. panel.queue \in Seq(Save)
      BY <1>0, TuningParts
    <3>2. save = panel.queue[1] /\ 1 \in 1..Len(panel.queue)
      BY <2>1, <3>1, LenProperties, HeadTailProperties
    <3> HIDE DEF save
    <3> QED BY <1>0, <2>1, <3>2 DEF FirstIsCurrent, TuningKeeps
  <2>f. \A cfg : FirstIsCurrent(panel.queue, cfg, TRUE)
    BY <1>0 DEF FirstIsCurrent, TuningKeeps
  <2> HIDE DEF save
  <2>4. c \in Tune!Config
    BY <2>2, <2>3 DEF Tune!Config
  <2>5. t \in TuningType /\ t.queue = panel.queue /\ t.writing = TRUE /\ TuningKeeps(t)
    BY <1>0, <2>1, <2>2, <2>f DEF TuningType, TuningKeeps
  <2> HIDE DEF t, c
  <2>6. panel' \in TuningType /\ TuningKeeps(panel') /\ panel'.queue = panel.queue
    BY <2>1, <2>4, <2>5, <2>f, TuningPublishes
  <2> QED BY <1>q, <2>6, <2>h DEF save, Tune!RollbackIsCurrent, Tune!QueuedWhenCurrent, Tune!FindsItsOwn
<1>9. CASE Tune!SaveEnds
  <2> DEFINE save == Head(panel.queue)
             rest == Tail(panel.queue)
             t == [panel EXCEPT !.queue = rest, !.writing = FALSE]
             done == {save.sent[f] : f \in save.sets}
             u == [t EXCEPT !.saved = @ \cup done]
             failed == Tune!Published(t, panel.previous)
  <2>0. panel.queue # <<>> /\ panel.queue \in Seq(Save) /\ save \in Save
    BY <1>0, <1>9, TuningParts, HeadTailProperties DEF Tune!SaveEnds, TuningKeeps
  <2>1. \/ panel' = Tune!Settled(Tune!Published(u, panel.cfg), save)
        \/ /\ save.by = "other"
           /\ panel' = failed
        \/ /\ save.by = "rollback"
           /\ panel' = Tune!Settled(failed, save)
        \/ panel' = [failed EXCEPT !.phase = "failed"]
    BY <1>9 DEF Tune!SaveEnds
  <2>2. /\ rest \in Seq(Save) /\ Len(rest) = Len(panel.queue) - 1
        /\ \A i \in 1..Len(rest) : rest[i] = panel.queue[i + 1]
    BY <2>0, HeadTailProperties
  <2>3. done \in SUBSET Tune!Values /\ \A f \in save.sets : save.sent[f] \in done
    <3>1. save.sent \in Tune!Config /\ save.sets \subseteq {"n", "args"}
      BY <2>0 DEF Save, Tune!ServerFields
    <3> QED BY <3>1 DEF Tune!Config
  <2> HIDE DEF save, rest, done
  <2>4. /\ t \in TuningType /\ t.queue = rest /\ t.writing = FALSE /\ t.nDraft = panel.nDraft /\ t.typed = panel.typed
        /\ t.saved = panel.saved /\ t.argsDraft = panel.argsDraft /\ t.argsDirty = panel.argsDirty
        /\ t.cfg = panel.cfg /\ t.before = panel.before /\ t.restarting = panel.restarting /\ t.moved = panel.moved
    BY <1>0, <2>2 DEF TuningType
  <2> HIDE DEF t
  <2>f. \A cfg : FirstIsCurrent(rest, cfg, FALSE)
    <3>1. ASSUME NEW i \in 1..Len(rest), rest[i].by = "rollback", rest[i].ahead = 0 PROVE FALSE
      <4>1. i + 1 \in 1..Len(panel.queue) /\ rest[i] = panel.queue[i + 1] /\ i + 1 # 1
        BY <2>0, <2>2, LenProperties
      <4> QED BY <1>0, <3>1, <4>1 DEF FirstIsCurrent, TuningKeeps
    <3> QED BY <3>1 DEF FirstIsCurrent
  <2>5. TuningKeeps(t)
    BY <1>0, <2>4, <2>f DEF TuningKeeps
  <2>6. u \in TuningType /\ TuningKeeps(u) /\ u.queue = rest /\ done \subseteq u.saved /\ u.writing = FALSE
    BY <2>3, <2>4, <2>5 DEF TuningType, TuningKeeps
  <2> HIDE DEF u
  <2>7. panel.cfg \in Tune!Config /\ panel.previous \in Tune!Config
    BY <1>0, TuningParts
  <2>8. failed \in TuningType /\ TuningKeeps(failed) /\ failed.queue = rest /\ failed.writing = FALSE
    BY <2>4, <2>5, <2>7, <2>f, TuningPublishes
  <2> HIDE DEF failed
  <2>9. ASSUME panel'.queue = rest PROVE Tune!Waiting(panel') => Tune!Waiting(panel)
    <3> SUFFICES ASSUME NEW i \in DOMAIN rest, rest[i].by = "rollback" PROVE Tune!Waiting(panel)
      BY <2>9 DEF Tune!Waiting
    <3>1. i \in 1..Len(rest) /\ i + 1 \in 1..Len(panel.queue) /\ DOMAIN panel.queue = 1..Len(panel.queue)
      BY <2>0, <2>2, LenProperties
    <3>2. panel.queue[i + 1].by = "rollback" /\ i + 1 \in DOMAIN panel.queue
      BY <2>2, <3>1
    <3> QED BY <3>2 DEF Tune!Waiting
  <2>10. panel' \in TuningType /\ TuningKeeps(panel') /\ panel'.queue = rest /\ panel'.writing = FALSE
    <3>1. CASE panel' = Tune!Settled(Tune!Published(u, panel.cfg), save)
      <4> DEFINE p == Tune!Published(u, panel.cfg)
      <4>1. p \in TuningType /\ TuningKeeps(p) /\ p.queue = rest /\ p.saved = u.saved /\ p.writing = FALSE
        BY <2>6, <2>7, <2>f, TuningPublishes
      <4> HIDE DEF p
      <4>2. \A f \in save.sets : save.sent[f] \in p.saved
        BY <2>3, <2>6, <4>1
      <4> QED BY <2>0, <3>1, <4>1, <4>2, TuningSettles DEF p
    <3>2. CASE panel' = failed
      BY <2>8, <3>2
    <3>3. CASE save.by = "rollback" /\ panel' = Tune!Settled(failed, save)
      BY <2>0, <2>8, <3>3, TuningSettles
    <3>4. CASE panel' = [failed EXCEPT !.phase = "failed"]
      BY <2>8, <3>4 DEF TuningType, TuningKeeps, Tune!Phases
    <3> QED BY <2>1, <3>1, <3>2, <3>3, <3>4
  <2> QED BY <1>s, <2>9, <2>10
<1>10. CASE Tune!Apply
  <2>1. CASE panel' = [panel EXCEPT !.phase = "idle"]
    BY <1>0, <1>s, <1>q, <2>1 DEF TuningType, TuningKeeps, Tune!Phases
  <2>2. CASE panel' = [panel EXCEPT !.lock = TRUE, !.phase = "applying", !.busy = TRUE, !.restarting = TRUE,
                          !.before = panel.cfg, !.moved = FALSE]
    <3>1. panel.cfg \in Tune!Config
      BY <1>0, TuningParts
    <3>2. panel' \in TuningType
      BY <1>0, <2>2, <3>1 DEF TuningType, Tune!Phases
    <3>3. /\ panel'.queue = panel.queue /\ panel'.writing = panel.writing /\ panel'.nDraft = panel.nDraft
          /\ panel'.typed = panel.typed /\ panel'.argsDraft = panel.argsDraft /\ panel'.argsDirty = panel.argsDirty
          /\ panel'.saved = panel.saved /\ panel'.cfg = panel.cfg /\ panel'.before = panel.cfg
      BY <1>0, <2>2 DEF TuningType
    <3>4. TuningKeeps(panel')
      BY <1>0, <3>3 DEF TuningKeeps
    <3> QED BY <1>s, <1>q, <3>2, <3>3, <3>4
  <2> QED BY <1>10, <2>1, <2>2 DEF Tune!Apply
<1>11. CASE Tune!Restarted
  <2>1. panel' = [panel EXCEPT !.phase = "idle", !.lock = FALSE, !.busy = FALSE, !.restarting = FALSE]
    BY <1>11 DEF Tune!Restarted
  <2> QED BY <1>0, <1>s, <1>q, <2>1 DEF TuningType, TuningKeeps, Tune!Phases
<1>12. CASE Tune!RestartFails
  <2> DEFINE t(running) == [panel EXCEPT !.busy = FALSE, !.restarting = FALSE, !.running = running]
  <2>1. PICK running \in BOOLEAN :
           /\ panel.restarting
           /\ \/ /\ ~panel.moved
                 /\ panel' = Tune!Enqueue(t(running), "rollback", Tune!ServerFields, panel.before)
              \/ panel' = [t(running) EXCEPT !.phase = "failed", !.lock = FALSE]
    BY <1>12 DEF Tune!RestartFails, Tune!RollsBack
  <2> DEFINE s == t(running)
  <2>2. s \in TuningType /\ TuningKeeps(s) /\ s.queue = panel.queue /\ s.writing = panel.writing /\ s.cfg = panel.cfg
    BY <1>0 DEF TuningType, TuningKeeps
  <2> HIDE DEF s
  <2>3. CASE ~panel.moved /\ panel' = Tune!Enqueue(s, "rollback", Tune!ServerFields, panel.before)
    <3>1. panel.cfg = panel.before
      BY <1>0, <2>1, <2>3 DEF TuningKeeps
    <3>2. "rollback" \in Tune!Savers /\ panel.before \in Tune!Config /\ Tune!ServerFields \in SUBSET Tune!ServerFields
      BY <1>0, TuningParts DEF Tune!Savers
    <3>3. panel' \in TuningType /\ TuningKeeps(panel') /\ panel'.writing = s.writing
      BY <2>2, <2>3, <3>1, <3>2, TuningEnqueues
    <3> QED BY <2>2, <3>1, <3>3 DEF Tune!RollbackIsCurrent, Tune!QueuedWhenCurrent, Tune!FindsItsOwn
  <2>4. CASE panel' = [s EXCEPT !.phase = "failed", !.lock = FALSE]
    BY <1>s, <1>q, <2>2, <2>4 DEF TuningType, TuningKeeps, Tune!Phases
  <2> QED BY <2>1, <2>3, <2>4 DEF s
<1>13. CASE Tune!ServerChanges
  <2>1. panel' = [panel EXCEPT !.running = ~@]
    BY <1>13 DEF Tune!ServerChanges
  <2> QED BY <1>0, <1>s, <1>q, <2>1 DEF TuningType, TuningKeeps
<1> QED
  BY <1>1, <1>2, <1>3, <1>4, <1>5, <1>6, <1>7, <1>8, <1>9, <1>10, <1>11, <1>12, <1>13 DEF Tune!Next

\* What the invariant says of the Tuning panel: its type, and what is typed is
\* in its draft until it is saved.
LEMMA TuningShows ==
  ASSUME TuningInv PROVE Tune!TypeOK /\ Tune!TypedIsKept
<1>0. panel \in TuningType /\ TuningKeeps(panel)
  BY DEF TuningInv
<1>1. \A i \in DOMAIN panel.queue : panel.queue[i] \in Save
  BY <1>0, TuningParts, ElementOfSeq, LenProperties
<1>2. \A i \in DOMAIN panel.queue : panel.queue[i].by \in Tune!Savers /\ panel.queue[i].sent \in Tune!Config
                                 /\ panel.queue[i].ahead \in Nat
  BY <1>1 DEF Save
<1> QED BY <1>0, <1>2 DEF TuningType, TuningKeeps, Draft, Tune!TypeOK, Tune!TypedIsKept

-----------------------------------------------------------------------------
\* Letters by their codes, and the markers.
Chars == Nat

\* The filter of the composer is the one the lemmas are about.
LEMMA ComposerAmong ==
  ASSUME NEW s, NEW S PROVE Comp!Among(s, S) = Among(s, S)
BY DEF Comp!Among, Among

\* A name with a marker is short enough, and different markers give different
\* names (uniqueFunctionName, in useChatMcpTools.ts).
LEMMA MarkedNames ==
  ASSUME NEW base \in Seq(Chars), NEW n \in Nat
  PROVE  LET k == Comp!Marked(base, n) IN
         /\ k \in Seq(Chars) /\ Len(k) \in 1..MaxName
         /\ \A m \in Nat : Comp!Marked(base, m) = k => m = n
<1> DEFINE l == IF Len(base) < MaxName - 1 THEN Len(base) ELSE MaxName - 1
           c == SubSeq(base, 1, l)
<1>1. l \in 0..Len(base) /\ l <= MaxName - 1 /\ l \in Nat
  BY ComposerAssumption
<1>2. c \in Seq(Chars) /\ Len(c) = l
  <2>1. \A i \in 1..l : base[i] \in Chars
    BY <1>1, ElementOfSeq
  <2> HIDE DEF l
  <2> QED BY <1>1, <2>1, SubSeqProperties
<1>3. \A m \in Nat : Comp!Marked(base, m) = Append(c, m)
  BY DEF Comp!Marked, Comp!Cut
<1> HIDE DEF l, c
<1>4. ASSUME NEW m \in Nat
      PROVE  Append(c, m) \in Seq(Chars) /\ Len(Append(c, m)) = l + 1 /\ Append(c, m)[l + 1] = m
  <2>1. m \in Chars
    BY DEF Chars
  <2> QED BY <1>2, <2>1
<1>5. l + 1 \in 1..MaxName
  BY <1>1, ComposerAssumption
<1>6. ASSUME NEW m \in Nat, Comp!Marked(base, m) = Comp!Marked(base, n) PROVE m = n
  <2>1. Append(c, m) = Append(c, n)
    BY <1>3, <1>6
  <2> QED BY <1>4, <2>1
<1>7. Comp!Marked(base, n) \in Seq(Chars) /\ Len(Comp!Marked(base, n)) \in 1..MaxName
  BY <1>3, <1>4, <1>5
<1> QED BY <1>6, <1>7

\* The first candidate that is free.
LEMMA CandidateIsFree ==
  ASSUME NEW base \in Seq(Chars), Len(base) <= MaxName, NEW used, IsFiniteSet(used)
  PROVE  LET k == Comp!Candidate(base, used) IN k \notin used /\ k \in Seq(Chars) /\ Len(k) <= MaxName
<1>1. CASE base \notin used
  BY <1>1 DEF Comp!Candidate
<1>2. CASE base \in used
  <2> DEFINE N == 2..Cardinality(used) + 2
             Free(n) == /\ Comp!Marked(base, n) \notin used
                        /\ \A m \in 2..n - 1 : Comp!Marked(base, m) \in used
  <2>1. Cardinality(used) \in Nat /\ N \subseteq Nat /\ IsFiniteSet(N) /\ Cardinality(N) = Cardinality(used) + 1
    <3> DEFINE c == Cardinality(used)
    <3>1. c \in Nat
      BY FS_CardinalityType
    <3> HIDE DEF c
    <3>2. 2 \in Int /\ c + 2 \in Int /\ ~(2 > c + 2) /\ (c + 2) - 2 + 1 = c + 1
      BY <3>1
    <3>3. IsFiniteSet(2..c + 2) /\ Cardinality(2..c + 2) = c + 1
      BY <3>2, FS_Interval
    <3>4. 2..c + 2 \subseteq Nat
      BY <3>1
    <3> QED BY <3>1, <3>3, <3>4 DEF c
  <2>2. \E n \in N : Comp!Marked(base, n) \notin used
    <3> SUFFICES ASSUME \A n \in N : Comp!Marked(base, n) \in used PROVE FALSE
      OBVIOUS
    <3> DEFINE f == [n \in N |-> Comp!Marked(base, n)]
    <3> HIDE DEF N
    <3>1. f \in [N -> used]
      OBVIOUS
    <3>2. PICK x \in N, y \in N : x # y /\ f[x] = f[y]
      <4> HIDE DEF f
      <4> QED BY <2>1, <3>1, FS_PigeonHole
    <3>3. x \in Nat /\ y \in Nat /\ Comp!Marked(base, x) = Comp!Marked(base, y)
      BY <2>1, <3>2
    <3> QED BY <3>2, <3>3, MarkedNames
  <2>3. \E n \in N : Free(n)
    <3> DEFINE T == {n \in N : Comp!Marked(base, n) \notin used}
    <3>1. PICK n \in T : \A m \in T : n <= m
      <4>1. T # {} /\ T \in SUBSET Nat
        BY <2>1, <2>2
      <4> HIDE DEF T
      <4> QED BY <4>1, Least
    <3>2. ASSUME NEW m \in 2..n - 1 PROVE Comp!Marked(base, m) \in used
      <4>1. m \in N /\ ~(n <= m)
        BY <2>1, <3>1
      <4> QED BY <3>1, <4>1
    <3> QED BY <3>1, <3>2
  <2> DEFINE n == CHOOSE n \in N : Free(n)
  <2>4. n \in N /\ Free(n)
    <3> HIDE DEF N, Free
    <3> QED BY <2>3
  <2>5. Comp!Candidate(base, used) = Comp!Marked(base, n)
    <3>1. Comp!Cardinality(used) = Cardinality(used)
      BY DEF Comp!Cardinality, Cardinality
    <3> QED BY <1>2, <3>1 DEF Comp!Candidate
  <2> HIDE DEF n, N
  <2> QED BY <2>1, <2>4, <2>5, MarkedNames
<1> QED BY <1>1, <1>2

\* The names of a sequence of tools: the recursion is well defined.
NamesUpTo(es, n, K) ==
  K = [i \in 0..n |-> IF i = 0 THEN <<>>
                      ELSE Append(K[i - 1], Comp!Candidate(BaseOf[es[i]], Comp!Range(K[i - 1])))]

\* The names of the first entries exist: the recursion of FunctionNames is well
\* defined.
LEMMA NamesExist ==
  ASSUME NEW es, NEW n \in Nat
  PROVE  \E K : NamesUpTo(es, n, K)
<1> DEFINE T == {m \in Nat : \E K : NamesUpTo(es, m, K)}
           Named(k, i) == Append(k, Comp!Candidate(BaseOf[es[i]], Comp!Range(k)))
<1>1. 0 \in T
  <2>1. NamesUpTo(es, 0, [i \in 0..0 |-> <<>>])
    BY DEF NamesUpTo
  <2> QED BY <2>1
<1>2. ASSUME NEW m \in Nat, m \in T PROVE m + 1 \in T
  <2>1. PICK K : NamesUpTo(es, m, K)
    BY <1>2
  <2> DEFINE L == [i \in 0..m + 1 |-> IF i = m + 1 THEN Named(K[m], i) ELSE K[i]]
  <2>2. ASSUME NEW i \in 0..m + 1
        PROVE  L[i] = IF i = 0 THEN <<>> ELSE Named(L[i - 1], i)
    <3>1. CASE i = m + 1
      <4>1. L[i - 1] = K[m] /\ L[i] = Named(K[m], i)
        BY <3>1
      <4> HIDE DEF L, Named
      <4> QED BY <3>1, <4>1
    <3>2. CASE i # m + 1
      <4>1. i \in 0..m /\ L[i] = K[i] /\ (i # 0 => L[i - 1] = K[i - 1])
        BY <3>2
      <4>2. K[i] = IF i = 0 THEN <<>> ELSE Named(K[i - 1], i)
        BY <2>1, <4>1 DEF NamesUpTo
      <4> HIDE DEF L, Named
      <4> QED BY <4>1, <4>2
    <3> QED BY <3>1, <3>2
  <2>3. NamesUpTo(es, m + 1, L)
    BY <2>2 DEF NamesUpTo
  <2> QED BY <2>3
<1> HIDE DEF T
<1>3. Nat \subseteq T
  BY <1>1, <1>2, Induct
<1> QED BY <1>3 DEF T

\* Names that tell tools apart.
Apart(names) ==
  /\ names \in Seq(Seq(Chars)) /\ \A i \in 1..Len(names) : Len(names[i]) <= MaxName
  /\ \A i, j \in 1..Len(names) : names[i] = names[j] => i = j

\* Each tool that is offered has a name of its own, whatever the names the
\* tools have (useChatMcpTools.ts).
LEMMA FunctionNamesApart ==
  ASSUME NEW es \in Seq(Entries)
  PROVE  Apart(Comp!FunctionNames(es)) /\ Len(Comp!FunctionNames(es)) = Len(es)
<1>1. Len(es) \in Nat
  OBVIOUS
<1> DEFINE K == CHOOSE K : NamesUpTo(es, Len(es), K)
           Named(k, i) == Append(k, Comp!Candidate(BaseOf[es[i]], Comp!Range(k)))
<1>2. NamesUpTo(es, Len(es), K)
  BY <1>1, NamesExist
<1>3. Comp!FunctionNames(es) = K[Len(es)]
  BY DEF Comp!FunctionNames, NamesUpTo
<1> HIDE DEF K
<1>4. K[0] = <<>> /\ \A i \in 1..Len(es) : K[i] = Named(K[i - 1], i)
  <2>1. \A i \in 0..Len(es) : K[i] = IF i = 0 THEN <<>> ELSE Named(K[i - 1], i)
    BY <1>2 DEF NamesUpTo
  <2>2. 0 \in 0..Len(es) /\ \A i \in 1..Len(es) : i \in 0..Len(es) /\ i # 0
    BY <1>1
  <2> HIDE DEF Named
  <2> QED BY <2>1, <2>2
<1> DEFINE I == {n \in Nat : n <= Len(es) => Apart(K[n]) /\ Len(K[n]) = n}
<1>5. 0 \in I
  <2>1. Apart(<<>>) /\ Len(<<>>) = 0
    BY DEF Apart
  <2> QED BY <1>4, <2>1
<1>6. ASSUME NEW n \in Nat, n \in I PROVE n + 1 \in I
  <2> SUFFICES ASSUME n + 1 <= Len(es) PROVE Apart(K[n + 1]) /\ Len(K[n + 1]) = n + 1
    OBVIOUS
  <2> DEFINE k == K[n]
             e == es[n + 1]
             used == Comp!Range(k)
             c == Comp!Candidate(BaseOf[e], used)
             q == Append(k, c)
  <2>1. Apart(k) /\ Len(k) = n
    BY <1>1, <1>6
  <2>2. n + 1 \in 1..Len(es) /\ e \in Entries
    BY <1>1, ElementOfSeq
  <2>3. K[n + 1] = q
    BY <1>4, <2>2
  <2> HIDE DEF k, e
  <2>4. k \in Seq(Seq(Chars)) /\ DOMAIN k = 1..n /\ \A i \in 1..n : k[i] \in Seq(Chars)
    BY <2>1, ElementOfSeq, LenProperties DEF Apart
  <2>5. used = {k[i] : i \in 1..n}
    BY <2>4 DEF Comp!Range
  <2> HIDE DEF used
  <2>6. IsFiniteSet(used)
    <3> DEFINE f == [i \in 1..n |-> k[i]]
    <3>1. f \in Surjection(1..n, used)
      BY <2>5 DEF Surjection
    <3> HIDE DEF f
    <3>2. IsFiniteSet(1..n)
      BY FS_Interval
    <3> QED BY <3>1, <3>2, FS_Surjection
  <2>7. c \notin used /\ c \in Seq(Chars) /\ Len(c) <= MaxName
    BY <2>2, <2>6, ComposerAssumption, CandidateIsFree DEF Chars
  <2> HIDE DEF c
  <2>8. q \in Seq(Seq(Chars)) /\ Len(q) = n + 1 /\ q[n + 1] = c /\ \A i \in 1..n : q[i] = k[i]
    BY <2>1, <2>4, <2>7
  <2> HIDE DEF q
  <2>9. \A i \in 1..n + 1 : Len(q[i]) <= MaxName
    <3> SUFFICES ASSUME NEW i \in 1..n + 1 PROVE Len(q[i]) <= MaxName
      OBVIOUS
    <3>1. CASE i = n + 1
      BY <2>7, <2>8, <3>1
    <3>2. CASE i \in 1..n
      BY <2>1, <2>8, <3>2 DEF Apart
    <3> QED BY <3>1, <3>2
  <2>10. \A i, j \in 1..n + 1 : q[i] = q[j] => i = j
    <3> SUFFICES ASSUME NEW i \in 1..n + 1, NEW j \in 1..n + 1, q[i] = q[j] PROVE i = j
      OBVIOUS
    <3>1. \A x \in 1..n : q[x] # c
      BY <2>5, <2>7, <2>8
    <3>2. CASE i \in 1..n /\ j \in 1..n
      BY <2>1, <2>8, <3>2 DEF Apart
    <3>3. CASE i = n + 1 \/ j = n + 1
      BY <2>8, <3>1, <3>3
    <3> QED BY <3>2, <3>3
  <2>11. Apart(q)
    BY <2>8, <2>9, <2>10 DEF Apart
  <2> QED BY <2>3, <2>8, <2>11
<1> HIDE DEF I
<1>7. Nat \subseteq I
  BY <1>5, <1>6, Induct
<1> QED BY <1>1, <1>3, <1>7 DEF I

ComposerType ==
  [ documents : Seq(Comp!Document), images : 0..MaxAttached, status : {"idle", "reading", "ready", "failed"},
    reading : SUBSET (Files \cup {"image"}), phase : {"idle", "sending"}, epoch : Nat,
    project : Comp!Bound \cup {Comp!Unbound}, bindings : SUBSET [epoch : Nat, docs : Comp!Bound],
    catalog : Seq(Entries), selected : SUBSET Entries, loading : BOOLEAN, steps : Nat, starting : Nat, going : Nat ]

\* What is being read for a project is of the current binding at the latest,
\* and none of it is while a message is sent.
ComposerKeeps(c) ==
  /\ Len(c.documents) <= MaxAttached
  /\ \A b \in c.bindings : b.epoch <= c.epoch
  /\ c.phase = "sending" => \A b \in c.bindings : b.epoch # c.epoch

ComposerInv == panel \in ComposerType /\ ComposerKeeps(panel)

\* A set of tools as a sequence.
LEMMA Enumerated ==
  ASSUME NEW es \in SUBSET Entries
  PROVE  Comp!Listed(es) \in Seq(Entries)
<1> DEFINE n == Cardinality(es)
<1>1. n \in Nat /\ ExistsBijection(1..n, es)
  BY ComposerAssumption, FS_Subset, FS_CardinalityType
<1>2. PICK f \in [1..n -> es] : Comp!IsInjective(f)
  BY <1>1 DEF ExistsBijection, Bijection, Injection, Surjection, IsInjective, Comp!IsInjective
<1>3. Comp!Cardinality(es) = n
  BY DEF Comp!Cardinality, Cardinality
<1> HIDE DEF n
<1>4. Comp!Listed(es) \in [1..n -> es]
  BY <1>2, <1>3 DEF Comp!Listed
<1>5. Comp!Listed(es) \in [1..n -> Entries]
  BY <1>4
<1> QED BY <1>1, <1>5

\* Binding the documents of a project leaves those attached alone until they
\* are read (Chat.tsx).
LEMMA ComposerBinds ==
  ASSUME NEW c \in ComposerType, ComposerKeeps(c)
  PROVE  LET k == Comp!Bind(c) IN
         k \in ComposerType /\ ComposerKeeps(k) /\ k.documents = c.documents /\ k.phase = c.phase
<1> DEFINE new == [epoch |-> c.epoch, docs |-> c.project]
           bs == c.bindings \cup {new}
           k == [c EXCEPT !.bindings = bs, !.selected = ProjectTools]
<1>1. CASE c.project = Comp!Unbound \/ c.phase # "idle"
  BY <1>1 DEF Comp!Bind
<1>2. CASE c.project # Comp!Unbound /\ c.phase = "idle"
  <2>1. Comp!Bind(c) = k
    BY <1>2 DEF Comp!Bind
  <2>2. c.epoch \in Nat /\ bs \in SUBSET [epoch : Nat, docs : Comp!Bound] /\ \A b \in bs : b \in c.bindings \/ b.epoch = c.epoch
    BY <1>2 DEF ComposerType
  <2> HIDE DEF new, bs
  <2>3. k \in ComposerType
    BY <2>2, ComposerAssumption DEF ComposerType
  <2>4. k.documents = c.documents /\ k.phase = c.phase /\ k.bindings = bs /\ k.epoch = c.epoch
    BY DEF ComposerType
  <2> HIDE DEF k
  <2>5. ComposerKeeps(k)
    BY <1>2, <2>2, <2>4 DEF ComposerKeeps
  <2> QED BY <2>1, <2>3, <2>4, <2>5
<1> QED BY <1>1, <1>2

\* The chat's phase changes: the epoch leaves behind what was being read.
LEMMA ComposerPhase ==
  ASSUME NEW c \in ComposerType, ComposerKeeps(c), NEW p \in {"idle", "sending"}
  PROVE  LET k == Comp!PhaseIs(c, p) IN
         k \in ComposerType /\ ComposerKeeps(k) /\ k.phase = p /\ k.documents = c.documents
<1> DEFINE d == [c EXCEPT !.phase = p, !.epoch = @ + 1]
<1>1. c.epoch \in Nat /\ c.epoch + 1 \in Nat /\ \A b \in c.bindings : b.epoch \in Nat
  BY DEF ComposerType
<1>2. d \in ComposerType
  BY <1>1 DEF ComposerType
<1>3. d.phase = p /\ d.epoch = c.epoch + 1 /\ d.documents = c.documents /\ d.bindings = c.bindings
  BY <1>1 DEF ComposerType
<1>4. CASE c.phase = p
  BY <1>4 DEF Comp!PhaseIs
<1>5. CASE c.phase # p
  <2>1. Comp!PhaseIs(c, p) = Comp!Bind(d)
    BY <1>5 DEF Comp!PhaseIs
  <2> HIDE DEF d
  <2>2. ComposerKeeps(d)
    BY <1>1, <1>3 DEF ComposerKeeps
  <2> QED BY <1>2, <1>3, <2>1, <2>2, ComposerBinds
<1> QED BY <1>4, <1>5

\* The documents of a project are a sequence of files.
LEMMA BoundFiles ==
  ASSUME NEW b \in Comp!Bound
  PROVE  b \in Seq(Files)
<1>1. ASSUME NEW p \in Files, NEW q \in Files PROVE <<p, q>> \in Seq(Files) /\ <<p>> \in Seq(Files)
  BY <1>1
<1>2. CASE \E p \in Files, q \in Files : b = <<p, q>>
  BY <1>1, <1>2
<1>3. CASE \E p \in Files : b = <<p>>
  BY <1>1, <1>3
<1> QED BY <1>2, <1>3 DEF Comp!Bound

\* The composer starts with the invariant (ChatComposer.tsx).
LEMMA ComposerInit ==
  ASSUME Comp!Init PROVE ComposerInv
<1>1. PICK project \in Comp!Bound \cup {Comp!Unbound} :
        panel = Comp!Bind([ documents |-> <<>>, images |-> 0, status |-> "idle", reading |-> {}, phase |-> "idle",
                            epoch |-> 0, project |-> project, bindings |-> {}, catalog |-> <<>>, selected |-> {},
                            loading |-> FALSE, steps |-> 0, starting |-> 0, going |-> 0 ])
  BY DEF Comp!Init
<1> DEFINE c == [ documents |-> <<>>, images |-> 0, status |-> "idle", reading |-> {}, phase |-> "idle",
                  epoch |-> 0, project |-> project, bindings |-> {}, catalog |-> <<>>, selected |-> {},
                  loading |-> FALSE, steps |-> 0, starting |-> 0, going |-> 0 ]
<1>2. c \in ComposerType
  BY ComposerAssumption DEF ComposerType
<1>3. c.documents = <<>> /\ c.bindings = {}
  OBVIOUS
<1>4. panel = Comp!Bind(c)
  BY <1>1
<1> HIDE DEF c
<1>5. ComposerKeeps(c)
  BY <1>3, ComposerAssumption DEF ComposerKeeps
<1> QED BY <1>2, <1>4, <1>5, ComposerBinds DEF ComposerInv

\* The types of the fields of the composer.
LEMMA ComposerFields ==
  ASSUME NEW c \in ComposerType
  PROVE  /\ c.documents \in Seq(Comp!Document) /\ c.images \in 0..MaxAttached /\ c.reading \subseteq Files \cup {"image"}
         /\ c.phase \in {"idle", "sending"} /\ c.epoch \in Nat /\ c.project \in Comp!Bound \cup {Comp!Unbound}
         /\ c.bindings \subseteq [epoch : Nat, docs : Comp!Bound] /\ c.catalog \in Seq(Entries)
         /\ c.selected \subseteq Entries /\ c.steps \in Nat /\ c.starting \in Nat /\ c.going \in Nat
BY DEF ComposerType

\* A change of the documents alone.
LEMMA ComposerDocuments ==
  ASSUME NEW c \in ComposerType, ComposerKeeps(c), NEW docs \in Seq(Comp!Document), Len(docs) <= MaxAttached
  PROVE  LET k == [c EXCEPT !.documents = docs] IN
         k \in ComposerType /\ ComposerKeeps(k) /\ k.documents = docs /\ k.phase = c.phase
<1> DEFINE k == [c EXCEPT !.documents = docs]
<1>1. k \in ComposerType
  BY DEF ComposerType
<1>2. k.documents = docs /\ k.phase = c.phase /\ k.bindings = c.bindings /\ k.epoch = c.epoch
  BY DEF ComposerType
<1> HIDE DEF k
<1>3. ComposerKeeps(k)
  BY <1>2 DEF ComposerKeeps
<1> QED BY <1>1, <1>2, <1>3 DEF k

\* Which documents of the composer come from a project.
LEMMA ProjectsOf ==
  ASSUME NEW c \in ComposerType
  PROVE  \A p : p \in Comp!Projects(c) <=> \E i \in 1..Len(c.documents) : c.documents[i].by = "project" /\ c.documents[i].path = p
<1>1. DOMAIN c.documents = 1..Len(c.documents)
  BY ComposerFields, LenProperties
<1> QED BY <1>1 DEF Comp!Projects

\* Every handler of the composer and every late reading keeps the invariant,
\* and none binds documents while a message is being sent (Chat.tsx,
\* useChatMcpTools.ts).
LEMMA ComposerNext ==
  ASSUME ComposerInv, Comp!Next PROVE ComposerInv' /\ Comp!NothingBoundWhileSending
<1> DEFINE Good(k) == k \in ComposerType /\ ComposerKeeps(k)
           Same(k) == Good(k) /\ k.documents = panel.documents
<1>0. panel \in ComposerType /\ ComposerKeeps(panel)
  BY DEF ComposerInv
<1>f. /\ panel.documents \in Seq(Comp!Document) /\ panel.images \in 0..MaxAttached
      /\ panel.reading \subseteq Files \cup {"image"}
      /\ panel.phase \in {"idle", "sending"} /\ panel.epoch \in Nat /\ panel.project \in Comp!Bound \cup {Comp!Unbound}
      /\ panel.bindings \subseteq [epoch : Nat, docs : Comp!Bound] /\ panel.catalog \in Seq(Entries)
      /\ panel.selected \subseteq Entries /\ panel.steps \in Nat /\ panel.starting \in Nat /\ panel.going \in Nat
  BY <1>0, ComposerFields
<1>p. Good(panel') => ComposerInv'
  BY DEF ComposerInv, ComposerKeeps
<1>s. ASSUME Same(panel') PROVE ComposerInv' /\ Comp!NothingBoundWhileSending
  BY <1>p, <1>s DEF Comp!NothingBoundWhileSending, Comp!Projects
<1>r. ASSUME Good(panel'), panel.phase # "sending" \/ panel'.phase # "sending" PROVE ComposerInv' /\ Comp!NothingBoundWhileSending
  BY <1>p, <1>r DEF Comp!NothingBoundWhileSending
<1>1. CASE Comp!Choose
  <2>1. PICK f \in Files \cup {"image"} :
           panel' = [panel EXCEPT !.reading = @ \cup {f}, !.status = "reading", !.steps = @ + 1]
    BY <1>1 DEF Comp!Choose
  <2>2. panel.reading \cup {f} \in SUBSET (Files \cup {"image"}) /\ panel.steps + 1 \in Nat
    BY <1>f
  <2>3. panel' \in ComposerType
    BY <1>0, <2>1, <2>2 DEF ComposerType
  <2>4. panel'.documents = panel.documents /\ panel'.phase = panel.phase /\ panel'.bindings = panel.bindings
        /\ panel'.epoch = panel.epoch
    BY <1>0, <2>1 DEF ComposerType
  <2>5. Same(panel')
    BY <1>0, <2>3, <2>4 DEF ComposerKeeps
  <2> QED BY <1>s, <2>5
<1>2. CASE Comp!FileRead
  <2> DEFINE c(f) == [panel EXCEPT !.reading = @ \ {f}, !.status = "ready"]
  <2>1. PICK f \in panel.reading :
           \/ f # "image" /\ panel' = Comp!AddDocument(c(f), f)
           \/ panel' = [c(f) EXCEPT !.images = IF @ >= MaxAttached THEN @ ELSE @ + 1]
           \/ \E s \in {"failed", "idle"} : panel' = [c(f) EXCEPT !.status = s]
    BY <1>2 DEF Comp!FileRead
  <2> DEFINE d == c(f)
  <2>2. panel.reading \ {f} \in SUBSET (Files \cup {"image"})
    BY <1>f
  <2>3. d \in ComposerType
    BY <1>0, <2>2 DEF ComposerType
  <2>4. /\ d.documents = panel.documents /\ d.phase = panel.phase /\ d.bindings = panel.bindings
        /\ d.epoch = panel.epoch /\ d.images = panel.images
    BY <1>0 DEF ComposerType
  <2>5. (panel' = Comp!AddDocument(d, f) /\ f # "image")
        \/ panel' = [d EXCEPT !.images = IF @ >= MaxAttached THEN @ ELSE @ + 1]
        \/ \E s \in {"failed", "idle"} : panel' = [d EXCEPT !.status = s]
    BY <2>1
  <2> HIDE DEF d
  <2>6. Same(d)
    BY <1>0, <2>3, <2>4 DEF ComposerKeeps
  <2>7. CASE panel' = Comp!AddDocument(d, f) /\ f # "image"
    <3> DEFINE doc == [path |-> f, by |-> "user"]
               q == Append(d.documents, doc)
    <3>1. CASE panel' = d
      BY <1>s, <2>6, <3>1
    <3>2. CASE Len(d.documents) < MaxAttached /\ panel' = [d EXCEPT !.documents = q]
      <4>1. doc \in Comp!Document /\ d.documents \in Seq(Comp!Document) /\ doc.by = "user"
        BY <1>f, <2>4, <2>7 DEF Comp!Document
      <4>2. Len(d.documents) \in Nat
        BY <4>1, LenProperties
      <4> HIDE DEF doc
      <4>3. /\ q \in Seq(Comp!Document) /\ Len(q) = Len(d.documents) + 1 /\ q[Len(d.documents) + 1] = doc
            /\ \A i \in 1..Len(d.documents) : q[i] = d.documents[i]
        BY <4>1, <4>2
      <4> HIDE DEF q
      <4>4. Len(q) <= MaxAttached
        BY <3>2, <4>2, <4>3, ComposerAssumption
      <4>5. Good(panel') /\ panel'.documents = q
        BY <2>6, <3>2, <4>3, <4>4, ComposerDocuments
      <4>6. Comp!Projects(panel') \subseteq Comp!Projects(panel)
        <5> SUFFICES ASSUME NEW p \in Comp!Projects(panel') PROVE p \in Comp!Projects(panel)
          OBVIOUS
        <5>1. PICK i \in 1..Len(q) : q[i].by = "project" /\ q[i].path = p
          BY <4>5, ProjectsOf
        <5>2. i \in 1..Len(d.documents)
          BY <4>1, <4>2, <4>3, <5>1
        <5>3. d.documents[i].by = "project" /\ d.documents[i].path = p
          BY <4>3, <5>1, <5>2
        <5> QED BY <1>0, <2>4, <5>2, <5>3, ProjectsOf
      <4> QED BY <1>p, <4>5, <4>6 DEF Comp!NothingBoundWhileSending
    <3> QED
      <4>1. Len(d.documents) \in Nat
        BY <1>f, <2>4, LenProperties
      <4> QED BY <2>7, <3>1, <3>2, <4>1, ComposerAssumption DEF Comp!AddDocument
  <2>8. CASE panel' = [d EXCEPT !.images = IF @ >= MaxAttached THEN @ ELSE @ + 1]
    <3> DEFINE n == IF d.images >= MaxAttached THEN d.images ELSE d.images + 1
    <3>1. n \in 0..MaxAttached
      BY <1>f, <2>4, ComposerAssumption
    <3>2. panel' = [d EXCEPT !.images = n]
      BY <2>8
    <3> HIDE DEF n
    <3>3. panel' \in ComposerType
      BY <2>3, <3>1, <3>2 DEF ComposerType
    <3>4. panel'.documents = d.documents /\ panel'.phase = d.phase /\ panel'.bindings = d.bindings /\ panel'.epoch = d.epoch
      BY <2>3, <3>2 DEF ComposerType
    <3>5. Same(panel')
      BY <2>4, <2>6, <3>3, <3>4 DEF ComposerKeeps
    <3> QED BY <1>s, <3>5
  <2>9. CASE \E s \in {"failed", "idle"} : panel' = [d EXCEPT !.status = s]
    <3>1. PICK s \in {"failed", "idle"} : panel' = [d EXCEPT !.status = s]
      BY <2>9
    <3>2. panel' \in ComposerType
      BY <2>3, <3>1 DEF ComposerType
    <3>3. panel'.documents = d.documents /\ panel'.phase = d.phase /\ panel'.bindings = d.bindings /\ panel'.epoch = d.epoch
      BY <2>3, <3>1 DEF ComposerType
    <3>4. Same(panel')
      BY <2>4, <2>6, <3>2, <3>3 DEF ComposerKeeps
    <3> QED BY <1>s, <3>4
  <2> QED BY <2>5, <2>7, <2>8, <2>9
<1>3. CASE Comp!RemoveDocument
  <2> DEFINE S(p) == {d \in Comp!Range(panel.documents) : d.path # p}
  <2>1. PICK p \in Files : panel' = [panel EXCEPT !.documents = Comp!Among(panel.documents, S(p))]
    BY <1>3 DEF Comp!RemoveDocument
  <2> DEFINE q == Comp!Among(panel.documents, S(p))
  <2>2. q \in Seq(Comp!Document) /\ Keeps(panel.documents, S(p), Len(panel.documents), q)
    BY <1>f, AmongKeeps, ComposerAmong
  <2> HIDE DEF q, S
  <2>3. PICK f : /\ f \in [1..Len(q) -> 1..Len(panel.documents)]
                 /\ \A i \in 1..Len(q) : q[i] = panel.documents[f[i]]
                 /\ \A i, j \in 1..Len(q) : i < j => f[i] < f[j]
    BY <2>2 DEF Keeps, Picks
  <2>4. Len(q) <= Len(panel.documents)
    <3>1. Len(q) \in Nat /\ Len(panel.documents) \in Nat
      BY <1>f, <2>2, LenProperties
    <3> QED BY <2>3, <3>1, OrderShortens
  <2>5. Len(q) <= MaxAttached
    <3>1. Len(q) \in Nat /\ Len(panel.documents) \in Nat /\ Len(panel.documents) <= MaxAttached
      BY <1>0, <1>f, <2>2, LenProperties DEF ComposerKeeps
    <3> QED BY <2>4, <3>1, ComposerAssumption
  <2>6. Good(panel') /\ panel'.documents = q
    BY <1>0, <2>1, <2>2, <2>5, ComposerDocuments DEF q
  <2>7. Comp!Projects(panel') \subseteq Comp!Projects(panel)
    <3> SUFFICES ASSUME NEW x \in Comp!Projects(panel') PROVE x \in Comp!Projects(panel)
      OBVIOUS
    <3>1. PICK i \in 1..Len(q) : q[i].by = "project" /\ q[i].path = x
      BY <2>6, ProjectsOf
    <3>2. f[i] \in 1..Len(panel.documents) /\ panel.documents[f[i]] = q[i]
      BY <2>3
    <3> QED BY <1>0, <3>1, <3>2, ProjectsOf
  <2> QED BY <1>p, <2>6, <2>7 DEF Comp!NothingBoundWhileSending
<1>4. CASE Comp!RemoveAttachment
  <2>1. PICK n \in 0..panel.images - 1 : panel' = [panel EXCEPT !.images = n]
    BY <1>4 DEF Comp!RemoveAttachment
  <2>2. n \in 0..MaxAttached
    BY <1>f, <2>1, ComposerAssumption
  <2>3. panel' \in ComposerType
    BY <1>0, <2>1, <2>2 DEF ComposerType
  <2>4. panel'.documents = panel.documents /\ panel'.phase = panel.phase /\ panel'.bindings = panel.bindings
        /\ panel'.epoch = panel.epoch
    BY <1>0, <2>1 DEF ComposerType
  <2>5. Same(panel')
    BY <1>0, <2>3, <2>4 DEF ComposerKeeps
  <2> QED BY <1>s, <2>5
<1>e. <<>> \in Seq(Comp!Document) /\ Len(<<>>) <= MaxAttached /\ 0 \in 0..MaxAttached
  BY ComposerAssumption
<1>5. CASE Comp!Clear
  <2>1. panel' = [panel EXCEPT !.documents = <<>>, !.images = 0, !.status = "idle"]
    BY <1>5 DEF Comp!Clear
  <2>2. panel' \in ComposerType
    BY <1>0, <1>e, <2>1 DEF ComposerType
  <2>3. panel'.documents = <<>> /\ panel'.phase = panel.phase /\ panel'.bindings = panel.bindings /\ panel'.epoch = panel.epoch
    BY <1>0, <2>1 DEF ComposerType
  <2>4. Good(panel')
    BY <1>0, <1>e, <2>2, <2>3 DEF ComposerKeeps
  <2>5. Comp!Projects(panel') = {}
    BY <2>2, <2>3, ProjectsOf
  <2> QED BY <1>p, <2>4, <2>5 DEF Comp!NothingBoundWhileSending
<1>6. CASE Comp!Send
  <2>1. panel' = [panel EXCEPT !.starting = @ + 1, !.steps = @ + 1]
    BY <1>6 DEF Comp!Send
  <2>2. panel.starting + 1 \in Nat /\ panel.steps + 1 \in Nat
    BY <1>f
  <2>3. panel' \in ComposerType
    BY <1>0, <2>1, <2>2 DEF ComposerType
  <2>4. panel'.documents = panel.documents /\ panel'.phase = panel.phase /\ panel'.bindings = panel.bindings
        /\ panel'.epoch = panel.epoch
    BY <1>0, <2>1 DEF ComposerType
  <2>5. Same(panel')
    BY <1>0, <2>3, <2>4 DEF ComposerKeeps
  <2> QED BY <1>s, <2>5
<1>i. ASSUME NEW k \in ComposerType, k.documents = panel.documents, k.bindings = panel.bindings, k.epoch = panel.epoch,
             k.phase = panel.phase, panel' = Comp!PhaseIs(k, "idle")
      PROVE  ComposerInv' /\ Comp!NothingBoundWhileSending
  <2>1. ComposerKeeps(k)
    BY <1>0, <1>i DEF ComposerKeeps
  <2>2. Good(panel') /\ panel'.phase = "idle"
    BY <1>i, <2>1, ComposerPhase
  <2> QED BY <1>r, <2>2
<1>7. CASE Comp!SendFails
  <2> DEFINE k == [panel EXCEPT !.starting = @ - 1]
  <2>1. panel.starting - 1 \in Nat /\ panel' = Comp!PhaseIs(k, "idle")
    BY <1>f, <1>7 DEF Comp!SendFails
  <2>2. k \in ComposerType /\ k.documents = panel.documents /\ k.bindings = panel.bindings /\ k.epoch = panel.epoch /\ k.phase = panel.phase
    BY <1>0, <2>1 DEF ComposerType
  <2> HIDE DEF k
  <2> QED BY <1>i, <2>1, <2>2
<1>u. CASE Comp!SendEnds
  <2> DEFINE k == [panel EXCEPT !.going = @ - 1]
  <2>1. panel.going - 1 \in Nat /\ panel' = Comp!PhaseIs(k, "idle")
    BY <1>f, <1>u DEF Comp!SendEnds
  <2>2. k \in ComposerType /\ k.documents = panel.documents /\ k.bindings = panel.bindings /\ k.epoch = panel.epoch /\ k.phase = panel.phase
    BY <1>0, <2>1 DEF ComposerType
  <2> HIDE DEF k
  <2> QED BY <1>i, <2>1, <2>2
<1>t. CASE Comp!RunsTool
  <2> DEFINE k == [panel EXCEPT !.going = @ + 1, !.steps = @ + 1]
  <2>1. panel.going + 1 \in Nat /\ panel.steps + 1 \in Nat /\ panel.phase = "idle" /\ panel' = Comp!PhaseIs(k, "sending")
    BY <1>f, <1>t DEF Comp!RunsTool
  <2>2. k \in ComposerType /\ k.documents = panel.documents /\ k.bindings = panel.bindings /\ k.epoch = panel.epoch /\ k.phase = panel.phase
    BY <1>0, <2>1 DEF ComposerType
  <2> HIDE DEF k
  <2>3. ComposerKeeps(k)
    BY <1>0, <2>2 DEF ComposerKeeps
  <2>4. Good(panel')
    BY <2>1, <2>2, <2>3, ComposerPhase
  <2> QED BY <1>r, <2>1, <2>4
<1>g. CASE Comp!SendGoes
  <2>1. PICK retry \in BOOLEAN :
           /\ panel.starting > 0
           /\ panel' = Comp!PhaseIs([panel EXCEPT !.starting = @ - 1, !.going = @ + 1,
                          !.documents = IF retry THEN @ ELSE <<>>, !.images = IF retry THEN @ ELSE 0], "sending")
    BY <1>g DEF Comp!SendGoes
  <2> DEFINE docs == IF retry THEN panel.documents ELSE <<>>
             images == IF retry THEN panel.images ELSE 0
             k == [panel EXCEPT !.starting = @ - 1, !.going = @ + 1, !.documents = docs, !.images = images]
  <2>2. panel' = Comp!PhaseIs(k, "sending")
    BY <2>1
  <2>3. /\ docs \in Seq(Comp!Document) /\ Len(docs) <= MaxAttached /\ images \in 0..MaxAttached
        /\ panel.starting - 1 \in Nat /\ panel.going + 1 \in Nat
    BY <1>0, <1>e, <1>f, <2>1 DEF ComposerKeeps
  <2>4. docs = panel.documents \/ docs = <<>>
    OBVIOUS
  <2> HIDE DEF docs, images
  <2>5. k \in ComposerType /\ k.documents = docs /\ k.bindings = panel.bindings /\ k.epoch = panel.epoch /\ k.phase = panel.phase
    BY <1>0, <2>3 DEF ComposerType
  <2> HIDE DEF k
  <2>6. ComposerKeeps(k)
    BY <1>0, <2>3, <2>5 DEF ComposerKeeps
  <2>7. Good(panel') /\ panel'.documents = docs
    BY <2>2, <2>5, <2>6, ComposerPhase
  <2>8. CASE docs = panel.documents
    BY <1>s, <2>7, <2>8
  <2>9. CASE docs = <<>>
    <3>1. Comp!Projects(panel') = {}
      BY <2>7, <2>9, ProjectsOf
    <3> QED BY <1>p, <2>7, <3>1 DEF Comp!NothingBoundWhileSending
  <2> QED BY <2>4, <2>8, <2>9
<1>m. CASE Comp!Streams
  <2>1. panel' = Comp!PhaseIs(panel, "sending")
    BY <1>m DEF Comp!Streams
  <2>2. Same(panel')
    BY <1>0, <2>1, ComposerPhase
  <2> QED BY <1>s, <2>2
<1>8. CASE Comp!ProjectChanges
  <2>1. PICK project \in Comp!Bound \cup {Comp!Unbound} :
           panel' = Comp!Bind([panel EXCEPT !.project = project, !.steps = @ + 1])
    BY <1>8 DEF Comp!ProjectChanges
  <2> DEFINE c == [panel EXCEPT !.project = project, !.steps = @ + 1]
  <2>2. c \in ComposerType
    <3>1. panel.steps + 1 \in Nat
      BY <1>f
    <3> QED BY <1>0, <3>1 DEF ComposerType
  <2>3. c.documents = panel.documents /\ c.phase = panel.phase /\ c.bindings = panel.bindings /\ c.epoch = panel.epoch
    BY <1>0 DEF ComposerType
  <2> HIDE DEF c
  <2>4. ComposerKeeps(c)
    BY <1>0, <2>3 DEF ComposerKeeps
  <2>5. Same(panel')
    BY <2>1, <2>2, <2>3, <2>4, ComposerBinds DEF c
  <2> QED BY <1>s, <2>5
<1>9. CASE Comp!BindingRead
  <2> DEFINE read(b, readable) == Comp!Among(b.docs, readable)
             docs(b, readable) == [i \in 1..(IF Len(read(b, readable)) < MaxAttached THEN Len(read(b, readable)) ELSE MaxAttached) |->
                                     [path |-> read(b, readable)[i], by |-> "project"]]
  <2>1. PICK b \in panel.bindings, readable \in SUBSET Files : panel' = Comp!BoundRead(panel, b, docs(b, readable))
    BY <1>9 DEF Comp!BindingRead
  <2> DEFINE r == read(b, readable)
             n == IF Len(r) < MaxAttached THEN Len(r) ELSE MaxAttached
             ds == [i \in 1..n |-> [path |-> r[i], by |-> "project"]]
             c == [panel EXCEPT !.bindings = @ \ {b}]
  <2>2. r \in Seq(Files)
    <3>1. b.docs \in Seq(Files)
      BY <1>f, BoundFiles
    <3> QED BY <3>1, AmongKeeps, ComposerAmong
  <2>3. panel' = Comp!BoundRead(panel, b, ds)
    BY <2>1
  <2> HIDE DEF r, read, docs
  <2>4. n \in Nat /\ n <= MaxAttached /\ \A i \in 1..n : r[i] \in Files
    <3>1. Len(r) \in Nat
      BY <2>2, LenProperties
    <3>2. n \in Nat /\ n <= MaxAttached /\ \A i \in 1..n : i \in 1..Len(r)
      BY <3>1, ComposerAssumption
    <3> HIDE DEF n
    <3> QED BY <2>2, <3>2, ElementOfSeq
  <2> HIDE DEF n
  <2>5. ds \in Seq(Comp!Document) /\ Len(ds) = n
    <3>1. ds \in [1..n -> Comp!Document]
      BY <2>4 DEF Comp!Document
    <3> HIDE DEF ds
    <3> QED BY <2>4, <3>1
  <2> HIDE DEF ds
  <2>6. c \in ComposerType
    <3>1. panel.bindings \ {b} \in SUBSET [epoch : Nat, docs : Comp!Bound]
      BY <1>f
    <3> QED BY <1>0, <3>1 DEF ComposerType
  <2>7. c.documents = panel.documents /\ c.phase = panel.phase /\ c.bindings = panel.bindings \ {b} /\ c.epoch = panel.epoch
    BY <1>0 DEF ComposerType
  <2>8. Same(c)
    <3> HIDE DEF c
    <3> QED BY <1>0, <2>6, <2>7 DEF ComposerKeeps
  <2>9. CASE b.epoch # panel.epoch
    <3>1. panel' = c
      BY <2>3, <2>9 DEF Comp!BoundRead
    <3> QED BY <1>s, <2>8, <3>1
  <2>10. CASE b.epoch = panel.epoch
    <3>1. panel' = [c EXCEPT !.documents = ds]
      BY <1>0, <2>3, <2>10 DEF Comp!BoundRead, ComposerType
    <3> HIDE DEF c
    <3>2. Good(panel')
      BY <2>4, <2>5, <2>8, <3>1, ComposerDocuments
    <3>3. panel.phase # "sending"
      BY <1>0, <2>10 DEF ComposerKeeps
    <3> QED BY <1>r, <3>2, <3>3
  <2> QED BY <2>9, <2>10
<1>10. CASE Comp!Refresh
  <2>1. panel' = [panel EXCEPT !.loading = TRUE, !.steps = @ + 1]
    BY <1>10 DEF Comp!Refresh
  <2>2. panel' \in ComposerType
    <3>1. panel.steps + 1 \in Nat
      BY <1>f
    <3> QED BY <1>0, <2>1, <3>1 DEF ComposerType
  <2>3. panel'.documents = panel.documents /\ panel'.phase = panel.phase /\ panel'.bindings = panel.bindings
        /\ panel'.epoch = panel.epoch
    BY <1>0, <2>1 DEF ComposerType
  <2>4. Same(panel')
    BY <1>0, <2>2, <2>3 DEF ComposerKeeps
  <2> QED BY <1>s, <2>4
<1>11. CASE Comp!Refreshed
  <2>1. CASE panel' = [panel EXCEPT !.loading = FALSE]
    <3>1. panel' \in ComposerType
      BY <1>0, <2>1 DEF ComposerType
    <3>2. panel'.documents = panel.documents /\ panel'.phase = panel.phase /\ panel'.bindings = panel.bindings
          /\ panel'.epoch = panel.epoch
      BY <1>0, <2>1 DEF ComposerType
    <3>3. Same(panel')
      BY <1>0, <3>1, <3>2 DEF ComposerKeeps
    <3> QED BY <1>s, <3>3
  <2>2. ASSUME NEW es \in SUBSET Entries,
               panel' = [panel EXCEPT !.loading = FALSE, !.catalog = Comp!Listed(es), !.selected = es]
        PROVE  ComposerInv' /\ Comp!NothingBoundWhileSending
    <3>1. Comp!Listed(es) \in Seq(Entries)
      BY Enumerated
    <3>2. panel' \in ComposerType
      BY <1>0, <2>2, <3>1 DEF ComposerType
    <3>3. panel'.documents = panel.documents /\ panel'.phase = panel.phase /\ panel'.bindings = panel.bindings
          /\ panel'.epoch = panel.epoch
      BY <1>0, <2>2 DEF ComposerType
    <3>4. Same(panel')
      BY <1>0, <3>2, <3>3 DEF ComposerKeeps
    <3> QED BY <1>s, <3>4
  <2> QED BY <1>11, <2>1, <2>2 DEF Comp!Refreshed
<1>12. CASE Comp!ToggleMcpTool
  <2>1. PICK e \in {panel.catalog[i] : i \in DOMAIN panel.catalog} :
           panel' = [panel EXCEPT !.selected = IF e \in @ THEN @ \ {e} ELSE @ \cup {e}]
    BY <1>12 DEF Comp!ToggleMcpTool
  <2>2. e \in Entries
    BY <1>f, <2>1, ElementOfSeq, LenProperties
  <2> DEFINE selected == IF e \in panel.selected THEN panel.selected \ {e} ELSE panel.selected \cup {e}
  <2>3. selected \in SUBSET Entries /\ panel' = [panel EXCEPT !.selected = selected]
    BY <1>f, <2>1, <2>2
  <2> HIDE DEF selected
  <2>4. panel' \in ComposerType
    BY <1>0, <2>3 DEF ComposerType
  <2>5. panel'.documents = panel.documents /\ panel'.phase = panel.phase /\ panel'.bindings = panel.bindings
        /\ panel'.epoch = panel.epoch
    BY <1>0, <2>3 DEF ComposerType
  <2>6. Same(panel')
    BY <1>0, <2>4, <2>5 DEF ComposerKeeps
  <2> QED BY <1>s, <2>6
<1> QED
  BY <1>1, <1>2, <1>3, <1>4, <1>5, <1>6, <1>7, <1>8, <1>9, <1>10, <1>11, <1>12, <1>g, <1>m, <1>t, <1>u DEF Comp!Next

\* What the invariant says of the composer: its type, and the names of the
\* tools it offers tell them apart.
LEMMA ComposerShows ==
  ASSUME ComposerInv PROVE Comp!TypeOK /\ Comp!NamesTellToolsApart
<1>0. panel \in ComposerType /\ ComposerKeeps(panel)
  BY DEF ComposerInv
<1>1. Comp!Offered \in Seq(Entries)
  BY <1>0, ComposerFields, AmongKeeps, ComposerAmong DEF Comp!Offered
<1> DEFINE names == Comp!FunctionNames(Comp!Offered)
<1>2. Apart(names) /\ Len(names) = Len(Comp!Offered)
  BY <1>1, FunctionNamesApart
<1> HIDE DEF names
<1>3. DOMAIN names = 1..Len(names)
  BY <1>2, LenProperties DEF Apart
<1>4. Comp!NamesTellToolsApart
  BY <1>2, <1>3 DEF Apart, names, Comp!NamesTellToolsApart, Comp!IsInjective
<1>5. \A b \in panel.bindings : b.epoch \in 0..panel.epoch /\ b.docs \in Comp!Bound
  BY <1>0, ComposerFields DEF ComposerKeeps
<1> QED BY <1>0, <1>4, <1>5 DEF ComposerType, ComposerKeeps, Comp!TypeOK

-----------------------------------------------------------------------------
McpCall == [server : ServerIds, tool : Tools, policy : Mcp!Policies, auto : BOOLEAN, nr : 0..MaxCalls]
McpAsk == [kind : {"save", "remove", "tools"}, id : ServerIds, while : ServerIds \cup {NoServer}]
McpType ==
  [ servers : SUBSET ServerIds, shown : SUBSET ServerIds, selected : ServerIds \cup {NoServer},
    policy : Mcp!Policies, approved : SUBSET Mcp!Keys, tools : SUBSET Tools, loading : BOOLEAN,
    tool : Tools \cup {NoTool}, approval : Tools \cup {NoTool}, busy : BOOLEAN, calls : SUBSET McpCall,
    asks : SUBSET McpAsk, byHand : SUBSET Mcp!Keys, requests : 0..MaxCalls ]

\* What is approved, and what is called, the user has approved by hand; one
\* call is out, and the panel is busy with it.
McpKeeps(m) ==
  /\ m.approved \subseteq m.byHand
  /\ \A c \in m.calls : Mcp!Key(c.server, c.tool) \in m.byHand
  /\ IF m.busy THEN \E c \in m.calls : m.calls = {c} ELSE m.calls = {}

McpInv == panel \in McpType /\ McpKeeps(panel)

\* The fields the invariant is about.
McpSame(m, k) == k.approved = m.approved /\ k.byHand = m.byHand /\ k.calls = m.calls /\ k.busy = m.busy

\* The panel starts with the invariant (Mcp.tsx).
LEMMA McpInit ==
  ASSUME Mcp!Init PROVE McpInv
BY McpAssumption DEF Mcp!Init, McpInv, McpType, McpKeeps

\* The types of the fields of the panel.
LEMMA McpFields ==
  ASSUME NEW m \in McpType
  PROVE  /\ m.servers \subseteq ServerIds /\ m.shown \subseteq ServerIds /\ m.selected \in ServerIds \cup {NoServer}
         /\ m.policy \in Mcp!Policies /\ m.approved \subseteq Mcp!Keys /\ m.tools \subseteq Tools /\ m.loading \in BOOLEAN
         /\ m.tool \in Tools \cup {NoTool} /\ m.approval \in Tools \cup {NoTool} /\ m.busy \in BOOLEAN
         /\ m.calls \subseteq McpCall /\ m.asks \subseteq McpAsk /\ m.byHand \subseteq Mcp!Keys /\ m.requests \in 0..MaxCalls
BY DEF McpType

\* Leaving a server clears its tools and, with the draft, the approvals
\* (Mcp.tsx).
LEMMA McpClears ==
  ASSUME NEW m \in McpType
  PROVE  /\ Mcp!Cleared(m) \in McpType /\ McpSame(m, Mcp!Cleared(m))
         /\ McpKeeps(m) => Mcp!Reset(m) \in McpType /\ McpKeeps(Mcp!Reset(m))
<1>1. Mcp!Cleared(m) \in McpType /\ McpSame(m, Mcp!Cleared(m))
  BY DEF Mcp!Cleared, McpType, McpSame
<1> DEFINE c == Mcp!Cleared(m)
           k == [c EXCEPT !.selected = NoServer, !.approved = {}]
<1>2. ASSUME McpKeeps(m) PROVE k \in McpType /\ McpKeeps(k)
  <2> HIDE DEF c
  <2>1. k \in McpType
    BY <1>1 DEF McpType, c
  <2>2. k.approved = {} /\ k.byHand = m.byHand /\ k.calls = m.calls /\ k.busy = m.busy
    BY <1>1 DEF McpType, McpSame, c
  <2> HIDE DEF k
  <2> QED BY <1>2, <2>1, <2>2 DEF McpKeeps
<1>3. Mcp!Reset(m) = k
  BY DEF Mcp!Reset
<1> QED BY <1>1, <1>2, <1>3

\* A request that begins changes none of the fields the invariant is about
\* (Mcp.tsx).
LEMMA McpAsks ==
  ASSUME McpInv, NEW kind \in {"save", "remove", "tools"}, NEW id \in ServerIds, Mcp!Ask(kind, id)
  PROVE  panel' \in McpType /\ McpSame(panel, panel')
<1> DEFINE asks == panel.asks \cup {[kind |-> kind, id |-> id, while |-> panel.selected]}
           loading == panel.loading \/ kind = "tools"
<1>0. panel \in McpType
  BY DEF McpInv
<1>1. panel' = [panel EXCEPT !.asks = asks, !.requests = @ + 1, !.loading = loading] /\ panel.requests < MaxCalls
  BY DEF Mcp!Ask, Mcp!Requests
<1>2. asks \in SUBSET McpAsk /\ loading \in BOOLEAN /\ panel.requests + 1 \in 0..MaxCalls
  BY <1>0, <1>1, McpFields, McpAssumption DEF McpAsk
<1> HIDE DEF asks, loading
<1> QED BY <1>0, <1>1, <1>2 DEF McpType, McpSame

\* A call begins when none is out, and on its own only when its tool is
\* approved (runToolCall, in Mcp.tsx).
LEMMA McpRuns ==
  ASSUME NEW m \in McpType, McpKeeps(m), NEW tool \in Tools, NEW auto \in BOOLEAN, m.requests < MaxCalls,
         auto => Mcp!Key(m.selected, tool) \in m.approved
  PROVE  LET k == Mcp!RunToolCall(m, tool, auto) IN k \in McpType /\ McpKeeps(k)
<1>1. CASE m.busy \/ m.selected = NoServer
  BY <1>1 DEF Mcp!RunToolCall
<1>2. CASE ~m.busy /\ m.selected # NoServer
  <2> DEFINE c == [server |-> m.selected, tool |-> tool, policy |-> m.policy, auto |-> auto, nr |-> m.requests]
             calls == m.calls \cup {c}
             byHand == IF auto THEN m.byHand ELSE m.byHand \cup {Mcp!Key(m.selected, tool)}
             k == [m EXCEPT !.busy = TRUE, !.approval = NoTool, !.requests = @ + 1, !.calls = calls, !.byHand = byHand]
  <2>1. Mcp!RunToolCall(m, tool, auto) = k
    BY <1>2 DEF Mcp!RunToolCall
  <2>2. c \in McpCall /\ c.server = m.selected /\ c.tool = tool
    BY <1>2, McpFields DEF McpCall
  <2> HIDE DEF c
  <2>3. calls = {c}
    BY <1>2 DEF McpKeeps
  <2>4. Mcp!Key(m.selected, tool) \in Mcp!Keys
    BY <1>2, McpFields DEF Mcp!Key, Mcp!Keys
  <2>5. byHand \in SUBSET Mcp!Keys /\ m.byHand \subseteq byHand /\ Mcp!Key(m.selected, tool) \in byHand
    BY <2>4, McpFields DEF McpKeeps
  <2>6. m.requests + 1 \in 0..MaxCalls /\ calls \in SUBSET McpCall
    BY <2>2, <2>3, McpFields, McpAssumption
  <2> HIDE DEF calls, byHand
  <2>7. k \in McpType
    BY <2>5, <2>6 DEF McpType
  <2>8. k.approved = m.approved /\ k.byHand = byHand /\ k.calls = {c} /\ k.busy = TRUE
    BY <2>3 DEF McpType
  <2> HIDE DEF k
  <2>9. McpKeeps(k)
    BY <2>2, <2>5, <2>8 DEF McpKeeps
  <2> QED BY <2>1, <2>7, <2>9
<1> QED BY <1>1, <1>2

\* Every handler of the panel and every answer keeps the invariant (Mcp.tsx).
LEMMA McpNext ==
  ASSUME McpInv, Mcp!Next PROVE McpInv'
<1>0. panel \in McpType /\ McpKeeps(panel)
  BY DEF McpInv
<1>g. ASSUME panel' \in McpType, McpKeeps(panel') PROVE McpInv'
  BY <1>g DEF McpInv, McpKeeps, Mcp!Key
<1>s. ASSUME panel' \in McpType, McpSame(panel, panel') PROVE McpInv'
  BY <1>0, <1>s, <1>g DEF McpKeeps, McpSame
<1>1. CASE Mcp!NewItem
  BY <1>0, <1>1, <1>g, McpClears DEF Mcp!NewItem
<1>2. CASE Mcp!SelectServer
  <2>1. PICK id \in panel.shown : panel' = [Mcp!Cleared(panel) EXCEPT !.selected = id]
    BY <1>2 DEF Mcp!SelectServer
  <2> DEFINE c == Mcp!Cleared(panel)
  <2>2. c \in McpType /\ McpSame(panel, c) /\ id \in ServerIds
    BY <1>0, McpClears, McpFields
  <2> HIDE DEF c
  <2>3. panel' \in McpType /\ McpSame(panel, panel')
    BY <2>1, <2>2 DEF McpType, McpSame, c
  <2> QED BY <1>s, <2>3
<1>3. CASE Mcp!ChoosePolicy
  <2>1. PICK p \in Mcp!Policies : panel' = [panel EXCEPT !.policy = p, !.approved = {}]
    BY <1>3 DEF Mcp!ChoosePolicy
  <2>2. panel' \in McpType
    BY <1>0, <2>1 DEF McpType
  <2>3. panel'.approved = {} /\ panel'.byHand = panel.byHand /\ panel'.calls = panel.calls /\ panel'.busy = panel.busy
    BY <1>0, <2>1 DEF McpType
  <2>4. McpKeeps(panel')
    BY <1>0, <2>3 DEF McpKeeps
  <2> QED BY <1>g, <2>2, <2>4
<1>4. CASE Mcp!Save
  <2>1. \E id \in ServerIds : Mcp!Ask("save", id)
    BY <1>0, <1>4, McpFields DEF Mcp!Save
  <2> QED BY <1>s, <2>1, McpAsks
<1>5. CASE Mcp!Remove
  <2>1. \E id \in ServerIds : Mcp!Ask("remove", id)
    BY <1>0, <1>5, McpFields DEF Mcp!Remove
  <2> QED BY <1>s, <2>1, McpAsks
<1>6. CASE Mcp!DiscoverTools
  <2>1. \E id \in ServerIds : Mcp!Ask("tools", id)
    BY <1>0, <1>6, McpFields DEF Mcp!DiscoverTools
  <2> QED BY <1>s, <2>1, McpAsks
<1>7. CASE Mcp!Answered
  <2> DEFINE loads(a) == panel.loading /\ a.kind # "tools"
             after(a) == [panel EXCEPT !.asks = @ \ {a}, !.loading = loads(a)]
  <2>1. PICK a \in panel.asks :
          \/ panel' = [after(a) EXCEPT !.servers = @ \cup {a.id}, !.shown = panel.servers \cup {a.id}, !.selected = a.id]
          \/ LET gone == [after(a) EXCEPT !.servers = @ \ {a.id}, !.shown = panel.servers \ {a.id}]
             IN  panel' = IF a.while = a.id THEN Mcp!Reset(gone) ELSE gone
          \/ \E ts \in SUBSET Tools : panel' = [after(a) EXCEPT !.tools = ts]
          \/ panel' = after(a)
    BY <1>7 DEF Mcp!Answered
  <2> DEFINE m == after(a)
             gone == [m EXCEPT !.servers = @ \ {a.id}, !.shown = panel.servers \ {a.id}]
  <2>2. a \in McpAsk /\ a.id \in ServerIds
    BY <1>0, McpFields DEF McpAsk
  <2>3. panel.asks \ {a} \in SUBSET McpAsk /\ loads(a) \in BOOLEAN
    BY <1>0, McpFields
  <2> HIDE DEF loads
  <2>4. m \in McpType /\ McpSame(panel, m) /\ m.servers = panel.servers
    BY <1>0, <2>3 DEF McpType, McpSame
  <2> HIDE DEF m
  <2>5. panel.servers \subseteq ServerIds
    BY <1>0, McpFields
  <2>6. CASE panel' = [m EXCEPT !.servers = @ \cup {a.id}, !.shown = panel.servers \cup {a.id}, !.selected = a.id]
    <3>1. panel.servers \cup {a.id} \in SUBSET ServerIds
      BY <2>2, <2>5
    <3>2. panel' \in McpType /\ McpSame(panel, panel')
      BY <2>2, <2>4, <2>6, <3>1 DEF McpType, McpSame
    <3> QED BY <1>s, <3>2
  <2>7. CASE panel' = IF a.while = a.id THEN Mcp!Reset(gone) ELSE gone
    <3>1. panel.servers \ {a.id} \in SUBSET ServerIds
      BY <2>5
    <3>2. gone \in McpType /\ McpSame(panel, gone)
      BY <2>4, <3>1 DEF McpType, McpSame
    <3> HIDE DEF gone
    <3>3. McpKeeps(gone)
      BY <1>0, <3>2 DEF McpKeeps, McpSame
    <3>4. CASE panel' = Mcp!Reset(gone)
      BY <1>g, <3>2, <3>3, <3>4, McpClears
    <3>5. CASE panel' = gone
      BY <1>s, <3>2, <3>5
    <3> QED BY <2>7, <3>4, <3>5
  <2>8. CASE \E ts \in SUBSET Tools : panel' = [m EXCEPT !.tools = ts]
    <3>1. panel' \in McpType /\ McpSame(panel, panel')
      BY <2>4, <2>8 DEF McpType, McpSame
    <3> QED BY <1>s, <3>1
  <2>9. CASE panel' = m
    BY <1>s, <2>4, <2>9
  <2> QED BY <2>1, <2>6, <2>7, <2>8, <2>9 DEF m
<1>8. CASE Mcp!SelectTool
  <2>1. PICK t \in panel.tools : panel' = [panel EXCEPT !.tool = t, !.approval = NoTool]
    BY <1>8 DEF Mcp!SelectTool
  <2>2. t \in Tools
    BY <1>0, McpFields
  <2>3. panel' \in McpType /\ McpSame(panel, panel')
    BY <1>0, <2>1, <2>2 DEF McpType, McpSame
  <2> QED BY <1>s, <2>3
<1>9. CASE Mcp!PrepareCall
  <2>1. /\ panel.requests < MaxCalls /\ panel.tool \in Tools
        /\ \/ panel' = panel
           \/ Mcp!CanAutoApprove(panel) /\ panel' = Mcp!RunToolCall(panel, panel.tool, TRUE)
           \/ panel' = [panel EXCEPT !.approval = panel.tool]
    BY <1>0, <1>9, McpFields DEF Mcp!PrepareCall, Mcp!Requests
  <2>2. CASE panel' = panel
    BY <1>0, <1>g, <2>2
  <2>3. CASE Mcp!CanAutoApprove(panel) /\ panel' = Mcp!RunToolCall(panel, panel.tool, TRUE)
    BY <1>0, <1>g, <2>1, <2>3, McpRuns DEF Mcp!CanAutoApprove
  <2>4. CASE panel' = [panel EXCEPT !.approval = panel.tool]
    <3>1. panel' \in McpType /\ McpSame(panel, panel')
      BY <1>0, <2>1, <2>4 DEF McpType, McpSame
    <3> QED BY <1>s, <3>1
  <2> QED BY <2>1, <2>2, <2>3, <2>4
<1>10. CASE Mcp!Approve
  <2>1. panel.requests < MaxCalls /\ panel.approval \in Tools /\ panel' = Mcp!RunToolCall(panel, panel.approval, FALSE)
    BY <1>0, <1>10, McpFields DEF Mcp!Approve, Mcp!Requests
  <2> QED BY <1>0, <1>g, <2>1, McpRuns
<1>11. CASE Mcp!Dismiss
  <2>1. panel' = [panel EXCEPT !.approval = NoTool]
    BY <1>11 DEF Mcp!Dismiss
  <2>2. panel' \in McpType /\ McpSame(panel, panel')
    BY <1>0, <2>1 DEF McpType, McpSame
  <2> QED BY <1>s, <2>2
<1>12. CASE Mcp!CallReturns
  <2> DEFINE after(c) == [panel EXCEPT !.calls = @ \ {c}, !.busy = FALSE]
  <2>1. PICK c \in panel.calls :
          panel' = after(c) \/ panel' = [after(c) EXCEPT !.approved = @ \cup {Mcp!Key(c.server, c.tool)}]
    BY <1>12 DEF Mcp!CallReturns
  <2> DEFINE m == after(c)
  <2>2. panel.calls = {c} /\ Mcp!Key(c.server, c.tool) \in panel.byHand
    BY <1>0 DEF McpKeeps
  <2>3. m \in McpType
    <3>1. panel.calls \ {c} \in SUBSET McpCall
      BY <1>0, McpFields
    <3> QED BY <1>0, <3>1 DEF McpType
  <2>4. m.calls = {} /\ m.busy = FALSE /\ m.approved = panel.approved /\ m.byHand = panel.byHand
    BY <1>0, <2>2 DEF McpType
  <2> HIDE DEF m
  <2>5. CASE panel' = m
    <3>1. McpKeeps(m)
      BY <1>0, <2>4 DEF McpKeeps
    <3> QED BY <1>g, <2>3, <2>5, <3>1
  <2>6. CASE panel' = [m EXCEPT !.approved = @ \cup {Mcp!Key(c.server, c.tool)}]
    <3> DEFINE approved == m.approved \cup {Mcp!Key(c.server, c.tool)}
    <3>1. approved \subseteq m.byHand /\ approved \in SUBSET Mcp!Keys
      BY <1>0, <2>2, <2>3, <2>4, McpFields DEF McpKeeps
    <3>2. panel' = [m EXCEPT !.approved = approved]
      BY <2>6
    <3> HIDE DEF approved
    <3>3. panel' \in McpType
      BY <2>3, <3>1, <3>2 DEF McpType
    <3>4. panel'.calls = {} /\ panel'.busy = FALSE /\ panel'.approved = approved /\ panel'.byHand = m.byHand
      BY <2>3, <2>4, <3>2 DEF McpType
    <3>5. McpKeeps(panel')
      BY <3>1, <3>4 DEF McpKeeps
    <3> QED BY <1>g, <3>3, <3>5
  <2> QED BY <2>1, <2>5, <2>6 DEF m
<1> QED
  BY <1>1, <1>2, <1>3, <1>4, <1>5, <1>6, <1>7, <1>8, <1>9, <1>10, <1>11, <1>12 DEF Mcp!Next

\* What the invariant says of the panel: its type, calls that run on their own
\* were approved by hand, and one call is out at a time.
LEMMA McpShows ==
  ASSUME McpInv PROVE Mcp!TypeOK /\ Mcp!AutoApprovedByHand /\ Mcp!OneToolCall
<1>0. panel \in McpType /\ McpKeeps(panel)
  BY DEF McpInv
<1>1. Mcp!Cardinality(panel.calls) = Cardinality(panel.calls)
  BY DEF Mcp!Cardinality, Cardinality
<1>2. Mcp!OneToolCall
  <2>1. CASE ~panel.busy
    <3>1. panel.calls = {}
      BY <1>0, <2>1 DEF McpKeeps
    <3>2. Cardinality(panel.calls) = 0
      BY <3>1, FS_EmptySet
    <3> QED BY <1>1, <2>1, <3>1, <3>2 DEF Mcp!OneToolCall
  <2>2. CASE panel.busy
    <3>1. PICK c \in panel.calls : panel.calls = {c}
      BY <1>0, <2>2 DEF McpKeeps
    <3>2. Cardinality(panel.calls) = 1
      BY <3>1, FS_Singleton
    <3> QED BY <1>1, <2>2, <3>1, <3>2 DEF Mcp!OneToolCall
  <2> QED BY <2>1, <2>2
<1>3. \A c \in panel.calls : Mcp!Key(c.server, c.tool) \in Mcp!Keys /\ c.policy \in Mcp!Policies
  BY <1>0, McpFields DEF McpCall, Mcp!Key, Mcp!Keys
<1>4. Mcp!TypeOK
  BY <1>0, <1>3, McpFields DEF Mcp!TypeOK, McpAsk
<1> QED BY <1>0, <1>2, <1>4 DEF McpKeeps, Mcp!AutoApprovedByHand

-----------------------------------------------------------------------------
\* What has come of a call: its pieces so far, in order.
Come(i, n) ==
  [ name |-> IF n = 0 THEN <<>> ELSE << <<i, "name">> >>,
    arguments |-> IF n \in 0..1 THEN <<>>
                  ELSE IF n = 2 THEN << <<i, "first">> >> ELSE << <<i, "first">>, <<i, "second">> >> ]
CallText == {Come(i, n) : i \in 1..2, n \in 0..3}
NoArguments == [kind |-> "object", value |-> Calls!Empty]
Offers == {[name |-> f, arguments |-> a] : f \in ToolFunctions, a \in Calls!Arguments \cup {NoArguments}}
CallType ==
  [ schema : Calls!Schemas, sent : {s \in Seq(Calls!Calls) : Len(s) \in 1..2}, at : Seq(0..3), got : Seq(CallText),
    phase : {"streaming", "failed", "ended", "offered", "refused", "none"}, offered : {Calls!NoCall} \cup Offers ]

CallPieces(c, i) == IF c.sent[i].arguments = Calls!Nothing THEN 1 ELSE 3
CallKeeps(c) ==
  /\ Len(c.at) = Len(c.sent) /\ Len(c.got) = Len(c.sent)
  /\ \A i \in 1..Len(c.sent) : c.at[i] <= CallPieces(c, i) /\ c.got[i] = Come(i, c.at[i])
  /\ c.phase = "ended" => \A i \in 1..Len(c.sent) : c.at[i] = CallPieces(c, i)

CallInv == panel \in CallType /\ CallKeeps(panel) /\ Calls!OfferedAsWritten

\* The types of the fields of a streamed call, and that a first call is there.
LEMMA CallFields ==
  ASSUME NEW c \in CallType
  PROVE  /\ c.schema \in Calls!Schemas /\ c.sent \in Seq(Calls!Calls) /\ Len(c.sent) \in 1..2 /\ DOMAIN c.sent = 1..Len(c.sent)
         /\ c.at \in Seq(0..3) /\ c.got \in Seq(CallText) /\ Len(c.sent) \in Nat /\ 1 \in 1..Len(c.sent)
<1>1. c.schema \in Calls!Schemas /\ c.at \in Seq(0..3) /\ c.got \in Seq(CallText)
  BY DEF CallType
<1>2. c.sent \in Seq(Calls!Calls) /\ Len(c.sent) \in 1..2
  BY DEF CallType
<1>3. Len(c.sent) \in Nat /\ 1 \in 1..Len(c.sent) /\ DOMAIN c.sent = 1..Len(c.sent)
  BY <1>2, LenProperties
<1> QED BY <1>1, <1>2, <1>3

\* The next piece of a call is added where it belongs
\* (createStreamDeltaHandler, in chatSendHelpers.ts).
LEMMA PieceComes ==
  ASSUME NEW i \in 1..2, NEW n \in 0..2
  PROVE  Calls!Added(Come(i, n), i, Calls!Pieces[n + 1]) = Come(i, n + 1)
<1>1. CASE n = 0
  BY <1>1 DEF Come, Calls!Pieces, Calls!Added
<1>2. CASE n = 1
  BY <1>2 DEF Come, Calls!Pieces, Calls!Added
<1>3. CASE n = 2
  BY <1>3 DEF Come, Calls!Pieces, Calls!Added
<1> QED BY <1>1, <1>2, <1>3

\* A stream starts with the invariant (chatSendHelpers.ts).
LEMMA CallInit ==
  ASSUME Calls!Init PROVE CallInv
<1>1. PICK schema \in Calls!Schemas, sent \in Calls!OneOrTwo :
        panel = [ schema |-> schema, sent |-> sent, at |-> [i \in DOMAIN sent |-> 0],
                  got |-> [i \in DOMAIN sent |-> Calls!NoCall], phase |-> "streaming", offered |-> Calls!NoCall ]
  BY DEF Calls!Init
<1>2. sent \in Seq(Calls!Calls) /\ Len(sent) \in 1..2
  <2>1. \A f \in ToolFunctions, b \in {Calls!Nothing, [kind |-> "array"]} : [name |-> f, arguments |-> b] \in Calls!Calls
    BY DEF Calls!Calls, Calls!Arguments
  <2>2. \A a \in Calls!Calls : <<a>> \in Seq(Calls!Calls) /\ Len(<<a>>) = 1
    OBVIOUS
  <2>3. \A a, b \in Calls!Calls : <<a, b>> \in Seq(Calls!Calls) /\ Len(<<a, b>>) = 2
    OBVIOUS
  <2>4. (\E a \in Calls!Calls : sent = <<a>>) \/ (\E a, b \in Calls!Calls : sent = <<a, b>>)
    <3>1. CASE \E a \in Calls!Calls, f \in ToolFunctions, b \in {Calls!Nothing, [kind |-> "array"]} :
                 sent = <<a, [name |-> f, arguments |-> b]>>
      <4>1. PICK a \in Calls!Calls, f \in ToolFunctions, b \in {Calls!Nothing, [kind |-> "array"]} :
                   sent = <<a, [name |-> f, arguments |-> b]>>
        BY <3>1
      <4> DEFINE second == [name |-> f, arguments |-> b]
      <4>2. second \in Calls!Calls
        BY <2>1
      <4>3. sent = <<a, second>>
        BY <4>1
      <4> HIDE DEF second
      <4> QED BY <4>2, <4>3
    <3> QED BY <3>1 DEF Calls!OneOrTwo
  <2>5. CASE \E a \in Calls!Calls : sent = <<a>>
    BY <2>2, <2>5
  <2>6. CASE \E a, b \in Calls!Calls : sent = <<a, b>>
    BY <2>3, <2>6
  <2> QED BY <2>4, <2>5, <2>6
<1> DEFINE l == Len(sent)
           at == [i \in 1..l |-> 0]
           got == [i \in 1..l |-> Calls!NoCall]
<1>3. DOMAIN sent = 1..l /\ l \in 1..2 /\ l \in Nat
  BY <1>2
<1>4. panel = [ schema |-> schema, sent |-> sent, at |-> at, got |-> got, phase |-> "streaming", offered |-> Calls!NoCall ]
  BY <1>1, <1>3
<1>5. Calls!NoCall \in CallText /\ \A i \in 1..l : Come(i, 0) = Calls!NoCall
  <2>1. Come(1, 0) = Calls!NoCall /\ \A i \in 1..l : Come(i, 0) = Calls!NoCall
    BY DEF Come, Calls!NoCall
  <2>2. Come(1, 0) \in CallText
    BY DEF CallText
  <2> QED BY <2>1, <2>2
<1> HIDE DEF l
<1>6. at \in Seq(0..3) /\ got \in Seq(CallText) /\ Len(at) = l /\ Len(got) = l
  <2>1. at \in [1..l -> 0..3] /\ got \in [1..l -> CallText]
    BY <1>5
  <2> HIDE DEF at, got
  <2> QED BY <1>3, <2>1
<1>7. \A i \in 1..l : at[i] = 0 /\ got[i] = Come(i, 0)
  BY <1>5
<1> HIDE DEF at, got
<1>8. panel \in CallType
  BY <1>2, <1>4, <1>6 DEF CallType
<1>9. /\ panel.sent = sent /\ panel.at = at /\ panel.got = got /\ panel.phase = "streaming"
  BY <1>4
<1>10. CallKeeps(panel)
  BY <1>6, <1>7, <1>9 DEF CallKeeps, CallPieces, l
<1>11. Calls!OfferedAsWritten
  BY <1>9 DEF Calls!OfferedAsWritten
<1> QED BY <1>8, <1>10, <1>11 DEF CallInv

\* A delta, the end of the body and the resolution keep the invariant: the call
\* that is offered is the one that was written (chatSendHelpers.ts).
LEMMA CallNext ==
  ASSUME CallInv, Calls!Next PROVE CallInv'
<1>0. panel \in CallType /\ CallKeeps(panel)
  BY DEF CallInv
<1>f. /\ panel.schema \in Calls!Schemas /\ panel.sent \in Seq(Calls!Calls) /\ Len(panel.sent) \in 1..2
      /\ DOMAIN panel.sent = 1..Len(panel.sent) /\ panel.at \in Seq(0..3) /\ panel.got \in Seq(CallText)
      /\ Len(panel.sent) \in Nat /\ 1 \in 1..Len(panel.sent)
  BY <1>0, CallFields
<1>g. ASSUME panel' \in CallType, CallKeeps(panel'), Calls!OfferedAsWritten' PROVE CallInv'
  BY <1>g DEF CallInv, CallKeeps, CallPieces
<1>1. CASE Calls!Delta
  <2>1. PICK i \in 1..Len(panel.sent) :
          /\ panel.phase = "streaming" /\ panel.at[i] < CallPieces(panel, i)
          /\ panel' = [panel EXCEPT !.at[i] = @ + 1, !.got = Calls!Accumulated(@, i, Calls!Pieces[panel.at[i] + 1])]
    BY <1>1, <1>f DEF Calls!Delta, CallPieces, Calls!Pieces
  <2> DEFINE n == panel.at[i]
             at == [panel.at EXCEPT ![i] = n + 1]
             got == [panel.got EXCEPT ![i] = Come(i, n + 1)]
  <2>2. /\ Len(panel.at) = Len(panel.sent) /\ Len(panel.got) = Len(panel.sent)
        /\ \A j \in 1..Len(panel.sent) : panel.at[j] <= CallPieces(panel, j) /\ panel.got[j] = Come(j, panel.at[j])
    BY <1>0 DEF CallKeeps
  <2>3. n \in 0..3 /\ n < CallPieces(panel, i) /\ CallPieces(panel, i) \in {1, 3}
    <3> DEFINE S == 0..3
    <3>1. panel.at \in Seq(S)
      BY <1>f
    <3> HIDE DEF S
    <3>2. panel.at[i] \in S
      BY <2>2, <3>1, ElementOfSeq
    <3> QED BY <2>1, <3>2 DEF CallPieces, S
  <2>4. n \in 0..2 /\ i \in 1..2 /\ n + 1 <= CallPieces(panel, i)
    <3> HIDE DEF n
    <3>1. n \in 0..2 /\ n + 1 <= CallPieces(panel, i)
      BY <2>3
    <3>2. i \in 1..2
      <4> DEFINE l == Len(panel.sent)
      <4>1. l \in 1..2 /\ i \in 1..l
        BY <1>f
      <4> HIDE DEF l
      <4> QED BY <4>1
    <3> QED BY <3>1, <3>2
  <2>5. panel.got[i] = Come(i, n)
    BY <2>2
  <2>6. Calls!Accumulated(panel.got, i, Calls!Pieces[n + 1]) = got
    <3>1. Calls!Added(panel.got[i], i, Calls!Pieces[n + 1]) = Come(i, n + 1)
      BY <2>4, <2>5, PieceComes
    <3> QED BY <3>1 DEF Calls!Accumulated
  <2>7. panel' = [panel EXCEPT !.at = at, !.got = got]
    <3>1. panel' = [panel EXCEPT !.at[i] = @ + 1, !.got = got]
      BY <2>1, <2>6
    <3> HIDE DEF got
    <3> QED BY <1>0, <3>1 DEF CallType
  <2>8. at \in Seq(0..3) /\ Len(at) = Len(panel.sent) /\ at[i] = n + 1 /\ \A j \in 1..Len(panel.sent) : j # i => at[j] = panel.at[j]
    <3> DEFINE S == 0..3
    <3>1. panel.at \in Seq(S) /\ n + 1 \in S
      BY <1>f, <2>4
    <3> HIDE DEF S, n
    <3>2. at \in Seq(S) /\ Len(at) = Len(panel.sent) /\ at[i] = n + 1 /\ \A j \in 1..Len(panel.sent) : j # i => at[j] = panel.at[j]
      BY <2>2, <3>1, ExceptSeq
    <3> QED BY <3>2 DEF S
  <2>9. /\ got \in Seq(CallText) /\ Len(got) = Len(panel.sent) /\ got[i] = Come(i, n + 1)
        /\ \A j \in 1..Len(panel.sent) : j # i => got[j] = panel.got[j]
    <3>1. Come(i, n + 1) \in CallText
      BY <2>4 DEF CallText
    <3> HIDE DEF n
    <3> QED BY <1>f, <2>2, <3>1, ExceptSeq
  <2> HIDE DEF at, got, n
  <2>10. panel' \in CallType
    BY <1>0, <2>7, <2>8, <2>9 DEF CallType
  <2>11. /\ panel'.sent = panel.sent /\ panel'.at = at /\ panel'.got = got /\ panel'.phase = "streaming"
    BY <1>0, <2>1, <2>7 DEF CallType
  <2>12. ASSUME NEW j \in 1..Len(panel.sent)
         PROVE  at[j] <= CallPieces(panel, j) /\ got[j] = Come(j, at[j])
    <3>1. CASE j = i
      BY <2>4, <2>8, <2>9, <3>1
    <3>2. CASE j # i
      BY <2>2, <2>8, <2>9, <3>2
    <3> QED BY <3>1, <3>2
  <2>13. CallKeeps(panel')
    BY <2>8, <2>9, <2>11, <2>12 DEF CallKeeps, CallPieces
  <2>14. Calls!OfferedAsWritten'
    BY <2>11 DEF Calls!OfferedAsWritten
  <2> QED BY <1>g, <2>10, <2>13, <2>14
<1>2. CASE Calls!End
  <2> DEFINE phase == IF \A i \in DOMAIN panel.sent : Calls!Complete(i) THEN "ended" ELSE "failed"
  <2>1. panel' = [panel EXCEPT !.phase = phase]
    BY <1>2 DEF Calls!End
  <2>2. phase \in {"ended", "failed"} /\ (phase = "ended" => \A i \in 1..Len(panel.sent) : panel.at[i] = CallPieces(panel, i))
    <3>1. \A i \in DOMAIN panel.sent : Calls!Complete(i) <=> panel.at[i] = CallPieces(panel, i)
      BY DEF Calls!Complete, Calls!Pieces, CallPieces
    <3> QED BY <1>f, <3>1
  <2> HIDE DEF phase
  <2>3. panel' \in CallType
    BY <1>0, <2>1, <2>2 DEF CallType
  <2>4. /\ panel'.sent = panel.sent /\ panel'.at = panel.at /\ panel'.got = panel.got /\ panel'.phase = phase
    BY <1>0, <2>1 DEF CallType
  <2>5. CallKeeps(panel')
    BY <1>0, <2>2, <2>4 DEF CallKeeps, CallPieces
  <2>6. Calls!OfferedAsWritten'
    BY <2>2, <2>4 DEF Calls!OfferedAsWritten
  <2> QED BY <1>g, <2>3, <2>5, <2>6
<1>3. CASE Calls!Resolve
  <2> DEFINE got == panel.got[1]
             parsed == Calls!Parsed(got)
             name == Calls!Name(got)
             intended == panel.sent[1]
             Fine == name \in ToolFunctions /\ parsed.kind = "object" /\ Calls!Valid(panel.schema, parsed.value)
             offer == [name |-> name, arguments |-> parsed]
  <2>1. /\ panel.phase = "ended"
        /\ panel' = IF got = Calls!NoCall THEN [panel EXCEPT !.phase = "none"]
                    ELSE IF Fine THEN [panel EXCEPT !.phase = "offered", !.offered = offer]
                    ELSE [panel EXCEPT !.phase = "refused"]
    BY <1>3 DEF Calls!Resolve
  <2>2. got = Come(1, panel.at[1]) /\ panel.at[1] = CallPieces(panel, 1)
    BY <1>0, <1>f, <2>1 DEF CallKeeps
  <2>3. got.name = << <<1, "name">> >> /\ got # Calls!NoCall
    BY <2>2 DEF CallPieces, Come, Calls!NoCall
  <2>4. name = intended.name
    BY <1>f, <2>3 DEF Calls!Name
  <2>5. parsed = IF intended.arguments = Calls!Nothing THEN NoArguments ELSE intended.arguments
    <3>1. CASE intended.arguments = Calls!Nothing
      <4>1. got.arguments = <<>>
        BY <2>2, <3>1 DEF CallPieces, Come
      <4> QED BY <3>1, <4>1 DEF Calls!Parsed, NoArguments
    <3>2. CASE intended.arguments # Calls!Nothing
      <4>1. got.arguments = << <<1, "first">>, <<1, "second">> >>
        BY <2>2, <3>2 DEF CallPieces, Come
      <4>2. got.arguments # <<>> /\ got.arguments[1][1] = 1 /\ 1 \in DOMAIN panel.sent
        BY <1>f, <4>1
      <4>3. \E i \in DOMAIN panel.sent : got.arguments = << <<i, "first">>, <<i, "second">> >>
        BY <4>1, <4>2
      <4> HIDE DEF got
      <4> QED BY <3>2, <4>2, <4>3 DEF Calls!Parsed
    <3> QED BY <3>1, <3>2
  <2>6. intended \in Calls!Calls /\ intended.arguments \in Calls!Arguments
    <3>1. intended \in Calls!Calls
      BY <1>f, ElementOfSeq
    <3> QED BY <3>1 DEF Calls!Calls
  <2>7. Fine <=> Calls!Proper
    <3>1. CASE intended.arguments = Calls!Nothing
      <4>1. intended.arguments.kind = "nothing" /\ parsed.kind = "object" /\ parsed.value = <<>>
        BY <2>5, <3>1 DEF Calls!Nothing, NoArguments, Calls!Empty
      <4>2. Calls!Valid(panel.schema, <<>>) <=> panel.schema.required = {}
        BY DEF Calls!Valid
      <4> QED BY <2>4, <3>1, <4>1, <4>2 DEF Calls!Proper, Calls!Intended
    <3>2. CASE intended.arguments # Calls!Nothing
      BY <2>4, <2>5, <3>2 DEF Calls!Proper, Calls!Intended
    <3> QED BY <3>1, <3>2
  <2> HIDE DEF got
  <2>8. CASE Fine
    <3>1. panel' = [panel EXCEPT !.phase = "offered", !.offered = offer]
      BY <2>1, <2>3, <2>8
    <3>2. offer \in Offers
      BY <2>5, <2>6, <2>8 DEF Offers
    <3>3. offer.name = intended.name /\ offer.arguments = parsed
      BY <2>4
    <3> HIDE DEF offer, parsed
    <3>4. panel' \in CallType
      BY <1>0, <3>1, <3>2 DEF CallType
    <3>5. /\ panel'.sent = panel.sent /\ panel'.at = panel.at /\ panel'.got = panel.got /\ panel'.phase = "offered"
          /\ panel'.offered = offer /\ panel'.schema = panel.schema
      BY <1>0, <3>1 DEF CallType
    <3>6. CallKeeps(panel')
      BY <1>0, <3>5 DEF CallKeeps, CallPieces
    <3>7. Calls!Proper'
      BY <2>7, <2>8, <3>5 DEF Calls!Proper, Calls!Intended
    <3>8. Calls!OfferedAsWritten'
      BY <2>5, <3>3, <3>5, <3>7 DEF Calls!OfferedAsWritten, Calls!Intended, NoArguments
    <3> QED BY <1>g, <3>4, <3>6, <3>8
  <2>9. CASE ~Fine
    <3>1. panel' = [panel EXCEPT !.phase = "refused"]
      BY <2>1, <2>3, <2>9
    <3>2. panel' \in CallType
      BY <1>0, <3>1 DEF CallType
    <3>3. /\ panel'.sent = panel.sent /\ panel'.at = panel.at /\ panel'.got = panel.got /\ panel'.phase = "refused"
          /\ panel'.schema = panel.schema
      BY <1>0, <3>1 DEF CallType
    <3>4. CallKeeps(panel')
      BY <1>0, <3>3 DEF CallKeeps, CallPieces
    <3>5. ~Calls!Proper'
      BY <2>7, <2>9, <3>3 DEF Calls!Proper, Calls!Intended
    <3>6. Calls!OfferedAsWritten'
      BY <3>3, <3>5 DEF Calls!OfferedAsWritten
    <3> QED BY <1>g, <3>2, <3>4, <3>6
  <2> QED BY <2>8, <2>9
<1> QED BY <1>1, <1>2, <1>3 DEF Calls!Next

\* What the invariant says of a streamed call: its type, and the offer is what
\* the model wrote.
LEMMA CallShows ==
  ASSUME CallInv PROVE Calls!TypeOK /\ Calls!OfferedAsWritten
<1>0. panel \in CallType /\ CallKeeps(panel) /\ Calls!OfferedAsWritten
  BY DEF CallInv
<1>1. \A i \in DOMAIN panel.at : panel.at[i] \in 0..3
  <2> DEFINE S == 0..3
  <2>1. panel.at \in Seq(S)
    BY <1>0, CallFields
  <2> HIDE DEF S
  <2>2. \A i \in DOMAIN panel.at : panel.at[i] \in S
    BY <2>1, ElementOfSeq, LenProperties
  <2> QED BY <2>2 DEF S
<1> QED BY <1>0, <1>1, CallFields DEF CallType, CallKeeps, Calls!TypeOK, Calls!Pieces

-----------------------------------------------------------------------------
\* A section of the panel: its ids are unique, in the store and in the list, and those
\* made so far; what is shown is listed, what is listed is stored.
SecType ==
  [ stored : Seq(Prof!Profile), active : 1..MaxProfiles, view : Seq(Prof!Profile), shown : 1..MaxProfiles,
    draft : Prof!Profile ]
Unique(list) == \A i, j \in 1..Len(list) : list[i].id = list[j].id => i = j
StoreKeeps(s, ids) ==
  s.stored # <<>> /\ Unique(s.stored) /\ \A i \in 1..Len(s.stored) : s.stored[i].id <= ids
SecKeeps(s, ids) ==
  /\ s \in SecType /\ StoreKeeps(s, ids)
  /\ s.active \in Prof!IdsOf(s.stored) /\ Prof!IdsOf(s.view) \subseteq Prof!IdsOf(s.stored)
  /\ Unique(s.view) /\ s.shown \in Prof!IdsOf(s.view) /\ s.draft.id = s.shown
ProfilesType ==
  [ sec : [Prof!Kinds -> SecType], applying : SUBSET [Prof!Kinds -> Prof!Profile],
    ids : 0..MaxProfiles, versions : 0..MaxProfileEdits ]
ProfilesKeeps(p) ==
  /\ \A k \in Prof!Kinds : SecKeeps(p.sec[k], p.ids)
  /\ \A d \in p.applying : \A k \in Prof!Kinds : d[k].id <= p.ids
ProfilesInv == panel \in ProfilesType /\ ProfilesKeeps(panel)

\* The ids in a list, by its places.
LEMMA ProfileIds ==
  ASSUME NEW T, NEW s \in Seq(T)
  PROVE  Prof!IdsOf(s) = {s[i].id : i \in 1..Len(s)}
<1>1. DOMAIN s = 1..Len(s)
  OBVIOUS
<1> QED BY <1>1 DEF Prof!IdsOf

\* The fields of a profile.
LEMMA ProfileFields ==
  ASSUME NEW p \in Prof!Profile
  PROVE  p.id \in 1..MaxProfiles /\ p.v \in 0..MaxProfileEdits /\ p.id \in Nat
BY ProfilesAssumption DEF Prof!Profile

\* An id that is in a list finds a profile with that id (modelProfiles.ts).
LEMMA ProfileOf ==
  ASSUME NEW s \in Seq(Prof!Profile), NEW id \in Prof!IdsOf(s)
  PROVE  Prof!Of(s, id) \in Prof!Profile /\ Prof!Of(s, id).id = id
<1>1. DOMAIN s = 1..Len(s) /\ \E i \in DOMAIN s : s[i].id = id
  BY DEF Prof!IdsOf
<1> DEFINE c == CHOOSE i \in DOMAIN s : s[i].id = id
<1>2. c \in 1..Len(s) /\ s[c].id = id
  BY <1>1
<1>3. Prof!Of(s, id) = s[c]
  BY DEF Prof!Of
<1> HIDE DEF c
<1>4. s[c] \in Prof!Profile
  BY <1>2, ElementOfSeq
<1> QED BY <1>2, <1>3, <1>4

\* A list without the profile of an id has the other ids, each once as before
\* (modelProfiles.ts).
LEMMA ProfileWithout ==
  ASSUME NEW s \in Seq(Prof!Profile), NEW id
  PROVE  LET k == Prof!Without(s, id) IN
         /\ k \in Seq(Prof!Profile) /\ Prof!IdsOf(k) = Prof!IdsOf(s) \ {id}
         /\ Unique(s) => Unique(k)
         /\ \A i \in 1..Len(k) : \E j \in 1..Len(s) : k[i] = s[j]
<1> DEFINE S == {p \in Prof!Profile : p.id # id}
           k == Among(s, S)
<1>1. Prof!Without(s, id) = k
  BY DEF Prof!Without, Prof!Among, Among
<1> HIDE DEF S
<1>a. k \in Seq(Prof!Profile) /\ Filters(k, s, S)
  BY AmongMembers
<1> HIDE DEF k
<1>2. /\ k \in Seq(Prof!Profile) /\ Len(k) <= Len(s)
      /\ \A i \in 1..Len(k) : k[i] \in S /\ \E j \in 1..Len(s) : k[i] = s[j]
      /\ \A j \in 1..Len(s) : s[j] \in S => \E i \in 1..Len(k) : k[i] = s[j]
      /\ \A i, j \in 1..Len(k) : i < j => \E a, b \in 1..Len(s) : a < b /\ k[i] = s[a] /\ k[j] = s[b]
  BY <1>a DEF Filters
<1>3. ASSUME NEW i \in 1..Len(s), s[i].id # id PROVE \E j \in 1..Len(k) : k[j] = s[i]
  <2>1. s[i] \in S
    BY <1>3, ElementOfSeq DEF S
  <2> QED BY <1>2, <2>1
<1>4. \A i \in 1..Len(k) : k[i].id # id
  BY <1>2 DEF S
<1>5. Prof!IdsOf(k) = Prof!IdsOf(s) \ {id}
  <2>1. Prof!IdsOf(k) = {k[i].id : i \in 1..Len(k)} /\ Prof!IdsOf(s) = {s[i].id : i \in 1..Len(s)}
    BY <1>2, ProfileIds
  <2>2. \A i \in 1..Len(k) : k[i].id \in {s[j].id : j \in 1..Len(s)}
    BY <1>2
  <2>3. ASSUME NEW i \in 1..Len(s), s[i].id # id PROVE s[i].id \in {k[j].id : j \in 1..Len(k)}
    BY <1>3, <2>3
  <2> QED BY <1>4, <2>1, <2>2, <2>3
<1>6. ASSUME Unique(s) PROVE Unique(k)
  <2>1. ASSUME NEW i \in 1..Len(k), NEW j \in 1..Len(k), i < j PROVE k[i].id # k[j].id
    <3>1. PICK a \in 1..Len(s), b \in 1..Len(s) : a < b /\ k[i] = s[a] /\ k[j] = s[b]
      BY <1>2, <2>1
    <3> QED BY <1>6, <3>1 DEF Unique
  <2>2. Len(k) \in Nat
    BY <1>2
  <2>3. ASSUME NEW i \in 1..Len(k), NEW j \in 1..Len(k), k[i].id = k[j].id PROVE i = j
    <3>1. i < j \/ j < i \/ i = j
      BY <2>2
    <3> QED BY <2>1, <2>3, <3>1
  <2> QED BY <2>3 DEF Unique
<1> QED BY <1>1, <1>2, <1>5, <1>6

\* A list with a profile that is not in it at its end.
LEMMA ProfileAppend ==
  ASSUME NEW s \in Seq(Prof!Profile), NEW p \in Prof!Profile
  PROVE  LET k == Append(s, p) IN
         /\ k \in Seq(Prof!Profile) /\ k # <<>> /\ Prof!IdsOf(k) = Prof!IdsOf(s) \cup {p.id}
         /\ Unique(s) /\ p.id \notin Prof!IdsOf(s) => Unique(k)
         /\ \A i \in 1..Len(k) : k[i] = p \/ \E j \in 1..Len(s) : k[i] = s[j]
<1> DEFINE k == Append(s, p)
           n == Len(s)
<1>1. k \in Seq(Prof!Profile) /\ Len(k) = n + 1 /\ n \in Nat /\ k[n + 1] = p /\ \A i \in 1..n : k[i] = s[i]
  OBVIOUS
<1>a. Prof!IdsOf(s) = {s[i].id : i \in 1..n}
  BY ProfileIds
<1> HIDE DEF k, n
<1>2. k # <<>>
  BY <1>1
<1>3. \A i \in 1..n + 1 : i = n + 1 \/ i \in 1..n
  BY <1>1
<1>4. Prof!IdsOf(k) = {k[i].id : i \in 1..n + 1}
  BY <1>1, ProfileIds
<1>5. Prof!IdsOf(k) = Prof!IdsOf(s) \cup {p.id}
  <2>1. \A i \in 1..n : i \in 1..n + 1 /\ k[i].id = s[i].id
    BY <1>1
  <2>2. n + 1 \in 1..n + 1 /\ k[n + 1].id = p.id
    BY <1>1
  <2>3. {k[i].id : i \in 1..n + 1} = {s[i].id : i \in 1..n} \cup {p.id}
    BY <1>3, <2>1, <2>2
  <2> QED BY <1>4, <1>a, <2>3
<1>6. ASSUME Unique(s), p.id \notin Prof!IdsOf(s) PROVE Unique(k)
  <2>1. \A i \in 1..n : s[i].id # p.id
    BY <1>6, <1>a
  <2>2. \A i, j \in 1..n : s[i].id = s[j].id => i = j
    BY <1>6 DEF Unique, n
  <2>3. ASSUME NEW i \in 1..n + 1, NEW j \in 1..n + 1, k[i].id = k[j].id PROVE i = j
    BY <1>1, <1>3, <2>1, <2>2, <2>3
  <2> QED BY <1>1, <2>3 DEF Unique
<1>7. \A i \in 1..n + 1 : k[i] = p \/ \E j \in 1..n : k[i] = s[j]
  BY <1>1, <1>3
<1> QED BY <1>1, <1>2, <1>5, <1>6, <1>7 DEF k, n

\* The section is read again from its store.
LEMMA ProfileLoads ==
  ASSUME NEW s \in SecType, NEW ids \in 0..MaxProfiles, StoreKeeps(s, ids)
  PROVE  SecKeeps(Prof!Load(s), ids)
<1> DEFINE a == IF s.active \in Prof!IdsOf(s.stored) THEN s.active ELSE s.stored[1].id
           k == [s EXCEPT !.view = s.stored, !.active = a, !.shown = a, !.draft = Prof!Of(s.stored, a)]
<1>1. Prof!Load(s) = k
  BY DEF Prof!Load
<1>2. s.stored \in Seq(Prof!Profile) /\ s.stored # <<>> /\ s.active \in 1..MaxProfiles
  BY DEF SecType, StoreKeeps
<1>3. 1 \in 1..Len(s.stored) /\ s.stored[1] \in Prof!Profile
  <2>1. 1 \in 1..Len(s.stored)
    BY <1>2
  <2> QED BY <1>2, <2>1, ElementOfSeq
<1>4. a \in Prof!IdsOf(s.stored) /\ a \in 1..MaxProfiles
  <2>1. s.stored[1].id \in Prof!IdsOf(s.stored)
    BY <1>2, <1>3, ProfileIds
  <2> QED BY <1>2, <1>3, <2>1, ProfileFields
<1> HIDE DEF a
<1>5. Prof!Of(s.stored, a) \in Prof!Profile /\ Prof!Of(s.stored, a).id = a
  BY <1>2, <1>4, ProfileOf
<1>6. k \in SecType
  BY <1>2, <1>4, <1>5 DEF SecType
<1>7. k.stored = s.stored /\ k.view = s.stored /\ k.active = a /\ k.shown = a /\ k.draft = Prof!Of(s.stored, a)
  BY DEF SecType
<1> HIDE DEF k
<1>8. StoreKeeps(k, ids)
  BY <1>7 DEF StoreKeeps
<1> QED BY <1>1, <1>4, <1>5, <1>6, <1>7, <1>8 DEF SecKeeps, StoreKeeps

\* A profile goes to the end of the store.
LEMMA ProfileStores ==
  ASSUME NEW s \in SecType, NEW ids \in 0..MaxProfiles, NEW p \in Prof!Profile, p.id <= ids,
         Unique(s.stored), \A i \in 1..Len(s.stored) : s.stored[i].id <= ids
  PROVE  LET k == Prof!Store(s, p) IN
         /\ k \in SecType /\ StoreKeeps(k, ids) /\ Prof!IdsOf(k.stored) = Prof!IdsOf(s.stored) \cup {p.id}
         /\ k.view = s.view /\ k.active = s.active /\ k.shown = s.shown /\ k.draft = s.draft
<1> DEFINE w == Prof!Without(s.stored, p.id)
           q == Append(w, p)
           k == [s EXCEPT !.stored = q]
<1>1. Prof!Store(s, p) = k
  BY DEF Prof!Store, SecType
<1>2. s.stored \in Seq(Prof!Profile)
  BY DEF SecType
<1>3. /\ w \in Seq(Prof!Profile) /\ Prof!IdsOf(w) = Prof!IdsOf(s.stored) \ {p.id} /\ Unique(w)
      /\ \A i \in 1..Len(w) : \E j \in 1..Len(s.stored) : w[i] = s.stored[j]
  BY <1>2, ProfileWithout
<1> HIDE DEF w
<1>4. /\ q \in Seq(Prof!Profile) /\ q # <<>> /\ Prof!IdsOf(q) = Prof!IdsOf(w) \cup {p.id} /\ Unique(q)
      /\ \A i \in 1..Len(q) : q[i] = p \/ \E j \in 1..Len(w) : q[i] = w[j]
  BY <1>3, ProfileAppend
<1> HIDE DEF q
<1>5. \A i \in 1..Len(q) : q[i].id <= ids
  BY <1>3, <1>4
<1>6. k \in SecType
  BY <1>4 DEF SecType
<1>7. k.stored = q /\ k.view = s.view /\ k.active = s.active /\ k.shown = s.shown /\ k.draft = s.draft
  BY DEF SecType
<1> HIDE DEF k
<1>8. StoreKeeps(k, ids)
  BY <1>4, <1>5, <1>7 DEF StoreKeeps
<1> QED BY <1>1, <1>3, <1>4, <1>6, <1>7, <1>8

\* A profile is saved: in place in the list.
LEMMA ProfileSaves ==
  ASSUME NEW ids \in 0..MaxProfiles, NEW s, SecKeeps(s, ids), NEW p \in Prof!Profile, p.id <= ids
  PROVE  SecKeeps(Prof!Save(s, p), ids)
<1> DEFINE t == Prof!Store(s, p)
           v == [i \in DOMAIN t.view |-> IF t.view[i].id = p.id THEN p ELSE t.view[i]]
           d == IF s.shown = p.id THEN p ELSE t.draft
           k == [t EXCEPT !.view = v, !.draft = d]
<1>1. s \in SecType /\ s.view \in Seq(Prof!Profile) /\ s.draft \in Prof!Profile
  BY DEF SecKeeps, SecType
<1>2. /\ t \in SecType /\ StoreKeeps(t, ids) /\ Prof!IdsOf(t.stored) = Prof!IdsOf(s.stored) \cup {p.id}
      /\ t.view = s.view /\ t.active = s.active /\ t.shown = s.shown /\ t.draft = s.draft
  BY <1>1, ProfileStores DEF SecKeeps, StoreKeeps
<1>3. Prof!Save(s, p) = k
  BY DEF Prof!Save
<1> HIDE DEF t
<1>4. v \in Seq(Prof!Profile) /\ Len(v) = Len(s.view) /\ \A i \in 1..Len(s.view) : v[i].id = s.view[i].id
  <2>1. DOMAIN t.view = 1..Len(s.view) /\ Len(s.view) \in Nat /\ \A i \in 1..Len(s.view) : s.view[i] \in Prof!Profile
    BY <1>1, <1>2, ElementOfSeq
  <2>2. v \in [1..Len(s.view) -> Prof!Profile]
    BY <1>2, <2>1
  <2>3. \A i \in 1..Len(s.view) : v[i] = IF s.view[i].id = p.id THEN p ELSE s.view[i]
    BY <1>2, <2>1
  <2> HIDE DEF v
  <2> QED BY <2>1, <2>2, <2>3
<1> HIDE DEF v
<1>5. Prof!IdsOf(v) = Prof!IdsOf(s.view) /\ (Unique(s.view) => Unique(v))
  <2>1. Prof!IdsOf(v) = {v[i].id : i \in 1..Len(v)} /\ Prof!IdsOf(s.view) = {s.view[i].id : i \in 1..Len(s.view)}
    BY <1>1, <1>4, ProfileIds
  <2> QED BY <1>4, <2>1 DEF Unique
<1>6. d \in Prof!Profile /\ d.id = s.shown
  BY <1>1, <1>2 DEF SecKeeps
<1> HIDE DEF d
<1>7. k \in SecType
  BY <1>2, <1>4, <1>6 DEF SecType
<1>8. k.stored = t.stored /\ k.view = v /\ k.active = s.active /\ k.shown = s.shown /\ k.draft = d
  BY <1>2 DEF SecType
<1> HIDE DEF k
<1>9. StoreKeeps(k, ids)
  BY <1>2, <1>8 DEF StoreKeeps
<1> QED BY <1>2, <1>3, <1>5, <1>6, <1>7, <1>8, <1>9 DEF SecKeeps

\* Another profile is selected.
LEMMA ProfileChosen ==
  ASSUME NEW ids \in 0..MaxProfiles, NEW s \in SecType, StoreKeeps(s, ids),
         Prof!IdsOf(s.view) \subseteq Prof!IdsOf(s.stored), Unique(s.view), NEW id \in Prof!IdsOf(s.view)
  PROVE  SecKeeps(Prof!Choose(s, id), ids)
<1> DEFINE d == Prof!Of(s.view, id)
           k == [s EXCEPT !.shown = id, !.active = id, !.draft = d]
<1>1. Prof!Choose(s, id) = k
  BY DEF Prof!Choose
<1>2. s.view \in Seq(Prof!Profile)
  BY DEF SecType
<1>3. d \in Prof!Profile /\ d.id = id
  BY <1>2, ProfileOf
<1>4. id \in 1..MaxProfiles
  BY <1>3, ProfileFields
<1> HIDE DEF d
<1>5. k \in SecType
  BY <1>3, <1>4 DEF SecType
<1>6. k.stored = s.stored /\ k.view = s.view /\ k.active = id /\ k.shown = id /\ k.draft = d
  BY DEF SecType
<1> HIDE DEF k
<1>7. StoreKeeps(k, ids)
  BY <1>6 DEF StoreKeeps
<1> QED BY <1>1, <1>3, <1>5, <1>6, <1>7 DEF SecKeeps

\* A new profile is stored, listed and selected.
LEMMA ProfileAdds ==
  ASSUME NEW ids \in 0..MaxProfiles, NEW s, SecKeeps(s, ids), NEW p \in Prof!Profile, p.id = ids + 1
  PROVE  SecKeeps(Prof!Choose(Prof!Store([s EXCEPT !.view = Append(s.view, p)], p), p.id), ids + 1)
<1> DEFINE v == Append(s.view, p)
           t == [s EXCEPT !.view = v]
           k == Prof!Store(t, p)
<1>1. s \in SecType /\ s.view \in Seq(Prof!Profile) /\ s.stored \in Seq(Prof!Profile)
  BY DEF SecKeeps, SecType
<1>2. p.id \in 1..MaxProfiles /\ ids + 1 \in 0..MaxProfiles /\ ids \in Nat
  BY ProfileFields
<1>3. \A i \in 1..Len(s.stored) : s.stored[i].id <= ids /\ s.stored[i].id \in Nat
  BY <1>1, ElementOfSeq, ProfileFields DEF SecKeeps, StoreKeeps
<1>4. p.id \notin Prof!IdsOf(s.stored) /\ p.id \notin Prof!IdsOf(s.view)
  <2>1. Prof!IdsOf(s.stored) = {s.stored[i].id : i \in 1..Len(s.stored)}
    BY <1>1, ProfileIds
  <2>2. p.id \notin {s.stored[i].id : i \in 1..Len(s.stored)}
    BY <1>2, <1>3
  <2> QED BY <2>1, <2>2 DEF SecKeeps
<1>5. v \in Seq(Prof!Profile) /\ Prof!IdsOf(v) = Prof!IdsOf(s.view) \cup {p.id} /\ Unique(v)
  BY <1>1, <1>4, ProfileAppend DEF SecKeeps
<1> HIDE DEF v
<1>6. t \in SecType
  BY <1>1, <1>5 DEF SecType
<1>7. t.stored = s.stored /\ t.view = v
  BY <1>1 DEF SecType
<1> HIDE DEF t
<1>8. p.id <= ids + 1 /\ \A i \in 1..Len(t.stored) : t.stored[i].id <= ids + 1
  BY <1>2, <1>3, <1>7
<1>9. k \in SecType /\ StoreKeeps(k, ids + 1) /\ Prof!IdsOf(k.stored) = Prof!IdsOf(s.stored) \cup {p.id} /\ k.view = v
  <2>1. Unique(t.stored)
    BY <1>7 DEF SecKeeps, StoreKeeps
  <2> QED BY <1>2, <1>6, <1>7, <1>8, <2>1, ProfileStores
<1> HIDE DEF k
<1>10. Prof!IdsOf(k.view) \subseteq Prof!IdsOf(k.stored) /\ Unique(k.view) /\ p.id \in Prof!IdsOf(k.view)
  BY <1>5, <1>9 DEF SecKeeps
<1>11. SecKeeps(Prof!Choose(k, p.id), ids + 1)
  BY <1>2, <1>9, <1>10, ProfileChosen
<1> QED BY <1>11 DEF k, t, v

\* A list of two profiles or more has one besides any other.
LEMMA ProfileLeft ==
  ASSUME NEW s \in Seq(Prof!Profile), NEW id, Len(s) > 1, Unique(s)
  PROVE  LET k == Prof!Without(s, id) IN k # <<>> /\ k[1] \in Prof!Profile /\ k[1].id \in Prof!IdsOf(k)
<1> DEFINE k == Prof!Without(s, id)
<1>1. k \in Seq(Prof!Profile) /\ Prof!IdsOf(k) = Prof!IdsOf(s) \ {id}
  BY ProfileWithout
<1> HIDE DEF k
<1>2. 1 \in 1..Len(s) /\ 2 \in 1..Len(s) /\ Prof!IdsOf(s) = {s[i].id : i \in 1..Len(s)}
  BY ProfileIds
<1>3. s[1].id # s[2].id
  BY <1>2 DEF Unique
<1>4. Prof!IdsOf(k) # {}
  BY <1>1, <1>2, <1>3
<1>5. Prof!IdsOf(k) = {k[i].id : i \in 1..Len(k)}
  BY <1>1, ProfileIds
<1>6. 1 \in 1..Len(k)
  BY <1>1, <1>4, <1>5
<1>7. k[1] \in Prof!Profile
  BY <1>1, <1>6, ElementOfSeq
<1> QED BY <1>1, <1>5, <1>6, <1>7 DEF k

\* The profile shown is deleted, in the store and in the list.
LEMMA ProfileDeletes ==
  ASSUME NEW ids \in 0..MaxProfiles, NEW s, SecKeeps(s, ids), Len(s.view) > 1
  PROVE  LET left == Prof!Without(s.view, s.shown)
         IN  SecKeeps([Prof!Deleted(s) EXCEPT !.view = left, !.shown = left[1].id, !.draft = left[1]], ids)
<1> DEFINE v == Prof!Without(s.view, s.shown)
           w == Prof!Without(s.stored, s.shown)
           t == Prof!Deleted(s)
           k == [t EXCEPT !.view = v, !.shown = v[1].id, !.draft = v[1]]
<1>1. s \in SecType /\ s.view \in Seq(Prof!Profile) /\ s.stored \in Seq(Prof!Profile) /\ s.active \in 1..MaxProfiles
  BY DEF SecKeeps, SecType
<1>2. Unique(s.view) /\ Unique(s.stored) /\ Prof!IdsOf(s.view) \subseteq Prof!IdsOf(s.stored) /\ s.active \in Prof!IdsOf(s.stored)
  BY DEF SecKeeps, StoreKeeps
<1>3. /\ v \in Seq(Prof!Profile) /\ Unique(v) /\ Prof!IdsOf(v) = Prof!IdsOf(s.view) \ {s.shown}
      /\ v # <<>> /\ v[1] \in Prof!Profile /\ v[1].id \in Prof!IdsOf(v)
  BY <1>1, <1>2, ProfileWithout, ProfileLeft
<1>4. Len(s.stored) > 1
  <2>1. 1 \in 1..Len(s.view) /\ 2 \in 1..Len(s.view) /\ s.view[1].id # s.view[2].id
    BY <1>1, <1>2 DEF Unique
  <2>2. s.view[1].id \in Prof!IdsOf(s.stored) /\ s.view[2].id \in Prof!IdsOf(s.stored)
    BY <1>1, <1>2, <2>1, ProfileIds
  <2>3. Prof!IdsOf(s.stored) = {s.stored[i].id : i \in 1..Len(s.stored)} /\ Len(s.stored) \in Nat
    BY <1>1, ProfileIds
  <2>4. PICK i \in 1..Len(s.stored), j \in 1..Len(s.stored) : s.stored[i].id = s.view[1].id /\ s.stored[j].id = s.view[2].id
    BY <2>2, <2>3
  <2>5. i # j
    BY <2>1, <2>4
  <2> QED BY <2>3, <2>5
<1>5. /\ w \in Seq(Prof!Profile) /\ Unique(w) /\ Prof!IdsOf(w) = Prof!IdsOf(s.stored) \ {s.shown}
      /\ w # <<>> /\ w[1] \in Prof!Profile /\ w[1].id \in Prof!IdsOf(w)
      /\ \A i \in 1..Len(w) : \E j \in 1..Len(s.stored) : w[i] = s.stored[j]
  BY <1>1, <1>2, <1>4, ProfileWithout, ProfileLeft
<1>6. ~(Len(s.stored) <= 1)
  BY <1>1, <1>4
<1> DEFINE a == IF s.active = s.shown THEN w[1].id ELSE s.active
<1>7. t = [s EXCEPT !.stored = w, !.active = a]
  BY <1>1, <1>6 DEF Prof!Deleted, SecType
<1>8. a \in 1..MaxProfiles /\ a \in Prof!IdsOf(w) /\ v[1].id \in 1..MaxProfiles
  BY <1>1, <1>2, <1>3, <1>5, ProfileFields
<1> HIDE DEF v, w, t, a
<1>9. k \in SecType
  BY <1>1, <1>3, <1>5, <1>7, <1>8 DEF SecType
<1>10. k.stored = w /\ k.active = a /\ k.view = v /\ k.shown = v[1].id /\ k.draft = v[1]
  BY <1>1, <1>7 DEF SecType
<1> HIDE DEF k
<1>11. StoreKeeps(k, ids)
  <2>1. \A i \in 1..Len(w) : w[i].id <= ids
    BY <1>5 DEF SecKeeps, StoreKeeps
  <2> QED BY <1>5, <1>10, <2>1 DEF StoreKeeps
<1>12. SecKeeps(k, ids)
  BY <1>2, <1>3, <1>5, <1>8, <1>9, <1>10, <1>11 DEF SecKeeps
<1> QED BY <1>12 DEF k, t, v

\* The panel starts with the invariant (modelProfiles.ts).
LEMMA ProfilesInit ==
  ASSUME Prof!Init PROVE ProfilesInv
<1>1. PICK n \in 1..MaxProfiles - 1, active \in 1..MaxProfiles :
        panel = Prof!Loads([ sec |-> [k \in Prof!Kinds |->
                               [stored |-> [i \in 1..n |-> [id |-> i, v |-> 0]], active |-> active,
                                view |-> <<>>, shown |-> 1, draft |-> [id |-> 1, v |-> 0]]],
                             applying |-> {}, ids |-> n, versions |-> 0 ])
  BY DEF Prof!Init
<1> DEFINE st == [i \in 1..n |-> [id |-> i, v |-> 0]]
           s == [stored |-> st, active |-> active, view |-> <<>>, shown |-> 1, draft |-> [id |-> 1, v |-> 0]]
<1>2. n \in Nat /\ n \in 0..MaxProfiles /\ 1 \in 1..n /\ 1..n \subseteq 1..MaxProfiles /\ 0 \in 0..MaxProfileEdits
  BY ProfilesAssumption
<1>3. \A i \in 1..n : [id |-> i, v |-> 0] \in Prof!Profile
  BY <1>2 DEF Prof!Profile
<1>4. st \in Seq(Prof!Profile) /\ Len(st) = n /\ \A i \in 1..n : st[i].id = i
  <2>1. st \in [1..n -> Prof!Profile] /\ \A i \in 1..n : st[i].id = i
    BY <1>3
  <2> HIDE DEF st
  <2> QED BY <1>2, <2>1
<1>5. panel = Prof!Loads([ sec |-> [k \in Prof!Kinds |-> s], applying |-> {}, ids |-> n, versions |-> 0 ])
  BY <1>1
<1> HIDE DEF st
<1>6. s \in SecType
  BY <1>2, <1>3, <1>4 DEF SecType
<1>7. s.stored = st
  OBVIOUS
<1> HIDE DEF s
<1>8. StoreKeeps(s, n)
  BY <1>2, <1>4, <1>7 DEF StoreKeeps, Unique
<1>9. SecKeeps(Prof!Load(s), n)
  BY <1>2, <1>6, <1>8, ProfileLoads
<1>10. panel = [ sec |-> [k \in Prof!Kinds |-> Prof!Load(s)], applying |-> {}, ids |-> n, versions |-> 0 ]
  BY <1>5 DEF Prof!Loads
<1>11. panel \in ProfilesType
  BY <1>2, <1>9, <1>10 DEF ProfilesType, SecKeeps
<1> QED BY <1>9, <1>10, <1>11 DEF ProfilesInv, ProfilesKeeps

\* The panel with another section.
PanelWith(k, s, ids, versions) == [panel EXCEPT !.sec[k] = s, !.ids = ids, !.versions = versions]

\* One section changes.
LEMMA ProfilesSet ==
  ASSUME ProfilesInv, NEW k \in Prof!Kinds, NEW ids \in 0..MaxProfiles, panel.ids <= ids, NEW s, SecKeeps(s, ids),
         NEW versions \in 0..MaxProfileEdits, panel' = PanelWith(k, s, ids, versions)
  PROVE  ProfilesInv'
<1>1. panel.sec \in [Prof!Kinds -> SecType] /\ s \in SecType /\ panel.ids \in Nat /\ panel \in ProfilesType
      /\ panel.applying \subseteq [Prof!Kinds -> Prof!Profile]
  BY DEF ProfilesInv, ProfilesType, SecKeeps
<1> DEFINE f == [panel.sec EXCEPT ![k] = s]
<1>2. f \in [Prof!Kinds -> SecType] /\ f[k] = s /\ \A l \in Prof!Kinds : l # k => f[l] = panel.sec[l]
  BY <1>1
<1>3. panel' = [panel EXCEPT !.sec = f, !.ids = ids, !.versions = versions]
  BY DEF ProfilesInv, ProfilesType, PanelWith
<1> HIDE DEF f
<1>4. panel' \in ProfilesType
  BY <1>1, <1>2, <1>3 DEF ProfilesType
<1>5. panel'.sec = f /\ panel'.ids = ids /\ panel'.applying = panel.applying
  BY <1>1, <1>3 DEF ProfilesType
<1>6. ASSUME NEW l \in Prof!Kinds PROVE SecKeeps(f[l], ids)
  <2>1. CASE l = k
    BY <1>2, <2>1
  <2>2. CASE l # k
    <3>1. SecKeeps(panel.sec[l], panel.ids) /\ f[l] = panel.sec[l]
      BY <1>2, <2>2 DEF ProfilesInv, ProfilesKeeps
    <3>2. \A i \in 1..Len(f[l].stored) : f[l].stored[i].id <= ids
      <4>1. f[l].stored \in Seq(Prof!Profile)
        BY <3>1 DEF SecKeeps, SecType
      <4>2. \A i \in 1..Len(f[l].stored) : f[l].stored[i].id \in Nat
        BY <4>1, ElementOfSeq, ProfileFields
      <4> QED BY <1>1, <3>1, <4>2 DEF SecKeeps, StoreKeeps
    <3> QED BY <3>1, <3>2 DEF SecKeeps, StoreKeeps
  <2> QED BY <2>1, <2>2
<1>7. ASSUME NEW d \in panel.applying, NEW l \in Prof!Kinds PROVE d[l].id <= ids
  <2>1. d[l].id <= panel.ids /\ d[l].id \in Nat
    BY <1>1, ProfileFields DEF ProfilesInv, ProfilesKeeps
  <2> QED BY <1>1, <2>1
<1> QED BY <1>4, <1>5, <1>6, <1>7 DEF ProfilesInv, ProfilesKeeps

\* All sections are read again.
LEMMA ProfilesLoad ==
  ASSUME NEW p \in ProfilesType, \A k \in Prof!Kinds : StoreKeeps(p.sec[k], p.ids), p.applying = {},
         panel' = Prof!Loads(p)
  PROVE  ProfilesInv'
<1> DEFINE f == [k \in Prof!Kinds |-> Prof!Load(p.sec[k])]
<1>1. p.ids \in 0..MaxProfiles /\ \A k \in Prof!Kinds : p.sec[k] \in SecType
  BY DEF ProfilesType
<1>2. \A k \in Prof!Kinds : SecKeeps(f[k], p.ids)
  BY <1>1, ProfileLoads
<1>3. panel' = [p EXCEPT !.sec = f]
  BY DEF Prof!Loads
<1>4. f \in [Prof!Kinds -> SecType]
  BY <1>2 DEF SecKeeps
<1> HIDE DEF f
<1>5. panel' \in ProfilesType /\ panel'.sec = f /\ panel'.ids = p.ids /\ panel'.applying = {}
  BY <1>3, <1>4 DEF ProfilesType
<1> QED BY <1>2, <1>5 DEF ProfilesInv, ProfilesKeeps

\* Every handler of the profiles panel keeps the invariant (modelProfiles.ts,
\* ExecutionProfiles.tsx).
LEMMA ProfilesNext ==
  ASSUME ProfilesInv, Prof!Next PROVE ProfilesInv'
<1>1. /\ panel \in ProfilesType /\ panel.ids \in 0..MaxProfiles /\ panel.versions \in 0..MaxProfileEdits /\ panel.ids \in Nat
      /\ \A k \in Prof!Kinds : SecKeeps(panel.sec[k], panel.ids)
  BY DEF ProfilesInv, ProfilesType, ProfilesKeeps
<1>2. ASSUME NEW k \in Prof!Kinds
      PROVE  panel.sec[k] \in SecType /\ panel.sec[k].view \in Seq(Prof!Profile) /\ panel.sec[k].draft \in Prof!Profile
             /\ StoreKeeps(panel.sec[k], panel.ids) /\ panel.sec[k].shown \in 1..MaxProfiles
  BY <1>1 DEF SecKeeps, SecType
<1>3. ASSUME NEW k \in Prof!Kinds, NEW p \in Prof!Profile, p.id \in Prof!IdsOf(panel.sec[k].view) PROVE p.id <= panel.ids
  <2>1. p.id \in Prof!IdsOf(panel.sec[k].stored)
    BY <1>1, <1>3 DEF SecKeeps
  <2>2. panel.sec[k].stored \in Seq(Prof!Profile)
    BY <1>2 DEF SecType
  <2> QED BY <1>2, <2>1, <2>2, ProfileIds DEF StoreKeeps
<1>4. CASE Prof!Select
  <2>a. PICK k \in Prof!Kinds : \E id \in Prof!IdsOf(panel.sec[k].view) :
          panel' = [panel EXCEPT !.sec[k] = Prof!Choose(panel.sec[k], id)]
    BY <1>4 DEF Prof!Select, Prof!Set
  <2>1. PICK id \in Prof!IdsOf(panel.sec[k].view) : panel' = [panel EXCEPT !.sec[k] = Prof!Choose(panel.sec[k], id)]
    BY <2>a
  <2>2. SecKeeps(Prof!Choose(panel.sec[k], id), panel.ids)
    BY <1>1, <1>2, ProfileChosen DEF SecKeeps
  <2> DEFINE s == Prof!Choose(panel.sec[k], id)
  <2> HIDE DEF s
  <2>3. panel' = PanelWith(k, s, panel.ids, panel.versions)
    BY <1>1, <2>1 DEF ProfilesType, s, PanelWith
  <2> QED BY <1>1, <2>2, <2>3, ProfilesSet DEF s
<1>5. CASE Prof!Edit
  <2>1. PICK k \in Prof!Kinds : /\ panel.versions < MaxProfileEdits
                              /\ panel' = [panel EXCEPT !.sec[k].draft.v = panel.versions + 1, !.versions = panel.versions + 1]
    BY <1>5 DEF Prof!Edit
  <2> DEFINE d == [panel.sec[k].draft EXCEPT !.v = panel.versions + 1]
             s == [panel.sec[k] EXCEPT !.draft = d]
  <2>2. panel.versions + 1 \in 0..MaxProfileEdits
    BY <1>1, <2>1, ProfilesAssumption
  <2>3. d \in Prof!Profile /\ d.id = panel.sec[k].draft.id
    BY <1>2, <2>2 DEF Prof!Profile
  <2>4. panel' = PanelWith(k, s, panel.ids, panel.versions + 1)
    BY <1>1, <2>1 DEF ProfilesType, PanelWith
  <2> HIDE DEF d
  <2>5. /\ s \in SecType /\ s.stored = panel.sec[k].stored /\ s.view = panel.sec[k].view /\ s.active = panel.sec[k].active
        /\ s.shown = panel.sec[k].shown /\ s.draft = d
    BY <1>2, <2>3 DEF SecType
  <2> HIDE DEF s
  <2>6. SecKeeps(s, panel.ids)
    BY <1>1, <2>3, <2>5 DEF SecKeeps, StoreKeeps
  <2> QED BY <1>1, <2>2, <2>4, <2>6, ProfilesSet
<1>6. CASE Prof!SaveDraft
  <2>1. PICK k \in Prof!Kinds : panel' = [panel EXCEPT !.sec[k] = Prof!Save(panel.sec[k], panel.sec[k].draft)]
    BY <1>6 DEF Prof!SaveDraft, Prof!Set
  <2> DEFINE s == Prof!Save(panel.sec[k], panel.sec[k].draft)
  <2>2. panel.sec[k].draft.id <= panel.ids
    BY <1>1, <1>2, <1>3 DEF SecKeeps
  <2>3. SecKeeps(s, panel.ids)
    BY <1>1, <1>2, <2>2, ProfileSaves
  <2> HIDE DEF s
  <2>4. panel' = PanelWith(k, s, panel.ids, panel.versions)
    BY <1>1, <2>1 DEF ProfilesType, s, PanelWith
  <2> QED BY <1>1, <2>3, <2>4, ProfilesSet
<1>7. CASE Prof!Renamed
  <2>1. PICK k \in Prof!Kinds :
          /\ panel.versions < MaxProfileEdits
          /\ panel' = [panel EXCEPT !.versions = panel.versions + 1,
                         !.sec[k] = Prof!Save(panel.sec[k], [id |-> panel.sec[k].shown, v |-> panel.versions + 1])]
    BY <1>7 DEF Prof!Renamed
  <2> DEFINE p == [id |-> panel.sec[k].shown, v |-> panel.versions + 1]
             s == Prof!Save(panel.sec[k], p)
  <2>2. panel.versions + 1 \in 0..MaxProfileEdits
    BY <1>1, <2>1, ProfilesAssumption
  <2>3. p \in Prof!Profile /\ p.id = panel.sec[k].shown
    BY <1>2, <2>2 DEF Prof!Profile
  <2>4. p.id <= panel.ids
    BY <1>1, <1>3, <2>3 DEF SecKeeps
  <2>5. SecKeeps(s, panel.ids)
    BY <1>1, <2>3, <2>4, ProfileSaves
  <2> HIDE DEF s
  <2>6. panel' = PanelWith(k, s, panel.ids, panel.versions + 1)
    BY <1>1, <2>1 DEF ProfilesType, s, PanelWith
  <2> QED BY <1>1, <2>2, <2>5, <2>6, ProfilesSet
<1>8. CASE Prof!Add
  <2>a. PICK k \in Prof!Kinds : \E w \in {0, Prof!Of(panel.sec[k].view, panel.sec[k].shown).v} :
          /\ panel.ids < MaxProfiles
          /\ panel' = [panel EXCEPT !.ids = panel.ids + 1,
                         !.sec[k] = Prof!Choose(Prof!Store([panel.sec[k] EXCEPT !.view = Append(panel.sec[k].view, [id |-> panel.ids + 1, v |-> w])],
                                                           [id |-> panel.ids + 1, v |-> w]), panel.ids + 1)]
    BY <1>8, <1>1 DEF Prof!Add, ProfilesType, SecType
  <2>1. PICK w \in {0, Prof!Of(panel.sec[k].view, panel.sec[k].shown).v} :
          /\ panel.ids < MaxProfiles
          /\ panel' = [panel EXCEPT !.ids = panel.ids + 1,
                         !.sec[k] = Prof!Choose(Prof!Store([panel.sec[k] EXCEPT !.view = Append(panel.sec[k].view, [id |-> panel.ids + 1, v |-> w])],
                                                           [id |-> panel.ids + 1, v |-> w]), panel.ids + 1)]
    BY <2>a
  <2> DEFINE p == [id |-> panel.ids + 1, v |-> w]
             s == Prof!Choose(Prof!Store([panel.sec[k] EXCEPT !.view = Append(panel.sec[k].view, p)], p), p.id)
  <2>2. panel.ids + 1 \in 1..MaxProfiles /\ panel.ids + 1 \in 0..MaxProfiles /\ panel.ids <= panel.ids + 1
    BY <1>1, <2>1, ProfilesAssumption
  <2>3. w \in 0..MaxProfileEdits
    <3>1. Prof!Of(panel.sec[k].view, panel.sec[k].shown) \in Prof!Profile
      BY <1>1, <1>2, ProfileOf DEF SecKeeps
    <3> QED BY <2>1, <3>1, ProfileFields, ProfilesAssumption
  <2>4. p \in Prof!Profile /\ p.id = panel.ids + 1
    BY <2>2, <2>3 DEF Prof!Profile
  <2>5. panel' = PanelWith(k, s, panel.ids + 1, panel.versions)
    BY <1>1, <2>1 DEF ProfilesType, PanelWith
  <2> HIDE DEF p
  <2>6. SecKeeps(s, panel.ids + 1)
    BY <1>1, <2>4, ProfileAdds
  <2> HIDE DEF s
  <2> QED BY <1>1, <2>2, <2>5, <2>6, ProfilesSet
<1>9. CASE Prof!Delete
  <2>1. PICK k \in Prof!Kinds :
          /\ Len(panel.sec[k].view) > 1
          /\ panel' = [panel EXCEPT !.sec[k] = [Prof!Deleted(panel.sec[k]) EXCEPT
                         !.view = Prof!Without(panel.sec[k].view, panel.sec[k].shown),
                         !.shown = Prof!Without(panel.sec[k].view, panel.sec[k].shown)[1].id,
                         !.draft = Prof!Without(panel.sec[k].view, panel.sec[k].shown)[1]]]
    BY <1>9 DEF Prof!Delete, Prof!Set
  <2> DEFINE left == Prof!Without(panel.sec[k].view, panel.sec[k].shown)
             s == [Prof!Deleted(panel.sec[k]) EXCEPT !.view = left, !.shown = left[1].id, !.draft = left[1]]
  <2>2. SecKeeps(s, panel.ids)
    BY <1>1, <2>1, ProfileDeletes
  <2> HIDE DEF s
  <2>3. panel' = PanelWith(k, s, panel.ids, panel.versions)
    BY <1>1, <2>1 DEF ProfilesType, s, PanelWith
  <2> QED BY <1>1, <2>2, <2>3, ProfilesSet
<1>10. CASE Prof!Apply
  <2> DEFINE drafts == [k \in Prof!Kinds |-> panel.sec[k].draft]
  <2>1. panel' = [panel EXCEPT !.applying = {drafts}]
    BY <1>10 DEF Prof!Apply
  <2>2. drafts \in [Prof!Kinds -> Prof!Profile] /\ \A k \in Prof!Kinds : drafts[k].id <= panel.ids
    BY <1>1, <1>2, <1>3 DEF SecKeeps
  <2> HIDE DEF drafts
  <2>3. panel' \in ProfilesType /\ panel'.sec = panel.sec /\ panel'.ids = panel.ids /\ panel'.applying = {drafts}
    BY <1>1, <2>1, <2>2 DEF ProfilesType
  <2> QED BY <1>1, <2>2, <2>3 DEF ProfilesInv, ProfilesKeeps
<1>11. CASE Prof!ApplyReturns
  <2>1. PICK drafts \in panel.applying :
          \/ panel' = Prof!Loads([panel EXCEPT !.applying = {}, !.sec = [k \in Prof!Kinds |-> Prof!Save(panel.sec[k], drafts[k])]])
          \/ panel' = [panel EXCEPT !.applying = {}]
    BY <1>11 DEF Prof!ApplyReturns
  <2>2. CASE panel' = [panel EXCEPT !.applying = {}]
    <3>1. panel' \in ProfilesType /\ panel'.sec = panel.sec /\ panel'.ids = panel.ids /\ panel'.applying = {}
      BY <1>1, <2>2 DEF ProfilesType
    <3> QED BY <1>1, <3>1 DEF ProfilesInv, ProfilesKeeps
  <2>3. CASE panel' = Prof!Loads([panel EXCEPT !.applying = {}, !.sec = [k \in Prof!Kinds |-> Prof!Save(panel.sec[k], drafts[k])]])
    <3> DEFINE f == [k \in Prof!Kinds |-> Prof!Save(panel.sec[k], drafts[k])]
               p == [panel EXCEPT !.applying = {}, !.sec = f]
    <3>1. \A k \in Prof!Kinds : drafts[k] \in Prof!Profile /\ drafts[k].id <= panel.ids
      BY <1>1, <2>1 DEF ProfilesInv, ProfilesKeeps, ProfilesType
    <3>2. \A k \in Prof!Kinds : SecKeeps(f[k], panel.ids)
      BY <1>1, <3>1, ProfileSaves
    <3>3. f \in [Prof!Kinds -> SecType] /\ \A k \in Prof!Kinds : StoreKeeps(f[k], panel.ids)
      BY <3>2 DEF SecKeeps
    <3> HIDE DEF f
    <3>4. p \in ProfilesType /\ p.sec = f /\ p.ids = panel.ids /\ p.applying = {}
      BY <1>1, <3>3 DEF ProfilesType
    <3>5. panel' = Prof!Loads(p)
      BY <2>3 DEF f
    <3> HIDE DEF p
    <3> QED BY <3>3, <3>4, <3>5, ProfilesLoad
  <2> QED BY <2>1, <2>2, <2>3
<1>12. CASE Prof!ConfigChanges
  <2> DEFINE f == [k \in Prof!Kinds |-> Prof!Load(panel.sec[k])]
  <2>1. \A k \in Prof!Kinds : SecKeeps(f[k], panel.ids)
    BY <1>1, <1>2, ProfileLoads
  <2>2. panel' = [panel EXCEPT !.sec = f]
    BY <1>12 DEF Prof!ConfigChanges, Prof!Loads
  <2>3. f \in [Prof!Kinds -> SecType]
    BY <2>1 DEF SecKeeps
  <2> HIDE DEF f
  <2>4. panel' \in ProfilesType /\ panel'.sec = f /\ panel'.ids = panel.ids /\ panel'.applying = panel.applying
    BY <1>1, <2>2, <2>3 DEF ProfilesType
  <2> QED BY <2>1, <2>4 DEF ProfilesInv, ProfilesKeeps
<1> QED BY <1>4, <1>5, <1>6, <1>7, <1>8, <1>9, <1>10, <1>11, <1>12 DEF Prof!Next

\* What the invariant says of the profiles panel: its type, and what is
\* selected is stored.
LEMMA ProfilesShow ==
  ASSUME ProfilesInv PROVE Prof!TypeOK /\ Prof!SelectionIsStored
<1> SUFFICES ASSUME NEW k \in Prof!Kinds
             PROVE  LET s == panel.sec[k] IN
                    /\ s.stored \in Seq(Prof!Profile) /\ s.view \in Seq(Prof!Profile)
                    /\ s.active \in 1..MaxProfiles /\ s.shown \in Prof!IdsOf(s.view) /\ s.draft \in Prof!Profile
                    /\ s.stored # <<>> /\ s.active \in Prof!IdsOf(s.stored) /\ Prof!IdsOf(s.view) \subseteq Prof!IdsOf(s.stored)
                    /\ \A i, j \in DOMAIN s.stored : s.stored[i].id = s.stored[j].id => i = j
  BY DEF Prof!TypeOK, Prof!SelectionIsStored
<1> DEFINE s == panel.sec[k]
<1>1. SecKeeps(s, panel.ids)
  BY DEF ProfilesInv, ProfilesKeeps
<1> HIDE DEF s
<1>2. s.stored \in Seq(Prof!Profile) /\ s.view \in Seq(Prof!Profile) /\ s.active \in 1..MaxProfiles /\ s.draft \in Prof!Profile
  BY <1>1 DEF SecKeeps, SecType
<1>3. DOMAIN s.stored = 1..Len(s.stored)
  BY <1>2
<1> QED BY <1>1, <1>2, <1>3 DEF SecKeeps, StoreKeeps, Unique, s

-----------------------------------------------------------------------------
\* A list of projects: within its limit, no two of an id or of a name, the ids made so far.
ListGood(list, ids) ==
  /\ list \in Seq(Proj!Project) /\ Len(list) <= MaxProjects
  /\ \A i, j \in 1..Len(list) : i # j => list[i].id # list[j].id /\ list[i].name # list[j].name
  /\ \A i \in 1..Len(list) : list[i].id <= ids
EditorType == [name : ProjectNames \cup {""}, v : 0..MaxProjectEdits]
OptionalId == 1..MaxProjectIds \cup {NoProjectId}
ProjectsType ==
  [ stored : Seq(Proj!Project), listed : Seq(Proj!Project), active : OptionalId, selected : OptionalId,
    editor : EditorType, edited : BOOLEAN, refused : BOOLEAN, applying : SUBSET (1..MaxProjectIds),
    importing : SUBSET Seq(Proj!Project), ids : 0..MaxProjectIds, versions : 0..MaxProjectEdits ]
ProjectsKeeps(p) ==
  /\ ListGood(p.stored, p.ids) /\ ListGood(p.listed, p.ids) /\ (~p.refused => p.listed = p.stored)
  /\ \A list \in p.importing : ListGood(list, p.ids)
  /\ p.active = NoProjectId \/ p.active <= p.ids
  /\ \A id \in p.applying : id <= p.ids
ProjectsShows(p) ==
  /\ p.selected \in Proj!IdsOf(p.listed) \cup {NoProjectId}
  /\ ~p.edited /\ ~p.refused => p.editor = Proj!Content(p.listed, p.selected)
ProjectsInv == panel \in ProjectsType /\ ProjectsKeeps(panel) /\ ProjectsShows(panel)

\* The fields of a project.
LEMMA ProjectFields ==
  ASSUME NEW p \in Proj!Project
  PROVE  p.id \in 1..MaxProjectIds /\ p.id \in Nat /\ p.name \in ProjectNames /\ p.v \in 0..MaxProjectEdits
BY ProjectsAssumption DEF Proj!Project, Proj!Ids

\* The ids in a list of projects, by its places.
LEMMA ProjectIds ==
  ASSUME NEW T, NEW s \in Seq(T)
  PROVE  Proj!IdsOf(s) = {s[i].id : i \in 1..Len(s)}
<1>1. DOMAIN s = 1..Len(s)
  OBVIOUS
<1> QED BY <1>1 DEF Proj!IdsOf

\* What an editor shows of a project.
LEMMA ProjectContent ==
  ASSUME NEW list, NEW ids, ListGood(list, ids), NEW i \in 1..Len(list)
  PROVE  Proj!Content(list, list[i].id) = [name |-> list[i].name, v |-> list[i].v]
<1> DEFINE c == CHOOSE j \in DOMAIN list : list[j].id = list[i].id
<1>1. DOMAIN list = 1..Len(list)
  BY DEF ListGood
<1>2. c \in 1..Len(list) /\ list[c].id = list[i].id
  BY <1>1
<1>3. list[i].id \in Proj!IdsOf(list)
  BY <1>1 DEF Proj!IdsOf
<1>4. Proj!Content(list, list[i].id) = [name |-> list[c].name, v |-> list[c].v]
  BY <1>3 DEF Proj!Content
<1> HIDE DEF c
<1>5. c = i
  BY <1>2 DEF ListGood
<1> QED BY <1>4, <1>5

\* What the editor shows of an id has the type of what it can show, also if no
\* project has it (Projects.tsx).
LEMMA ProjectContentType ==
  ASSUME NEW list, NEW ids, ListGood(list, ids), NEW id
  PROVE  Proj!Content(list, id) \in EditorType
<1>1. CASE id \in Proj!IdsOf(list)
  <2>1. list \in Seq(Proj!Project)
    BY DEF ListGood
  <2>2. PICK i \in 1..Len(list) : list[i].id = id
    BY <1>1, <2>1, ProjectIds
  <2>3. list[i] \in Proj!Project
    BY <2>1, ElementOfSeq
  <2>4. Proj!Content(list, id) = [name |-> list[i].name, v |-> list[i].v]
    BY <2>2, ProjectContent
  <2>5. list[i].name \in ProjectNames \cup {""} /\ list[i].v \in 0..MaxProjectEdits
    BY <2>3, ProjectFields
  <2>6. [name |-> list[i].name, v |-> list[i].v] \in EditorType
    BY <2>5 DEF EditorType
  <2> QED BY <2>4, <2>6
<1>2. CASE id \notin Proj!IdsOf(list)
  <2>1. Proj!Content(list, id) = [name |-> "", v |-> 0]
    BY <1>2 DEF Proj!Content, Proj!NoProject
  <2>2. 0 \in 0..MaxProjectEdits /\ "" \in ProjectNames \cup {""}
    BY ProjectsAssumption
  <2>3. [name |-> "", v |-> 0] \in EditorType
    BY <2>2 DEF EditorType
  <2> QED BY <2>1, <2>3
<1> QED BY <1>1, <1>2

\* What is not a project has no content.
LEMMA ProjectNone ==
  ASSUME NEW list, NEW ids, ListGood(list, ids)
  PROVE  /\ NoProjectId \notin Proj!IdsOf(list)
         /\ \A id : id \notin Proj!IdsOf(list) => Proj!Content(list, id) = Proj!Content(list, NoProjectId)
<1>1. list \in Seq(Proj!Project)
  BY DEF ListGood
<1>2. \A i \in 1..Len(list) : list[i].id \in 1..MaxProjectIds
  BY <1>1, ElementOfSeq, ProjectFields
<1>3. NoProjectId \notin Proj!IdsOf(list)
  BY <1>1, <1>2, ProjectIds, ProjectsAssumption
<1> QED BY <1>3 DEF Proj!Content

\* A part of a list of projects is one, and its projects keep their content.
LEMMA ProjectsAmong ==
  ASSUME NEW list, NEW ids, ListGood(list, ids), NEW S
  PROVE  ListGood(Proj!Among(list, S), ids) /\ Filters(Proj!Among(list, S), list, S)
<1> DEFINE k == Among(list, S)
<1>1. Proj!Among(list, S) = k
  BY DEF Proj!Among, Among
<1>2. list \in Seq(Proj!Project) /\ Len(list) <= MaxProjects /\ Len(list) \in Nat
  BY DEF ListGood
<1>3. k \in Seq(Proj!Project) /\ Filters(k, list, S)
  BY <1>2, AmongMembers
<1> HIDE DEF k
<1>4. /\ Len(k) <= Len(list) /\ Len(k) \in Nat
      /\ \A i \in 1..Len(k) : k[i] \in S /\ \E j \in 1..Len(list) : k[i] = list[j]
      /\ \A j \in 1..Len(list) : list[j] \in S => \E i \in 1..Len(k) : k[i] = list[j]
      /\ \A i, j \in 1..Len(k) : i < j => \E a, b \in 1..Len(list) : a < b /\ k[i] = list[a] /\ k[j] = list[b]
  BY <1>3 DEF Filters
<1>5. ASSUME NEW i \in 1..Len(k), NEW j \in 1..Len(k), i < j PROVE k[i].id # k[j].id /\ k[i].name # k[j].name
  <2>1. PICK a \in 1..Len(list), b \in 1..Len(list) : a < b /\ k[i] = list[a] /\ k[j] = list[b]
    BY <1>4, <1>5
  <2>2. a # b
    BY <2>1
  <2> QED BY <2>1, <2>2 DEF ListGood
<1>6. ASSUME NEW i \in 1..Len(k), NEW j \in 1..Len(k), i # j PROVE k[i].id # k[j].id /\ k[i].name # k[j].name
  <2>1. i < j \/ j < i
    BY <1>4, <1>6
  <2> QED BY <1>5, <2>1
<1>7. \A i \in 1..Len(k) : k[i].id <= ids
  BY <1>4 DEF ListGood
<1>8. Len(k) <= MaxProjects
  BY <1>2, <1>4, ProjectsAssumption
<1>9. ListGood(k, ids)
  BY <1>3, <1>6, <1>7, <1>8 DEF ListGood
<1> QED BY <1>1, <1>3, <1>9

\* What is kept of a list of projects is its beginning, within the limit.
LEMMA ProjectsKept ==
  ASSUME NEW s \in Seq(Proj!Project)
  PROVE  LET k == Proj!Kept(s) IN
         /\ k \in Seq(Proj!Project) /\ Len(k) <= Len(s) /\ Len(k) <= MaxProjects
         /\ \A i \in 1..Len(k) : k[i] = s[i]
         /\ Len(s) > 0 => Len(k) > 0
<1> DEFINE m == IF Len(s) < MaxProjects THEN Len(s) ELSE MaxProjects
<1>1. m \in 0..Len(s) /\ m <= MaxProjects /\ m \in Nat /\ (Len(s) > 0 => m > 0)
  BY ProjectsAssumption
<1>2. Proj!Kept(s) = SubSeq(s, 1, m)
  BY DEF Proj!Kept
<1> HIDE DEF m
<1>3. \A i \in 1..m : s[i] \in Proj!Project
  BY <1>1, ElementOfSeq
<1>4. SubSeq(s, 1, m) \in Seq(Proj!Project) /\ Len(SubSeq(s, 1, m)) = m /\ \A i \in 1..m : SubSeq(s, 1, m)[i] = s[i]
  BY <1>1, <1>3, SubSeqProperties
<1> QED BY <1>1, <1>2, <1>4

\* A project that is written is the first, alone with its id and its name.
LEMMA ProjectsUpsert ==
  ASSUME NEW list, NEW ids \in Nat, ListGood(list, ids), NEW p \in Proj!Project, NEW n \in Nat, ids <= n, p.id <= n
  PROVE  LET k == Proj!Upsert(p, list) IN
         ListGood(k, n) /\ Len(k) > 0 /\ k[1] = p /\ p.id \in Proj!IdsOf(k)
         /\ Proj!Content(k, p.id) = [name |-> p.name, v |-> p.v]
<1> DEFINE S == {q \in Proj!Project : q.id # p.id /\ q.name # p.name}
           w == Proj!Among(list, S)
           s == <<p>> \o w
           k == Proj!Kept(s)
<1>1. Proj!Upsert(p, list) = k
  BY DEF Proj!Upsert
<1>2. ListGood(w, ids) /\ \A i \in 1..Len(w) : w[i].id # p.id /\ w[i].name # p.name
  <2>1. ListGood(w, ids) /\ Filters(w, list, S)
    BY ProjectsAmong
  <2>2. \A i \in 1..Len(w) : w[i] \in S
    <3> HIDE DEF w, S
    <3> QED BY <2>1 DEF Filters
  <2> QED BY <2>1, <2>2
<1> HIDE DEF w
<1>3. w \in Seq(Proj!Project) /\ Len(w) \in Nat
  BY <1>2 DEF ListGood
<1>4. s \in Seq(Proj!Project) /\ Len(s) = Len(w) + 1 /\ s[1] = p /\ \A i \in 2..Len(s) : s[i] = w[i - 1] /\ i - 1 \in 1..Len(w)
  BY <1>3
<1> HIDE DEF s
<1>5. ASSUME NEW i \in 1..Len(s), NEW j \in 1..Len(s), i # j PROVE s[i].id # s[j].id /\ s[i].name # s[j].name
  <2>1. (i = 1 \/ i \in 2..Len(s)) /\ (j = 1 \/ j \in 2..Len(s))
    BY <1>3, <1>4
  <2>2. CASE i = 1
    BY <1>2, <1>4, <1>5, <2>1, <2>2
  <2>3. CASE j = 1
    BY <1>2, <1>4, <1>5, <2>1, <2>3
  <2>4. CASE i \in 2..Len(s) /\ j \in 2..Len(s)
    <3>1. i - 1 \in 1..Len(w) /\ j - 1 \in 1..Len(w) /\ i - 1 # j - 1 /\ s[i] = w[i - 1] /\ s[j] = w[j - 1]
      BY <1>4, <1>5, <2>4
    <3> QED BY <1>2, <3>1 DEF ListGood
  <2> QED BY <2>1, <2>2, <2>3, <2>4
<1>6. ASSUME NEW i \in 1..Len(s) PROVE s[i].id <= n
  <2>1. CASE i = 1
    BY <1>4, <2>1
  <2>2. CASE i \in 2..Len(s)
    <3>1. s[i].id <= ids /\ s[i].id \in Nat
      BY <1>2, <1>3, <1>4, <2>2, ElementOfSeq, ProjectFields DEF ListGood
    <3> QED BY <3>1
  <2> QED BY <1>3, <1>4, <2>1, <2>2
<1>7. /\ k \in Seq(Proj!Project) /\ Len(k) <= Len(s) /\ Len(k) <= MaxProjects /\ Len(k) > 0
      /\ \A i \in 1..Len(k) : k[i] = s[i]
  <2>1. Len(s) > 0
    BY <1>3, <1>4
  <2> QED BY <1>4, <2>1, ProjectsKept
<1> HIDE DEF k
<1>8. Len(k) \in Nat /\ Len(s) \in Nat /\ 1 \in 1..Len(k) /\ \A i \in 1..Len(k) : i \in 1..Len(s)
  BY <1>4, <1>7
<1>9. ListGood(k, n)
  BY <1>5, <1>6, <1>7, <1>8 DEF ListGood
<1>10. k[1] = p
  BY <1>4, <1>7, <1>8
<1>11. p.id \in Proj!IdsOf(k)
  BY <1>7, <1>8, <1>10, ProjectIds
<1>12. Proj!Content(k, p.id) = [name |-> p.name, v |-> p.v]
  BY <1>8, <1>9, <1>10, ProjectContent
<1> QED BY <1>1, <1>7, <1>9, <1>10, <1>11, <1>12

\* The editor follows a new selection.
LEMMA ProjectsHydrated ==
  ASSUME NEW p \in ProjectsType, ProjectsKeeps(p), NEW id \in OptionalId
  PROVE  LET k == Proj!Hydrated(p, id) IN
         /\ k \in ProjectsType /\ ProjectsKeeps(k)
         /\ (id # p.selected \/ ProjectsShows(p)) => ProjectsShows(k)
         /\ k.selected = p.selected \/ ProjectsShows(k)
         /\ k.stored = p.stored /\ k.listed = p.listed /\ k.ids = p.ids
<1>1. CASE id = p.selected
  BY <1>1 DEF Proj!Hydrated
<1>2. CASE id # p.selected
  <2> DEFINE a == IF id \in Proj!IdsOf(p.listed) THEN id ELSE NoProjectId
             e == Proj!Content(p.listed, id)
             b == p.refused /\ p.listed # p.stored
             k == [p EXCEPT !.selected = a, !.editor = e, !.edited = FALSE, !.refused = b]
  <2>1. Proj!Hydrated(p, id) = k
    BY <1>2 DEF Proj!Hydrated
  <2>2. ListGood(p.listed, p.ids) /\ b \in BOOLEAN /\ (~p.refused => p.listed = p.stored)
    BY DEF ProjectsKeeps
  <2>3. e \in EditorType
    BY <2>2, ProjectContentType
  <2>4. a \in OptionalId /\ a \in Proj!IdsOf(p.listed) \cup {NoProjectId}
    BY DEF OptionalId
  <2>5. e = Proj!Content(p.listed, a)
    BY <2>2, ProjectNone
  <2>b. ~b => p.listed = p.stored
    BY <2>2
  <2> HIDE DEF a, e, b
  <2>6. k \in ProjectsType
    BY <2>2, <2>3, <2>4 DEF ProjectsType
  <2>7. /\ k.stored = p.stored /\ k.listed = p.listed /\ k.selected = a /\ k.editor = e /\ k.edited = FALSE /\ k.refused = b
        /\ k.active = p.active /\ k.applying = p.applying /\ k.importing = p.importing /\ k.ids = p.ids
    BY DEF ProjectsType
  <2> HIDE DEF k
  <2>8. ProjectsKeeps(k)
    BY <2>b, <2>7 DEF ProjectsKeeps
  <2>9. ProjectsShows(k)
    BY <2>4, <2>5, <2>7 DEF ProjectsShows
  <2> QED BY <2>1, <2>6, <2>7, <2>8, <2>9 DEF b
<1> QED BY <1>1, <1>2

\* An editor nobody has typed in shows what is stored of the project that is selected.
ProjectsFits(p) == ~p.edited /\ ~p.refused => p.editor = Proj!Content(p.stored, p.selected)

\* The list is read again, and the panel selects what is active.
LEMMA ProjectsRefreshed ==
  ASSUME NEW p \in ProjectsType, ListGood(p.stored, p.ids),
         \A list \in p.importing : ListGood(list, p.ids),
         p.active = NoProjectId \/ p.active <= p.ids, \A id \in p.applying : id <= p.ids
  PROVE  LET k == Proj!Refreshed(p) IN
         /\ k \in ProjectsType /\ ProjectsKeeps(k) /\ k.stored = p.stored /\ k.ids = p.ids
         /\ (Proj!Followed(p.stored, p.active) # p.selected \/ ProjectsFits(p)) => ProjectsShows(k)
<1> DEFINE q == [p EXCEPT !.listed = p.stored]
           a == Proj!Followed(p.stored, p.active)
<1>1. Proj!Refreshed(p) = Proj!Hydrated(q, a)
  BY DEF Proj!Refreshed
<1>2. p.stored \in Seq(Proj!Project) /\ p.active \in OptionalId
  BY DEF ProjectsType
<1>3. a \in OptionalId
  <2>1. p.stored # <<>> => p.stored[1].id \in 1..MaxProjectIds
    <3>1. ASSUME p.stored # <<>> PROVE p.stored[1] \in Proj!Project
      <4>1. 1 \in 1..Len(p.stored)
        BY <1>2, <3>1
      <4> QED BY <1>2, <4>1, ElementOfSeq
    <3> QED BY <3>1, ProjectFields
  <2> QED BY <1>2, <2>1 DEF Proj!Followed, OptionalId
<1>f. a \in Proj!IdsOf(p.stored) \cup {NoProjectId}
  <2>1. p.stored # <<>> => p.stored[1].id \in Proj!IdsOf(p.stored)
    BY <1>2 DEF Proj!IdsOf
  <2> QED BY <2>1 DEF Proj!Followed
<1> HIDE DEF a
<1>4. q \in ProjectsType
  BY <1>2 DEF ProjectsType
<1>5. /\ q.stored = p.stored /\ q.listed = p.stored /\ q.selected = p.selected /\ q.editor = p.editor /\ q.edited = p.edited
      /\ q.refused = p.refused /\ q.active = p.active /\ q.applying = p.applying /\ q.importing = p.importing /\ q.ids = p.ids
  BY DEF ProjectsType
<1> HIDE DEF q
<1>6. ProjectsKeeps(q)
  BY <1>5 DEF ProjectsKeeps
<1>7. a = p.selected /\ ProjectsFits(p) => ProjectsShows(q)
  BY <1>f, <1>5 DEF ProjectsShows, ProjectsFits
<1> DEFINE k == Proj!Hydrated(q, a)
<1>8. /\ k \in ProjectsType /\ ProjectsKeeps(k) /\ k.stored = q.stored /\ k.ids = q.ids
      /\ (a # q.selected \/ ProjectsShows(q)) => ProjectsShows(k)
      /\ k.selected = q.selected \/ ProjectsShows(k)
  BY <1>3, <1>4, <1>6, ProjectsHydrated
<1> HIDE DEF k
<1>9. (a # p.selected \/ ProjectsFits(p)) => ProjectsShows(k)
  BY <1>5, <1>7, <1>8
<1> QED BY <1>1, <1>5, <1>8, <1>9 DEF k, a

\* The panel starts with the invariant (Projects.tsx).
LEMMA ProjectsInit ==
  ASSUME Proj!Init PROVE ProjectsInv
<1>1. PICK n \in 0..1, name \in ProjectNames, active \in {1, NoProjectId} :
        panel = Proj!Hydrated(
          [ stored |-> IF n = 0 THEN <<>> ELSE <<[id |-> 1, name |-> name, v |-> 0]>>,
            listed |-> IF n = 0 THEN <<>> ELSE <<[id |-> 1, name |-> name, v |-> 0]>>,
            active |-> active, selected |-> NoProjectId, editor |-> Proj!NoProject, edited |-> FALSE,
            refused |-> FALSE, applying |-> {}, importing |-> {}, ids |-> 1, versions |-> 0 ], active)
  BY DEF Proj!Init
<1> DEFINE one == [id |-> 1, name |-> name, v |-> 0]
           list == IF n = 0 THEN <<>> ELSE <<one>>
           p == [ stored |-> list, listed |-> list, active |-> active, selected |-> NoProjectId,
                  editor |-> Proj!NoProject, edited |-> FALSE, refused |-> FALSE, applying |-> {}, importing |-> {}, ids |-> 1,
                  versions |-> 0 ]
<1>2. /\ 1 \in 1..MaxProjectIds /\ 0 \in 0..MaxProjectEdits /\ 1 \in 0..MaxProjectIds /\ 1 <= MaxProjects
      /\ active \in OptionalId /\ NoProjectId \in OptionalId
  BY ProjectsAssumption DEF OptionalId
<1>3. one \in Proj!Project /\ one.id = 1
  BY <1>2 DEF Proj!Project, Proj!Ids
<1> HIDE DEF one
<1>4. list \in Seq(Proj!Project) /\ (list = <<>> \/ (Len(list) = 1 /\ list[1] = one))
  <2>1. <<one>> \in Seq(Proj!Project) /\ Len(<<one>>) = 1 /\ <<one>>[1] = one
    BY <1>3
  <2> QED BY <2>1
<1> HIDE DEF list
<1>5. ListGood(list, 1)
  <2>1. Len(list) \in 0..1 /\ \A i \in 1..Len(list) : i = 1 /\ list[i] = one
    BY <1>4
  <2> QED BY <1>2, <1>3, <1>4, <2>1, ProjectsAssumption DEF ListGood
<1>6. Proj!NoProject \in EditorType
  BY <1>2 DEF Proj!NoProject, EditorType
<1>7. p \in ProjectsType
  BY <1>2, <1>4, <1>6 DEF ProjectsType
<1>8. /\ p.stored = list /\ p.listed = list /\ p.selected = NoProjectId /\ p.editor = Proj!NoProject /\ p.active = active
      /\ p.applying = {} /\ p.importing = {} /\ p.ids = 1
  OBVIOUS
<1>9. panel = Proj!Hydrated(p, active)
  BY <1>1 DEF list, one
<1> HIDE DEF p
<1>10. ProjectsKeeps(p)
  BY <1>5, <1>8 DEF ProjectsKeeps
<1>11. ProjectsShows(p)
  <2>1. NoProjectId \notin Proj!IdsOf(list)
    BY <1>5, ProjectNone
  <2> QED BY <1>8, <2>1 DEF ProjectsShows, Proj!Content
<1> QED BY <1>2, <1>7, <1>9, <1>10, <1>11, ProjectsHydrated DEF ProjectsInv

\* A list stays within its ids when more are made.
LEMMA ProjectsMore ==
  ASSUME NEW list, NEW ids \in Nat, ListGood(list, ids), NEW n \in Nat, ids <= n
  PROVE  ListGood(list, n)
<1>1. \A i \in 1..Len(list) : list[i].id \in Nat
  BY ElementOfSeq, ProjectFields DEF ListGood
<1> QED BY <1>1 DEF ListGood

\* Every handler of the projects panel keeps the invariant (Projects.tsx).
LEMMA ProjectsNext ==
  ASSUME ProjectsInv, Proj!Next PROVE ProjectsInv'
<1>1. /\ panel \in ProjectsType /\ panel.stored \in Seq(Proj!Project) /\ panel.listed \in Seq(Proj!Project)
      /\ panel.active \in OptionalId /\ panel.selected \in OptionalId /\ panel.editor \in EditorType
      /\ panel.ids \in 0..MaxProjectIds /\ panel.ids \in Nat /\ panel.versions \in 0..MaxProjectEdits
      /\ panel.applying \subseteq 1..MaxProjectIds /\ panel.refused \in BOOLEAN
  BY DEF ProjectsInv, ProjectsType
<1>2. /\ ListGood(panel.stored, panel.ids) /\ ListGood(panel.listed, panel.ids)
      /\ ~panel.refused => panel.listed = panel.stored
      /\ \A list \in panel.importing : ListGood(list, panel.ids)
      /\ panel.active = NoProjectId \/ panel.active <= panel.ids
      /\ \A id \in panel.applying : id <= panel.ids
  BY DEF ProjectsInv, ProjectsKeeps
<1>s. /\ panel.selected \in Proj!IdsOf(panel.listed) \cup {NoProjectId}
      /\ ~panel.edited /\ ~panel.refused => panel.editor = Proj!Content(panel.listed, panel.selected)
  BY DEF ProjectsInv, ProjectsShows
<1>3. ASSUME NEW id \in Proj!IdsOf(panel.listed) PROVE id \in 1..MaxProjectIds /\ id <= panel.ids /\ id \in OptionalId /\ id # NoProjectId
  <2>1. PICK i \in 1..Len(panel.listed) : panel.listed[i].id = id
    BY <1>1, ProjectIds
  <2>2. panel.listed[i] \in Proj!Project
    BY <1>1, ElementOfSeq
  <2>3. id <= panel.ids
    BY <1>2, <2>1 DEF ListGood
  <2> QED BY <2>1, <2>2, <2>3, ProjectFields, ProjectsAssumption DEF OptionalId
<1>4. CASE Proj!LoadProject
  <2> DEFINE b == panel.refused /\ panel.listed # panel.stored
  <2>1. PICK id \in Proj!IdsOf(panel.listed) \cup {NoProjectId} :
          panel' = [panel EXCEPT !.selected = id, !.editor = Proj!Content(panel.listed, id), !.edited = FALSE, !.refused = b]
    BY <1>4 DEF Proj!LoadProject
  <2>2. id \in OptionalId /\ Proj!Content(panel.listed, id) \in EditorType
    BY <1>2, <1>3, ProjectContentType DEF OptionalId
  <2>b. b \in BOOLEAN /\ (~b => panel.listed = panel.stored)
    BY <1>2
  <2> HIDE DEF b
  <2>3. panel' \in ProjectsType
    BY <1>1, <2>b, <2>1, <2>2 DEF ProjectsType
  <2>4. /\ panel'.stored = panel.stored /\ panel'.listed = panel.listed /\ panel'.ids = panel.ids /\ panel'.selected = id
        /\ panel'.editor = Proj!Content(panel.listed, id) /\ panel'.active = panel.active /\ panel'.refused = b
        /\ panel'.applying = panel.applying /\ panel'.importing = panel.importing
    BY <1>1, <2>1 DEF ProjectsType
  <2>5. ProjectsKeeps(panel')
    BY <1>2, <2>b, <2>4 DEF ProjectsKeeps
  <2>6. ProjectsShows(panel')
    BY <2>1, <2>4 DEF ProjectsShows
  <2> QED BY <2>3, <2>5, <2>6 DEF ProjectsInv
<1>5. CASE Proj!Edit
  <2>1. PICK name \in ProjectNames :
          /\ panel.versions < MaxProjectEdits
          /\ panel' = [panel EXCEPT !.editor = [name |-> name, v |-> panel.versions + 1], !.edited = TRUE,
                                    !.versions = panel.versions + 1]
    BY <1>5 DEF Proj!Edit
  <2>2. panel.versions + 1 \in 0..MaxProjectEdits
    BY <1>1, <2>1, ProjectsAssumption
  <2>3. [name |-> name, v |-> panel.versions + 1] \in EditorType
    BY <2>2 DEF EditorType
  <2>4. panel' \in ProjectsType
    BY <1>1, <2>1, <2>2, <2>3 DEF ProjectsType
  <2>5. /\ panel'.stored = panel.stored /\ panel'.listed = panel.listed /\ panel'.ids = panel.ids
        /\ panel'.selected = panel.selected /\ panel'.edited = TRUE /\ panel'.active = panel.active
        /\ panel'.refused = panel.refused /\ panel'.applying = panel.applying /\ panel'.importing = panel.importing
    BY <1>1, <2>1 DEF ProjectsType
  <2>6. ProjectsKeeps(panel')
    BY <1>2, <2>5 DEF ProjectsKeeps
  <2>7. ProjectsShows(panel')
    BY <1>s, <2>5 DEF ProjectsShows
  <2> QED BY <2>4, <2>6, <2>7 DEF ProjectsInv
<1>6. CASE Proj!Save
  <2> DEFINE old == panel.selected \in Proj!IdsOf(panel.listed)
             id == IF old THEN panel.selected ELSE panel.ids + 1
             n == IF old THEN panel.ids ELSE panel.ids + 1
             p == [id |-> id, name |-> panel.editor.name, v |-> panel.editor.v]
             next == Proj!Upsert(p, panel.listed)
             made == [panel EXCEPT !.ids = n]
  <2>1. /\ panel.editor.name # "" /\ (old \/ panel.ids < MaxProjectIds)
        /\ \/ \E active \in {id, panel.active} :
                panel' = [made EXCEPT !.stored = next, !.listed = next, !.active = active, !.selected = id,
                                      !.edited = FALSE, !.refused = FALSE]
           \/ panel' = Proj!Refreshed([made EXCEPT !.active = id, !.refused = TRUE])
           \/ panel' = Proj!Hydrated([made EXCEPT !.listed = next, !.refused = TRUE], id)
    BY <1>6, Zenon DEF Proj!Save
  <2>2. id \in 1..MaxProjectIds /\ n \in 0..MaxProjectIds /\ n \in Nat /\ panel.ids <= n /\ id <= n
    <3>1. CASE old
      BY <1>1, <1>3, <3>1
    <3>2. CASE ~old
      <4>1. id = panel.ids + 1 /\ n = panel.ids + 1
        BY <3>2
      <4> HIDE DEF id, n
      <4>2. panel.ids < MaxProjectIds
        BY <2>1, <3>2
      <4> QED BY <1>1, <4>1, <4>2, ProjectsAssumption
    <3> QED BY <3>1, <3>2
  <2>3. p \in Proj!Project /\ p.id = id /\ panel.editor = [name |-> p.name, v |-> p.v]
    BY <1>1, <2>1, <2>2 DEF Proj!Project, Proj!Ids, EditorType
  <2> HIDE DEF id, n, p
  <2>4. ListGood(next, n) /\ id \in Proj!IdsOf(next) /\ Proj!Content(next, id) = panel.editor
    BY <1>1, <1>2, <2>2, <2>3, ProjectsUpsert
  <2>5. next \in Seq(Proj!Project) /\ id \in OptionalId
    BY <2>2, <2>4 DEF ListGood, OptionalId
  <2>8. /\ ListGood(panel.stored, n) /\ ListGood(panel.listed, n)
        /\ \A list \in panel.importing : ListGood(list, n)
    BY <1>1, <1>2, <2>2, ProjectsMore
  <2>9. /\ \A i \in panel.applying : i <= n
        /\ panel.active = NoProjectId \/ panel.active <= n
    <3>1. panel.active = NoProjectId \/ panel.active \in Nat
      BY <1>1, ProjectsAssumption DEF OptionalId
    <3> QED BY <1>1, <1>2, <2>2, <3>1, ProjectsAssumption
  <2> HIDE DEF next
  <2>m. /\ made \in ProjectsType /\ made.stored = panel.stored /\ made.listed = panel.listed /\ made.ids = n
        /\ made.selected = panel.selected /\ made.editor = panel.editor /\ made.edited = panel.edited
        /\ made.active = panel.active /\ made.applying = panel.applying /\ made.importing = panel.importing
    BY <1>1, <2>2 DEF ProjectsType
  <2> HIDE DEF made
  <2>10. ASSUME NEW active \in {id, panel.active},
                panel' = [made EXCEPT !.stored = next, !.listed = next, !.active = active, !.selected = id,
                                      !.edited = FALSE, !.refused = FALSE]
         PROVE  ProjectsInv'
    <3>1. panel' \in ProjectsType
      BY <1>1, <2>m, <2>5, <2>10 DEF ProjectsType
    <3>2. /\ panel'.stored = next /\ panel'.listed = next /\ panel'.ids = n /\ panel'.selected = id /\ panel'.active = active
          /\ panel'.editor = panel.editor /\ panel'.applying = panel.applying /\ panel'.importing = panel.importing
      BY <2>m, <2>10 DEF ProjectsType
    <3>3. ProjectsKeeps(panel')
      BY <2>2, <2>4, <2>8, <2>9, <2>10, <3>2 DEF ProjectsKeeps
    <3>4. ProjectsShows(panel')
      BY <2>4, <3>2 DEF ProjectsShows
    <3> QED BY <3>1, <3>3, <3>4 DEF ProjectsInv
  <2>11. CASE panel' = Proj!Refreshed([made EXCEPT !.active = id, !.refused = TRUE])
    <3> DEFINE r == [made EXCEPT !.active = id, !.refused = TRUE]
    <3>1. /\ r \in ProjectsType /\ r.stored = panel.stored /\ r.ids = n /\ r.active = id /\ r.refused = TRUE
          /\ r.applying = panel.applying /\ r.importing = panel.importing
      BY <2>m, <2>5 DEF ProjectsType
    <3>2. panel' = Proj!Refreshed(r)
      BY <2>11
    <3> HIDE DEF r
    <3>3. ProjectsFits(r)
      BY <3>1 DEF ProjectsFits
    <3>4. ListGood(r.stored, r.ids) /\ (\A list \in r.importing : ListGood(list, r.ids)) /\ \A i \in r.applying : i <= r.ids
      BY <2>8, <2>9, <3>1
    <3>5. r.active <= r.ids
      BY <2>2, <3>1
    <3> QED BY <3>1, <3>2, <3>3, <3>4, <3>5, ProjectsRefreshed DEF ProjectsInv
  <2>12. CASE panel' = Proj!Hydrated([made EXCEPT !.listed = next, !.refused = TRUE], id)
    <3> DEFINE r == [made EXCEPT !.listed = next, !.refused = TRUE]
    <3>1. /\ r \in ProjectsType /\ r.stored = panel.stored /\ r.listed = next /\ r.ids = n /\ r.active = panel.active
          /\ r.selected = panel.selected /\ r.refused = TRUE
          /\ r.applying = panel.applying /\ r.importing = panel.importing
      BY <2>m, <2>5 DEF ProjectsType
    <3>2. panel' = Proj!Hydrated(r, id)
      BY <2>12
    <3> HIDE DEF r
    <3>3. ProjectsKeeps(r)
      BY <2>4, <2>8, <2>9, <3>1 DEF ProjectsKeeps
    <3>4. id # r.selected \/ ProjectsShows(r)
      BY <2>4, <3>1 DEF ProjectsShows
    <3> QED BY <2>5, <3>1, <3>2, <3>3, <3>4, ProjectsHydrated DEF ProjectsInv
  <2> QED BY <2>1, <2>10, <2>11, <2>12
<1>7. CASE Proj!Apply
  <2>1. PICK id \in Proj!IdsOf(panel.listed) : panel' = [panel EXCEPT !.applying = panel.applying \cup {id}]
    BY <1>1, <1>7 DEF Proj!Apply
  <2>2. panel.applying \cup {id} \in SUBSET (1..MaxProjectIds) /\ \A i \in panel.applying \cup {id} : i <= panel.ids
    BY <1>1, <1>2, <1>3
  <2>3. panel' \in ProjectsType
    BY <1>1, <2>1, <2>2 DEF ProjectsType
  <2>4. /\ panel'.stored = panel.stored /\ panel'.listed = panel.listed /\ panel'.ids = panel.ids
        /\ panel'.selected = panel.selected /\ panel'.edited = panel.edited /\ panel'.editor = panel.editor
        /\ panel'.refused = panel.refused /\ panel'.active = panel.active
        /\ panel'.applying = panel.applying \cup {id} /\ panel'.importing = panel.importing
    BY <1>1, <2>1 DEF ProjectsType
  <2>5. ProjectsKeeps(panel')
    BY <1>2, <2>2, <2>4 DEF ProjectsKeeps
  <2>6. ProjectsShows(panel')
    BY <1>s, <2>4 DEF ProjectsShows
  <2> QED BY <2>3, <2>5, <2>6 DEF ProjectsInv
<1>8. CASE Proj!ApplyReturns
  <2>1. PICK id \in panel.applying :
          \/ panel' = Proj!Refreshed([panel EXCEPT !.applying = panel.applying \ {id}, !.active = id])
          \/ panel' = [panel EXCEPT !.applying = panel.applying \ {id}]
    BY <1>8 DEF Proj!ApplyReturns
  <2>2. panel.applying \ {id} \in SUBSET (1..MaxProjectIds) /\ id \in OptionalId /\ id <= panel.ids
    BY <1>1, <1>2 DEF OptionalId
  <2>3. CASE panel' = [panel EXCEPT !.applying = panel.applying \ {id}]
    <3>1. panel' \in ProjectsType
      BY <1>1, <2>2, <2>3 DEF ProjectsType
    <3>2. /\ panel'.stored = panel.stored /\ panel'.listed = panel.listed /\ panel'.ids = panel.ids
          /\ panel'.selected = panel.selected /\ panel'.edited = panel.edited /\ panel'.editor = panel.editor
          /\ panel'.refused = panel.refused /\ panel'.active = panel.active
          /\ panel'.applying = panel.applying \ {id} /\ panel'.importing = panel.importing
      BY <1>1, <2>3 DEF ProjectsType
    <3>3. ProjectsKeeps(panel')
      BY <1>2, <3>2 DEF ProjectsKeeps
    <3>4. ProjectsShows(panel')
      BY <1>s, <3>2 DEF ProjectsShows
    <3> QED BY <3>1, <3>3, <3>4 DEF ProjectsInv
  <2>4. CASE panel' = Proj!Refreshed([panel EXCEPT !.applying = panel.applying \ {id}, !.active = id])
    <3> DEFINE p == [panel EXCEPT !.applying = panel.applying \ {id}, !.active = id]
    <3>1. p \in ProjectsType
      BY <1>1, <2>2 DEF ProjectsType
    <3>2. /\ p.stored = panel.stored /\ p.listed = panel.listed /\ p.ids = panel.ids
          /\ p.selected = panel.selected /\ p.edited = panel.edited /\ p.editor = panel.editor /\ p.refused = panel.refused
          /\ p.active = id /\ p.applying = panel.applying \ {id} /\ p.importing = panel.importing
      BY <1>1 DEF ProjectsType
    <3>3. panel' = Proj!Refreshed(p)
      BY <2>4
    <3> HIDE DEF p
    <3>4. ProjectsFits(p)
      BY <1>2, <1>s, <3>2 DEF ProjectsFits
    <3>5. ListGood(p.stored, p.ids) /\ (\A list \in p.importing : ListGood(list, p.ids)) /\ \A i \in p.applying : i <= p.ids
      BY <1>2, <3>2
    <3>6. p.active <= p.ids
      BY <2>2, <3>2
    <3> QED BY <3>1, <3>3, <3>4, <3>5, <3>6, ProjectsRefreshed DEF ProjectsInv
  <2> QED BY <2>1, <2>3, <2>4
<1>9. CASE Proj!RemoveProject
  <2>0. PICK id \in Proj!IdsOf(panel.listed), stores \in BOOLEAN :
          LET next == Proj!Among(panel.listed, {q \in Proj!Project : q.id # id})
              first == IF next = <<>> THEN NoProjectId ELSE next[1].id
              gone == [panel EXCEPT !.stored = IF stores THEN next ELSE panel.stored, !.listed = next,
                                    !.refused = panel.refused \/ ~stores] IN
          \/ panel.selected # id /\ panel' = IF stores THEN Proj!Refreshed(gone) ELSE gone
          \/ panel.selected = id /\ panel' = Proj!Hydrated([gone EXCEPT !.listed = gone.stored, !.active = first], first)
          \/ panel.selected = id /\ panel' = Proj!Hydrated(gone, first)
    BY <1>9, Zenon DEF Proj!RemoveProject
  <2> DEFINE S == {q \in Proj!Project : q.id # id}
             next == Proj!Among(panel.listed, S)
             first == IF next = <<>> THEN NoProjectId ELSE next[1].id
             kept == IF stores THEN next ELSE panel.stored
             r == panel.refused \/ ~stores
             gone == [panel EXCEPT !.stored = kept, !.listed = next, !.refused = r]
             back == [gone EXCEPT !.listed = gone.stored, !.active = first]
  <2>1. \/ panel.selected # id /\ panel' = IF stores THEN Proj!Refreshed(gone) ELSE gone
        \/ panel.selected = id /\ panel' = Proj!Hydrated(back, first)
        \/ panel.selected = id /\ panel' = Proj!Hydrated(gone, first)
    BY <2>0, Zenon
  <2>3. /\ ListGood(next, panel.ids) /\ \A i \in 1..Len(next) : next[i].id # id /\ \E j \in 1..Len(panel.listed) : next[i] = panel.listed[j]
        /\ \A j \in 1..Len(panel.listed) : panel.listed[j].id # id => \E i \in 1..Len(next) : next[i] = panel.listed[j]
    <3> HIDE DEF next, S
    <3>1. /\ ListGood(next, panel.ids)
          /\ \A i \in 1..Len(next) : next[i] \in S /\ \E j \in 1..Len(panel.listed) : next[i] = panel.listed[j]
          /\ \A j \in 1..Len(panel.listed) : panel.listed[j] \in S => \E i \in 1..Len(next) : next[i] = panel.listed[j]
      <4>1. ListGood(panel.listed, panel.ids)
        BY <1>2
      <4>2. ListGood(next, panel.ids) /\ Filters(next, panel.listed, S)
        BY <4>1, ProjectsAmong DEF next
      <4> QED BY <4>2 DEF Filters
    <3>2. \A j \in 1..Len(panel.listed) : panel.listed[j] \in Proj!Project
      BY <1>1, ElementOfSeq
    <3> QED BY <3>1, <3>2 DEF S
  <2>e. \/ panel.selected # id /\ stores /\ panel' = Proj!Refreshed(gone)
        \/ panel.selected # id /\ ~stores /\ panel' = gone
        \/ panel.selected = id /\ panel' = Proj!Hydrated(back, first)
        \/ panel.selected = id /\ panel' = Proj!Hydrated(gone, first)
    BY <2>1, Zenon
  <2> HIDE DEF S, next
  <2>4. next \in Seq(Proj!Project) /\ \A i \in 1..Len(next) : next[i] \in Proj!Project
    BY <2>3, ElementOfSeq DEF ListGood
  <2>5. Proj!IdsOf(next) = Proj!IdsOf(panel.listed) \ {id}
    <3>1. Proj!IdsOf(next) = {next[i].id : i \in 1..Len(next)} /\ Proj!IdsOf(panel.listed) = {panel.listed[i].id : i \in 1..Len(panel.listed)}
      BY <1>1, <2>4, ProjectIds
    <3>2. \A i \in 1..Len(next) : next[i].id # id /\ next[i].id \in {panel.listed[j].id : j \in 1..Len(panel.listed)}
      BY <2>3
    <3>3. ASSUME NEW j \in 1..Len(panel.listed), panel.listed[j].id # id PROVE panel.listed[j].id \in {next[i].id : i \in 1..Len(next)}
      BY <2>3, <3>3
    <3> QED BY <3>1, <3>2, <3>3
  <2>6. first \in OptionalId /\ (first = NoProjectId \/ first <= panel.ids) /\ first # id
    <3>1. CASE next = <<>>
      BY <1>3, <3>1 DEF OptionalId
    <3>2. CASE next # <<>>
      <4>1. 1 \in 1..Len(next)
        BY <2>4, <3>2
      <4>2. next[1].id \in 1..MaxProjectIds /\ next[1].id <= panel.ids /\ next[1].id # id
        BY <2>3, <2>4, <4>1, ProjectFields DEF ListGood
      <4> QED BY <3>2, <4>2 DEF OptionalId
    <3> QED BY <3>1, <3>2
  <2>7. /\ kept \in Seq(Proj!Project) /\ ListGood(kept, panel.ids) /\ r \in BOOLEAN /\ (~r => kept = next)
        /\ (stores => kept = next /\ r = panel.refused) /\ (~stores => r)
    BY <1>1, <1>2, <2>3, <2>4
  <2> HIDE DEF first, kept, r
  <2>8. /\ gone \in ProjectsType /\ gone.stored = kept /\ gone.listed = next /\ gone.refused = r /\ gone.ids = panel.ids
        /\ gone.selected = panel.selected /\ gone.edited = panel.edited /\ gone.editor = panel.editor
        /\ gone.active = panel.active /\ gone.applying = panel.applying /\ gone.importing = panel.importing
    BY <1>1, <2>4, <2>7 DEF ProjectsType
  <2>9. /\ back \in ProjectsType /\ back.stored = kept /\ back.listed = kept /\ back.ids = panel.ids
        /\ back.selected = panel.selected /\ back.active = first
        /\ back.applying = panel.applying /\ back.importing = panel.importing
    BY <1>1, <2>6, <2>7, <2>8 DEF ProjectsType
  <2> HIDE DEF gone, back
  <2>10. ProjectsKeeps(gone)
    BY <1>2, <2>3, <2>7, <2>8 DEF ProjectsKeeps
  <2>11. ProjectsKeeps(back)
    BY <1>2, <2>6, <2>7, <2>9 DEF ProjectsKeeps
  <2>12. ASSUME panel.selected # id PROVE ProjectsShows(gone)
    <3>1. panel.selected \in Proj!IdsOf(next) \cup {NoProjectId}
      BY <1>s, <2>5, <2>12
    <3>2. Proj!Content(next, panel.selected) = Proj!Content(panel.listed, panel.selected)
      <4>1. CASE panel.selected \in Proj!IdsOf(next)
        <5>1. PICK i \in 1..Len(next) : next[i].id = panel.selected
          BY <2>4, <4>1, ProjectIds
        <5>2. PICK j \in 1..Len(panel.listed) : next[i] = panel.listed[j]
          BY <2>3
        <5>3. Proj!Content(next, next[i].id) = [name |-> next[i].name, v |-> next[i].v]
          BY <2>3, ProjectContent
        <5>4. Proj!Content(panel.listed, panel.listed[j].id) = [name |-> panel.listed[j].name, v |-> panel.listed[j].v]
          BY <1>2, ProjectContent
        <5> QED BY <5>1, <5>2, <5>3, <5>4
      <4>2. CASE panel.selected = NoProjectId
        <5>1. NoProjectId \notin Proj!IdsOf(next) /\ NoProjectId \notin Proj!IdsOf(panel.listed)
          BY <1>2, <2>3, ProjectNone
        <5> QED BY <4>2, <5>1 DEF Proj!Content
      <4> QED BY <3>1, <4>1, <4>2
    <3>3. ~r => ~panel.refused
      BY <1>1, <2>7
    <3> QED BY <1>s, <2>8, <3>1, <3>2, <3>3 DEF ProjectsShows
  <2>13. CASE panel.selected # id /\ stores /\ panel' = Proj!Refreshed(gone)
    <3>1. ProjectsFits(gone)
      BY <2>7, <2>8, <2>12, <2>13 DEF ProjectsFits, ProjectsShows
    <3> QED BY <2>8, <2>10, <2>13, <3>1, ProjectsRefreshed DEF ProjectsInv, ProjectsKeeps
  <2>14. CASE panel.selected # id /\ ~stores /\ panel' = gone
    BY <2>8, <2>10, <2>12, <2>14 DEF ProjectsInv
  <2>15. CASE panel.selected = id /\ panel' = Proj!Hydrated(back, first)
    BY <2>6, <2>9, <2>11, <2>15, ProjectsHydrated DEF ProjectsInv
  <2>16. CASE panel.selected = id /\ panel' = Proj!Hydrated(gone, first)
    BY <2>6, <2>8, <2>10, <2>16, ProjectsHydrated DEF ProjectsInv
  <2> QED BY <2>e, <2>13, <2>14, <2>15, <2>16
<1>10. CASE Proj!Import
  <2>1. panel' = [panel EXCEPT !.importing = {panel.listed}]
    BY <1>10 DEF Proj!Import
  <2>2. {panel.listed} \in SUBSET Seq(Proj!Project)
    BY <1>1
  <2>3. panel' \in ProjectsType
    BY <1>1, <2>1, <2>2 DEF ProjectsType
  <2>4. /\ panel'.stored = panel.stored /\ panel'.listed = panel.listed /\ panel'.ids = panel.ids
        /\ panel'.selected = panel.selected /\ panel'.edited = panel.edited /\ panel'.editor = panel.editor
        /\ panel'.refused = panel.refused /\ panel'.active = panel.active
        /\ panel'.applying = panel.applying /\ panel'.importing = {panel.listed}
    BY <1>1, <2>1 DEF ProjectsType
  <2>5. ProjectsKeeps(panel')
    BY <1>2, <2>4 DEF ProjectsKeeps
  <2>6. ProjectsShows(panel')
    BY <1>s, <2>4 DEF ProjectsShows
  <2> QED BY <2>3, <2>5, <2>6 DEF ProjectsInv
<1>11. CASE Proj!ImportReturns
  <2>1. PICK list \in panel.importing :
          \/ \E name \in ProjectNames, stores \in BOOLEAN :
               LET p == [id |-> panel.ids + 1, name |-> name, v |-> 0]
                   next == Proj!Upsert(p, list) IN
               /\ panel.ids < MaxProjectIds
               /\ panel' = Proj!Hydrated([panel EXCEPT !.importing = {}, !.ids = panel.ids + 1, !.listed = next,
                                           !.stored = IF stores THEN next ELSE panel.stored,
                                           !.refused = panel.refused \/ ~stores], p.id)
          \/ panel' = [panel EXCEPT !.importing = {}]
    BY <1>11, Zenon DEF Proj!ImportReturns
  <2>2. CASE panel' = [panel EXCEPT !.importing = {}]
    <3>1. panel' \in ProjectsType
      BY <1>1, <2>2 DEF ProjectsType
    <3>2. /\ panel'.stored = panel.stored /\ panel'.listed = panel.listed /\ panel'.ids = panel.ids
          /\ panel'.selected = panel.selected /\ panel'.edited = panel.edited /\ panel'.editor = panel.editor
          /\ panel'.refused = panel.refused /\ panel'.active = panel.active
          /\ panel'.applying = panel.applying /\ panel'.importing = {}
      BY <1>1, <2>2 DEF ProjectsType
    <3>3. ProjectsKeeps(panel')
      BY <1>2, <3>2 DEF ProjectsKeeps
    <3>4. ProjectsShows(panel')
      BY <1>s, <3>2 DEF ProjectsShows
    <3> QED BY <3>1, <3>3, <3>4 DEF ProjectsInv
  <2>3. ASSUME NEW name \in ProjectNames, NEW stores \in BOOLEAN, panel.ids < MaxProjectIds,
               panel' = Proj!Hydrated([panel EXCEPT !.importing = {}, !.ids = panel.ids + 1,
                          !.listed = Proj!Upsert([id |-> panel.ids + 1, name |-> name, v |-> 0], list),
                          !.stored = IF stores THEN Proj!Upsert([id |-> panel.ids + 1, name |-> name, v |-> 0], list) ELSE panel.stored,
                          !.refused = panel.refused \/ ~stores], panel.ids + 1)
        PROVE  ProjectsInv'
    <3> DEFINE n == panel.ids + 1
               p == [id |-> n, name |-> name, v |-> 0]
               next == Proj!Upsert(p, list)
               kept == IF stores THEN next ELSE panel.stored
               r == panel.refused \/ ~stores
               q == [panel EXCEPT !.importing = {}, !.ids = n, !.listed = next, !.stored = kept, !.refused = r]
    <3>1. n \in 1..MaxProjectIds /\ n \in 0..MaxProjectIds /\ n \in Nat /\ panel.ids <= n /\ 0 \in 0..MaxProjectEdits
      BY <1>1, <2>3, ProjectsAssumption
    <3>2. p \in Proj!Project /\ p.id = n
      BY <3>1 DEF Proj!Project, Proj!Ids
    <3>3. panel' = Proj!Hydrated(q, n)
      BY <2>3, Zenon
    <3> HIDE DEF p
    <3>b. p.id <= n
      <4> HIDE DEF n
      <4> QED BY <3>1, <3>2
    <3>a. ListGood(list, panel.ids) /\ p.id <= n
      BY <1>2, <3>b
    <3>4. ListGood(next, n)
      BY <1>1, <3>1, <3>2, <3>a, ProjectsUpsert
    <3>5. next \in Seq(Proj!Project) /\ n \in OptionalId
      BY <3>1, <3>4 DEF ListGood, OptionalId
    <3>6. panel.selected # n
      <4>1. panel.selected = NoProjectId \/ (panel.selected <= panel.ids /\ panel.selected \in Nat)
        BY <1>s, <1>3, ProjectsAssumption
      <4> QED BY <1>1, <3>1, <4>1, ProjectsAssumption
    <3> HIDE DEF next
    <3>k. ListGood(panel.stored, n)
      BY <1>1, <1>2, <3>1, ProjectsMore
    <3>7. kept \in Seq(Proj!Project) /\ ListGood(kept, n) /\ r \in BOOLEAN /\ (~r => kept = next)
      BY <1>1, <3>4, <3>5, <3>k
    <3> HIDE DEF kept, r
    <3>8. /\ q \in ProjectsType /\ q.stored = kept /\ q.listed = next /\ q.refused = r /\ q.ids = n
          /\ q.selected = panel.selected /\ q.active = panel.active
          /\ q.applying = panel.applying /\ q.importing = {}
      BY <1>1, <3>1, <3>5, <3>7 DEF ProjectsType
    <3> HIDE DEF n, q
    <3>9. \A i \in panel.applying : i <= n
      BY <1>1, <1>2, <3>1, ProjectsAssumption
    <3>10. panel.active = NoProjectId \/ panel.active <= n
      <4>1. panel.active = NoProjectId \/ panel.active \in Nat
        BY <1>1, ProjectsAssumption DEF OptionalId
      <4> QED BY <1>1, <1>2, <3>1, <4>1
    <3>11. ProjectsKeeps(q)
      BY <3>4, <3>7, <3>8, <3>9, <3>10 DEF ProjectsKeeps
    <3> QED BY <3>3, <3>5, <3>6, <3>8, <3>11, ProjectsHydrated DEF ProjectsInv
  <2> QED BY <2>1, <2>2, <2>3
<1> QED BY <1>4, <1>5, <1>6, <1>7, <1>8, <1>9, <1>10, <1>11 DEF Proj!Next

\* What the invariant says of the projects panel: its type, projects are
\* distinct, and the editor shows the selected one.
LEMMA ProjectsShow ==
  ASSUME ProjectsInv PROVE Proj!TypeOK /\ Proj!DistinctProjects /\ Proj!EditorShowsSelected
<1>1. /\ panel.stored \in Seq(Proj!Project) /\ panel.listed \in Seq(Proj!Project) /\ panel.active \in OptionalId
      /\ panel.selected \in OptionalId /\ panel.editor \in EditorType /\ panel.edited \in BOOLEAN
      /\ panel.refused \in BOOLEAN /\ panel.ids \in 0..MaxProjectIds /\ panel.applying \subseteq 1..MaxProjectIds
  BY DEF ProjectsInv, ProjectsType
<1>2. Proj!TypeOK
  BY <1>1 DEF Proj!TypeOK, Proj!Ids, OptionalId, EditorType
<1>3. DOMAIN panel.stored = 1..Len(panel.stored) /\ DOMAIN panel.listed = 1..Len(panel.listed)
  BY <1>1
<1>4. Proj!DistinctProjects
  BY <1>3 DEF ProjectsInv, ProjectsKeeps, ListGood, Proj!DistinctProjects
<1>5. Proj!EditorShowsSelected
  BY DEF ProjectsInv, ProjectsKeeps, ProjectsShows, Proj!EditorShowsSelected
<1> QED BY <1>2, <1>4, <1>5

-----------------------------------------------------------------------------
\* A list of loading profiles: within its limit, and no two of a name.
LoadingList(list) ==
  /\ list \in Seq(Loading!Profile) /\ Len(list) <= MaxLoading
  /\ \A i, j \in 1..Len(list) : list[i].name = list[j].name => i = j
LoadingType ==
  [ shown : Seq(Loading!Profile), stored : Seq(Loading!Profile), cfg : Loading!Setting, running : BOOLEAN,
    refused : BOOLEAN, ids : 0..MaxLoadingIds ]
LoadingKeeps(l) ==
  /\ LoadingList(l.shown) /\ LoadingList(l.stored)
  /\ \A i \in 1..Len(l.stored) : l.stored[i] \in Loading!Valid
  /\ ~l.refused => l.stored = Among(l.shown, Loading!Valid)
LoadingInv == panel \in LoadingType /\ LoadingKeeps(panel)

\* What the filter and the limit leave of a list is one.
LEMMA LoadingAmong ==
  ASSUME NEW list, LoadingList(list), NEW S
  PROVE  LET k == Among(list, S) IN
         /\ LoadingList(k) /\ Len(k) <= Len(list)
         /\ \A i \in 1..Len(k) : k[i] \in S
<1> DEFINE k == Among(list, S)
<1>1. list \in Seq(Loading!Profile) /\ Len(list) <= MaxLoading /\ Len(list) \in Nat
  BY DEF LoadingList
<1>2. k \in Seq(Loading!Profile) /\ Filters(k, list, S)
  BY <1>1, AmongMembers
<1> HIDE DEF k
<1>3. /\ Len(k) <= Len(list) /\ Len(k) \in Nat /\ \A i \in 1..Len(k) : k[i] \in S
      /\ \A i, j \in 1..Len(k) : i < j => \E a, b \in 1..Len(list) : a < b /\ k[i] = list[a] /\ k[j] = list[b]
  BY <1>2 DEF Filters
<1>4. ASSUME NEW i \in 1..Len(k), NEW j \in 1..Len(k), i < j PROVE k[i].name # k[j].name
  <2>1. PICK a \in 1..Len(list), b \in 1..Len(list) : a < b /\ k[i] = list[a] /\ k[j] = list[b]
    BY <1>3, <1>4
  <2>2. a # b
    BY <2>1
  <2> QED BY <2>1, <2>2 DEF LoadingList
<1>5. ASSUME NEW i \in 1..Len(k), NEW j \in 1..Len(k), k[i].name = k[j].name PROVE i = j
  <2>1. i < j \/ j < i \/ i = j
    BY <1>3
  <2> QED BY <1>4, <1>5, <2>1
<1>6. Len(k) <= MaxLoading
  BY <1>1, <1>3, LoadingAssumption
<1>7. LoadingList(k)
  BY <1>2, <1>5, <1>6 DEF LoadingList
<1> QED BY <1>3, <1>7 DEF k

\* What is taken of a list is its beginning, within the limit, and all of it if
\* it fits.
LEMMA LoadingTaken ==
  ASSUME NEW s \in Seq(Loading!Profile)
  PROVE  LET k == Loading!Taken(s, MaxLoading) IN
         /\ k \in Seq(Loading!Profile) /\ Len(k) <= Len(s) /\ Len(k) <= MaxLoading
         /\ \A i \in 1..Len(k) : k[i] = s[i]
         /\ Len(s) <= MaxLoading => k = s
<1> DEFINE m == IF Len(s) < MaxLoading THEN Len(s) ELSE MaxLoading
           k == SubSeq(s, 1, m)
<1>1. m \in 0..Len(s) /\ m <= MaxLoading /\ m \in Nat /\ (Len(s) <= MaxLoading => m = Len(s))
  BY LoadingAssumption
<1>2. Loading!Taken(s, MaxLoading) = k
  BY DEF Loading!Taken
<1> HIDE DEF m
<1>3. \A i \in 1..m : s[i] \in Loading!Profile
  BY <1>1, ElementOfSeq
<1>4. k \in Seq(Loading!Profile) /\ Len(k) = m /\ \A i \in 1..m : k[i] = s[i]
  BY <1>1, <1>3, SubSeqProperties
<1> HIDE DEF k
<1>5. ASSUME Len(s) <= MaxLoading PROVE k = s
  BY <1>1, <1>4, <1>5
<1> QED BY <1>1, <1>2, <1>4, <1>5

\* The filter of the module is the one the lemmas are about.
LEMMA LoadingFilter ==
  ASSUME NEW s, NEW S PROVE Loading!Among(s, S) = Among(s, S)
BY DEF Loading!Among, Among

\* A profile that is saved is the first, alone with its name.
LEMMA LoadingSaved ==
  ASSUME NEW list, LoadingList(list), NEW p \in Loading!Profile
  PROVE  LoadingList(Loading!Saved(p, list))
<1> DEFINE S == {item \in Loading!Profile : item.name # p.name}
           w == Among(list, S)
           s == <<p>> \o w
           k == Loading!Taken(s, MaxLoading)
<1>1. Loading!Saved(p, list) = k
  BY LoadingFilter DEF Loading!Saved
<1>2. LoadingList(w) /\ \A i \in 1..Len(w) : w[i].name # p.name
  <2>1. LoadingList(w) /\ \A i \in 1..Len(w) : w[i] \in S
    BY LoadingAmong
  <2> QED BY <2>1
<1> HIDE DEF w
<1>3. w \in Seq(Loading!Profile) /\ Len(w) \in Nat
  BY <1>2 DEF LoadingList
<1>4. s \in Seq(Loading!Profile) /\ Len(s) = Len(w) + 1 /\ s[1] = p /\ \A i \in 2..Len(s) : s[i] = w[i - 1] /\ i - 1 \in 1..Len(w)
  BY <1>3
<1> HIDE DEF s
<1>5. ASSUME NEW i \in 1..Len(s), NEW j \in 1..Len(s), s[i].name = s[j].name PROVE i = j
  <2>1. (i = 1 \/ i \in 2..Len(s)) /\ (j = 1 \/ j \in 2..Len(s))
    BY <1>3, <1>4
  <2>2. CASE i = 1 /\ j \in 2..Len(s)
    BY <1>2, <1>4, <1>5, <2>2
  <2>3. CASE j = 1 /\ i \in 2..Len(s)
    BY <1>2, <1>4, <1>5, <2>3
  <2>4. CASE i \in 2..Len(s) /\ j \in 2..Len(s)
    <3>1. i - 1 \in 1..Len(w) /\ j - 1 \in 1..Len(w) /\ s[i] = w[i - 1] /\ s[j] = w[j - 1]
      BY <1>4, <2>4
    <3>2. i - 1 = j - 1
      BY <1>2, <1>5, <3>1 DEF LoadingList
    <3> QED BY <3>2
  <2> QED BY <2>1, <2>2, <2>3, <2>4
<1>6. k \in Seq(Loading!Profile) /\ Len(k) <= Len(s) /\ Len(k) <= MaxLoading /\ \A i \in 1..Len(k) : k[i] = s[i]
  BY <1>4, LoadingTaken
<1> HIDE DEF k
<1>7. \A i \in 1..Len(k) : i \in 1..Len(s)
  BY <1>4, <1>6
<1> QED BY <1>1, <1>5, <1>6, <1>7 DEF LoadingList

\* A list that is shown is stored as far as it can be read back, or refused.
LEMMA LoadingShown ==
  ASSUME LoadingInv, NEW list, LoadingList(list), Loading!Shows(list)
  PROVE  LoadingInv'
<1> DEFINE n == IF list # <<>> /\ list[1].id > panel.ids THEN list[1].id ELSE panel.ids
           k == Among(list, Loading!Valid)
<1>1. panel \in LoadingType /\ panel.ids \in 0..MaxLoadingIds /\ list \in Seq(Loading!Profile)
  BY DEF LoadingInv, LoadingType, LoadingList
<1>2. n \in 0..MaxLoadingIds
  <2>1. list # <<>> => list[1] \in Loading!Profile
    <3>1. ASSUME list # <<>> PROVE 1 \in 1..Len(list)
      BY <1>1, <3>1
    <3> QED BY <1>1, <3>1, ElementOfSeq
  <2>2. list # <<>> => list[1].id \in 0..MaxLoadingIds
    BY <2>1, LoadingAssumption DEF Loading!Profile
  <2> QED BY <1>1, <2>2
<1>3. LoadingList(k) /\ \A i \in 1..Len(k) : k[i] \in Loading!Valid
  BY LoadingAmong
<1>4. Loading!Taken(Loading!Among(list, Loading!Valid), MaxLoading) = k
  <2>1. Loading!Among(list, Loading!Valid) = k
    BY LoadingFilter
  <2> HIDE DEF k
  <2> QED BY <1>3, <2>1, LoadingTaken DEF LoadingList
<1>5. CASE panel' = [panel EXCEPT !.shown = list, !.stored = k, !.refused = FALSE, !.ids = n]
  <2>1. k \in Seq(Loading!Profile)
    BY <1>3 DEF LoadingList
  <2> HIDE DEF n, k
  <2>2. panel' \in LoadingType
    BY <1>1, <1>2, <1>5, <2>1 DEF LoadingType
  <2>3. panel'.shown = list /\ panel'.stored = k /\ panel'.refused = FALSE
    BY <1>1, <1>5 DEF LoadingType
  <2> QED BY <1>3, <2>2, <2>3 DEF LoadingInv, LoadingKeeps, k
<1>6. CASE panel' = [panel EXCEPT !.shown = list, !.refused = TRUE, !.ids = n]
  <2> HIDE DEF n, k
  <2>2. panel' \in LoadingType
    BY <1>1, <1>2, <1>6 DEF LoadingType
  <2>3. panel'.shown = list /\ panel'.stored = panel.stored /\ panel'.refused = TRUE
    BY <1>1, <1>6 DEF LoadingType
  <2> QED BY <2>2, <2>3 DEF LoadingInv, LoadingKeeps
<1>7. n = IF list # <<>> /\ list[1].id > panel.ids THEN list[1].id ELSE panel.ids
  OBVIOUS
<1> HIDE DEF n, k
<1> QED BY <1>4, <1>5, <1>6, <1>7 DEF Loading!Shows

\* The list starts with the invariant (useRuntimesController.ts).
LEMMA LoadingInit ==
  ASSUME Loading!Init PROVE LoadingInv
<1>1. PICK cfg \in Loading!Setting :
        panel = [ shown |-> <<>>, stored |-> <<>>, cfg |-> cfg, running |-> FALSE, refused |-> FALSE, ids |-> 0 ]
  BY DEF Loading!Init
<1>2. panel \in LoadingType
  BY <1>1, LoadingAssumption DEF LoadingType
<1>3. LoadingList(<<>>)
  BY LoadingAssumption DEF LoadingList
<1>4. Among(<<>>, Loading!Valid) = <<>>
  <2> DEFINE e == <<>>
  <2>1. e \in Seq(Loading!Profile) /\ Len(e) = 0
    OBVIOUS
  <2> HIDE DEF e
  <2>2. \A i \in 1..Len(e) : e[i] \in Loading!Valid
    BY <2>1
  <2>3. Among(e, Loading!Valid) = e
    BY <2>1, <2>2, AmongAll
  <2> QED BY <2>3 DEF e
<1> QED BY <1>1, <1>2, <1>3, <1>4 DEF LoadingInv, LoadingKeeps

\* Every handler of the loading profiles keeps the invariant
\* (useRuntimesController.ts).
LEMMA LoadingNext ==
  ASSUME LoadingInv, Loading!Next PROVE LoadingInv'
<1>1. /\ panel \in LoadingType /\ panel.ids \in 0..MaxLoadingIds /\ panel.cfg \in Loading!Setting
      /\ panel.shown \in Seq(Loading!Profile) /\ panel.stored \in Seq(Loading!Profile) /\ panel.running \in BOOLEAN
      /\ LoadingList(panel.shown) /\ LoadingList(panel.stored)
  BY DEF LoadingInv, LoadingType, LoadingKeeps
<1>2. DOMAIN panel.shown = 1..Len(panel.shown) /\ \A i \in 1..Len(panel.shown) : panel.shown[i] \in Loading!Profile
  BY <1>1, ElementOfSeq
\* Another setting or another state of the server.
<1>3. ASSUME NEW cfg \in Loading!Setting, NEW running \in BOOLEAN, panel' = [panel EXCEPT !.cfg = cfg, !.running = running]
      PROVE  LoadingInv'
  <2>1. panel' \in LoadingType
    BY <1>1, <1>3 DEF LoadingType
  <2>2. panel'.shown = panel.shown /\ panel'.stored = panel.stored /\ panel'.refused = panel.refused
    BY <1>1, <1>3 DEF LoadingType
  <2> QED BY <2>1, <2>2 DEF LoadingInv, LoadingKeeps
<1>4. CASE Loading!SaveProfile
  <2>1. PICK name \in LoadingNames :
          /\ panel.ids < MaxLoadingIds
          /\ Loading!Shows(Loading!Saved([id |-> panel.ids + 1, name |-> name, backend |-> panel.cfg.backend,
                                          ngl |-> panel.cfg.ngl], panel.shown))
    BY <1>4 DEF Loading!SaveProfile
  <2> DEFINE p == [id |-> panel.ids + 1, name |-> name, backend |-> panel.cfg.backend, ngl |-> panel.cfg.ngl]
  <2>2. panel.ids + 1 \in 1..MaxLoadingIds
    BY <1>1, <2>1, LoadingAssumption
  <2>3. p \in Loading!Profile
    BY <1>1, <2>2 DEF Loading!Profile, Loading!Setting
  <2> HIDE DEF p
  <2>4. LoadingList(Loading!Saved(p, panel.shown))
    BY <1>1, <2>3, LoadingSaved
  <2> QED BY <2>1, <2>4, LoadingShown DEF p
<1>5. CASE Loading!RemoveProfile
  <2>1. PICK i \in DOMAIN panel.shown :
          Loading!Shows(Loading!Among(panel.shown, {item \in Loading!Profile : item.id # panel.shown[i].id}))
    BY <1>5 DEF Loading!RemoveProfile
  <2> DEFINE S == {item \in Loading!Profile : item.id # panel.shown[i].id}
  <2> HIDE DEF S
  <2>2. LoadingList(Among(panel.shown, S))
    BY <1>1, LoadingAmong
  <2>3. Loading!Shows(Among(panel.shown, S))
    BY <2>1, LoadingFilter DEF S
  <2> QED BY <2>2, <2>3, LoadingShown
<1>6. CASE Loading!ApplyProfile
  <2>1. PICK i \in 1..Len(panel.shown) : panel' = [panel EXCEPT !.cfg = [backend |-> panel.shown[i].backend, ngl |-> panel.shown[i].ngl]]
    BY <1>2, <1>6 DEF Loading!ApplyProfile
  <2> DEFINE cfg == [backend |-> panel.shown[i].backend, ngl |-> panel.shown[i].ngl]
  <2>2. cfg \in Loading!Setting
    BY <1>2 DEF Loading!Profile, Loading!Setting
  <2> HIDE DEF cfg
  <2>3. panel' = [panel EXCEPT !.cfg = cfg, !.running = panel.running]
    BY <1>1, <2>1 DEF LoadingType, cfg
  <2> QED BY <1>1, <1>3, <2>2, <2>3
<1>7. CASE Loading!Changes
  <2>1. PICK cfg \in Loading!Setting : panel' = [panel EXCEPT !.cfg = cfg]
    BY <1>7 DEF Loading!Changes
  <2>2. panel' = [panel EXCEPT !.cfg = cfg, !.running = panel.running]
    BY <1>1, <2>1 DEF LoadingType
  <2> QED BY <1>1, <1>3, <2>2
<1>8. CASE Loading!Server
  <2> DEFINE running == ~panel.running
  <2>1. panel' = [panel EXCEPT !.cfg = panel.cfg, !.running = running] /\ running \in BOOLEAN
    BY <1>1, <1>8 DEF Loading!Server, LoadingType
  <2> HIDE DEF running
  <2> QED BY <1>1, <1>3, <2>1
<1>9. CASE Loading!Reopen
  <2>1. Among(panel.stored, Loading!Valid) = panel.stored
    BY <1>1, AmongAll DEF LoadingInv, LoadingKeeps
  <2>2. panel' = [panel EXCEPT !.shown = panel.stored, !.refused = FALSE]
    BY <1>9, <2>1, LoadingFilter DEF Loading!Reopen
  <2>3. panel' \in LoadingType
    BY <1>1, <2>2 DEF LoadingType
  <2>4. panel'.shown = panel.stored /\ panel'.stored = panel.stored /\ panel'.refused = FALSE
    BY <1>1, <2>2 DEF LoadingType
  <2> QED BY <2>1, <2>3, <2>4 DEF LoadingInv, LoadingKeeps
<1> QED BY <1>4, <1>5, <1>6, <1>7, <1>8, <1>9 DEF Loading!Next

\* What the invariant says of the loading profiles: their type, and what is
\* listed is what is stored.
LEMMA LoadingShows ==
  ASSUME LoadingInv PROVE Loading!TypeOK /\ Loading!ListIsKept
<1>1. /\ panel.shown \in Seq(Loading!Profile) /\ panel.stored \in Seq(Loading!Profile) /\ panel.cfg \in Loading!Setting
      /\ panel.running \in BOOLEAN /\ panel.refused \in BOOLEAN /\ panel.ids \in 0..MaxLoadingIds
      /\ LoadingList(panel.shown) /\ LoadingList(panel.stored)
  BY DEF LoadingInv, LoadingType, LoadingKeeps
<1>2. Loading!TypeOK
  BY <1>1 DEF Loading!TypeOK, LoadingList
<1>3. DOMAIN panel.shown = 1..Len(panel.shown) /\ DOMAIN panel.stored = 1..Len(panel.stored)
  BY <1>1
<1>4. ~panel.refused => panel.stored = Loading!Among(panel.shown, {p \in Loading!Profile : p.backend # PathBackend /\ p.name \notin LongNames})
  BY LoadingFilter DEF LoadingInv, LoadingKeeps, Loading!Valid
<1>5. \A list \in {panel.shown, panel.stored} : \A i, j \in DOMAIN list : list[i].name = list[j].name => i = j
  BY <1>1, <1>3 DEF LoadingList
<1>6. \A i \in DOMAIN panel.stored : panel.stored[i].name \notin LongNames
  BY <1>3 DEF LoadingInv, LoadingKeeps, Loading!Valid
<1>7. Loading!ListIsKept
  BY <1>4, <1>5, <1>6 DEF Loading!ListIsKept
<1> QED BY <1>2, <1>7

-----------------------------------------------------------------------------
\* The preferences that the application has are those it would load, unless a save
\* failed, and the language is the same in all copies; the effects bring the page after.
PreferencesType ==
  [ stored : [kind : {"nothing", "broken", "values"}, values : Prefs!Preferences],
    themeKey : Prefs!Themes \cup {"none"}, localeKey : Locales \cup {"none"}, works : BOOLEAN, unsaved : BOOLEAN,
    prefs : Prefs!Preferences, lang : Locales, documentLang : Locales, chosen : Locales, dark : BOOLEAN,
    shown : {"light", "dark"}, follows : BOOLEAN, fresh : BOOLEAN ]
PreferencesKeeps(s) ==
  /\ s.prefs.locale = s.lang /\ s.lang = s.chosen
  /\ ~s.unsaved => Prefs!Load(s) = s.prefs
PageKeeps(s) ==
  s.fresh => /\ s.documentLang = s.lang /\ s.shown = Prefs!Resolved(s.prefs.theme, s.dark)
             /\ s.follows = (s.prefs.theme = "system")
PreferencesInv == panel \in PreferencesType /\ PreferencesKeeps(panel) /\ PageKeeps(panel)

\* The fields of the preferences.
LEMMA PreferenceFields ==
  ASSUME NEW p \in Prefs!Preferences
  PROVE  p.locale \in Locales /\ p.theme \in Prefs!Themes /\ p.confirm \in BOOLEAN
         /\ p = [locale |-> p.locale, theme |-> p.theme, confirm |-> p.confirm]
BY DEF Prefs!Preferences

\* The defaults are preferences (preferences.ts).
LEMMA PreferencesDefault ==
  Prefs!Defaults \in Prefs!Preferences
BY PreferencesAssumption DEF Prefs!Defaults, Prefs!Preferences, Prefs!Themes

\* A theme is shown light or dark (theme.ts).
LEMMA PreferencesResolved ==
  ASSUME NEW theme \in Prefs!Themes, NEW dark \in BOOLEAN
  PROVE  Prefs!Resolved(theme, dark) \in {"light", "dark"}
BY DEF Prefs!Themes, Prefs!Resolved

\* What is loaded depends on what is stored and on the keys of earlier versions alone.
LEMMA PreferencesLoad ==
  ASSUME NEW s \in PreferencesType
  PROVE  /\ Prefs!Load(s) \in Prefs!Preferences /\ Prefs!StoredTheme(s) \in Prefs!Themes
         /\ \A t \in PreferencesType :
              t.stored = s.stored /\ t.themeKey = s.themeKey /\ t.localeKey = s.localeKey => Prefs!Load(t) = Prefs!Load(s)
<1>1. /\ s.stored.kind \in {"nothing", "broken", "values"} /\ s.stored.values \in Prefs!Preferences
      /\ s.themeKey \in Prefs!Themes \cup {"none"} /\ s.localeKey \in Locales \cup {"none"}
  BY DEF PreferencesType
<1>2. Prefs!Theme(s.themeKey) \in Prefs!Themes /\ Prefs!Locale(s.localeKey) \in Locales
  BY <1>1, PreferencesAssumption DEF Prefs!Theme, Prefs!Locale, Prefs!Themes
<1>3. [Prefs!Defaults EXCEPT !.theme = Prefs!Theme(s.themeKey), !.locale = Prefs!Locale(s.localeKey)] \in Prefs!Preferences
  BY <1>2, PreferencesDefault DEF Prefs!Preferences
<1>4. Prefs!Load(s) \in Prefs!Preferences
  BY <1>1, <1>3, PreferencesDefault DEF Prefs!Load
<1>5. Prefs!StoredTheme(s) \in Prefs!Themes
  BY <1>1, <1>2, PreferenceFields DEF Prefs!StoredTheme, Prefs!Themes
<1> QED BY <1>4, <1>5 DEF Prefs!Load

\* A save: in the application always, in the storage if it works.
LEMMA PreferencesSaved ==
  ASSUME NEW s \in PreferencesType, NEW p \in Prefs!Preferences
  PROVE  LET k == Prefs!Saved(s, p) IN
         /\ k \in PreferencesType /\ k.prefs = p /\ ~k.fresh /\ (~k.unsaved => Prefs!Load(k) = p)
         /\ k.lang = s.lang /\ k.chosen = s.chosen
<1>1. Prefs!Values(p) \in [kind : {"nothing", "broken", "values"}, values : Prefs!Preferences]
      /\ Prefs!Values(p).kind = "values" /\ Prefs!Values(p).values = p
  BY DEF Prefs!Values
<1> DEFINE a == [s EXCEPT !.prefs = p, !.stored = Prefs!Values(p), !.fresh = FALSE]
           b == [s EXCEPT !.prefs = p, !.unsaved = TRUE, !.fresh = FALSE]
<1>2. Prefs!Saved(s, p) = IF s.works THEN a ELSE b
  BY DEF Prefs!Saved
<1>3. a \in PreferencesType /\ b \in PreferencesType
  BY <1>1 DEF PreferencesType
<1>4. a.prefs = p /\ a.stored = Prefs!Values(p) /\ a.fresh = FALSE /\ a.lang = s.lang /\ a.chosen = s.chosen
  BY DEF PreferencesType
<1>5. b.prefs = p /\ b.unsaved = TRUE /\ b.fresh = FALSE /\ b.lang = s.lang /\ b.chosen = s.chosen
  BY DEF PreferencesType
<1> HIDE DEF a, b
<1>6. Prefs!Load(a) = p
  BY <1>1, <1>4 DEF Prefs!Load
<1> QED BY <1>2, <1>3, <1>4, <1>5, <1>6

\* After an update the language is the same in all copies (updatePreferences,
\* in preferences.ts).
LEMMA PreferencesUpdated ==
  ASSUME NEW s \in PreferencesType, NEW p \in Prefs!Preferences, panel' = Prefs!Updated(s, p)
  PROVE  PreferencesInv'
<1> DEFINE a == Prefs!Saved(s, p)
           k == [a EXCEPT !.lang = p.locale, !.chosen = p.locale]
<1>1. a \in PreferencesType /\ a.prefs = p /\ ~a.fresh /\ (~a.unsaved => Prefs!Load(a) = p)
  BY PreferencesSaved
<1>2. panel' = k
  BY DEF Prefs!Updated
<1> HIDE DEF a
<1>3. k \in PreferencesType
  BY <1>1, PreferenceFields DEF PreferencesType
<1>4. /\ k.prefs = p /\ k.fresh = a.fresh /\ k.unsaved = a.unsaved /\ k.lang = p.locale /\ k.chosen = p.locale
      /\ k.stored = a.stored /\ k.themeKey = a.themeKey /\ k.localeKey = a.localeKey
  BY <1>1 DEF PreferencesType
<1> HIDE DEF k
<1>5. Prefs!Load(k) = Prefs!Load(a)
  BY <1>1, <1>3, <1>4, PreferencesLoad
<1> QED BY <1>1, <1>2, <1>3, <1>4, <1>5 DEF PreferencesInv, PreferencesKeeps, PageKeeps

\* A window that opens shows what is stored (preferences.ts).
LEMMA PreferencesOpened ==
  ASSUME NEW s \in PreferencesType
  PROVE  LET k == Prefs!Opened(s) IN k \in PreferencesType /\ PreferencesKeeps(k) /\ PageKeeps(k)
<1> DEFINE p == Prefs!Load(s)
           h == Prefs!Resolved(Prefs!StoredTheme(s), s.dark)
           k == [s EXCEPT !.prefs = p, !.lang = p.locale, !.chosen = p.locale, !.shown = h,
                          !.follows = FALSE, !.fresh = FALSE, !.unsaved = FALSE]
<1>1. p \in Prefs!Preferences /\ p.locale \in Locales /\ s.dark \in BOOLEAN
  BY PreferencesLoad, PreferenceFields DEF PreferencesType
<1>2. h \in {"light", "dark"}
  BY <1>1, PreferencesLoad, PreferencesResolved
<1>3. Prefs!Opened(s) = k
  BY DEF Prefs!Opened
<1> HIDE DEF h, p
<1>4. k \in PreferencesType
  BY <1>1, <1>2 DEF PreferencesType
<1>5. /\ k.prefs = p /\ k.fresh = FALSE /\ k.lang = p.locale /\ k.chosen = p.locale
      /\ k.stored = s.stored /\ k.themeKey = s.themeKey /\ k.localeKey = s.localeKey
  BY DEF PreferencesType
<1> HIDE DEF k
<1>6. Prefs!Load(k) = p
  BY <1>4, <1>5, PreferencesLoad DEF p
<1> QED BY <1>3, <1>4, <1>5, <1>6 DEF PreferencesKeeps, PageKeeps

\* The application starts with the invariant (preferences.ts).
LEMMA PreferencesInit ==
  ASSUME Prefs!Init PROVE PreferencesInv
<1>1. PICK stored \in {Prefs!Nothing, Prefs!Broken, Prefs!Values([Prefs!Defaults EXCEPT !.theme = "dark", !.confirm = FALSE])},
           themeKey \in {"none", "light"}, localeKey \in Locales \cup {"none"}, dark \in BOOLEAN :
        panel = Prefs!Opened(
          [ stored |-> stored, themeKey |-> themeKey, localeKey |-> localeKey, works |-> TRUE, unsaved |-> FALSE,
            prefs |-> Prefs!Defaults, lang |-> Detected, documentLang |-> Detected, chosen |-> Detected,
            dark |-> dark, shown |-> "light", follows |-> FALSE, fresh |-> FALSE ])
  BY DEF Prefs!Init
<1>2. [Prefs!Defaults EXCEPT !.theme = "dark", !.confirm = FALSE] \in Prefs!Preferences
  BY PreferencesDefault DEF Prefs!Preferences, Prefs!Themes
<1>3. stored \in [kind : {"nothing", "broken", "values"}, values : Prefs!Preferences]
  BY <1>2, PreferencesDefault DEF Prefs!Nothing, Prefs!Broken, Prefs!Values
<1> DEFINE s == [ stored |-> stored, themeKey |-> themeKey, localeKey |-> localeKey, works |-> TRUE, unsaved |-> FALSE,
                  prefs |-> Prefs!Defaults, lang |-> Detected, documentLang |-> Detected, chosen |-> Detected,
                  dark |-> dark, shown |-> "light", follows |-> FALSE, fresh |-> FALSE ]
<1>4. themeKey \in Prefs!Themes \cup {"none"}
  BY DEF Prefs!Themes
<1>5. s \in PreferencesType
  BY <1>3, <1>4, PreferencesDefault, PreferencesAssumption DEF PreferencesType
<1>6. panel = Prefs!Opened(s)
  BY <1>1
<1> HIDE DEF s
<1> QED BY <1>5, <1>6, PreferencesOpened DEF PreferencesInv

\* Every change of a preference, every effect and every new window keeps the
\* invariant (preferences.ts).
LEMMA PreferencesNext ==
  ASSUME PreferencesInv, Prefs!Next PROVE PreferencesInv'
<1>1. /\ panel \in PreferencesType /\ panel.prefs \in Prefs!Preferences /\ panel.prefs.theme \in Prefs!Themes
      /\ panel.dark \in BOOLEAN /\ panel.works \in BOOLEAN /\ panel.lang \in Locales
  BY PreferenceFields DEF PreferencesInv, PreferencesType
<1>2. panel.prefs.locale = panel.lang /\ panel.lang = panel.chosen /\ (~panel.unsaved => Prefs!Load(panel) = panel.prefs)
  BY DEF PreferencesInv, PreferencesKeeps
<1>3. ASSUME NEW p \in Prefs!Preferences, p.locale = panel.lang, panel' = Prefs!Saved(panel, p)
      PROVE  PreferencesInv'
  <2> DEFINE k == Prefs!Saved(panel, p)
  <2>1. /\ k \in PreferencesType /\ k.prefs = p /\ ~k.fresh /\ (~k.unsaved => Prefs!Load(k) = p)
        /\ k.lang = panel.lang /\ k.chosen = panel.chosen
    BY <1>1, PreferencesSaved
  <2>2. panel' = k
    BY <1>3
  <2> HIDE DEF k
  <2> QED BY <1>2, <1>3, <2>1, <2>2 DEF PreferencesInv, PreferencesKeeps, PageKeeps
<1>4. CASE Prefs!Patch
  <2>1. CASE \E theme \in Prefs!Themes : panel' = Prefs!Saved(panel, [panel.prefs EXCEPT !.theme = theme])
    <3>1. PICK theme \in Prefs!Themes : panel' = Prefs!Saved(panel, [panel.prefs EXCEPT !.theme = theme])
      BY <2>1
    <3> DEFINE p == [panel.prefs EXCEPT !.theme = theme]
    <3>2. p \in Prefs!Preferences /\ p.locale = panel.lang
      BY <1>1, <1>2 DEF Prefs!Preferences
    <3> QED BY <1>3, <3>1, <3>2
  <2>2. CASE \E confirm \in BOOLEAN : panel' = Prefs!Saved(panel, [panel.prefs EXCEPT !.confirm = confirm])
    <3>1. PICK confirm \in BOOLEAN : panel' = Prefs!Saved(panel, [panel.prefs EXCEPT !.confirm = confirm])
      BY <2>2
    <3> DEFINE p == [panel.prefs EXCEPT !.confirm = confirm]
    <3>2. p \in Prefs!Preferences /\ p.locale = panel.lang
      BY <1>1, <1>2 DEF Prefs!Preferences
    <3> QED BY <1>3, <3>1, <3>2
  <2> QED BY <1>4, <2>1, <2>2 DEF Prefs!Patch
<1>5. CASE Prefs!SelectLanguage
  <2>1. PICK l \in Locales : panel' = Prefs!Updated(panel, [panel.prefs EXCEPT !.locale = l])
    BY <1>5 DEF Prefs!SelectLanguage
  <2>2. [panel.prefs EXCEPT !.locale = l] \in Prefs!Preferences
    BY <1>1 DEF Prefs!Preferences
  <2> QED BY <1>1, <2>1, <2>2, PreferencesUpdated
<1>6. CASE Prefs!Import
  BY <1>1, <1>6, PreferencesUpdated DEF Prefs!Import
<1>7. CASE Prefs!Reset
  BY <1>1, <1>7, PreferencesUpdated, PreferencesDefault DEF Prefs!Reset
<1>8. CASE Prefs!Effects
  <2> DEFINE h == Prefs!Resolved(panel.prefs.theme, panel.dark)
             key == IF panel.works THEN panel.prefs.theme ELSE panel.themeKey
             f == (panel.prefs.theme = "system")
             k == [panel EXCEPT !.shown = h, !.themeKey = key, !.documentLang = panel.lang, !.fresh = TRUE, !.follows = f]
  <2>1. panel' = k
    BY <1>1, <1>2, <1>8 DEF Prefs!Effects, PreferencesType
  <2>2. h \in {"light", "dark"} /\ key \in Prefs!Themes \cup {"none"} /\ f \in BOOLEAN
    BY <1>1, PreferencesResolved DEF PreferencesType
  <2>3. key = panel.prefs.theme \/ key = panel.themeKey
    OBVIOUS
  <2>4. f = (panel.prefs.theme = "system") /\ h = Prefs!Resolved(panel.prefs.theme, panel.dark)
    OBVIOUS
  <2> HIDE DEF h, key, f
  <2>5. k \in PreferencesType
    BY <1>1, <2>2 DEF PreferencesType
  <2>6. /\ k.shown = h /\ k.themeKey = key /\ k.documentLang = panel.lang /\ k.fresh = TRUE /\ k.follows = f
        /\ k.prefs = panel.prefs /\ k.lang = panel.lang /\ k.chosen = panel.chosen /\ k.dark = panel.dark
        /\ k.stored = panel.stored /\ k.localeKey = panel.localeKey /\ k.unsaved = panel.unsaved
    BY <1>1 DEF PreferencesType
  <2> HIDE DEF k
  <2>7. ASSUME ~panel.unsaved PROVE Prefs!Load(k) = panel.prefs
    <3>1. Prefs!Load(panel) = panel.prefs
      BY <1>2, <2>7
    <3>2. CASE panel.stored.kind \in {"values", "broken"}
      BY <2>6, <3>1, <3>2 DEF Prefs!Load
    <3>3. CASE panel.stored.kind \notin {"values", "broken"}
      <4> DEFINE d(theme) == [Prefs!Defaults EXCEPT !.theme = theme, !.locale = Prefs!Locale(panel.localeKey)]
      <4>1. Prefs!Load(k) = d(Prefs!Theme(key)) /\ panel.prefs = d(Prefs!Theme(panel.themeKey))
        BY <2>6, <3>1, <3>3 DEF Prefs!Load
      <4>2. \A theme : d(theme).theme = theme
        BY DEF Prefs!Defaults
      <4>3. panel.prefs.theme = Prefs!Theme(panel.themeKey)
        BY <4>1, <4>2
      <4>4. Prefs!Theme(panel.prefs.theme) = panel.prefs.theme
        BY <1>1 DEF Prefs!Theme, Prefs!Themes
      <4> HIDE DEF d
      <4> QED BY <2>3, <4>1, <4>3, <4>4
    <3> QED BY <3>2, <3>3
  <2>8. PreferencesKeeps(k) /\ PageKeeps(k)
    BY <1>2, <2>4, <2>6, <2>7 DEF PreferencesKeeps, PageKeeps
  <2> QED BY <2>1, <2>5, <2>8 DEF PreferencesInv
<1>9. CASE Prefs!SystemChanges
  <2> DEFINE h == IF panel.follows THEN Prefs!Resolved("system", ~panel.dark) ELSE panel.shown
             d == ~panel.dark
             k == [panel EXCEPT !.dark = d, !.shown = h]
  <2>1. panel' = k
    BY <1>1, <1>9 DEF Prefs!SystemChanges, PreferencesType
  <2>2. d \in BOOLEAN /\ h \in {"light", "dark"}
    BY <1>1, PreferencesResolved DEF PreferencesType, Prefs!Themes
  <2>3. panel.fresh => h = Prefs!Resolved(panel.prefs.theme, d)
    BY <1>1 DEF PreferencesInv, PageKeeps, Prefs!Resolved
  <2> HIDE DEF h, d
  <2>4. k \in PreferencesType
    BY <1>1, <2>2 DEF PreferencesType
  <2>5. /\ k.shown = h /\ k.themeKey = panel.themeKey /\ k.documentLang = panel.documentLang /\ k.fresh = panel.fresh
        /\ k.follows = panel.follows /\ k.prefs = panel.prefs /\ k.lang = panel.lang /\ k.chosen = panel.chosen
        /\ k.dark = d /\ k.stored = panel.stored /\ k.localeKey = panel.localeKey /\ k.unsaved = panel.unsaved
    BY <1>1 DEF PreferencesType
  <2> HIDE DEF k
  <2>6. Prefs!Load(k) = Prefs!Load(panel)
    BY <1>1, <2>4, <2>5, PreferencesLoad
  <2>7. PreferencesKeeps(k) /\ PageKeeps(k)
    BY <1>2, <2>3, <2>5, <2>6 DEF PreferencesKeeps, PageKeeps, PreferencesInv
  <2> QED BY <2>1, <2>4, <2>7 DEF PreferencesInv
<1>10. CASE Prefs!StorageChanges
  <2> DEFINE w == ~panel.works
             k == [panel EXCEPT !.works = w]
  <2>1. panel' = k /\ w \in BOOLEAN
    BY <1>1, <1>10 DEF Prefs!StorageChanges, PreferencesType
  <2> HIDE DEF w
  <2>2. k \in PreferencesType
    BY <1>1, <2>1 DEF PreferencesType
  <2>3. /\ k.shown = panel.shown /\ k.themeKey = panel.themeKey /\ k.documentLang = panel.documentLang
        /\ k.fresh = panel.fresh /\ k.follows = panel.follows /\ k.prefs = panel.prefs /\ k.lang = panel.lang
        /\ k.chosen = panel.chosen /\ k.dark = panel.dark /\ k.stored = panel.stored
        /\ k.localeKey = panel.localeKey /\ k.unsaved = panel.unsaved
    BY <1>1 DEF PreferencesType
  <2> HIDE DEF k
  <2>4. Prefs!Load(k) = Prefs!Load(panel)
    BY <1>1, <2>2, <2>3, PreferencesLoad
  <2>5. PreferencesKeeps(k) /\ PageKeeps(k)
    BY <1>2, <2>3, <2>4 DEF PreferencesKeeps, PageKeeps, PreferencesInv
  <2> QED BY <2>1, <2>2, <2>5 DEF PreferencesInv
<1>11. CASE Prefs!Reopens
  BY <1>1, <1>11, PreferencesOpened DEF Prefs!Reopens, PreferencesInv
<1> QED BY <1>4, <1>5, <1>6, <1>7, <1>8, <1>9, <1>10, <1>11 DEF Prefs!Next

\* What the invariant says of the preferences: their type, and the copies
\* agree.
LEMMA PreferencesShow ==
  ASSUME PreferencesInv PROVE Prefs!TypeOK /\ Prefs!CopiesAgree
<1>1. Prefs!TypeOK
  BY DEF PreferencesInv, PreferencesType, Prefs!TypeOK
<1>2. Prefs!CopiesAgree
  BY DEF PreferencesInv, PreferencesKeeps, PageKeeps, Prefs!CopiesAgree, Prefs!ShouldConfirm
<1> QED BY <1>1, <1>2

-----------------------------------------------------------------------------
OnceEach(s) == \A a, b \in 1..Len(s) : s[a] = s[b] => a = b
Members(s) == {s[i] : i \in 1..Len(s)}
Rest(s, p) == [i \in 1..Len(s) - 1 |-> IF i < p THEN s[i] ELSE s[i + 1]]
Proper(s) == s \in Seq(Samplers) /\ OnceEach(s) /\ Len(s) <= MaxChain

\* A change of one sampler: without it, the chains before and after it are the same.
OneChanged(s, t) == \E x \in Samplers : Among(s, Samplers \ {x}) = Among(t, Samplers \ {x})

ChainType ==
  [ config : Seq(Samplers), draft : Seq(Samplers), dragged : 1..MaxChain \cup {NoPlace}, queue : Seq(Seq(Samplers)),
    saving : BOOLEAN, before : Seq(Samplers), by : {"config", "move", "drop", "remove", "add"}, last : Seq(Samplers) ]
ChainKeeps(c) ==
  /\ Proper(c.draft) /\ Len(c.queue) <= MaxChanges /\ \A i \in 1..Len(c.queue) : Proper(c.queue[i])
  /\ c.by = "config" => c.draft = Chain!Normalized(c.config)
  /\ c.by # "config" => OneChanged(c.draft, c.last)
  /\ c.by \in {"move", "drop"} => Members(c.draft) = Members(c.last)
ChainInv == panel \in ChainType /\ ChainKeeps(panel)

\* The recursion of normalizeSamplerChain up to n.
OnceUpTo(s, n, K) ==
  K = [i \in 0..n |-> IF i = 0 THEN <<>>
                      ELSE IF s[i] \in Chain!Range(K[i - 1]) THEN K[i - 1] ELSE Append(K[i - 1], s[i])]

\* The prefixes of a chain without repetitions exist: the recursion of
\* Normalized is well defined.
LEMMA OnceExists ==
  ASSUME NEW s, NEW n \in Nat
  PROVE  \E K : OnceUpTo(s, n, K)
<1> DEFINE T == {m \in Nat : \E K : OnceUpTo(s, m, K)}
<1>1. 0 \in T
  <2>1. OnceUpTo(s, 0, [i \in 0..0 |-> <<>>])
    BY DEF OnceUpTo
  <2> QED BY <2>1
<1>2. ASSUME NEW m \in Nat, m \in T PROVE m + 1 \in T
  <2>1. PICK K : OnceUpTo(s, m, K)
    BY <1>2
  <2> DEFINE R(f, i) == IF i = 0 THEN <<>> ELSE IF s[i] \in Chain!Range(f[i - 1]) THEN f[i - 1] ELSE Append(f[i - 1], s[i])
             L == [i \in 0..m + 1 |-> IF i = m + 1 THEN IF s[i] \in Chain!Range(K[m]) THEN K[m] ELSE Append(K[m], s[i]) ELSE K[i]]
  <2>2. ASSUME NEW i \in 0..m + 1
        PROVE  L[i] = IF i = 0 THEN <<>> ELSE IF s[i] \in Chain!Range(L[i - 1]) THEN L[i - 1] ELSE Append(L[i - 1], s[i])
    <3>1. CASE i = m + 1
      <4>1. L[m + 1] = (IF s[m + 1] \in Chain!Range(K[m]) THEN K[m] ELSE Append(K[m], s[m + 1])) /\ L[m] = K[m]
        OBVIOUS
      <4>2. m + 1 # 0 /\ m + 1 - 1 = m
        OBVIOUS
      <4> HIDE DEF L
      <4> QED BY <3>1, <4>1, <4>2
    <3>2. CASE i # m + 1
      <4>1. i \in 0..m
        BY <3>2
      <4>2. K[i] = IF i = 0 THEN <<>> ELSE IF s[i] \in Chain!Range(K[i - 1]) THEN K[i - 1] ELSE Append(K[i - 1], s[i])
        BY <2>1, <4>1 DEF OnceUpTo
      <4>3. L[i] = K[i] /\ (i # 0 => L[i - 1] = K[i - 1])
        BY <4>1
      <4> HIDE DEF L
      <4> QED BY <4>2, <4>3
    <3> QED BY <3>1, <3>2
  <2>3. OnceUpTo(s, m + 1, L)
    BY <2>2 DEF OnceUpTo
  <2> QED BY <2>3
<1> HIDE DEF T
<1>3. Nat \subseteq T
  BY <1>1, <1>2, Induct
<1> QED BY <1>3 DEF T

\* The range of a chain and its injectivity, by its places.
LEMMA ChainRange ==
  ASSUME NEW T, NEW s \in Seq(T)
  PROVE  Chain!Range(s) = Members(s) /\ (Chain!IsInjective(s) <=> OnceEach(s))
<1>1. DOMAIN s = 1..Len(s)
  OBVIOUS
<1> QED BY <1>1 DEF Chain!Range, Chain!IsInjective, Members, OnceEach

\* A chain with a sampler that is not in it at its end.
LEMMA ChainAppended ==
  ASSUME NEW s \in Seq(Samplers), NEW x \in Samplers
  PROVE  LET k == Append(s, x) IN
         /\ k \in Seq(Samplers) /\ Len(k) = Len(s) + 1 /\ k[Len(s) + 1] = x /\ \A i \in 1..Len(s) : k[i] = s[i]
         /\ OnceEach(s) /\ x \notin Members(s) => OnceEach(k)
<1> DEFINE k == Append(s, x)
           n == Len(s)
<1>1. k \in Seq(Samplers) /\ Len(k) = n + 1 /\ k[n + 1] = x /\ n \in Nat /\ \A i \in 1..n : k[i] = s[i]
  OBVIOUS
<1>2. ASSUME OnceEach(s), x \notin Members(s) PROVE OnceEach(k)
  <2>1. \A i \in 1..n : s[i] # x
    BY <1>2 DEF Members
  <2>2. \A a, b \in 1..n : s[a] = s[b] => a = b
    BY <1>2 DEF OnceEach
  <2> HIDE DEF k, n
  <2>3. \A i \in 1..n + 1 : i = n + 1 \/ i \in 1..n
    BY <1>1
  <2>4. ASSUME NEW a \in 1..n + 1, NEW b \in 1..n + 1, k[a] = k[b] PROVE a = b
    BY <1>1, <2>1, <2>2, <2>3, <2>4
  <2> QED BY <1>1, <2>4 DEF OnceEach
<1> QED BY <1>1, <1>2

\* A chain that is cut at the limit is proper, and one within the limit is left
\* as it is.
LEMMA ChainCut ==
  ASSUME NEW s \in Seq(Samplers), OnceEach(s)
  PROVE  LET k == SubSeq(s, 1, IF Len(s) < MaxChain THEN Len(s) ELSE MaxChain) IN
         Proper(k) /\ (Len(s) <= MaxChain => k = s)
<1> DEFINE m == IF Len(s) < MaxChain THEN Len(s) ELSE MaxChain
           k == SubSeq(s, 1, m)
<1>1. m \in 0..Len(s) /\ m <= MaxChain /\ m \in Nat /\ (Len(s) <= MaxChain => m = Len(s))
  BY ChainAssumption
<1> HIDE DEF m
<1>2. \A i \in 1..m : s[i] \in Samplers
  BY <1>1, ElementOfSeq
<1>3. k \in Seq(Samplers) /\ Len(k) = m /\ \A i \in 1..m : k[i] = s[i]
  BY <1>1, <1>2, SubSeqProperties
<1> HIDE DEF k
<1>4. \A i \in 1..m : i \in 1..Len(s)
  BY <1>1
<1>5. Proper(k)
  BY <1>1, <1>3, <1>4 DEF Proper, OnceEach
<1>6. ASSUME Len(s) <= MaxChain PROVE k = s
  BY <1>1, <1>3, <1>6
<1> QED BY <1>5, <1>6 DEF k, m

\* What the configuration may name twice, the editor names once; what names each
\* once it leaves as it is, up to the limit.
LEMMA ChainNormalized ==
  ASSUME NEW s \in Seq(Samplers)
  PROVE  LET k == Chain!Normalized(s) IN
         /\ Proper(k) /\ (OnceEach(s) /\ Len(s) <= MaxChain => k = s)
         /\ OnceEach(s) => k = SubSeq(s, 1, IF Len(s) < MaxChain THEN Len(s) ELSE MaxChain)
<1>1. Len(s) \in Nat /\ \A i \in 1..Len(s) : s[i] \in Samplers
  BY ElementOfSeq
<1> DEFINE K == CHOOSE K : OnceUpTo(s, Len(s), K)
<1>2. OnceUpTo(s, Len(s), K)
  BY <1>1, OnceExists
<1> DEFINE all == K[Len(s)]
<1>3. Chain!Normalized(s) = SubSeq(all, 1, IF Len(all) < MaxChain THEN Len(all) ELSE MaxChain)
  BY DEF Chain!Normalized, OnceUpTo
<1> HIDE DEF K
<1>4. K[0] = <<>> /\ \A i \in 1..Len(s) : K[i] = IF s[i] \in Chain!Range(K[i - 1]) THEN K[i - 1] ELSE Append(K[i - 1], s[i])
  <2>1. \A i \in 0..Len(s) : K[i] = IF i = 0 THEN <<>>
                               ELSE IF s[i] \in Chain!Range(K[i - 1]) THEN K[i - 1] ELSE Append(K[i - 1], s[i])
    BY <1>2 DEF OnceUpTo
  <2>2. 0 \in 0..Len(s) /\ \A i \in 1..Len(s) : i \in 0..Len(s) /\ i # 0
    BY <1>1
  <2> QED BY <2>1, <2>2
<1> DEFINE Same(n) == Len(K[n]) = n /\ \A j \in 1..n : K[n][j] = s[j]
           I == {n \in Nat : n <= Len(s) => K[n] \in Seq(Samplers) /\ OnceEach(K[n]) /\ (OnceEach(s) => Same(n))}
<1>5. 0 \in I
  <2>1. <<>> \in Seq(Samplers) /\ Len(<<>>) = 0 /\ OnceEach(<<>>)
    BY DEF OnceEach
  <2>2. Same(0)
    BY <1>4, <2>1
  <2> HIDE DEF Same
  <2> QED BY <1>4, <2>1, <2>2
<1>6. ASSUME NEW n \in Nat, n \in I PROVE n + 1 \in I
  <2> SUFFICES ASSUME n + 1 <= Len(s)
               PROVE  K[n + 1] \in Seq(Samplers) /\ OnceEach(K[n + 1]) /\ (OnceEach(s) => Same(n + 1))
    OBVIOUS
  <2>1. K[n] \in Seq(Samplers) /\ OnceEach(K[n]) /\ (OnceEach(s) => Same(n))
    BY <1>1, <1>6
  <2>2. n + 1 \in 1..Len(s) /\ n + 1 - 1 = n /\ s[n + 1] \in Samplers
    BY <1>1
  <2> HIDE DEF I
  <2>3. K[n + 1] = IF s[n + 1] \in Members(K[n]) THEN K[n] ELSE Append(K[n], s[n + 1])
    <3>1. K[n + 1] = IF s[n + 1] \in Chain!Range(K[n]) THEN K[n] ELSE Append(K[n], s[n + 1])
      BY <1>4, <2>2
    <3> QED BY <2>1, <3>1, ChainRange
  <2>4. CASE s[n + 1] \in Members(K[n])
    <3>1. K[n + 1] = K[n]
      BY <2>3, <2>4
    <3>2. ~OnceEach(s)
      <4>1. ASSUME OnceEach(s) PROVE FALSE
        <5>1. PICK j \in 1..n : s[j] = s[n + 1]
          BY <2>1, <2>4, <4>1 DEF Members
        <5>2. j \in 1..Len(s) /\ j # n + 1
          BY <1>1, <2>2
        <5> QED BY <2>2, <4>1, <5>1, <5>2 DEF OnceEach
      <4> QED BY <4>1
    <3> QED BY <2>1, <3>1, <3>2
  <2>5. CASE s[n + 1] \notin Members(K[n])
    <3> DEFINE k == K[n]
    <3>1. K[n + 1] = Append(k, s[n + 1])
      BY <2>3, <2>5
    <3>2. /\ Append(k, s[n + 1]) \in Seq(Samplers) /\ OnceEach(Append(k, s[n + 1])) /\ Len(Append(k, s[n + 1])) = Len(k) + 1
          /\ Append(k, s[n + 1])[Len(k) + 1] = s[n + 1] /\ \A i \in 1..Len(k) : Append(k, s[n + 1])[i] = k[i]
      <4> HIDE DEF k
      <4>1. k \in Seq(Samplers) /\ OnceEach(k) /\ s[n + 1] \notin Members(k)
        BY <2>1, <2>5 DEF k
      <4> QED BY <2>2, <4>1, ChainAppended
    <3>3. ASSUME OnceEach(s) PROVE Same(n + 1)
      <4>1. Len(k) = n /\ \A j \in 1..n : k[j] = s[j]
        BY <2>1, <3>3
      <4> HIDE DEF k
      <4>2. Len(K[n + 1]) = n + 1
        BY <3>1, <3>2, <4>1
      <4>3. ASSUME NEW j \in 1..n + 1 PROVE K[n + 1][j] = s[j]
        <5>1. j \in 1..n \/ j = n + 1
          OBVIOUS
        <5> QED BY <3>1, <3>2, <4>1, <5>1
      <4> QED BY <4>2, <4>3
    <3> QED BY <3>1, <3>2, <3>3
  <2> QED BY <2>4, <2>5
<1> HIDE DEF I
<1>7. Nat \subseteq I
  BY <1>5, <1>6, Induct
<1>8. all \in Seq(Samplers) /\ OnceEach(all) /\ (OnceEach(s) => Len(all) = Len(s) /\ \A j \in 1..Len(s) : all[j] = s[j])
  BY <1>1, <1>7 DEF I
<1> HIDE DEF all
<1>9. OnceEach(s) => all = s
  BY <1>1, <1>8
<1> DEFINE k == SubSeq(all, 1, IF Len(all) < MaxChain THEN Len(all) ELSE MaxChain)
<1>10. Proper(k) /\ (Len(all) <= MaxChain => k = all)
  BY <1>8, ChainCut
<1>11. OnceEach(s) => k = SubSeq(s, 1, IF Len(s) < MaxChain THEN Len(s) ELSE MaxChain)
  BY <1>9
<1>12. Chain!Normalized(s) = k
  BY <1>3
<1> HIDE DEF k
<1> QED BY <1>9, <1>10, <1>11, <1>12

\* The filter of the chain is the one the lemmas are about.
LEMMA ChainAmong ==
  ASSUME NEW s, NEW S PROVE Chain!Among(s, S) = Among(s, S)
BY DEF Chain!Among, Among

\* Without one of its samplers, a chain is the rest.
LEMMA ChainWithout ==
  ASSUME NEW s \in Seq(Samplers), OnceEach(s), NEW p \in 1..Len(s)
  PROVE  Among(s, Samplers \ {s[p]}) = Rest(s, p)
<1> DEFINE S == Samplers \ {s[p]}
<1>1. \A i \in 1..Len(s) : s[i] \in S <=> i # p
  BY ElementOfSeq DEF OnceEach
<1> HIDE DEF S
<1>2. Among(s, S) = [i \in 1..Len(s) - 1 |-> IF i < p THEN s[i] ELSE s[i + 1]]
  BY <1>1, AmongRest
<1> QED BY <1>2 DEF S, Rest

\* Without a sampler that is not in it, a chain is itself.
LEMMA ChainOthers ==
  ASSUME NEW s \in Seq(Samplers), NEW x, x \notin Members(s)
  PROVE  Among(s, Samplers \ {x}) = s
<1> DEFINE S == Samplers \ {x}
<1>1. \A i \in 1..Len(s) : s[i] \in S
  BY ElementOfSeq DEF Members
<1> HIDE DEF S
<1>2. Among(s, S) = s
  BY <1>1, AmongAll
<1> QED BY <1>2 DEF S

\* splice takes one out.
LEMMA ChainRemoved ==
  ASSUME NEW s \in Seq(Samplers), NEW p \in 1..Len(s)
  PROVE  LET r == Chain!RemoveAt(s, p) IN
         /\ r = Rest(s, p) /\ r \in Seq(Samplers) /\ Len(r) = Len(s) - 1
         /\ \A i \in 1..Len(s) - 1 : r[i] = IF i < p THEN s[i] ELSE s[i + 1]
<1> DEFINE n == Len(s)
           a == SubSeq(s, 1, p - 1)
           b == SubSeq(s, p + 1, n)
<1>1. n \in Nat /\ p \in 1..n /\ n - 1 \in Nat /\ \A i \in 1..n : s[i] \in Samplers
  BY ElementOfSeq
<1> HIDE DEF n
<1>2. a \in Seq(Samplers) /\ Len(a) = p - 1 /\ \A i \in 1..p - 1 : a[i] = s[i]
  <2>1. \A i \in 1..p - 1 : s[i] \in Samplers
    BY <1>1
  <2> QED BY <1>1, <2>1, SubSeqProperties
<1>3. b \in Seq(Samplers) /\ Len(b) = n - p /\ \A i \in 1..n - p : b[i] = s[p + i]
  <2>1. \A i \in p + 1..n : s[i] \in Samplers
    BY <1>1
  <2>2. /\ b \in Seq(Samplers) /\ Len(b) = IF p + 1 <= n THEN n - (p + 1) + 1 ELSE 0
        /\ \A i \in 1..n - (p + 1) + 1 : b[i] = s[p + 1 + i - 1]
    BY <1>1, <2>1, SubSeqProperties
  <2> HIDE DEF b
  <2>3. n - (p + 1) + 1 = n - p /\ \A i \in 1..n - p : p + 1 + i - 1 = p + i
    BY <1>1
  <2>4. Len(b) = n - p
    BY <1>1, <2>2
  <2> QED BY <2>2, <2>3, <2>4
<1> HIDE DEF a, b
<1> DEFINE r == a \o b
<1>4. r \in Seq(Samplers) /\ Len(r) = n - 1 /\ \A i \in 1..n - 1 : r[i] = IF i < p THEN s[i] ELSE s[i + 1]
  <2>1. /\ r \in Seq(Samplers) /\ Len(r) = Len(a) + Len(b)
        /\ \A i \in 1..Len(a) + Len(b) : r[i] = IF i <= Len(a) THEN a[i] ELSE b[i - Len(a)]
    BY <1>2, <1>3, ConcatProperties
  <2> HIDE DEF r
  <2>2. Len(r) = n - 1
    BY <1>1, <1>2, <1>3, <2>1
  <2>3. ASSUME NEW i \in 1..n - 1 PROVE r[i] = IF i < p THEN s[i] ELSE s[i + 1]
    <3>1. i \in 1..Len(a) + Len(b)
      BY <1>1, <1>2, <1>3
    <3>2. CASE i < p
      <4>1. i <= Len(a) /\ i \in 1..p - 1
        BY <1>1, <1>2, <3>2
      <4> QED BY <1>2, <2>1, <3>1, <3>2, <4>1
    <3>3. CASE ~(i < p)
      <4>1. ~(i <= Len(a)) /\ i - Len(a) \in 1..n - p /\ p + (i - Len(a)) = i + 1
        BY <1>1, <1>2, <3>3
      <4> QED BY <1>3, <2>1, <3>1, <3>3, <4>1
    <3> QED BY <3>2, <3>3
  <2> QED BY <2>1, <2>2, <2>3
<1>5. Chain!RemoveAt(s, p) = r
  BY DEF Chain!RemoveAt, a, b, n
<1> HIDE DEF r
<1>6. r = Rest(s, p)
  BY <1>1, <1>4 DEF Rest, n
<1> QED BY <1>4, <1>5, <1>6 DEF n

\* splice puts one in.
LEMMA ChainInserted ==
  ASSUME NEW r \in Seq(Samplers), NEW p \in 1..Len(r) + 1, NEW x \in Samplers
  PROVE  LET k == Chain!InsertAt(r, p, x) IN
         /\ k \in Seq(Samplers) /\ Len(k) = Len(r) + 1
         /\ \A i \in 1..Len(r) + 1 : k[i] = IF i < p THEN r[i] ELSE IF i = p THEN x ELSE r[i - 1]
<1> DEFINE n == Len(r)
           a == SubSeq(r, 1, p - 1)
           b == SubSeq(r, p, n)
           c == a \o <<x>>
           k == c \o b
<1>1. n \in Nat /\ p \in 1..n + 1 /\ \A i \in 1..n : r[i] \in Samplers
  BY ElementOfSeq
<1>0. Chain!InsertAt(r, p, x) = k
  BY DEF Chain!InsertAt
<1> HIDE DEF n
<1>2. a \in Seq(Samplers) /\ Len(a) = p - 1 /\ \A i \in 1..p - 1 : a[i] = r[i]
  <2>1. \A i \in 1..p - 1 : r[i] \in Samplers
    BY <1>1
  <2> QED BY <1>1, <2>1, SubSeqProperties
<1>3. b \in Seq(Samplers) /\ Len(b) = n - p + 1 /\ \A i \in 1..n - p + 1 : b[i] = r[p + i - 1]
  <2>1. \A i \in p..n : r[i] \in Samplers
    BY <1>1
  <2>2. /\ b \in Seq(Samplers) /\ Len(b) = IF p <= n THEN n - p + 1 ELSE 0
        /\ \A i \in 1..n - p + 1 : b[i] = r[p + i - 1]
    BY <1>1, <2>1, SubSeqProperties
  <2> HIDE DEF b
  <2>3. Len(b) = n - p + 1
    BY <1>1, <2>2
  <2> QED BY <2>2, <2>3
<1> HIDE DEF a, b
<1>4. c \in Seq(Samplers) /\ Len(c) = p /\ c[p] = x /\ \A i \in 1..p - 1 : c[i] = r[i]
  <2>1. c \in Seq(Samplers) /\ Len(c) = Len(a) + 1 /\ c[Len(a) + 1] = x /\ \A i \in 1..Len(a) : c[i] = a[i]
    BY <1>2
  <2>2. Len(a) + 1 = p
    BY <1>1, <1>2
  <2> HIDE DEF c
  <2> QED BY <1>2, <2>1, <2>2
<1> HIDE DEF c
<1>5. /\ k \in Seq(Samplers) /\ Len(k) = Len(c) + Len(b)
      /\ \A i \in 1..Len(c) + Len(b) : k[i] = IF i <= Len(c) THEN c[i] ELSE b[i - Len(c)]
  BY <1>3, <1>4, ConcatProperties
<1> HIDE DEF k
<1>6. Len(k) = n + 1
  BY <1>1, <1>3, <1>4, <1>5
<1>7. ASSUME NEW i \in 1..n + 1 PROVE k[i] = IF i < p THEN r[i] ELSE IF i = p THEN x ELSE r[i - 1]
  <2>1. i \in 1..Len(c) + Len(b)
    BY <1>1, <1>3, <1>4
  <2>2. CASE i < p
    <3>1. i <= Len(c) /\ i \in 1..p - 1
      BY <1>1, <1>4, <2>2
    <3> QED BY <1>4, <1>5, <2>1, <2>2, <3>1
  <2>3. CASE i = p
    <3>1. i <= Len(c) /\ ~(i < p)
      BY <1>1, <1>4, <2>3
    <3> QED BY <1>4, <1>5, <2>1, <2>3, <3>1
  <2>4. CASE i > p
    <3>1. ~(i <= Len(c)) /\ ~(i < p) /\ i # p /\ i - Len(c) \in 1..n - p + 1 /\ p + (i - Len(c)) - 1 = i - 1
      BY <1>1, <1>4, <2>4
    <3> QED BY <1>3, <1>5, <2>1, <3>1
  <2> QED BY <1>1, <2>2, <2>3, <2>4
<1> QED BY <1>0, <1>5, <1>6, <1>7 DEF n

\* The editor starts with the invariant (TuningSamplerChain.tsx).
LEMMA ChainInit ==
  ASSUME Chain!Init PROVE ChainInv
<1>1. PICK value \in Chain!Chains(MaxChain + 1) :
        panel = [ config |-> value, draft |-> Chain!Normalized(value), dragged |-> NoPlace, queue |-> <<>>,
                  saving |-> FALSE, before |-> <<>>, by |-> "config", last |-> <<>> ]
  BY DEF Chain!Init
<1>2. value \in Seq(Samplers)
  <2>1. PICK k \in 0..MaxChain + 1 : value \in [1..k -> Samplers]
    BY DEF Chain!Chains
  <2>2. k \in Nat
    BY ChainAssumption
  <2> QED BY <2>1, <2>2
<1> DEFINE d == Chain!Normalized(value)
<1>3. Proper(d)
  BY <1>2, ChainNormalized
<1>4. panel = [ config |-> value, draft |-> d, dragged |-> NoPlace, queue |-> <<>>,
                saving |-> FALSE, before |-> <<>>, by |-> "config", last |-> <<>> ]
  BY <1>1
<1>d. d = Chain!Normalized(value)
  OBVIOUS
<1> HIDE DEF d
<1>5. panel \in ChainType
  BY <1>2, <1>3, <1>4 DEF ChainType, Proper
<1>6. /\ panel.draft = d /\ panel.config = value /\ panel.by = "config" /\ panel.queue = <<>>
  BY <1>4
<1>7. ChainKeeps(panel)
  BY <1>3, <1>6, <1>d, ChainAssumption DEF ChainKeeps
<1> QED BY <1>5, <1>7 DEF ChainInv

\* The types of the fields of the editor.
LEMMA ChainFields ==
  ASSUME ChainInv
  PROVE  /\ panel \in ChainType /\ panel.config \in Seq(Samplers) /\ panel.draft \in Seq(Samplers)
         /\ panel.queue \in Seq(Seq(Samplers)) /\ panel.before \in Seq(Samplers) /\ panel.saving \in BOOLEAN
         /\ Proper(panel.draft) /\ Len(panel.queue) <= MaxChanges /\ (\A i \in 1..Len(panel.queue) : Proper(panel.queue[i]))
         /\ DOMAIN panel.draft = 1..Len(panel.draft) /\ Len(panel.draft) \in Nat /\ OnceEach(panel.draft)
         /\ \A i \in 1..Len(panel.draft) : panel.draft[i] \in Samplers
<1>1. panel.draft \in Seq(Samplers) /\ Proper(panel.draft)
  BY DEF ChainInv, ChainType, ChainKeeps
<1>2. \A i \in 1..Len(panel.draft) : panel.draft[i] \in Samplers
  BY <1>1, ElementOfSeq
<1> QED BY <1>1, <1>2 DEF ChainInv, ChainType, ChainKeeps, Proper

\* A change that was published: it is shown, and the last that waits.
LEMMA ChainPublished ==
  ASSUME ChainInv, NEW how \in {"move", "drop", "remove", "add"}, NEW next, NEW dragged \in 1..MaxChain \cup {NoPlace},
         Proper(next), OneChanged(next, panel.draft), how \in {"move", "drop"} => Members(next) = Members(panel.draft),
         Len(panel.queue) < MaxChanges,
         panel' = [panel EXCEPT !.draft = next, !.queue = Append(panel.queue, next), !.dragged = dragged,
                                !.by = how, !.last = panel.draft]
  PROVE  ChainInv'
<1> DEFINE q == Append(panel.queue, next)
<1>1. next \in Seq(Samplers) /\ panel \in ChainType /\ panel.queue \in Seq(Seq(Samplers)) /\ panel.draft \in Seq(Samplers)
  BY ChainFields DEF Proper
<1>2. q \in Seq(Seq(Samplers)) /\ Len(q) = Len(panel.queue) + 1 /\ Len(panel.queue) \in Nat
      /\ q[Len(panel.queue) + 1] = next /\ \A i \in 1..Len(panel.queue) : q[i] = panel.queue[i]
  BY <1>1
<1> HIDE DEF q
<1>3. \A i \in 1..Len(q) : Proper(q[i])
  <2>1. \A i \in 1..Len(q) : i \in 1..Len(panel.queue) \/ i = Len(panel.queue) + 1
    BY <1>2
  <2> QED BY <1>2, <2>1, ChainFields
<1>4. Len(q) <= MaxChanges
  BY <1>2, ChainAssumption
<1>5. panel' = [panel EXCEPT !.draft = next, !.queue = q, !.dragged = dragged, !.by = how, !.last = panel.draft]
  BY DEF q
<1>6. panel' \in ChainType
  BY <1>1, <1>2, <1>5 DEF ChainType
<1>7. panel'.draft = next /\ panel'.queue = q /\ panel'.by = how /\ panel'.last = panel.draft
  BY <1>1, <1>5 DEF ChainType
<1>8. ChainKeeps(panel')
  BY <1>3, <1>4, <1>7 DEF ChainKeeps
<1> QED BY <1>6, <1>8 DEF ChainInv

\* The configuration's chain is brought back.
LEMMA ChainRendered ==
  ASSUME NEW c \in ChainType, NEW config \in Seq(Samplers), Len(c.queue) <= MaxChanges,
         \A i \in 1..Len(c.queue) : Proper(c.queue[i]), panel' = Chain!Rendered(c, config)
  PROVE  ChainInv'
<1> DEFINE d == Chain!Normalized(config)
<1>1. Proper(d) /\ d \in Seq(Samplers)
  BY ChainNormalized DEF Proper
<1>2. panel' = [c EXCEPT !.config = config, !.draft = d, !.by = "config"]
  BY DEF Chain!Rendered
<1>d. d = Chain!Normalized(config)
  OBVIOUS
<1> HIDE DEF d
<1>3. panel' \in ChainType
  BY <1>1, <1>2 DEF ChainType
<1>4. panel'.config = config /\ panel'.draft = d /\ panel'.by = "config" /\ panel'.queue = c.queue
  BY <1>2 DEF ChainType
<1>5. ChainKeeps(panel')
  BY <1>1, <1>4, <1>d DEF ChainKeeps
<1> QED BY <1>3, <1>5 DEF ChainInv

\* Two neighbours change places.
LEMMA ChainMoves ==
  ASSUME ChainInv, Chain!Move PROVE ChainInv'
<1> DEFINE d == panel.draft
           n == Len(d)
<1>1. d \in Seq(Samplers) /\ n \in Nat /\ DOMAIN d = 1..n /\ OnceEach(d) /\ n <= MaxChain /\ (\A i \in 1..n : d[i] \in Samplers)
      /\ panel \in ChainType
  BY ChainFields DEF Proper
<1>2. PICK i \in 1..n : /\ i < n /\ Len(panel.queue) < MaxChanges
                       /\ Chain!Published("move", [d EXCEPT ![i] = d[i + 1], ![i + 1] = d[i]])
  BY <1>1 DEF Chain!Move, Chain!Published
<1> DEFINE s == [d EXCEPT ![i] = d[i + 1], ![i + 1] = d[i]]
           next == Chain!Normalized(s)
<1>3. panel' = [panel EXCEPT !.draft = next, !.queue = Append(panel.queue, next), !.by = "move", !.last = panel.draft]
  BY <1>1, <1>2 DEF Chain!Published, ChainType
<1> HIDE DEF n
<1>4. i + 1 \in 1..n /\ i + 1 # i
  BY <1>1, <1>2
<1>5. s[i] = d[i + 1] /\ s[i + 1] = d[i] /\ \A j \in 1..n : j # i /\ j # i + 1 => s[j] = d[j]
  BY <1>1, <1>4 DEF n
<1>6. s \in Seq(Samplers) /\ Len(s) = n
  <2>1. s \in [1..n -> Samplers]
    BY <1>1, <1>4
  <2> HIDE DEF s
  <2> QED BY <1>1, <2>1
<1> HIDE DEF d, s
<1>7. OnceEach(s)
  <2>1. \A a, b \in 1..n : d[a] = d[b] => a = b
    BY <1>1 DEF OnceEach, n
  <2>2. ASSUME NEW a \in 1..n, NEW b \in 1..n, s[a] = s[b] PROVE a = b
    BY <1>4, <1>5, <2>1, <2>2
  <2> QED BY <1>6, <2>2 DEF OnceEach
<1>8. next = s
  BY <1>1, <1>6, <1>7, ChainNormalized
<1> HIDE DEF next
<1>9. Members(s) = Members(d)
  <2>1. ASSUME NEW j \in 1..n PROVE (\E k \in 1..n : s[k] = d[j]) /\ (\E k \in 1..n : d[k] = s[j])
    BY <1>4, <1>5
  <2>2. Members(s) = {s[k] : k \in 1..n}
    BY <1>6 DEF Members
  <2>3. Members(d) = {d[k] : k \in 1..n}
    BY DEF Members, n
  <2>4. Members(s) \subseteq Members(d) /\ Members(d) \subseteq Members(s)
    BY <2>1, <2>2, <2>3
  <2> QED BY <2>4
<1>10. OneChanged(s, d)
  <2>1. Among(d, Samplers \ {d[i]}) = Rest(d, i)
    BY <1>1, ChainWithout DEF n
  <2>2. Among(s, Samplers \ {s[i + 1]}) = Rest(s, i + 1)
    BY <1>4, <1>6, <1>7, ChainWithout
  <2>3. Rest(s, i + 1) = Rest(d, i)
    <3>1. ASSUME NEW j \in 1..n - 1 PROVE (IF j < i + 1 THEN s[j] ELSE s[j + 1]) = (IF j < i THEN d[j] ELSE d[j + 1])
      <4>1. j \in 1..n /\ j + 1 \in 1..n
        BY <1>1
      <4>2. CASE j < i
        <5>1. j < i + 1 /\ j # i /\ j # i + 1
          BY <4>2
        <5> QED BY <1>5, <4>1, <4>2, <5>1
      <4>3. CASE j = i
        BY <1>5, <4>3
      <4>4. CASE j > i
        <5>1. ~(j < i + 1) /\ ~(j < i) /\ j + 1 # i /\ j + 1 # i + 1
          BY <4>4
        <5> QED BY <1>5, <4>1, <5>1
      <4> QED BY <4>2, <4>3, <4>4
    <3> QED BY <1>6, <3>1 DEF Rest, n
  <2>4. d[i] \in Samplers /\ s[i + 1] = d[i]
    BY <1>1, <1>5
  <2> QED BY <2>1, <2>2, <2>3, <2>4 DEF OneChanged
<1>11. Proper(s)
  BY <1>1, <1>6, <1>7 DEF Proper
<1> DEFINE g == panel.dragged
<1>12. g \in 1..MaxChain \cup {NoPlace}
  BY <1>1 DEF ChainType
<1>13. panel' = [panel EXCEPT !.draft = s, !.queue = Append(panel.queue, s), !.dragged = g, !.by = "move", !.last = panel.draft]
  BY <1>1, <1>3, <1>8 DEF ChainType
<1> HIDE DEF g
<1> QED BY <1>2, <1>9, <1>10, <1>11, <1>12, <1>13, ChainPublished DEF d

\* A sampler is put at another place.
LEMMA ChainDropped ==
  ASSUME NEW d \in Seq(Samplers), OnceEach(d), NEW from \in 1..Len(d), NEW to \in 1..Len(d)
  PROVE  LET s == Chain!InsertAt(Chain!RemoveAt(d, from), to, d[from]) IN
         /\ s \in Seq(Samplers) /\ Len(s) = Len(d) /\ OnceEach(s)
         /\ OneChanged(s, d) /\ Members(s) = Members(d)
<1> DEFINE n == Len(d)
           r == Chain!RemoveAt(d, from)
           s == Chain!InsertAt(r, to, d[from])
<1>1. n \in Nat /\ from \in 1..n /\ to \in 1..n /\ (\A i \in 1..n : d[i] \in Samplers)
  BY ElementOfSeq
<1>2. /\ r = Rest(d, from) /\ r \in Seq(Samplers) /\ Len(r) = n - 1
      /\ \A i \in 1..n - 1 : r[i] = IF i < from THEN d[i] ELSE d[i + 1]
  BY ChainRemoved
<1>a. \A a, b \in 1..n : d[a] = d[b] => a = b
  BY DEF OnceEach
<1> HIDE DEF n, r
<1>3. Len(r) + 1 = n /\ to \in 1..Len(r) + 1 /\ d[from] \in Samplers
  BY <1>1, <1>2
<1>4. /\ s \in Seq(Samplers) /\ Len(s) = Len(r) + 1
      /\ \A i \in 1..Len(r) + 1 : s[i] = IF i < to THEN r[i] ELSE IF i = to THEN d[from] ELSE r[i - 1]
  BY <1>2, <1>3, ChainInserted
<1> HIDE DEF s
<1>5. Len(s) = n /\ s[to] = d[from] /\ \A i \in 1..n : s[i] = IF i < to THEN r[i] ELSE IF i = to THEN d[from] ELSE r[i - 1]
  <2>1. \A i \in 1..n : s[i] = IF i < to THEN r[i] ELSE IF i = to THEN d[from] ELSE r[i - 1]
    BY <1>3, <1>4
  <2>2. s[to] = IF to < to THEN r[to] ELSE IF to = to THEN d[from] ELSE r[to - 1]
    BY <1>1, <2>1
  <2>3. ~(to < to)
    BY <1>1
  <2>4. s[to] = d[from]
    BY <2>2, <2>3, Zenon
  <2> QED BY <1>3, <1>4, <2>1, <2>4
<1> DEFINE P(i) == IF i = to THEN from
                   ELSE IF i < to THEN (IF i < from THEN i ELSE i + 1) ELSE (IF i - 1 < from THEN i - 1 ELSE i)
           Q(j) == IF j = from THEN to
                   ELSE IF j < from THEN (IF j < to THEN j ELSE j + 1) ELSE (IF j - 1 < to THEN j - 1 ELSE j)
<1>6. ASSUME NEW i \in 1..n PROVE P(i) \in 1..n /\ s[i] = d[P(i)] /\ Q(P(i)) = i
  <2>1. CASE i = to
    BY <1>1, <1>5, <2>1
  <2>2. CASE i < to
    <3>1. i \in 1..n - 1 /\ s[i] = r[i]
      BY <1>1, <1>5, <2>2
    <3>2. P(i) = IF i < from THEN i ELSE i + 1
      BY <1>1, <2>2
    <3>3. P(i) \in 1..n /\ Q(P(i)) = i
      BY <1>1, <2>2
    <3>4. r[i] = IF i < from THEN d[i] ELSE d[i + 1]
      BY <1>2, <3>1
    <3> HIDE DEF Q
    <3> QED BY <3>1, <3>2, <3>3, <3>4
  <2>3. CASE i > to
    <3>1. i - 1 \in 1..n - 1 /\ s[i] = r[i - 1] /\ i - 1 + 1 = i
      <4>1. i - 1 \in 1..n - 1 /\ i - 1 + 1 = i /\ ~(i < to) /\ i # to
        BY <1>1, <2>3
      <4>2. s[i] = r[i - 1]
        BY <1>5, <4>1
      <4> QED BY <4>1, <4>2
    <3>2. P(i) = IF i - 1 < from THEN i - 1 ELSE i
      BY <1>1, <2>3
    <3>3. P(i) \in 1..n /\ Q(P(i)) = i
      BY <1>1, <2>3
    <3>4. r[i - 1] = IF i - 1 < from THEN d[i - 1] ELSE d[i]
      BY <1>2, <3>1
    <3> HIDE DEF Q
    <3> QED BY <3>1, <3>2, <3>3, <3>4
  <2> QED BY <1>1, <2>1, <2>2, <2>3
<1>7. ASSUME NEW j \in 1..n PROVE Q(j) \in 1..n /\ P(Q(j)) = j
  BY <1>1
<1> HIDE DEF P, Q
<1>8. OnceEach(s)
  <2>1. ASSUME NEW a \in 1..n, NEW b \in 1..n, s[a] = s[b] PROVE a = b
    <3>1. P(a) = P(b)
      BY <1>6, <1>a, <2>1
    <3> QED BY <1>6, <3>1
  <2> QED BY <1>5, <2>1 DEF OnceEach
<1>9. Members(s) = Members(d)
  <2>1. ASSUME NEW j \in 1..n PROVE (\E k \in 1..n : s[k] = d[j]) /\ (\E k \in 1..n : d[k] = s[j])
    BY <1>6, <1>7
  <2>2. Members(s) = {s[k] : k \in 1..n}
    BY <1>5 DEF Members
  <2>3. Members(d) = {d[k] : k \in 1..n}
    BY DEF Members, n
  <2>4. Members(s) \subseteq Members(d) /\ Members(d) \subseteq Members(s)
    BY <2>1, <2>2, <2>3
  <2> QED BY <2>4
<1>10. OneChanged(s, d)
  <2>1. Among(d, Samplers \ {d[from]}) = Rest(d, from)
    BY <1>1, ChainWithout DEF n
  <2>2. Among(s, Samplers \ {s[to]}) = Rest(s, to)
    BY <1>1, <1>4, <1>5, <1>8, ChainWithout
  <2>3. Rest(s, to) = r
    <3>1. ASSUME NEW j \in 1..n - 1 PROVE (IF j < to THEN s[j] ELSE s[j + 1]) = r[j]
      <4>1. j \in 1..n /\ j + 1 \in 1..n /\ j + 1 - 1 = j
        BY <1>1
      <4>2. CASE j < to
        BY <1>5, <4>1, <4>2
      <4>3. CASE ~(j < to)
        <5>1. ~(j + 1 < to) /\ j + 1 # to
          BY <1>1, <4>3
        <5> QED BY <1>5, <4>1, <4>3, <5>1
      <4> QED BY <4>2, <4>3
    <3>2. Rest(s, to) = [j \in 1..n - 1 |-> r[j]]
      <4>1. Rest(s, to) = [j \in 1..n - 1 |-> IF j < to THEN s[j] ELSE s[j + 1]]
        BY <1>5 DEF Rest
      <4> QED BY <3>1, <4>1
    <3>3. r = [j \in 1..n - 1 |-> r[j]]
      BY <1>2
    <3> QED BY <3>2, <3>3
  <2> QED BY <1>2, <1>3, <1>5, <2>1, <2>2, <2>3 DEF OneChanged
<1> QED BY <1>4, <1>5, <1>8, <1>9, <1>10 DEF s, r, n

\* A drop puts the dragged sampler at another place and saves the chain
\* (TuningSamplerChain.tsx).
LEMMA ChainDrops ==
  ASSUME ChainInv, Chain!Drop PROVE ChainInv'
<1> DEFINE d == panel.draft
           from == panel.dragged
<1>1. d \in Seq(Samplers) /\ DOMAIN d = 1..Len(d) /\ OnceEach(d) /\ Len(d) <= MaxChain /\ panel \in ChainType
  BY ChainFields DEF Proper
<1>2. PICK to \in 1..Len(d) :
        /\ from \in 1..Len(d) /\ Len(panel.queue) < MaxChanges
        /\ panel' = [panel EXCEPT !.draft = Chain!Normalized(Chain!InsertAt(Chain!RemoveAt(d, from), to, d[from])),
                                  !.queue = Append(panel.queue, Chain!Normalized(Chain!InsertAt(Chain!RemoveAt(d, from), to, d[from]))),
                                  !.dragged = NoPlace, !.by = "drop", !.last = d]
  <2>1. PICK to \in DOMAIN d :
          /\ from \in DOMAIN d \ {to} /\ Len(panel.queue) < MaxChanges
          /\ panel' = [panel EXCEPT !.draft = Chain!Normalized(Chain!InsertAt(Chain!RemoveAt(d, from), to, d[from])),
                                    !.queue = Append(@, Chain!Normalized(Chain!InsertAt(Chain!RemoveAt(d, from), to, d[from]))),
                                    !.dragged = NoPlace, !.by = "drop", !.last = d]
    BY DEF Chain!Drop
  <2> QED BY <1>1, <2>1
<1> DEFINE s == Chain!InsertAt(Chain!RemoveAt(d, from), to, d[from])
<1>3. s \in Seq(Samplers) /\ Len(s) = Len(d) /\ OnceEach(s) /\ OneChanged(s, d) /\ Members(s) = Members(d)
  <2>1. from \in 1..Len(d) /\ to \in 1..Len(d)
    BY <1>2
  <2> HIDE DEF d, from
  <2> QED BY <1>1, <2>1, ChainDropped
<1>4. panel' = [panel EXCEPT !.draft = Chain!Normalized(s), !.queue = Append(panel.queue, Chain!Normalized(s)),
                            !.dragged = NoPlace, !.by = "drop", !.last = panel.draft]
  BY <1>2
<1> HIDE DEF s
<1>5. Chain!Normalized(s) = s
  BY <1>1, <1>3, ChainNormalized
<1>6. panel' = [panel EXCEPT !.draft = s, !.queue = Append(panel.queue, s), !.dragged = NoPlace, !.by = "drop", !.last = panel.draft]
  BY <1>4, <1>5
<1>7. Proper(s) /\ NoPlace \in 1..MaxChain \cup {NoPlace}
  BY <1>1, <1>3 DEF Proper
<1> QED BY <1>2, <1>3, <1>6, <1>7, ChainPublished

\* A sampler that is taken out is taken out alone (TuningSamplerChain.tsx).
LEMMA ChainTakesOut ==
  ASSUME ChainInv, Chain!TakeOut PROVE ChainInv'
<1> DEFINE d == panel.draft
<1>1. d \in Seq(Samplers) /\ DOMAIN d = 1..Len(d) /\ OnceEach(d) /\ Len(d) <= MaxChain /\ panel \in ChainType
      /\ Len(d) \in Nat /\ \A i \in 1..Len(d) : d[i] \in Samplers
  BY ChainFields DEF Proper
<1>2. PICK i \in 1..Len(d) : Chain!Published("remove", Chain!RemoveAt(d, i))
  BY <1>1 DEF Chain!TakeOut
<1> DEFINE s == Chain!RemoveAt(d, i)
           next == Chain!Normalized(s)
           g == panel.dragged
<1>3. Len(panel.queue) < MaxChanges
      /\ panel' = [panel EXCEPT !.draft = next, !.queue = Append(panel.queue, next), !.dragged = g, !.by = "remove", !.last = panel.draft]
  BY <1>1, <1>2 DEF Chain!Published, ChainType
<1> HIDE DEF d
<1>4. s = Rest(d, i) /\ s \in Seq(Samplers) /\ Len(s) = Len(d) - 1
      /\ \A j \in 1..Len(d) - 1 : s[j] = IF j < i THEN d[j] ELSE d[j + 1]
  BY <1>1, ChainRemoved
<1> HIDE DEF s
<1>5. OnceEach(s) /\ \A a \in 1..Len(s) : s[a] # d[i]
  <2> DEFINE P(a) == IF a < i THEN a ELSE a + 1
  <2>1. ASSUME NEW a \in 1..Len(s) PROVE P(a) \in 1..Len(d) /\ s[a] = d[P(a)] /\ P(a) # i
    <3>1. a \in 1..Len(d) - 1 /\ a \in 1..Len(d) /\ a + 1 \in 1..Len(d)
      BY <1>1, <1>4
    <3>2. s[a] = IF a < i THEN d[a] ELSE d[a + 1]
      BY <1>4, <3>1
    <3> QED BY <3>1, <3>2
  <2>2. ASSUME NEW a \in 1..Len(s), NEW b \in 1..Len(s), P(a) = P(b) PROVE a = b
    BY <1>1, <1>4, <2>2
  <2> HIDE DEF P
  <2>3. \A a, b \in 1..Len(d) : d[a] = d[b] => a = b
    BY <1>1 DEF OnceEach
  <2>4. \A a, b \in 1..Len(s) : s[a] = s[b] => a = b
    BY <2>1, <2>2, <2>3
  <2> QED BY <2>1, <2>3, <2>4 DEF OnceEach
<1>m. Len(s) <= MaxChain
  BY <1>1, <1>4, ChainAssumption
<1>6. next = s
  BY <1>4, <1>5, <1>m, ChainNormalized
<1> HIDE DEF next
<1>7. OneChanged(s, d)
  <2>1. Among(d, Samplers \ {d[i]}) = Rest(d, i)
    BY <1>1, ChainWithout
  <2>2. d[i] \notin Members(s)
    BY <1>5 DEF Members
  <2>3. Among(s, Samplers \ {d[i]}) = s
    BY <1>4, <2>2, ChainOthers
  <2> QED BY <1>1, <1>4, <2>1, <2>3 DEF OneChanged
<1>8. Proper(s)
  BY <1>4, <1>5, <1>m DEF Proper
<1>9. g \in 1..MaxChain \cup {NoPlace}
  BY <1>1 DEF ChainType
<1>10. panel' = [panel EXCEPT !.draft = s, !.queue = Append(panel.queue, s), !.dragged = g, !.by = "remove", !.last = panel.draft]
  BY <1>3, <1>6
<1> HIDE DEF g
<1> QED BY <1>3, <1>7, <1>8, <1>9, <1>10, ChainPublished DEF d

\* A sampler that is added comes last, unless the chain is full
\* (TuningSamplerChain.tsx).
LEMMA ChainAdds ==
  ASSUME ChainInv, Chain!AddSelected PROVE ChainInv'
<1> DEFINE d == panel.draft
           g == panel.dragged
<1>1. d \in Seq(Samplers) /\ OnceEach(d) /\ Len(d) <= MaxChain /\ panel \in ChainType /\ Len(d) \in Nat /\ Proper(d)
  BY ChainFields DEF Proper
<1>2. PICK x \in Samplers : x \notin Chain!Range(d) /\ Chain!Published("add", Append(d, x))
  BY DEF Chain!AddSelected
<1> DEFINE s == Append(d, x)
           next == Chain!Normalized(s)
<1>3. Len(panel.queue) < MaxChanges
      /\ panel' = [panel EXCEPT !.draft = next, !.queue = Append(panel.queue, next), !.dragged = g, !.by = "add", !.last = panel.draft]
  BY <1>1, <1>2 DEF Chain!Published, ChainType
<1> HIDE DEF d
<1>4. x \notin Members(d)
  BY <1>1, <1>2, ChainRange
<1>5. s \in Seq(Samplers) /\ Len(s) = Len(d) + 1 /\ s[Len(d) + 1] = x /\ (\A i \in 1..Len(d) : s[i] = d[i]) /\ OnceEach(s)
  BY <1>1, <1>4, ChainAppended
<1> HIDE DEF s
<1>6. Proper(next) /\ OneChanged(next, d)
  <2>1. CASE Len(d) < MaxChain
    <3>1. next = s
      <4>1. Len(s) <= MaxChain
        BY <1>1, <1>5, <2>1, ChainAssumption
      <4> QED BY <1>5, <4>1, ChainNormalized
    <3> HIDE DEF next
    <3>2. Proper(s)
      BY <1>1, <1>5, <2>1, ChainAssumption DEF Proper
    <3> DEFINE p == Len(d) + 1
    <3>3. p \in 1..Len(s) /\ s[p] = x
      BY <1>1, <1>5
    <3>4. Rest(s, p) = d
      <4>1. ASSUME NEW j \in 1..Len(s) - 1 PROVE (IF j < p THEN s[j] ELSE s[j + 1]) = d[j]
        BY <1>1, <1>5
      <4>2. Rest(s, p) = [j \in 1..Len(s) - 1 |-> d[j]]
        <5> HIDE DEF p
        <5> QED BY <4>1 DEF Rest
      <4>3. Len(s) - 1 = Len(d) /\ d = [j \in 1..Len(d) |-> d[j]]
        BY <1>1, <1>5
      <4> QED BY <4>2, <4>3
    <3> HIDE DEF p
    <3>5. Among(s, Samplers \ {x}) = d
      <4>1. Among(s, Samplers \ {s[p]}) = Rest(s, p)
        BY <1>5, <3>3, ChainWithout
      <4> QED BY <3>3, <3>4, <4>1
    <3>6. Among(d, Samplers \ {x}) = d
      BY <1>1, <1>4, ChainOthers
    <3> QED BY <3>1, <3>2, <3>5, <3>6 DEF OneChanged
  <2>2. CASE Len(d) = MaxChain
    <3>1. next = SubSeq(s, 1, MaxChain)
      <4>1. next = SubSeq(s, 1, IF Len(s) < MaxChain THEN Len(s) ELSE MaxChain)
        BY <1>5, ChainNormalized
      <4>2. ~(Len(s) < MaxChain)
        BY <1>1, <1>5, <2>2
      <4> QED BY <4>1, <4>2
    <3> HIDE DEF next
    <3>2. next = d
      <4>1. \A i \in 1..MaxChain : s[i] \in Samplers
        BY <1>1, <1>5, <2>2, ElementOfSeq
      <4>2. next \in Seq(Samplers) /\ Len(next) = MaxChain /\ \A i \in 1..MaxChain : next[i] = s[i]
        <5>1. MaxChain \in 0..Len(s) /\ MaxChain \in Nat
          BY <1>1, <1>5, <2>2
        <5> QED BY <1>5, <3>1, <4>1, <5>1, SubSeqProperties
      <4> QED BY <1>1, <1>5, <2>2, <4>2
    <3> QED BY <1>1, <3>2 DEF OneChanged
  <2> QED BY <1>1, <2>1, <2>2, ChainAssumption
<1>7. g \in 1..MaxChain \cup {NoPlace}
  BY <1>1 DEF ChainType
<1> HIDE DEF g, next
<1> QED BY <1>3, <1>6, <1>7, ChainPublished DEF d

\* Dragging changes no chain.
LEMMA ChainDrags ==
  ASSUME ChainInv, Chain!DragStart \/ Chain!DragEnd PROVE ChainInv'
<1>1. panel \in ChainType /\ DOMAIN panel.draft = 1..Len(panel.draft) /\ Len(panel.draft) <= MaxChain /\ Len(panel.draft) \in Nat
  BY ChainFields DEF Proper
<1>2. PICK g \in 1..MaxChain \cup {NoPlace} : panel' = [panel EXCEPT !.dragged = g]
  <2>1. CASE Chain!DragStart
    <3>1. PICK i \in 1..Len(panel.draft) : panel' = [panel EXCEPT !.dragged = i]
      BY <1>1, <2>1 DEF Chain!DragStart
    <3>2. i \in 1..MaxChain \cup {NoPlace}
      BY <1>1, ChainAssumption
    <3> QED BY <3>1, <3>2
  <2>2. CASE Chain!DragEnd
    BY <2>2 DEF Chain!DragEnd
  <2> QED BY <2>1, <2>2
<1>3. panel' \in ChainType
  BY <1>1, <1>2 DEF ChainType
<1>4. /\ panel'.config = panel.config /\ panel'.draft = panel.draft /\ panel'.queue = panel.queue
      /\ panel'.by = panel.by /\ panel'.last = panel.last
  BY <1>1, <1>2 DEF ChainType
<1>5. ChainKeeps(panel')
  BY <1>4 DEF ChainInv, ChainKeeps
<1> QED BY <1>3, <1>5 DEF ChainInv

\* A render, and a save that begins or ends, shows the chain of the
\* configuration (useTuningController.ts).
LEMMA ChainSaves ==
  ASSUME ChainInv, Chain!Render \/ Chain!SaveBegins \/ Chain!SaveEnds PROVE ChainInv'
<1>1. /\ panel \in ChainType /\ panel.config \in Seq(Samplers) /\ panel.before \in Seq(Samplers)
      /\ panel.queue \in Seq(Seq(Samplers)) /\ Len(panel.queue) <= MaxChanges
      /\ \A i \in 1..Len(panel.queue) : Proper(panel.queue[i])
  BY ChainFields
<1>2. CASE Chain!Render
  BY <1>1, <1>2, ChainRendered DEF Chain!Render
<1>3. CASE Chain!SaveBegins
  <2> DEFINE q == Tail(panel.queue)
             h == Head(panel.queue)
             c == [panel EXCEPT !.saving = TRUE, !.before = panel.config, !.queue = q]
  <2>1. panel.queue # <<>> /\ panel' = Chain!Rendered(c, h)
    BY <1>3 DEF Chain!SaveBegins
  <2>2. h \in Seq(Samplers) /\ q \in Seq(Seq(Samplers)) /\ Len(q) = Len(panel.queue) - 1 /\ Len(panel.queue) \in Nat
        /\ \A i \in 1..Len(q) : q[i] = panel.queue[i + 1]
    BY <1>1, <2>1, HeadTailProperties
  <2> HIDE DEF q, h
  <2>3. \A i \in 1..Len(q) : Proper(q[i])
    <3>1. \A i \in 1..Len(q) : i + 1 \in 1..Len(panel.queue)
      BY <2>2
    <3> QED BY <1>1, <2>2, <3>1
  <2>4. Len(q) <= MaxChanges
    BY <1>1, <2>2, ChainAssumption
  <2>5. c \in ChainType /\ c.queue = q
    BY <1>1, <2>2 DEF ChainType
  <2> HIDE DEF c
  <2> QED BY <2>1, <2>2, <2>3, <2>4, <2>5, ChainRendered
<1>4. CASE Chain!SaveEnds
  <2> DEFINE c == [panel EXCEPT !.saving = FALSE, !.before = <<>>]
  <2>1. PICK config \in {panel.config, panel.before} : panel' = Chain!Rendered(c, config)
    BY <1>4 DEF Chain!SaveEnds
  <2>2. c \in ChainType /\ c.queue = panel.queue
    <3>1. <<>> \in Seq(Samplers)
      OBVIOUS
    <3> QED BY <1>1, <3>1 DEF ChainType
  <2>3. config \in Seq(Samplers)
    BY <1>1
  <2> HIDE DEF c
  <2> QED BY <1>1, <2>1, <2>2, <2>3, ChainRendered
<1> QED BY <1>2, <1>3, <1>4

\* Every handler of the editor, and every save, keeps the invariant
\* (TuningSamplerChain.tsx).
LEMMA ChainNext ==
  ASSUME ChainInv, Chain!Next PROVE ChainInv'
BY ChainMoves, ChainDrags, ChainDrops, ChainTakesOut, ChainAdds, ChainSaves DEF Chain!Next

\* What the invariant says of the editor: its type, a change is of one sampler,
\* and a render shows the configuration.
LEMMA ChainShows ==
  ASSUME ChainInv PROVE Chain!TypeOK /\ Chain!OneAtATime /\ Chain!ShowsConfig
<1>1. panel \in ChainType /\ ChainKeeps(panel) /\ panel.draft \in Seq(Samplers) /\ panel.last \in Seq(Samplers)
      /\ panel.queue \in Seq(Seq(Samplers)) /\ Proper(panel.draft) /\ panel.saving \in BOOLEAN
      /\ panel.dragged \in 1..MaxChain \cup {NoPlace}
  BY DEF ChainInv, ChainType, ChainKeeps
<1>2. Chain!TypeOK
  <2>1. Len(panel.draft) \in 0..MaxChain /\ panel.draft \in [1..Len(panel.draft) -> Samplers]
    BY <1>1, ChainAssumption DEF Proper
  <2>2. panel.draft \in Chain!Chains(MaxChain)
    BY <2>1 DEF Chain!Chains
  <2> QED BY <1>1, <2>2 DEF Chain!TypeOK, ChainKeeps
<1>3. \A s \in {panel.draft} \cup Chain!Range(panel.queue) : Proper(s)
  <2>1. Chain!Range(panel.queue) = Members(panel.queue)
    BY <1>1, ChainRange
  <2>2. \A s \in Members(panel.queue) : Proper(s)
    BY <1>1 DEF ChainKeeps, Members
  <2> QED BY <1>1, <2>1, <2>2
<1>4. \A s \in {panel.draft} \cup Chain!Range(panel.queue) : Chain!IsInjective(s) /\ Len(s) <= MaxChain
  <2>1. ASSUME NEW s \in {panel.draft} \cup Chain!Range(panel.queue)
        PROVE  Chain!IsInjective(s) /\ Len(s) <= MaxChain
    <3>1. s \in Seq(Samplers) /\ OnceEach(s) /\ Len(s) <= MaxChain
      BY <1>3 DEF Proper
    <3> QED BY <3>1, ChainRange
  <2> QED BY <2>1
<1>5. ASSUME panel.by # "config"
      PROVE  /\ \E x \in Samplers : Chain!Among(panel.draft, Samplers \ {x}) = Chain!Among(panel.last, Samplers \ {x})
             /\ panel.by \in {"move", "drop"} => Chain!Range(panel.draft) = Chain!Range(panel.last)
  <2>1. OneChanged(panel.draft, panel.last)
    BY <1>1, <1>5 DEF ChainKeeps
  <2>2. \E x \in Samplers : Chain!Among(panel.draft, Samplers \ {x}) = Chain!Among(panel.last, Samplers \ {x})
    BY <2>1, ChainAmong DEF OneChanged
  <2>3. Chain!Range(panel.draft) = Members(panel.draft) /\ Chain!Range(panel.last) = Members(panel.last)
    BY <1>1, ChainRange
  <2> QED BY <1>1, <2>2, <2>3 DEF ChainKeeps
<1>6. Chain!OneAtATime
  BY <1>4, <1>5 DEF Chain!OneAtATime
<1>7. Chain!ShowsConfig
  BY <1>1 DEF Chain!ShowsConfig, ChainKeeps
<1> QED BY <1>2, <1>6, <1>7

-----------------------------------------------------------------------------
\* A conversation within its limits.
SafeToStore(t) ==
  /\ Len(t.messages) <= MaxStoredMessages
  /\ \A i \in 1..Len(t.messages) : t.messages[i].text <= MaxStoredText /\ t.messages[i].image <= MaxStoredImage

\* A workspace as it is stored: the active conversation first, and none empty but that.
Settled(w) ==
  /\ w \in StoredWorkspaces /\ Len(w.threads) >= 1 /\ Len(w.threads) <= MaxStoredThreads
  /\ w.threads[1].id = w.active
  /\ \A i \in 2..Len(w.threads) : w.threads[i].id # w.active /\ w.threads[i].messages # <<>>
  /\ \A i \in 1..Len(w.threads) : SafeToStore(w.threads[i])

\* The conversations are numbered, so one at most is active.
WorkspaceInv ==
  /\ panel \in StoredWorkspaces /\ panel.active \in 1..MaxWrittenThreads
  /\ Len(panel.threads) <= MaxWrittenThreads
  /\ \A i \in 1..Len(panel.threads) :
       /\ panel.threads[i].id = i
       /\ \A j \in 1..Len(panel.threads[i].messages) : panel.threads[i].messages[j] \in Workspace!Messages

\* The filter of the workspace is the one the lemmas are about.
LEMMA WorkspaceAmong ==
  ASSUME NEW s, NEW S PROVE Workspace!Among(s, S) = Among(s, S)
BY DEF Workspace!Among, Among

\* The range of a sequence, by its places.
LEMMA WorkspaceRange ==
  ASSUME NEW T, NEW s \in Seq(T)
  PROVE  Workspace!Range(s) = {s[i] : i \in 1..Len(s)}
<1>1. DOMAIN s = 1..Len(s)
  OBVIOUS
<1> QED BY <1>1 DEF Workspace!Range

\* An empty workspace has the invariant.
LEMMA WorkspaceInit ==
  ASSUME Workspace!Init PROVE WorkspaceInv
<1>1. panel = [threads |-> <<>>, active |-> 1]
  BY DEF Workspace!Init
<1>2. <<>> \in Seq(StoredThreads) /\ Len(<<>>) = 0 /\ 1 \in 1..MaxWrittenThreads /\ 0 <= MaxWrittenThreads
  BY WorkspaceAssumption
<1>3. panel \in StoredWorkspaces
  BY <1>1, <1>2 DEF StoredWorkspaces
<1>4. panel.threads = <<>> /\ panel.active = 1
  BY <1>1
<1> QED BY <1>2, <1>3, <1>4 DEF WorkspaceInv

\* The types of the fields of a workspace.
LEMMA WorkspaceFields ==
  ASSUME NEW w \in StoredWorkspaces
  PROVE  /\ w.active \in Nat /\ w.threads \in Seq(StoredThreads) /\ w = [active |-> w.active, threads |-> w.threads]
         /\ Len(w.threads) \in Nat /\ DOMAIN w.threads = 1..Len(w.threads)
         /\ \A i \in 1..Len(w.threads) :
              /\ w.threads[i] \in StoredThreads /\ w.threads[i].id \in Nat /\ w.threads[i].readable \in BOOLEAN
              /\ w.threads[i].messages \in Seq(StoredMessages)
<1>1. w.active \in Nat /\ w.threads \in Seq(StoredThreads) /\ w = [active |-> w.active, threads |-> w.threads]
  BY DEF StoredWorkspaces
<1>2. \A i \in 1..Len(w.threads) : w.threads[i] \in StoredThreads
  BY <1>1, ElementOfSeq
<1>3. \A t \in StoredThreads : t.id \in Nat /\ t.readable \in BOOLEAN /\ t.messages \in Seq(StoredMessages)
  BY DEF StoredThreads
<1> QED BY <1>1, <1>2, <1>3

\* Every conversation and message that is added, and every selection, keeps the
\* invariant.
LEMMA WorkspaceNext ==
  ASSUME WorkspaceInv, Workspace!Next PROVE WorkspaceInv'
<1> DEFINE T == panel.threads
           n == Len(T)
<1>1. /\ panel \in StoredWorkspaces /\ panel.active \in 1..MaxWrittenThreads /\ n <= MaxWrittenThreads /\ n \in Nat
      /\ T \in Seq(StoredThreads) /\ DOMAIN T = 1..n
      /\ \A i \in 1..n : T[i] \in StoredThreads /\ T[i].id = i /\ T[i].messages \in Seq(StoredMessages) /\ T[i].readable \in BOOLEAN
      /\ \A i \in 1..n : \A j \in 1..Len(T[i].messages) : T[i].messages[j] \in Workspace!Messages
  BY WorkspaceFields DEF WorkspaceInv
<1>2. Workspace!Messages \subseteq StoredMessages
  BY WorkspaceAssumption DEF Workspace!Messages, StoredMessages
<1>3. CASE Workspace!NewThread
  <2>1. PICK readable \in BOOLEAN :
          panel' = [panel EXCEPT !.threads = Append(T, [id |-> n + 1, readable |-> readable, messages |-> <<>>])]
    BY <1>3 DEF Workspace!NewThread
  <2>2. n < MaxWrittenThreads
    BY <1>3 DEF Workspace!NewThread
  <2> DEFINE t == [id |-> n + 1, readable |-> readable, messages |-> <<>>]
             U == Append(T, t)
  <2> HIDE DEF n
  <2>3. t \in StoredThreads /\ t.id = n + 1 /\ t.messages = <<>>
    <3>1. n + 1 \in Nat /\ <<>> \in Seq(StoredMessages)
      BY <1>1
    <3> QED BY <3>1 DEF StoredThreads
  <2> HIDE DEF t, T
  <2>4. U \in Seq(StoredThreads) /\ Len(U) = n + 1 /\ U[n + 1] = t /\ \A i \in 1..n : U[i] = T[i]
    BY <1>1, <2>3 DEF n
  <2> HIDE DEF U
  <2>5. panel' = [panel EXCEPT !.threads = U]
    BY <2>1 DEF t, U
  <2>6. panel' \in StoredWorkspaces /\ panel'.threads = U /\ panel'.active = panel.active
    BY <1>1, <2>4, <2>5 DEF StoredWorkspaces
  <2>7. n + 1 <= MaxWrittenThreads
    BY <1>1, <2>2, WorkspaceAssumption
  <2>8. ASSUME NEW i \in 1..n + 1
        PROVE  U[i].id = i /\ \A j \in 1..Len(U[i].messages) : U[i].messages[j] \in Workspace!Messages
    <3>1. i \in 1..n \/ i = n + 1
      BY <1>1
    <3>2. CASE i \in 1..n
      BY <1>1, <2>4, <3>2
    <3>3. CASE i = n + 1
      <4>1. 1..Len(U[i].messages) = {}
        BY <2>3, <2>4, <3>3
      <4> QED BY <2>3, <2>4, <3>3, <4>1
    <3> QED BY <3>1, <3>2, <3>3
  <2> QED BY <1>1, <2>4, <2>6, <2>7, <2>8 DEF WorkspaceInv
<1>4. CASE Workspace!NewMessage
  <2>1. PICK i \in 1..n, m \in Workspace!Messages :
          panel' = [panel EXCEPT !.threads[i].messages = Append(@, m)]
    BY <1>1, <1>4 DEF Workspace!NewMessage
  <2> DEFINE ms == Append(T[i].messages, m)
             t == [T[i] EXCEPT !.messages = ms]
             U == [T EXCEPT ![i] = t]
  <2>2. panel' = [panel EXCEPT !.threads = U]
    BY <1>1, <2>1 DEF StoredWorkspaces
  <2> HIDE DEF n
  <2>3. ms \in Seq(StoredMessages) /\ \A j \in 1..Len(ms) : ms[j] \in Workspace!Messages
    <3> DEFINE was == T[i].messages
    <3>1. was \in Seq(StoredMessages) /\ m \in StoredMessages /\ \A j \in 1..Len(was) : was[j] \in Workspace!Messages
      BY <1>1, <1>2
    <3> HIDE DEF was
    <3>2. Append(was, m) \in Seq(StoredMessages) /\ Len(Append(was, m)) = Len(was) + 1 /\ Len(was) \in Nat
          /\ Append(was, m)[Len(was) + 1] = m /\ \A j \in 1..Len(was) : Append(was, m)[j] = was[j]
      BY <3>1
    <3>3. ASSUME NEW j \in 1..Len(was) + 1 PROVE Append(was, m)[j] \in Workspace!Messages
      <4>1. j \in 1..Len(was) \/ j = Len(was) + 1
        BY <3>2
      <4> QED BY <3>1, <3>2, <4>1
    <3> QED BY <3>2, <3>3 DEF was
  <2> HIDE DEF ms
  <2>4. t \in StoredThreads /\ t.id = i /\ t.messages = ms
    BY <1>1, <2>3 DEF StoredThreads
  <2> HIDE DEF t, T
  <2>5. U \in Seq(StoredThreads) /\ Len(U) = n /\ U[i] = t /\ \A j \in 1..n : j # i => U[j] = T[j]
    <3>1. U \in [1..n -> StoredThreads] /\ DOMAIN U = 1..n
      BY <1>1, <2>4
    <3>2. U[i] = t /\ \A j \in 1..n : j # i => U[j] = T[j]
      BY <1>1
    <3> HIDE DEF U
    <3> QED BY <1>1, <3>1, <3>2
  <2> HIDE DEF U
  <2>6. panel' \in StoredWorkspaces /\ panel'.threads = U /\ panel'.active = panel.active
    BY <1>1, <2>2, <2>5 DEF StoredWorkspaces
  <2>7. ASSUME NEW k \in 1..n
        PROVE  U[k].id = k /\ \A j \in 1..Len(U[k].messages) : U[k].messages[j] \in Workspace!Messages
    <3>1. CASE k = i
      BY <2>3, <2>4, <2>5, <3>1
    <3>2. CASE k # i
      BY <1>1, <2>5, <3>2
    <3> QED BY <3>1, <3>2
  <2> QED BY <1>1, <2>5, <2>6, <2>7 DEF WorkspaceInv
<1>5. CASE Workspace!Select
  <2>1. PICK id \in 1..MaxWrittenThreads : panel' = [panel EXCEPT !.active = id]
    BY <1>5 DEF Workspace!Select, Workspace!Ids
  <2>2. id \in Nat
    BY WorkspaceAssumption
  <2>3. panel' \in StoredWorkspaces /\ panel'.threads = panel.threads /\ panel'.active = id
    BY <1>1, <2>1, <2>2 DEF StoredWorkspaces
  <2> QED BY <1>1, <2>3 DEF WorkspaceInv
<1> QED BY <1>3, <1>4, <1>5 DEF Workspace!Next

\* The lesser of two numbers.
LEMMA WorkspaceAtMost ==
  ASSUME NEW n \in Nat, NEW limit \in Nat
  PROVE  LET k == Workspace!AtMost(n, limit) IN
         k \in Nat /\ k <= n /\ k <= limit /\ (n <= limit => k = n) /\ (n > 0 /\ limit > 0 => k > 0)
BY DEF Workspace!AtMost

\* A message is cut to its limits, and one within them is left as it is
\* (chatHistory.ts).
LEMMA WorkspaceMessage ==
  ASSUME NEW m \in StoredMessages
  PROVE  LET k == Workspace!SafeMessage(m) IN
         /\ k \in StoredMessages /\ k.text <= MaxStoredText /\ k.image <= MaxStoredImage
         /\ m.text <= MaxStoredText /\ m.image <= MaxStoredImage => k = m
<1> DEFINE text == Workspace!AtMost(m.text, MaxStoredText)
           image == IF m.image <= MaxStoredImage THEN m.image ELSE 0
           k == [text |-> text, image |-> image]
<1>1. m.text \in Nat /\ m.image \in Nat /\ MaxStoredText \in Nat /\ MaxStoredImage \in Nat
      /\ m = [text |-> m.text, image |-> m.image]
  BY WorkspaceAssumption DEF StoredMessages
<1>2. text \in Nat /\ text <= MaxStoredText /\ (m.text <= MaxStoredText => text = m.text)
  BY <1>1, WorkspaceAtMost
<1>3. image \in Nat /\ image <= MaxStoredImage /\ (m.image <= MaxStoredImage => image = m.image)
  BY <1>1
<1>4. Workspace!SafeMessage(m) = k
  BY DEF Workspace!SafeMessage
<1> HIDE DEF text, image
<1>5. k \in StoredMessages /\ k.text = text /\ k.image = image
  BY <1>2, <1>3 DEF StoredMessages
<1>6. ASSUME m.text <= MaxStoredText, m.image <= MaxStoredImage PROVE k = m
  BY <1>1, <1>2, <1>3, <1>6
<1> HIDE DEF k
<1> QED BY <1>2, <1>3, <1>4, <1>5, <1>6

\* The newest messages: within the limit, with the last one, and all of them if
\* they fit (chatHistory.ts).
LEMMA WorkspaceNewest ==
  ASSUME NEW ms \in Seq(StoredMessages)
  PROVE  LET k == Workspace!Newest(ms) IN
         /\ k \in Seq(StoredMessages) /\ Len(k) <= MaxStoredMessages /\ (Len(ms) <= MaxStoredMessages => k = ms)
         /\ ms # <<>> => Len(k) >= 1 /\ k[Len(k)] = ms[Len(ms)]
<1> DEFINE n == Len(ms)
           a == Workspace!AtMost(n, MaxStoredMessages)
           k == SubSeq(ms, n - a + 1, n)
<1>1. n \in Nat /\ MaxStoredMessages \in Nat \ {0} /\ (ms # <<>> => n > 0) /\ \A i \in 1..n : ms[i] \in StoredMessages
  BY WorkspaceAssumption, ElementOfSeq
<1>2. Workspace!Newest(ms) = k
  BY DEF Workspace!Newest
<1> HIDE DEF n
<1>3. a \in Nat /\ a <= n /\ a <= MaxStoredMessages /\ (n <= MaxStoredMessages => a = n) /\ (n > 0 => a > 0)
  <2>1. MaxStoredMessages \in Nat /\ MaxStoredMessages > 0
    BY <1>1
  <2> QED BY <1>1, <2>1, WorkspaceAtMost
<1> HIDE DEF a
<1>4. /\ k \in Seq(StoredMessages) /\ Len(k) = IF n - a + 1 <= n THEN n - (n - a + 1) + 1 ELSE 0
      /\ \A i \in 1..n - (n - a + 1) + 1 : k[i] = ms[n - a + 1 + i - 1]
  <2>1. \A i \in n - a + 1..n : ms[i] \in StoredMessages
    BY <1>1, <1>3
  <2>2. n - a + 1 \in Int /\ n \in Int /\ n - a + 1 >= 1
    BY <1>1, <1>3
  <2>3. n - a + 1 \in 1..n + 1
    BY <1>1, <1>3
  <2> QED BY <1>1, <2>1, <2>2, <2>3, SubSeqProperties DEF n
<1> HIDE DEF k
<1>5. Len(k) = a
  BY <1>1, <1>3, <1>4
<1>6. ASSUME NEW i \in 1..a PROVE k[i] = ms[n - a + i]
  <2>1. i \in 1..n - (n - a + 1) + 1 /\ n - a + 1 + i - 1 = n - a + i
    BY <1>1, <1>3
  <2> QED BY <1>4, <2>1
<1>7. ASSUME n <= MaxStoredMessages PROVE k = ms
  <2>1. a = n /\ \A i \in 1..n : n - a + i = i
    BY <1>1, <1>3, <1>7
  <2>2. Len(k) = Len(ms) /\ \A i \in 1..Len(ms) : k[i] = ms[i]
    BY <1>5, <1>6, <2>1 DEF n
  <2> QED BY <1>4, <2>2
<1>8. ASSUME ms # <<>> PROVE Len(k) >= 1 /\ k[Len(k)] = ms[n]
  <2>1. a \in 1..a /\ n - a + a = n /\ a >= 1
    BY <1>1, <1>3, <1>8
  <2> QED BY <1>5, <1>6, <2>1
<1> QED BY <1>2, <1>3, <1>4, <1>5, <1>7, <1>8 DEF n

\* A conversation is cut to its limits, and one within them is left as it is
\* (chatHistory.ts).
LEMMA WorkspaceThread ==
  ASSUME NEW t \in StoredThreads
  PROVE  LET k == Workspace!SafeThread(t) IN
         /\ k \in StoredThreads /\ k.id = t.id /\ k.readable = t.readable /\ SafeToStore(k)
         /\ SafeToStore(t) => k = t
         /\ t.messages # <<>> => /\ k.messages # <<>>
                                 /\ k.messages[Len(k.messages)] = Workspace!SafeMessage(t.messages[Len(t.messages)])
<1> DEFINE ms == t.messages
           new == Workspace!Newest(ms)
           out == [i \in DOMAIN new |-> Workspace!SafeMessage(new[i])]
           k == [t EXCEPT !.messages = out]
<1>1. t.id \in Nat /\ t.readable \in BOOLEAN /\ ms \in Seq(StoredMessages)
  BY DEF StoredThreads
<1>2. Workspace!SafeThread(t) = k
  BY DEF Workspace!SafeThread
<1> HIDE DEF ms
<1>3. /\ new \in Seq(StoredMessages) /\ Len(new) <= MaxStoredMessages /\ (Len(ms) <= MaxStoredMessages => new = ms)
      /\ ms # <<>> => Len(new) >= 1 /\ new[Len(new)] = ms[Len(ms)]
  BY <1>1, WorkspaceNewest
<1> HIDE DEF new
<1> DEFINE l == Len(new)
<1>4. l \in Nat /\ DOMAIN new = 1..l /\ \A i \in 1..l : new[i] \in StoredMessages
  BY <1>3, ElementOfSeq
<1> HIDE DEF l
<1>5. \A i \in 1..l : Workspace!SafeMessage(new[i]) \in StoredMessages
  BY <1>4, WorkspaceMessage
<1>6. out \in Seq(StoredMessages) /\ Len(out) = l /\ \A i \in 1..l : out[i] = Workspace!SafeMessage(new[i])
  <2>1. out \in [1..l -> StoredMessages] /\ \A i \in 1..l : out[i] = Workspace!SafeMessage(new[i])
    BY <1>4, <1>5
  <2> HIDE DEF out
  <2> QED BY <1>4, <2>1
<1> HIDE DEF out
<1>7. k \in StoredThreads /\ k.id = t.id /\ k.readable = t.readable /\ k.messages = out
  BY <1>6 DEF StoredThreads
<1> HIDE DEF k
<1>8. SafeToStore(k)
  <2>1. \A i \in 1..l : out[i].text <= MaxStoredText /\ out[i].image <= MaxStoredImage
    BY <1>4, <1>6, WorkspaceMessage
  <2> QED BY <1>3, <1>6, <1>7, <2>1 DEF SafeToStore, l
<1>9. ASSUME SafeToStore(t) PROVE k = t
  <2>1. Len(ms) <= MaxStoredMessages /\ \A i \in 1..Len(ms) : ms[i].text <= MaxStoredText /\ ms[i].image <= MaxStoredImage
    BY <1>9 DEF SafeToStore, ms
  <2>2. new = ms
    BY <1>3, <2>1
  <2>3. \A i \in 1..l : out[i] = new[i]
    BY <1>4, <1>6, <2>1, <2>2, WorkspaceMessage DEF l
  <2>4. out = ms
    BY <1>3, <1>4, <1>6, <2>2, <2>3 DEF l
  <2> QED BY <1>7, <2>4 DEF StoredThreads, ms
<1>10. ASSUME ms # <<>> PROVE k.messages # <<>> /\ k.messages[Len(k.messages)] = Workspace!SafeMessage(ms[Len(ms)])
  <2>1. l >= 1 /\ new[l] = ms[Len(ms)] /\ l \in 1..l
    BY <1>3, <1>4, <1>10 DEF l
  <2>2. out # <<>>
    BY <1>6, <2>1
  <2> QED BY <1>6, <1>7, <2>1, <2>2
<1> QED BY <1>2, <1>7, <1>8, <1>9, <1>10 DEF ms

\* A filter that the first passes keeps it first.
KeepsFirst(k, s, S) ==
  /\ Len(k) >= 1 /\ Len(k) <= Len(s) /\ k[1] = s[1]
  /\ \A i \in 1..Len(k) : k[i] \in S /\ \E j \in 1..Len(s) : k[i] = s[j]
  /\ \A i \in 2..Len(k) : \E j \in 2..Len(s) : k[i] = s[j]

\* A filter that the first element passes keeps it first
\* (Array.prototype.filter).
LEMMA AmongFirst ==
  ASSUME NEW T, NEW s \in Seq(T), NEW S, Len(s) >= 1, s[1] \in S
  PROVE  Among(s, S) \in Seq(T) /\ KeepsFirst(Among(s, S), s, S)
<1> DEFINE k == Among(s, S)
           m == Len(k)
           n == Len(s)
<1>1. k \in Seq(T) /\ Keeps(s, S, n, k) /\ Filters(k, s, S)
  BY AmongKeeps, AmongMembers
<1>2. m \in Nat /\ n \in Nat /\ m <= n /\ \A i \in 1..m : k[i] \in S /\ \E j \in 1..n : k[i] = s[j]
  BY <1>1 DEF Filters
<1>3. PICK f : /\ f \in [1..m -> 1..n]
               /\ \A i \in 1..m : k[i] = s[f[i]] /\ s[f[i]] \in S
               /\ \A i, j \in 1..m : i < j => f[i] < f[j]
               /\ \A j \in 1..n : s[j] \in S => \E i \in 1..m : f[i] = j
  BY <1>1 DEF Keeps, Picks
<1>4. n >= 1 /\ 1 \in 1..n
  BY <1>2
<1> HIDE DEF k, m, n
<1>5. PICK h \in 1..m : f[h] = 1
  BY <1>3, <1>4
<1>6. m >= 1 /\ 1 \in 1..m
  BY <1>2, <1>5
<1>7. h = 1
  <2>1. ASSUME h # 1 PROVE FALSE
    <3>1. 1 < h
      BY <1>2, <2>1
    <3>2. f[1] < f[h] /\ f[1] \in 1..n
      BY <1>3, <1>6, <3>1
    <3> QED BY <1>2, <1>5, <3>2
  <2> QED BY <2>1
<1>8. k[1] = s[1]
  BY <1>3, <1>5, <1>7
<1>9. ASSUME NEW i \in 2..m PROVE \E j \in 2..n : k[i] = s[j]
  <2>1. i \in 1..m /\ 1 < i
    BY <1>2
  <2>2. f[1] < f[i] /\ f[i] \in 1..n /\ f[1] = 1
    BY <1>3, <1>5, <1>6, <1>7, <2>1
  <2>3. f[i] \in 2..n
    BY <1>2, <2>2
  <2> QED BY <1>3, <2>1, <2>3
<1>10. KeepsFirst(k, s, S)
  BY <1>2, <1>6, <1>8, <1>9 DEF KeepsFirst, m, n
<1> QED BY <1>1, <1>10 DEF k

\* A filter that one element passes keeps that one.
LEMMA AmongOne ==
  ASSUME NEW T, NEW s \in Seq(T), NEW S, NEW p \in 1..Len(s), \A i \in 1..Len(s) : s[i] \in S <=> i = p
  PROVE  Among(s, S) = <<s[p]>>
<1> DEFINE k == <<s[p]>>
           g == [i \in 1..1 |-> p]
<1>1. s[p] \in T
  BY ElementOfSeq
<1>2. k \in Seq(T) /\ Len(k) = 1 /\ k[1] = s[p]
  BY <1>1
<1>3. g \in [1..1 -> 1..Len(s)] /\ g[1] = p
  OBVIOUS
<1> HIDE DEF k, g
<1>4. /\ g \in [1..Len(k) -> 1..Len(s)] /\ \A i \in 1..Len(k) : k[i] = s[g[i]] /\ s[g[i]] \in S
      /\ \A i, j \in 1..Len(k) : i < j => g[i] < g[j]
      /\ \A j \in 1..Len(s) : s[j] \in S => \E i \in 1..Len(k) : g[i] = j
  <2>1. \A i \in 1..1 : i = 1
    OBVIOUS
  <2>2. 1 \in 1..1 /\ ~(1 < 1)
    OBVIOUS
  <2> QED BY <1>2, <1>3, <2>1, <2>2
<1>5. Picks(g, s, S, Len(s), k)
  BY <1>4 DEF Picks
<1> QED BY <1>2, <1>5, AmongIs DEF k

\* The active conversation is put first.
LEMMA WorkspaceOrdered ==
  ASSUME NEW w \in StoredWorkspaces, NEW p \in 1..Len(w.threads),
         \A i \in 1..Len(w.threads) : w.threads[i].id = w.active <=> i = p
  PROVE  LET o == Workspace!Ordered(w)
             n == Len(w.threads) IN
         /\ o \in Seq(StoredThreads) /\ Len(o) = n /\ o[1] = w.threads[p]
         /\ \A i \in 1..n : \E j \in 1..n : o[i] = w.threads[j]
         /\ \A i \in 2..n : o[i].id # w.active
         /\ p = 1 => o = w.threads
<1> DEFINE T == w.threads
           n == Len(T)
           active == {t \in Workspace!Range(T) : t.id = w.active}
           others == Workspace!Range(T) \ active
           r == [i \in 1..n - 1 |-> IF i < p THEN T[i] ELSE T[i + 1]]
           o == <<T[p]>> \o r
<1>1. T \in Seq(StoredThreads) /\ n \in Nat /\ p \in 1..n /\ (\A i \in 1..n : T[i] \in StoredThreads)
      /\ \A i \in 1..n : T[i].id = w.active <=> i = p
  BY WorkspaceFields
<1>2. Workspace!Range(T) = {T[i] : i \in 1..n}
  BY <1>1, WorkspaceRange
<1>3. \A i \in 1..n : (T[i] \in active <=> i = p) /\ (T[i] \in others <=> i # p)
  BY <1>1, <1>2
<1>4. Workspace!Ordered(w) = Among(T, active) \o Among(T, others)
  BY WorkspaceAmong DEF Workspace!Ordered
<1> HIDE DEF T, active, others
<1>5. Among(T, active) = <<T[p]>>
  BY <1>1, <1>3, AmongOne DEF n
<1>6. Among(T, others) = r
  BY <1>1, <1>3, AmongRest DEF n
<1> HIDE DEF n
<1>7. n - 1 \in Nat /\ r \in Seq(StoredThreads) /\ Len(r) = n - 1 /\ \A i \in 1..n - 1 : r[i] = IF i < p THEN T[i] ELSE T[i + 1]
  <2>1. n - 1 \in Nat /\ \A i \in 1..n - 1 : i \in 1..n /\ i + 1 \in 1..n
    BY <1>1
  <2>2. r \in [1..n - 1 -> StoredThreads] /\ \A i \in 1..n - 1 : r[i] = IF i < p THEN T[i] ELSE T[i + 1]
    BY <1>1, <2>1
  <2> HIDE DEF r
  <2> QED BY <2>1, <2>2
<1> HIDE DEF r
<1>8. /\ o \in Seq(StoredThreads) /\ Len(o) = n /\ o[1] = T[p]
      /\ \A i \in 2..n : i - 1 \in 1..n - 1 /\ o[i] = r[i - 1]
  <2> DEFINE b == <<T[p]>>
  <2>1. b \in Seq(StoredThreads) /\ Len(b) = 1 /\ b[1] = T[p]
    BY <1>1
  <2> HIDE DEF b
  <2>2. b \o r \in Seq(StoredThreads) /\ Len(b \o r) = Len(b) + Len(r)
        /\ \A i \in 1..Len(b) + Len(r) : (b \o r)[i] = IF i <= Len(b) THEN b[i] ELSE r[i - Len(b)]
    <3>1. b \in Seq(StoredThreads) /\ r \in Seq(StoredThreads)
      BY <1>7, <2>1
    <3> QED BY <3>1, ConcatProperties
  <2> DEFINE c == b \o r
  <2>0. c \in Seq(StoredThreads) /\ Len(c) = 1 + (n - 1) /\ \A i \in 1..1 + (n - 1) : c[i] = IF i <= 1 THEN b[i] ELSE r[i - 1]
    BY <1>7, <2>1, <2>2
  <2> HIDE DEF c
  <2>3. 1 + (n - 1) = n /\ 1 \in 1..n /\ 1 <= 1 /\ \A i \in 2..n : i \in 1..n /\ ~(i <= 1) /\ i - 1 \in 1..n - 1
    BY <1>1
  <2>4. c \in Seq(StoredThreads) /\ Len(c) = n /\ c[1] = T[p] /\ \A i \in 2..n : c[i] = r[i - 1]
    BY <2>0, <2>1, <2>3
  <2> QED BY <2>3, <2>4 DEF c, b
<1>9. Workspace!Ordered(w) = o
  BY <1>4, <1>5, <1>6
<1> HIDE DEF o
<1>10. ASSUME NEW i \in 2..n PROVE \E j \in 1..n : j # p /\ o[i] = T[j] /\ (p = 1 => j = i)
  <2>1. i - 1 \in 1..n - 1 /\ o[i] = r[i - 1] /\ i - 1 + 1 = i /\ i \in 1..n /\ i - 1 \in 1..n
    BY <1>1, <1>8
  <2>2. CASE i - 1 < p
    <3>1. o[i] = T[i - 1] /\ i - 1 # p /\ p # 1
      BY <1>1, <1>7, <2>1, <2>2
    <3> QED BY <2>1, <3>1
  <2>3. CASE ~(i - 1 < p)
    <3>1. o[i] = T[i] /\ i # p
      BY <1>1, <1>7, <2>1, <2>3
    <3> QED BY <2>1, <3>1
  <2> QED BY <2>2, <2>3
<1>11. \A i \in 1..n : i = 1 \/ i \in 2..n
  BY <1>1
<1>12. \A i \in 1..n : \E j \in 1..n : o[i] = T[j]
  BY <1>1, <1>8, <1>10, <1>11
<1>13. \A i \in 2..n : o[i].id # w.active
  BY <1>1, <1>10
<1>14. ASSUME p = 1 PROVE o = T
  <2>1. \A i \in 1..n : o[i] = T[i]
    BY <1>8, <1>10, <1>11, <1>14
  <2> QED BY <1>1, <1>8, <2>1 DEF n
<1> QED BY <1>8, <1>9, <1>12, <1>13, <1>14 DEF T, n

\* What is stored is within its limits, with the active conversation first.
LEMMA WorkspaceSafe ==
  ASSUME NEW w \in StoredWorkspaces, NEW p \in 1..Len(w.threads),
         \A i \in 1..Len(w.threads) : w.threads[i].id = w.active <=> i = p
  PROVE  LET s == Workspace!LocalSafe(w) IN
         /\ s \in StoredWorkspaces /\ s.active = w.active
         /\ Len(s.threads) >= 1 /\ Len(s.threads) <= MaxStoredThreads
         /\ s.threads[1] = Workspace!SafeThread(w.threads[p])
         /\ \A i \in 2..Len(s.threads) : s.threads[i].id # w.active
         /\ \A i \in 1..Len(s.threads) : SafeToStore(s.threads[i])
         /\ \A i \in 1..Len(s.threads) : \E j \in 1..Len(w.threads) : s.threads[i] = Workspace!SafeThread(w.threads[j])
         /\ Settled(w) => s = w
<1> DEFINE T == w.threads
           n == Len(T)
           o == Workspace!Ordered(w)
           a == Workspace!AtMost(n, MaxStoredThreads)
           first == SubSeq(o, 1, a)
           out == [i \in DOMAIN first |-> Workspace!SafeThread(first[i])]
           s == [w EXCEPT !.threads = out]
<1>1. T \in Seq(StoredThreads) /\ n \in Nat /\ p \in 1..n /\ (\A i \in 1..n : T[i] \in StoredThreads)
      /\ (\A i \in 1..n : T[i].id = w.active <=> i = p) /\ MaxStoredThreads \in Nat /\ MaxStoredThreads > 0
  BY WorkspaceFields, WorkspaceAssumption
<1>2. /\ o \in Seq(StoredThreads) /\ Len(o) = n /\ o[1] = T[p]
      /\ \A i \in 1..n : \E j \in 1..n : o[i] = T[j]
      /\ \A i \in 2..n : o[i].id # w.active
      /\ p = 1 => o = T
  BY WorkspaceOrdered
<1>3. Workspace!LocalSafe(w) = s
  BY DEF Workspace!LocalSafe
<1> HIDE DEF n, o
<1>4. a \in Nat /\ a <= n /\ a <= MaxStoredThreads /\ (n <= MaxStoredThreads => a = n) /\ a > 0
  <2>1. n > 0
    BY <1>1
  <2> QED BY <1>1, <2>1, WorkspaceAtMost
<1> HIDE DEF a
<1>5. first \in Seq(StoredThreads) /\ Len(first) = a /\ \A i \in 1..a : first[i] = o[i]
  <2>1. \A i \in 1..a : o[i] \in StoredThreads
    <3>1. \A i \in 1..a : i \in 1..n
      BY <1>1, <1>4
    <3> QED BY <1>1, <1>2, <3>1
  <2>2. a \in 0..Len(o) /\ a \in Nat
    BY <1>1, <1>2, <1>4
  <2>3. o \in Seq(StoredThreads) /\ 1 \in 1..Len(o) + 1
    BY <1>2
  <2> QED BY <2>1, <2>2, <2>3, SubSeqProperties
<1> HIDE DEF first
<1>6. DOMAIN first = 1..a /\ \A i \in 1..a : first[i] \in StoredThreads
  BY <1>5, ElementOfSeq
<1>7. \A i \in 1..a : Workspace!SafeThread(first[i]) \in StoredThreads
  BY <1>6, WorkspaceThread
<1>8. out \in Seq(StoredThreads) /\ Len(out) = a /\ \A i \in 1..a : out[i] = Workspace!SafeThread(first[i])
  <2>1. out \in [1..a -> StoredThreads] /\ \A i \in 1..a : out[i] = Workspace!SafeThread(first[i])
    BY <1>6, <1>7
  <2> HIDE DEF out
  <2> QED BY <1>4, <2>1
<1> HIDE DEF out
<1>9. s \in StoredWorkspaces /\ s.active = w.active /\ s.threads = out
  BY <1>8 DEF StoredWorkspaces
<1> HIDE DEF s
<1>10. a >= 1 /\ 1 \in 1..a /\ (\A i \in 1..a : i \in 1..n) /\ \A i \in 2..a : i \in 1..a /\ i \in 2..n
  BY <1>1, <1>4
<1>11. \A i \in 1..a : out[i] = Workspace!SafeThread(o[i])
  BY <1>5, <1>8
<1>12. out[1] = Workspace!SafeThread(T[p])
  BY <1>2, <1>10, <1>11
<1>13. \A i \in 2..a : out[i].id # w.active
  <2>1. ASSUME NEW i \in 2..a PROVE out[i].id # w.active
    <3>1. i \in 1..a /\ o[i].id # w.active /\ o[i] \in StoredThreads
      BY <1>2, <1>5, <1>6, <1>10
    <3> QED BY <1>11, <3>1, WorkspaceThread
  <2> QED BY <2>1
<1>14. \A i \in 1..a : SafeToStore(out[i])
  BY <1>6, <1>8, WorkspaceThread
<1>15. \A i \in 1..a : \E j \in 1..n : out[i] = Workspace!SafeThread(T[j])
  <2>1. ASSUME NEW i \in 1..a PROVE \E j \in 1..n : out[i] = Workspace!SafeThread(T[j])
    <3>1. PICK j \in 1..n : o[i] = T[j]
      BY <1>2, <1>10
    <3>2. out[i] = Workspace!SafeThread(T[j])
      BY <1>11, <3>1
    <3> QED BY <3>2
  <2> QED BY <2>1
<1>16. ASSUME Settled(w) PROVE s = w
  <2>1. n <= MaxStoredThreads /\ T[1].id = w.active /\ 1 \in 1..n /\ \A i \in 1..n : SafeToStore(T[i])
    BY <1>1, <1>16 DEF Settled, T, n
  <2>2. p = 1 /\ a = n /\ o = T
    BY <1>1, <1>2, <1>4, <2>1
  <2>3. \A i \in 1..n : out[i] = T[i]
    <3>1. ASSUME NEW i \in 1..n PROVE out[i] = T[i]
      <4>1. out[i] = Workspace!SafeThread(T[i]) /\ T[i] \in StoredThreads /\ SafeToStore(T[i])
        BY <1>1, <1>11, <2>1, <2>2
      <4> QED BY <4>1, WorkspaceThread
    <3> QED BY <3>1
  <2>4. out = T
    BY <1>1, <1>8, <2>2, <2>3 DEF n
  <2>5. w \in StoredWorkspaces /\ w.threads = T
    OBVIOUS
  <2> HIDE DEF T
  <2> QED BY <1>9, <2>4, <2>5 DEF StoredWorkspaces
<1> QED BY <1>3, <1>8, <1>9, <1>4, <1>10, <1>12, <1>13, <1>14, <1>15, <1>16 DEF T, n

\* What is stored is settled, and what is settled is stored as it is.
LEMMA WorkspacePersisted ==
  ASSUME NEW w \in StoredWorkspaces, NEW p \in 1..Len(w.threads),
         \A i \in 1..Len(w.threads) : w.threads[i].id = w.active <=> i = p
  PROVE  LET q == Workspace!Persisted(w) IN
         /\ Settled(q) /\ q.active = w.active /\ q.threads[1] = Workspace!SafeThread(w.threads[p])
         /\ \A i \in 1..Len(q.threads) : \E j \in 1..Len(w.threads) : q.threads[i] = Workspace!SafeThread(w.threads[j])
         /\ Settled(w) => q = w
<1> DEFINE s == Workspace!LocalSafe(w)
           S == s.threads
           kept == {t \in Workspace!Range(S) : t.messages # <<>> \/ t.id = s.active}
           k == Among(S, kept)
           q == [active |-> w.active, threads |-> k]
<1>1. /\ s \in StoredWorkspaces /\ s.active = w.active
      /\ Len(S) >= 1 /\ Len(S) <= MaxStoredThreads
      /\ S[1] = Workspace!SafeThread(w.threads[p])
      /\ \A i \in 2..Len(S) : S[i].id # w.active
      /\ \A i \in 1..Len(S) : SafeToStore(S[i])
      /\ \A i \in 1..Len(S) : \E j \in 1..Len(w.threads) : S[i] = Workspace!SafeThread(w.threads[j])
      /\ Settled(w) => s = w
  BY WorkspaceSafe
<1>2. Workspace!Persisted(w) =
        [active |-> IF Workspace!HasThread([s EXCEPT !.threads = k], s.active) THEN s.active
                    ELSE IF k # <<>> THEN k[1].id ELSE s.active,
         threads |-> IF k # <<>> THEN k ELSE <<S[1]>>]
  BY WorkspaceAmong DEF Workspace!Persisted
<1> HIDE DEF s
<1>3. S \in Seq(StoredThreads) /\ Len(S) \in Nat /\ 1 \in 1..Len(S) /\ \A i \in 1..Len(S) : S[i] \in StoredThreads
  BY <1>1, WorkspaceFields
<1>4. Workspace!Range(S) = {S[i] : i \in 1..Len(S)}
  BY <1>3, WorkspaceRange
<1>5. S[1].id = w.active
  <2>1. w.threads[p] \in StoredThreads /\ w.threads[p].id = w.active
    BY WorkspaceFields
  <2> QED BY <1>1, <2>1, WorkspaceThread
<1>6. S[1] \in kept
  BY <1>1, <1>3, <1>4, <1>5
<1>7. \A t \in kept : t.messages # <<>> \/ t.id = w.active
  BY <1>1
<1>s. w = [active |-> w.active, threads |-> w.threads] /\ w \in StoredWorkspaces
  BY WorkspaceFields
<1>8. ASSUME Settled(w) PROVE \A i \in 1..Len(S) : S[i] \in kept
  <2>1. S = w.threads
    BY <1>1, <1>8
  <2>2. \A i \in 1..Len(S) : i = 1 \/ i \in 2..Len(S)
    BY <1>3
  <2>3. \A i \in 1..Len(S) : S[i].messages # <<>> \/ S[i].id = w.active
    BY <1>5, <1>8, <2>1, <2>2 DEF Settled
  <2> QED BY <1>1, <1>4, <2>3
<1> HIDE DEF kept, S
<1>9. /\ k \in Seq(StoredThreads) /\ Len(k) >= 1 /\ Len(k) <= Len(S) /\ k[1] = S[1]
      /\ \A i \in 1..Len(k) : k[i] \in kept /\ \E j \in 1..Len(S) : k[i] = S[j]
      /\ \A i \in 2..Len(k) : \E j \in 2..Len(S) : k[i] = S[j]
  <2>1. S \in Seq(StoredThreads) /\ Len(S) >= 1 /\ S[1] \in kept
    BY <1>1, <1>3, <1>6
  <2>2. k \in Seq(StoredThreads) /\ KeepsFirst(k, S, kept)
    BY <2>1, AmongFirst
  <2> QED BY <2>2 DEF KeepsFirst
<1>10. Settled(w) => k = w.threads
  BY <1>1, <1>3, <1>8, AmongAll DEF S
<1> HIDE DEF k
<1>11. Len(k) \in Nat /\ k # <<>> /\ DOMAIN k = 1..Len(k) /\ 1 \in DOMAIN k /\ \A i \in 2..Len(k) : i \in 1..Len(k)
  BY <1>9
<1>12. Workspace!HasThread([s EXCEPT !.threads = k], s.active)
  <2> DEFINE z == [s EXCEPT !.threads = k]
  <2>1. z.threads = k
    BY <1>1 DEF StoredWorkspaces
  <2>2. k[1].id = s.active
    BY <1>1, <1>5, <1>9
  <2> HIDE DEF z
  <2>3. Workspace!HasThread(z, s.active)
    BY <1>11, <2>1, <2>2 DEF Workspace!HasThread
  <2> QED BY <2>3 DEF z
<1>13. Workspace!Persisted(w) = q
  BY <1>1, <1>2, <1>11, <1>12 DEF S
<1>14. q \in StoredWorkspaces /\ q.active = w.active /\ q.threads = k
  BY <1>9, <1>s DEF StoredWorkspaces
<1>15. Settled(w) => q = w
  BY <1>10, <1>s
<1> HIDE DEF q
<1>16. Settled(q)
  <2>1. Len(k) <= MaxStoredThreads
    BY <1>1, <1>3, <1>9, <1>11, WorkspaceAssumption DEF S
  <2>2. \A i \in 2..Len(k) : k[i].id # w.active /\ k[i].messages # <<>>
    <3>1. ASSUME NEW i \in 2..Len(k) PROVE k[i].id # w.active /\ k[i].messages # <<>>
      <4>1. k[i].id # w.active
        BY <1>1, <1>9 DEF S
      <4>2. k[i] \in kept
        BY <1>9, <1>11
      <4> QED BY <1>7, <4>1, <4>2
    <3> QED BY <3>1
  <2>3. \A i \in 1..Len(k) : SafeToStore(k[i])
    BY <1>1, <1>9 DEF S
  <2>4. k[1].id = w.active
    BY <1>5, <1>9
  <2> QED BY <1>9, <1>14, <2>1, <2>2, <2>3, <2>4 DEF Settled
<1>17. \A i \in 1..Len(k) : \E j \in 1..Len(w.threads) : k[i] = Workspace!SafeThread(w.threads[j])
  <2>1. ASSUME NEW i \in 1..Len(k) PROVE \E j \in 1..Len(w.threads) : k[i] = Workspace!SafeThread(w.threads[j])
    <3>1. PICK h \in 1..Len(S) : k[i] = S[h]
      BY <1>9
    <3>2. PICK j \in 1..Len(w.threads) : S[h] = Workspace!SafeThread(w.threads[j])
      BY <1>1 DEF S
    <3>3. k[i] = Workspace!SafeThread(w.threads[j])
      BY <3>1, <3>2
    <3> QED BY <3>3
  <2> QED BY <2>1
<1> QED BY <1>1, <1>9, <1>13, <1>14, <1>15, <1>16, <1>17 DEF S

\* Every conversation that can be read is read, and the active one if it can be.
LEMMA WorkspaceNormalized ==
  ASSUME NEW w \in StoredWorkspaces, NEW h \in 1..Len(w.threads), w.threads[h].readable
  PROVE  LET q == Workspace!Normalized(w) IN
         /\ q \in StoredWorkspaces /\ Workspace!HasThread(q, q.active)
         /\ \A i \in 1..Len(w.threads) : w.threads[i].readable =>
              w.threads[i] \in Workspace!Range(q.threads) /\ (w.threads[i].id = w.active => q.active = w.active)
         /\ (\A i \in 1..Len(w.threads) : w.threads[i].readable) /\ Workspace!HasThread(w, w.active) => q = w
<1> DEFINE T == w.threads
           n == Len(T)
           good == {t \in Workspace!Range(T) : t.readable}
           k == Among(T, good)
           active == IF Workspace!HasThread([w EXCEPT !.threads = k], w.active) THEN w.active ELSE k[1].id
           q == [active |-> active, threads |-> k]
<1>1. T \in Seq(StoredThreads) /\ n \in Nat /\ (\A i \in 1..n : T[i] \in StoredThreads) /\ h \in 1..n /\ DOMAIN T = 1..n
      /\ w.active \in Nat /\ w = [active |-> w.active, threads |-> T]
  BY WorkspaceFields
<1>2. Workspace!Range(T) = {T[i] : i \in 1..n}
  BY <1>1, WorkspaceRange
<1>3. \A i \in 1..n : T[i] \in good <=> T[i].readable
  BY <1>2
<1>4. Workspace!Normalized(w) = IF k = <<>> THEN NoWorkspace ELSE q
  BY WorkspaceAmong DEF Workspace!Normalized
<1> HIDE DEF good
<1>5. k \in Seq(StoredThreads) /\ \A i \in 1..n : T[i].readable => \E j \in 1..Len(k) : k[j] = T[i]
  <2>1. k \in Seq(StoredThreads) /\ Filters(k, T, good)
    BY <1>1, AmongMembers
  <2> QED BY <1>3, <2>1 DEF Filters
<1>6. (\A i \in 1..n : T[i].readable) => k = T
  BY <1>1, <1>3, AmongAll
<1> HIDE DEF k
<1>7. Len(k) \in Nat /\ k # <<>> /\ DOMAIN k = 1..Len(k) /\ 1 \in 1..Len(k) /\ k[1] \in StoredThreads
      /\ \A i \in 1..Len(k) : k[i] \in StoredThreads
  <2>1. PICK j \in 1..Len(k) : k[j] = T[h]
    BY <1>1, <1>5
  <2>2. Len(k) \in Nat /\ DOMAIN k = 1..Len(k) /\ Len(k) >= 1
    BY <1>5, <2>1
  <2> QED BY <1>5, <2>2, ElementOfSeq
<1> DEFINE z == [w EXCEPT !.threads = k]
<1>8. z.threads = k
  BY <1>1 DEF StoredWorkspaces
<1>9. active \in Nat /\ \E i \in 1..Len(k) : k[i].id = active
  <2>1. CASE Workspace!HasThread(z, w.active)
    <3>1. active = w.active
      BY <2>1
    <3>2. \E i \in 1..Len(k) : k[i].id = w.active
      <4> HIDE DEF z
      <4> QED BY <1>7, <1>8, <2>1 DEF Workspace!HasThread
    <3> QED BY <1>1, <3>1, <3>2
  <2>2. CASE ~Workspace!HasThread(z, w.active)
    <3>1. active = k[1].id
      BY <2>2
    <3>2. k[1].id \in Nat
      BY <1>7 DEF StoredThreads
    <3> QED BY <1>7, <3>1, <3>2
  <2> QED BY <2>1, <2>2
<1>10. ASSUME NEW i \in 1..n, T[i].readable, T[i].id = w.active PROVE active = w.active
  <2>1. \E j \in DOMAIN k : k[j].id = w.active
    BY <1>5, <1>7, <1>10
  <2>2. Workspace!HasThread(z, w.active)
    <3> HIDE DEF z
    <3> QED BY <1>8, <2>1 DEF Workspace!HasThread
  <2> QED BY <2>2
<1> HIDE DEF active, T
<1>11. Workspace!Normalized(w) = q
  BY <1>4, <1>7
<1>12. q \in StoredWorkspaces /\ q.active = active /\ q.threads = k
  BY <1>5, <1>9 DEF StoredWorkspaces
<1>13. Workspace!HasThread(q, q.active)
  <2> HIDE DEF q
  <2> QED BY <1>7, <1>9, <1>12 DEF Workspace!HasThread
<1>14. \A i \in 1..n : T[i].readable => T[i] \in Workspace!Range(q.threads) /\ (T[i].id = w.active => q.active = w.active)
  <2>1. Workspace!Range(k) = {k[i] : i \in 1..Len(k)}
    BY <1>5, WorkspaceRange
  <2> HIDE DEF q
  <2>2. ASSUME NEW i \in 1..n, T[i].readable PROVE T[i] \in Workspace!Range(q.threads)
    BY <1>5, <1>12, <2>1, <2>2
  <2>3. ASSUME NEW i \in 1..n, T[i].readable, T[i].id = w.active PROVE q.active = w.active
    BY <1>10, <1>12, <2>3
  <2> QED BY <2>2, <2>3
<1>15. ASSUME \A i \in 1..n : T[i].readable, Workspace!HasThread(w, w.active) PROVE q = w
  <2>1. PICK i \in 1..n : T[i].id = w.active
    BY <1>1, <1>15 DEF Workspace!HasThread, T
  <2>2. k = T /\ active = w.active
    BY <1>6, <1>10, <1>15, <2>1
  <2> QED BY <1>1, <2>2
<1> QED BY <1>11, <1>12, <1>13, <1>14, <1>15 DEF T, n

\* What the invariant says of a workspace: its type, no conversation drags
\* another along, and what is stored is what is read back.
LEMMA WorkspaceShows ==
  ASSUME WorkspaceInv PROVE Workspace!TypeOK /\ Workspace!NoneDragsAnother /\ Workspace!ReadsBack
<1> DEFINE T == panel.threads
           n == Len(T)
<1>1. /\ panel \in StoredWorkspaces /\ panel.active \in 1..MaxWrittenThreads /\ n <= MaxWrittenThreads /\ n \in Nat
      /\ T \in Seq(StoredThreads) /\ DOMAIN T = 1..n
      /\ \A i \in 1..n : T[i] \in StoredThreads /\ T[i].id = i /\ T[i].messages \in Seq(StoredMessages) /\ T[i].readable \in BOOLEAN
      /\ \A i \in 1..n : \A j \in 1..Len(T[i].messages) : T[i].messages[j] \in Workspace!Messages
  BY WorkspaceFields DEF WorkspaceInv
<1>2. Workspace!TypeOK
  <2>1. ASSUME NEW i \in 1..n
        PROVE  T[i].id \in Workspace!Ids /\ T[i].readable \in BOOLEAN /\ Workspace!Range(T[i].messages) \subseteq Workspace!Messages
    <3>1. i \in 1..MaxWrittenThreads
      BY <1>1, WorkspaceAssumption
    <3>2. Workspace!Range(T[i].messages) = {T[i].messages[j] : j \in 1..Len(T[i].messages)}
      BY <1>1, WorkspaceRange
    <3> QED BY <1>1, <3>1, <3>2 DEF Workspace!Ids
  <2> QED BY <1>1, <2>1 DEF Workspace!TypeOK, Workspace!Ids
<1>3. Workspace!NoneDragsAnother
  <2> SUFFICES ASSUME \E i \in DOMAIN T : T[i].readable
               PROVE  LET w == Workspace!Normalized(panel) IN
                      /\ w # NoWorkspace /\ Workspace!HasThread(w, w.active)
                      /\ \A i \in DOMAIN T : T[i].readable =>
                           /\ T[i] \in Workspace!Range(w.threads)
                           /\ T[i].id = panel.active => w.active = panel.active
    BY DEF Workspace!NoneDragsAnother
  <2>1. PICK h \in 1..n : T[h].readable
    BY <1>1
  <2> DEFINE w == Workspace!Normalized(panel)
  <2>2. /\ w \in StoredWorkspaces /\ Workspace!HasThread(w, w.active)
        /\ \A i \in 1..n : T[i].readable =>
              T[i] \in Workspace!Range(w.threads) /\ (T[i].id = panel.active => w.active = panel.active)
    BY <1>1, <2>1, WorkspaceNormalized
  <2> HIDE DEF w
  <2>3. w # NoWorkspace
    BY <2>2, WorkspaceAssumption
  <2> QED BY <1>1, <2>2, <2>3 DEF w
<1>4. Workspace!ReadsBack
  <2> DEFINE p == Workspace!Persisted(panel)
             a == panel.active
  <2> SUFFICES ASSUME Workspace!HasThread(panel, a)
               PROVE  /\ Workspace!Persisted(p) = p
                      /\ (\A i \in DOMAIN T : T[i].readable) /\ Workspace!Raw(p) <= MaxStoredLength => Workspace!Parsed(p) = p
                      /\ Workspace!HasThread(p, p.active)
                      /\ \A i \in DOMAIN T : T[i].id = a =>
                           LET was == T[i].messages
                               now == p.threads[1].messages
                           IN  /\ p.active = a /\ p.threads[1].id = a
                               /\ was # <<>> => now # <<>> /\ now[Len(now)] = Workspace!SafeMessage(was[Len(was)])
    BY DEF Workspace!ReadsBack
  <2>1. a \in 1..n /\ \A i \in 1..n : T[i].id = a <=> i = a
    BY <1>1 DEF Workspace!HasThread
  <2>2. /\ Settled(p) /\ p.active = a /\ p.threads[1] = Workspace!SafeThread(T[a])
        /\ \A i \in 1..Len(p.threads) : \E j \in 1..n : p.threads[i] = Workspace!SafeThread(T[j])
    BY <1>1, <2>1, WorkspacePersisted
  <2> HIDE DEF p
  <2>3. p \in StoredWorkspaces /\ 1 \in 1..Len(p.threads) /\ DOMAIN p.threads = 1..Len(p.threads) /\ p.threads[1].id = p.active
        /\ \A i \in 1..Len(p.threads) : p.threads[i].id = p.active <=> i = 1
    <3>1. p \in StoredWorkspaces /\ Len(p.threads) >= 1 /\ p.threads[1].id = p.active
          /\ \A i \in 2..Len(p.threads) : p.threads[i].id # p.active
      BY <2>2 DEF Settled
    <3>2. Len(p.threads) \in Nat /\ DOMAIN p.threads = 1..Len(p.threads)
      BY <3>1, WorkspaceFields
    <3>3. \A i \in 1..Len(p.threads) : i = 1 \/ (i # 1 /\ i \in 2..Len(p.threads))
      BY <3>2
    <3> QED BY <3>1, <3>2, <3>3
  <2>4. Workspace!Persisted(p) = p
    BY <2>2, <2>3, WorkspacePersisted
  <2>5. Workspace!HasThread(p, p.active)
    BY <2>3 DEF Workspace!HasThread
  <2>6. ASSUME \A i \in 1..n : T[i].readable, Workspace!Raw(p) <= MaxStoredLength PROVE Workspace!Parsed(p) = p
    <3>1. \A i \in 1..Len(p.threads) : p.threads[i].readable
      <4>1. ASSUME NEW i \in 1..Len(p.threads) PROVE p.threads[i].readable
        <5>1. PICK j \in 1..n : p.threads[i] = Workspace!SafeThread(T[j])
          BY <2>2
        <5>2. T[j] \in StoredThreads /\ T[j].readable = TRUE
          BY <1>1, <2>6
        <5>3. Workspace!SafeThread(T[j]).readable = T[j].readable
          BY <5>2, WorkspaceThread
        <5> QED BY <5>1, <5>2, <5>3
      <4> QED BY <4>1
    <3>2. Workspace!Normalized(p) = p
      BY <2>3, <2>5, <3>1, WorkspaceNormalized
    <3> QED BY <2>6, <3>2 DEF Workspace!Parsed
  <2>7. ASSUME NEW i \in 1..n, T[i].id = a, T[i].messages # <<>>
        PROVE  LET was == T[i].messages
                   now == p.threads[1].messages
               IN  now # <<>> /\ now[Len(now)] = Workspace!SafeMessage(was[Len(was)])
    <3>1. i = a
      BY <2>1, <2>7
    <3> QED BY <1>1, <2>2, <2>7, <3>1, WorkspaceThread
  <2> QED BY <1>1, <2>2, <2>3, <2>4, <2>5, <2>6, <2>7
<1> QED BY <1>2, <1>3, <1>4

-----------------------------------------------------------------------------
ChatMessage ==
  [role : {"system", "user", "assistant", "tool"}, text : Nat, images : 0..1, call : 0..2]

\* The result of a tool directly follows the call it answers, and a call has one.
PairsWhole(ms) ==
  \A i \in 1..Len(ms) :
    /\ ms[i].role = "tool" => i > 1 /\ ms[i - 1].role = "assistant" /\ ms[i - 1].call = ms[i].call
    /\ ms[i].role = "assistant" /\ ms[i].call # 0 => i < Len(ms) /\ ms[i + 1].role = "tool"

\* What a request is made of: the system prompt, then a conversation that
\* begins with a question.
Request(ms) ==
  /\ ms \in Seq(ChatMessage) /\ Len(ms) >= 2
  /\ ms[1].role = "system" /\ ms[2].role = "user" /\ PairsWhole(ms)

\* The bubbles of a conversation: questions and plain answers.
Bubbles(ms) ==
  /\ ms \in Seq(ChatMessage)
  /\ \A i \in 1..Len(ms) : ms[i].role \in {"user", "assistant"} /\ ms[i].call = 0
  /\ ms # <<>> => ms[1].role = "user"

NewestPlace(s) == CHOOSE i \in Context!Questions(s) : \A j \in Context!Questions(s) : j <= i

\* ms is what is left of raw: its newest question, whole unless it is alone.
Leaves(ms, raw) ==
  /\ ms[NewestPlace(ms)].text <= raw[NewestPlace(raw)].text
  /\ ms[NewestPlace(ms)] # raw[NewestPlace(raw)] => Len(ms) = 2

ContextRequest ==
  [messages : Seq(ChatMessage), answer : Nat \cup {Context!NoLimit}, of : Seq(ChatMessage), followup : BOOLEAN]

ContextType ==
  [ system : ChatMessage, msgs : Seq(ChatMessage), failed : Seq(ChatMessage), asked : BOOLEAN,
    calls : 0..2, pending : BOOLEAN, request : ContextRequest ]

\* What is under way is what a retry or a tool's result would go on from.
ContextKeeps(w) ==
  /\ w.system.role = "system" /\ w.system.call = 0 /\ Bubbles(w.msgs)
  /\ w.failed # <<>> => w.msgs # <<>> /\ Request(w.failed)
  /\ w.request # Context!NoRequest =>
       /\ w.failed # <<>> /\ w.failed = w.request.messages /\ Request(w.request.of)
       /\ Leaves(w.request.messages, w.request.of)
       /\ ~w.request.followup =>
            /\ Context!TotalCost(w.failed) <= Context!Budget
            /\ w.request.answer # Context!NoLimit =>
                 Context!TotalCost(w.failed) + w.request.answer + AnswerReserve <= ContextSize

ContextInv == panel \in ContextType /\ ContextKeeps(panel)

\* The sums of the costs of the first messages.
CostsUpTo(ms, n, K) == K = [i \in 0..n |-> IF i = 0 THEN 0 ELSE K[i - 1] + Context!Cost(ms[i])]

\* The costs of the first messages exist: the recursion of TotalCost is well
\* defined.
LEMMA CostsExist ==
  ASSUME NEW ms, NEW n \in Nat
  PROVE  \E K : CostsUpTo(ms, n, K)
<1> DEFINE T == {m \in Nat : \E K : CostsUpTo(ms, m, K)}
<1>1. 0 \in T
  <2>1. CostsUpTo(ms, 0, [i \in 0..0 |-> 0])
    BY DEF CostsUpTo
  <2> QED BY <2>1
<1>2. ASSUME NEW m \in Nat, m \in T PROVE m + 1 \in T
  <2>1. PICK K : CostsUpTo(ms, m, K)
    BY <1>2
  <2> DEFINE L == [i \in 0..m + 1 |-> IF i = m + 1 THEN K[m] + Context!Cost(ms[i]) ELSE K[i]]
  <2>2. ASSUME NEW i \in 0..m + 1
        PROVE  L[i] = IF i = 0 THEN 0 ELSE L[i - 1] + Context!Cost(ms[i])
    <3>1. CASE i = m + 1
      BY <3>1
    <3>2. CASE i # m + 1
      <4>1. i \in 0..m
        BY <3>2
      <4>2. K[i] = IF i = 0 THEN 0 ELSE K[i - 1] + Context!Cost(ms[i])
        BY <2>1, <4>1 DEF CostsUpTo
      <4> QED BY <4>1, <4>2
    <3> QED BY <3>1, <3>2
  <2>3. CostsUpTo(ms, m + 1, L)
    BY <2>2 DEF CostsUpTo
  <2> QED BY <2>3
<1> HIDE DEF T
<1>3. Nat \subseteq T
  BY <1>1, <1>2, Induct
<1> QED BY <1>3 DEF T

\* What a message costs.
LEMMA MessageCost ==
  ASSUME NEW m \in ChatMessage
  PROVE  /\ Context!Cost(m) \in Nat /\ Context!Cost(m) >= MessageOverhead
         /\ m.images = 0 => Context!Cost(m) = m.text + MessageOverhead
<1>1. m.text \in Nat /\ m.images \in 0..1 /\ MessageOverhead \in Nat /\ ImageTokens \in Nat
  BY ContextAssumption DEF ChatMessage
<1>2. m.images = 0 => m.images * ImageTokens = 0
  BY <1>1
<1>3. m.images = 1 => m.images * ImageTokens = ImageTokens
  BY <1>1
<1> QED BY <1>1, <1>2, <1>3 DEF Context!Cost

\* The costs of a conversation, one message after the other.
LEMMA CostsAre ==
  ASSUME NEW ms \in Seq(ChatMessage)
  PROVE  \E K : /\ K[0] = 0 /\ \A i \in 1..Len(ms) : K[i] = K[i - 1] + Context!Cost(ms[i])
                /\ Context!TotalCost(ms) = K[Len(ms)]
                /\ \A i \in 0..Len(ms) : K[i] \in Nat
<1>1. Len(ms) \in Nat
  OBVIOUS
<1> DEFINE K == CHOOSE K : CostsUpTo(ms, Len(ms), K)
<1>2. CostsUpTo(ms, Len(ms), K)
  BY <1>1, CostsExist
<1>3. Context!TotalCost(ms) = K[Len(ms)]
  BY DEF Context!TotalCost, CostsUpTo
<1> HIDE DEF K
<1>4. K[0] = 0 /\ \A i \in 1..Len(ms) : K[i] = K[i - 1] + Context!Cost(ms[i])
  <2>1. \A i \in 0..Len(ms) : K[i] = IF i = 0 THEN 0 ELSE K[i - 1] + Context!Cost(ms[i])
    BY <1>2 DEF CostsUpTo
  <2>2. 0 \in 0..Len(ms) /\ \A i \in 1..Len(ms) : i \in 0..Len(ms) /\ i # 0
    BY <1>1
  <2> QED BY <2>1, <2>2
<1> DEFINE I == {n \in Nat : n <= Len(ms) => K[n] \in Nat}
<1>5. 0 \in I
  BY <1>4
<1>6. ASSUME NEW n \in Nat, n \in I PROVE n + 1 \in I
  <2> SUFFICES ASSUME n + 1 <= Len(ms) PROVE K[n + 1] \in Nat
    OBVIOUS
  <2>1. n + 1 \in 1..Len(ms) /\ n <= Len(ms) /\ (n + 1) - 1 = n
    BY <1>1
  <2>2. K[n] \in Nat /\ ms[n + 1] \in ChatMessage
    BY <1>6, <2>1, ElementOfSeq
  <2>3. Context!Cost(ms[n + 1]) \in Nat
    BY <2>2, MessageCost
  <2>4. K[n + 1] = K[n] + Context!Cost(ms[n + 1])
    BY <1>4, <2>1
  <2> QED BY <2>2, <2>3, <2>4
<1> HIDE DEF I
<1>7. Nat \subseteq I
  BY <1>5, <1>6, Induct
<1>8. \A i \in 0..Len(ms) : K[i] \in Nat
  BY <1>1, <1>7 DEF I
<1> QED BY <1>3, <1>4, <1>8

\* The cost of a conversation is a natural number.
LEMMA CostIsNat ==
  ASSUME NEW ms \in Seq(ChatMessage) PROVE Context!TotalCost(ms) \in Nat
<1>1. PICK K : /\ Context!TotalCost(ms) = K[Len(ms)]
               /\ \A i \in 0..Len(ms) : K[i] \in Nat
  BY CostsAre
<1> QED BY <1>1

\* A conversation with one more message in front costs that message more.
LEMMA CostInFront ==
  ASSUME NEW m \in ChatMessage, NEW ms \in Seq(ChatMessage)
  PROVE  Context!TotalCost(<<m>> \o ms) = Context!Cost(m) + Context!TotalCost(ms)
<1> DEFINE all == <<m>> \o ms
<1>1. <<m>> \in Seq(ChatMessage) /\ Len(<<m>>) = 1 /\ <<m>>[1] = m /\ Len(ms) \in Nat
  OBVIOUS
<1>2. /\ all \in Seq(ChatMessage) /\ Len(all) = Len(ms) + 1
      /\ all[1] = m /\ \A i \in 1..Len(ms) : all[i + 1] = ms[i]
  <2>1. /\ all \in Seq(ChatMessage) /\ Len(all) = 1 + Len(ms)
        /\ \A i \in 1..1 + Len(ms) : all[i] = IF i <= 1 THEN <<m>>[i] ELSE ms[i - 1]
    BY <1>1, ConcatProperties
  <2>2. 1 \in 1..1 + Len(ms) /\ \A i \in 1..Len(ms) : i + 1 \in 1..1 + Len(ms) /\ ~(i + 1 <= 1) /\ (i + 1) - 1 = i
    BY <1>1
  <2> HIDE DEF all
  <2> QED BY <1>1, <2>1, <2>2
<1> HIDE DEF all
<1>3. PICK K : /\ K[0] = 0 /\ \A i \in 1..Len(ms) : K[i] = K[i - 1] + Context!Cost(ms[i])
               /\ Context!TotalCost(ms) = K[Len(ms)] /\ \A i \in 0..Len(ms) : K[i] \in Nat
  BY CostsAre
<1>4. PICK L : /\ L[0] = 0 /\ \A i \in 1..Len(all) : L[i] = L[i - 1] + Context!Cost(all[i])
               /\ Context!TotalCost(all) = L[Len(all)] /\ \A i \in 0..Len(all) : L[i] \in Nat
  BY <1>2, CostsAre
<1>5. Context!Cost(m) \in Nat
  BY MessageCost
<1> DEFINE I == {n \in Nat : n <= Len(ms) => L[n + 1] = Context!Cost(m) + K[n]}
<1>6. 0 \in I
  <2>1. L[1] = L[0] + Context!Cost(m)
    <3>1. 1 \in 1..Len(all) /\ 1 - 1 = 0
      BY <1>1, <1>2
    <3> QED BY <1>2, <1>4, <3>1
  <2> QED BY <1>3, <1>4, <1>5, <2>1
<1>7. ASSUME NEW n \in Nat, n \in I PROVE n + 1 \in I
  <2> SUFFICES ASSUME n + 1 <= Len(ms) PROVE L[(n + 1) + 1] = Context!Cost(m) + K[n + 1]
    OBVIOUS
  <2>1. /\ n + 1 \in 1..Len(ms) /\ n <= Len(ms) /\ (n + 1) + 1 \in 1..Len(all)
        /\ (n + 1) - 1 = n /\ ((n + 1) + 1) - 1 = n + 1 /\ n \in 0..Len(ms)
    BY <1>1, <1>2
  <2>2. L[(n + 1) + 1] = L[n + 1] + Context!Cost(ms[n + 1])
    BY <1>2, <1>4, <2>1
  <2>3. K[n + 1] = K[n] + Context!Cost(ms[n + 1]) /\ K[n] \in Nat
    BY <1>3, <2>1
  <2>4. L[n + 1] = Context!Cost(m) + K[n]
    BY <1>7, <2>1
  <2>5. Context!Cost(ms[n + 1]) \in Nat
    BY <2>1, ElementOfSeq, MessageCost
  <2> QED BY <1>5, <2>2, <2>3, <2>4, <2>5
<1> HIDE DEF I
<1>8. Nat \subseteq I
  BY <1>6, <1>7, Induct
<1> QED BY <1>1, <1>2, <1>3, <1>4, <1>8 DEF I, all

\* One message costs what it costs.
LEMMA CostOfOne ==
  ASSUME NEW m \in ChatMessage PROVE Context!TotalCost(<<m>>) = Context!Cost(m)
<1>1. <<m>> \in Seq(ChatMessage) /\ Len(<<m>>) = 1 /\ <<m>>[1] = m
  OBVIOUS
<1>2. PICK K : /\ K[0] = 0 /\ \A i \in 1..Len(<<m>>) : K[i] = K[i - 1] + Context!Cost(<<m>>[i])
               /\ Context!TotalCost(<<m>>) = K[Len(<<m>>)]
  BY <1>1, CostsAre
<1>3. K[1] = K[0] + Context!Cost(m)
  <2>1. 1 \in 1..Len(<<m>>) /\ 1 - 1 = 0
    BY <1>1
  <2> QED BY <1>1, <1>2, <2>1
<1>4. Context!Cost(m) \in Nat
  BY MessageCost
<1> QED BY <1>1, <1>2, <1>3, <1>4

\* A set of places with a member has a last one.
LEMMA LastPlace ==
  ASSUME NEW n \in Nat, NEW T \in SUBSET (1..n), T # {}
  PROVE  \E i \in T : \A j \in T : j <= i
<1> DEFINE U == {k \in Nat : \A j \in T : j <= k}
<1>1. U \in SUBSET Nat /\ n \in U
  OBVIOUS
<1>2. PICK k \in U : \A l \in U : k <= l
  <2> HIDE DEF U
  <2> QED BY <1>1, Least
<1>3. k \in Nat /\ \A j \in T : j <= k
  BY <1>2
<1>4. CASE k \in T
  BY <1>3, <1>4
<1>5. CASE k \notin T
  <2>1. \A j \in T : j \in Nat /\ j <= k /\ j # k
    BY <1>3, <1>5
  <2>2. k # 0
    <3>1. PICK t \in T : TRUE
      OBVIOUS
    <3>2. t >= 1 /\ t <= k /\ t \in Nat
      BY <1>3
    <3> QED BY <1>3, <3>2
  <2>3. k - 1 \in Nat /\ \A j \in T : j <= k - 1
    BY <1>3, <2>1, <2>2
  <2>4. k - 1 \in U
    BY <2>3
  <2>5. k <= k - 1
    BY <1>2, <2>4
  <2> QED BY <1>3, <2>5
<1> QED BY <1>4, <1>5

\* The newest question is the last place of one.
LEMMA NewestQuestion ==
  ASSUME NEW s \in Seq(ChatMessage), Context!Questions(s) # {}
  PROVE  NewestPlace(s) \in Context!Questions(s) /\ \A j \in Context!Questions(s) : j <= NewestPlace(s)
<1>1. Context!Questions(s) \in SUBSET (1..Len(s)) /\ Len(s) \in Nat
  BY DEF Context!Questions
<1>2. \E i \in Context!Questions(s) : \A j \in Context!Questions(s) : j <= i
  BY <1>1, LastPlace
<1> QED BY <1>2 DEF NewestPlace

\* A question with none after it is the newest.
LEMMA NewestIs ==
  ASSUME NEW s \in Seq(ChatMessage), NEW i \in Context!Questions(s),
         \A j \in Context!Questions(s) : j <= i
  PROVE  NewestPlace(s) = i
<1>1. NewestPlace(s) \in Context!Questions(s) /\ \A j \in Context!Questions(s) : j <= NewestPlace(s)
  BY NewestQuestion
<1>2. i \in Nat /\ NewestPlace(s) \in Nat
  BY <1>1 DEF Context!Questions
<1> QED BY <1>1, <1>2

\* A message that is cut keeps its role, fits, and has no more text than before
\* (truncateMessage, in chatUtils.ts).
LEMMA TruncatedFits ==
  ASSUME NEW m \in ChatMessage, NEW budget \in Nat, MessageOverhead <= budget
  PROVE  LET t == Context!Truncated(m, budget) IN
         /\ t \in ChatMessage /\ t.role = m.role /\ t.call = m.call
         /\ Context!Cost(t) <= budget /\ t.text <= m.text
<1> DEFINE t == Context!Truncated(m, budget)
<1>1. m.text \in Nat /\ MessageOverhead \in Nat /\ Context!Cost(m) \in Nat
  BY ContextAssumption, MessageCost DEF ChatMessage
<1>2. CASE Context!Cost(m) <= budget
  <2>1. t = m
    BY <1>2 DEF Context!Truncated
  <2> HIDE DEF t
  <2>2. t \in ChatMessage /\ t.role = m.role /\ t.call = m.call /\ Context!Cost(t) <= budget /\ t.text <= m.text
    BY <1>1, <1>2, <2>1
  <2> QED BY <2>2 DEF t
<1>3. CASE ~(Context!Cost(m) <= budget)
  <2> DEFINE text == IF m.text + MessageOverhead <= budget THEN m.text ELSE budget - MessageOverhead
  <2>1. text \in Nat /\ text <= m.text /\ text + MessageOverhead <= budget
    BY <1>1
  <2>2. t = [m EXCEPT !.images = 0, !.text = text]
    BY <1>3 DEF Context!Truncated
  <2> HIDE DEF t, text
  <2>3. t \in ChatMessage /\ t.role = m.role /\ t.call = m.call /\ t.text = text /\ t.images = 0
    <3>1. 0 \in 0..1
      OBVIOUS
    <3>2. t \in ChatMessage
      BY <2>1, <2>2, <3>1 DEF ChatMessage
    <3>3. t.role = m.role /\ t.call = m.call /\ t.text = text /\ t.images = 0
      BY <2>2 DEF ChatMessage
    <3> QED BY <3>2, <3>3
  <2>4. Context!Cost(t) = text + MessageOverhead
    BY <2>3, MessageCost
  <2> QED BY <2>1, <2>3, <2>4 DEF t
<1> QED BY <1>2, <1>3

\* The places of a conversation from one on.
LEMMA FromPlace ==
  ASSUME NEW s \in Seq(ChatMessage), NEW i \in 1..Len(s)
  PROVE  LET k == Context!From(s, i) IN
         /\ k \in Seq(ChatMessage) /\ Len(k) = Len(s) - i + 1
         /\ \A j \in 1..Len(s) - i + 1 : k[j] = s[i + j - 1]
<1>1. Len(s) \in Nat /\ i \in Int /\ Len(s) \in Int /\ i <= Len(s)
  OBVIOUS
<1>2. \A j \in i..Len(s) : s[j] \in ChatMessage
  BY ElementOfSeq
<1> HIDE DEF ChatMessage
<1> QED BY <1>1, <1>2, SubSeqProperties DEF Context!From

\* What is kept of a conversation behind the system prompt: it fits, begins with
\* a question, has results with their calls, and its newest question is the
\* newest there was, whole if it is not alone (trimChatHistory, in chatUtils.ts).
KeptWell(k, rest, budget) ==
  /\ k \in Seq(ChatMessage) /\ Len(k) >= 1 /\ k[1].role = "user"
  /\ Context!TotalCost(k) <= budget
  /\ PairsWhole(k)
  /\ k[NewestPlace(k)].text <= rest[NewestPlace(rest)].text
  /\ k[NewestPlace(k)] # rest[NewestPlace(rest)] => Len(k) = 1

\* The newest turns that fit are kept well, and so is the newest question when
\* not even its turn does (trimChatHistory, in chatUtils.ts).
LEMMA KeptFits ==
  ASSUME NEW rest \in Seq(ChatMessage), Len(rest) >= 1, rest[1].role = "user", PairsWhole(rest),
         NEW budget \in Nat, MessageOverhead <= budget
  PROVE  KeptWell(Context!Kept(rest, budget), rest, budget)
<1> DEFINE Q == Context!Questions(rest)
           n == NewestPlace(rest)
           fits == {i \in Q : Context!TotalCost(Context!From(rest, i)) <= budget}
<1>1. Len(rest) \in Nat /\ 1 \in Q
  BY DEF Context!Questions
<1>2. n \in Q /\ \A j \in Q : j <= n
  BY <1>1, NewestQuestion
<1>3. n \in 1..Len(rest) /\ rest[n].role = "user" /\ n \in Nat
  BY <1>2 DEF Context!Questions
<1>4. CASE fits = {}
  <2> DEFINE t == Context!Truncated(rest[n], budget)
  <2>1. Context!Kept(rest, budget) = <<t>>
    BY <1>1, <1>4 DEF Context!Kept, NewestPlace
  <2>2. rest[n] \in ChatMessage
    BY <1>3, ElementOfSeq
  <2>3. t \in ChatMessage /\ t.role = "user" /\ Context!Cost(t) <= budget /\ t.text <= rest[n].text
    BY <1>3, <2>2, TruncatedFits
  <2> HIDE DEF t
  <2>4. <<t>> \in Seq(ChatMessage) /\ Len(<<t>>) = 1 /\ <<t>>[1] = t
    BY <2>3
  <2>5. 1 \in Context!Questions(<<t>>) /\ \A j \in Context!Questions(<<t>>) : j <= 1
    BY <2>3, <2>4 DEF Context!Questions
  <2>6. NewestPlace(<<t>>) = 1
    BY <2>4, <2>5, NewestIs
  <2>7. PairsWhole(<<t>>)
    BY <2>3, <2>4 DEF PairsWhole
  <2>8. Context!TotalCost(<<t>>) <= budget
    BY <2>3, CostOfOne
  <2>9. KeptWell(<<t>>, rest, budget)
    BY <2>3, <2>4, <2>6, <2>7, <2>8 DEF KeptWell
  <2> QED BY <2>1, <2>9
<1>5. CASE fits # {}
  <2>1. fits \in SUBSET Nat
    BY DEF Context!Questions
  <2> DEFINE first == CHOOSE i \in fits : \A j \in fits : i <= j
             k == Context!From(rest, first)
  <2>2. \E i \in fits : \A j \in fits : i <= j
    <3> HIDE DEF fits
    <3> QED BY <1>5, <2>1, Least
  <2>3. first \in fits
    BY <2>2
  <2>4. Context!Kept(rest, budget) = k
    BY <1>1, <1>5 DEF Context!Kept
  <2>5. first \in Q /\ Context!TotalCost(k) <= budget
    BY <2>3
  <2> HIDE DEF first, fits
  <2>6. first \in 1..Len(rest) /\ rest[first].role = "user" /\ first <= n /\ first \in Nat
    BY <1>2, <2>5 DEF Context!Questions
  <2>7. /\ k \in Seq(ChatMessage) /\ Len(k) = Len(rest) - first + 1
        /\ \A j \in 1..Len(rest) - first + 1 : k[j] = rest[first + j - 1]
    BY <2>6, FromPlace
  <2> HIDE DEF k
  <2>8. Len(k) >= 1 /\ k[1] = rest[first]
    <3>1. 1 \in 1..Len(rest) - first + 1 /\ first + 1 - 1 = first /\ Len(rest) - first + 1 >= 1
      BY <1>1, <2>6
    <3>2. k[1] = rest[first + 1 - 1]
      BY <2>7, <3>1
    <3> QED BY <2>7, <3>1, <3>2
  <2> DEFINE m == n - first + 1
  <2>9. m \in 1..Len(k) /\ k[m] = rest[n]
    <3>1. m \in 1..Len(rest) - first + 1 /\ first + m - 1 = n
      <4> HIDE DEF n
      <4> QED BY <1>1, <1>3, <2>6
    <3> HIDE DEF m
    <3> QED BY <2>7, <3>1
  <2>10. ASSUME NEW j \in Context!Questions(k) PROVE j <= m
    <3>1. j \in 1..Len(rest) - first + 1 /\ k[j].role = "user"
      BY <2>7 DEF Context!Questions
    <3>2. first + j - 1 \in 1..Len(rest) /\ rest[first + j - 1].role = "user"
      BY <1>1, <2>6, <2>7, <3>1
    <3>3. first + j - 1 \in Q
      BY <3>2 DEF Context!Questions
    <3>4. first + j - 1 <= n
      BY <1>2, <3>3
    <3> QED BY <1>3, <2>6, <3>1, <3>4
  <2>11. NewestPlace(k) = m
    <3>1. m \in Context!Questions(k)
      BY <1>3, <2>9 DEF Context!Questions
    <3> HIDE DEF m
    <3> QED BY <2>7, <2>10, <3>1, NewestIs
  <2>12. PairsWhole(k)
    <3> SUFFICES ASSUME NEW i \in 1..Len(k)
                 PROVE  /\ k[i].role = "tool" => i > 1 /\ k[i - 1].role = "assistant" /\ k[i - 1].call = k[i].call
                        /\ k[i].role = "assistant" /\ k[i].call # 0 => i < Len(k) /\ k[i + 1].role = "tool"
      BY DEF PairsWhole
    <3> DEFINE p == first + i - 1
    <3>1. p \in 1..Len(rest) /\ k[i] = rest[p] /\ i \in Nat
      BY <1>1, <2>6, <2>7
    <3>2. i > 1 => k[i - 1] = rest[p - 1]
      <4> SUFFICES ASSUME i > 1 PROVE k[i - 1] = rest[p - 1]
        OBVIOUS
      <4>1. i - 1 \in 1..Len(rest) - first + 1 /\ first + (i - 1) - 1 = p - 1
        BY <1>1, <2>6, <2>7
      <4>2. k[i - 1] = rest[first + (i - 1) - 1]
        BY <2>7, <4>1
      <4> HIDE DEF p
      <4> QED BY <4>1, <4>2
    <3>3. i < Len(k) => k[i + 1] = rest[p + 1]
      <4> SUFFICES ASSUME i < Len(k) PROVE k[i + 1] = rest[p + 1]
        OBVIOUS
      <4>1. i + 1 \in 1..Len(rest) - first + 1 /\ first + (i + 1) - 1 = p + 1
        BY <1>1, <2>6, <2>7
      <4>2. k[i + 1] = rest[first + (i + 1) - 1]
        BY <2>7, <4>1
      <4> HIDE DEF p
      <4> QED BY <4>1, <4>2
    <3>4. p < Len(rest) => i < Len(k)
      BY <1>1, <2>6, <2>7
    <3>5. k[1].role = "user" /\ (i = 1 \/ i > 1)
      BY <2>6, <2>8, <3>1
    <3> HIDE DEF p
    <3>6. /\ rest[p].role = "tool" => p > 1 /\ rest[p - 1].role = "assistant" /\ rest[p - 1].call = rest[p].call
          /\ rest[p].role = "assistant" /\ rest[p].call # 0 => p < Len(rest) /\ rest[p + 1].role = "tool"
      BY <3>1 DEF PairsWhole
    <3> QED BY <3>1, <3>2, <3>3, <3>4, <3>5, <3>6
  <2>13. rest[n].text \in Nat
    <3>1. rest[n] \in ChatMessage
      BY <1>3, ElementOfSeq
    <3> QED BY <3>1 DEF ChatMessage
  <2>14. KeptWell(k, rest, budget)
    <3> HIDE DEF m, n
    <3> QED BY <2>5, <2>6, <2>7, <2>8, <2>9, <2>11, <2>12, <2>13 DEF KeptWell, n, k
  <2> QED BY <2>4, <2>14 DEF k
<1> QED BY <1>4, <1>5

\* all is k behind one message m.
InFront(all, m, k) ==
  /\ all \in Seq(ChatMessage) /\ k \in Seq(ChatMessage) /\ Len(all) = Len(k) + 1
  /\ all[1] = m /\ \A i \in 1..Len(k) : all[i + 1] = k[i]

\* A message and a conversation make a conversation behind the message.
LEMMA ConcatInFront ==
  ASSUME NEW m \in ChatMessage, NEW k \in Seq(ChatMessage)
  PROVE  InFront(<<m>> \o k, m, k)
<1>1. <<m>> \in Seq(ChatMessage) /\ Len(<<m>>) = 1 /\ <<m>>[1] = m /\ Len(k) \in Nat
  OBVIOUS
<1> DEFINE all == <<m>> \o k
<1>2. /\ all \in Seq(ChatMessage) /\ Len(all) = 1 + Len(k)
      /\ \A i \in 1..1 + Len(k) : all[i] = IF i <= 1 THEN <<m>>[i] ELSE k[i - 1]
  BY <1>1, ConcatProperties
<1>3. 1 \in 1..1 + Len(k) /\ \A i \in 1..Len(k) : i + 1 \in 1..1 + Len(k) /\ ~(i + 1 <= 1) /\ (i + 1) - 1 = i
  BY <1>1
<1> HIDE DEF all
<1>4. InFront(all, m, k)
  BY <1>1, <1>2, <1>3 DEF InFront
<1> QED BY <1>4 DEF all

\* The tail of a conversation is behind its first message.
LEMMA TailInFront ==
  ASSUME NEW s \in Seq(ChatMessage), Len(s) >= 1
  PROVE  InFront(s, s[1], Tail(s))
<1>1. s # <<>> /\ Len(s) \in Nat
  OBVIOUS
<1>2. /\ Tail(s) \in Seq(ChatMessage) /\ Len(Tail(s)) = Len(s) - 1
      /\ \A i \in 1..Len(Tail(s)) : Tail(s)[i] = s[i + 1]
  BY <1>1, HeadTailProperties
<1> QED BY <1>1, <1>2 DEF InFront

\* A system prompt in front moves the newest question by one place.
LEMMA NewestBehind ==
  ASSUME NEW all, NEW m, NEW k, InFront(all, m, k), m.role = "system", Context!Questions(k) # {}
  PROVE  /\ NewestPlace(all) = NewestPlace(k) + 1 /\ NewestPlace(k) \in 1..Len(k)
         /\ all[NewestPlace(all)] = k[NewestPlace(k)] /\ Context!Questions(all) # {}
<1> DEFINE n == NewestPlace(k)
<1>1. /\ all \in Seq(ChatMessage) /\ k \in Seq(ChatMessage) /\ Len(all) = Len(k) + 1
      /\ all[1] = m /\ \A i \in 1..Len(k) : all[i + 1] = k[i]
  BY DEF InFront
<1>2. n \in Context!Questions(k) /\ \A j \in Context!Questions(k) : j <= n
  BY <1>1, NewestQuestion
<1>3. n \in 1..Len(k) /\ k[n].role = "user" /\ Len(k) \in Nat
  BY <1>1, <1>2 DEF Context!Questions
<1> HIDE DEF n
<1>4. n + 1 \in Context!Questions(all) /\ all[n + 1] = k[n]
  BY <1>1, <1>3 DEF Context!Questions
<1>5. ASSUME NEW j \in Context!Questions(all) PROVE j <= n + 1
  <2>1. j \in 1..Len(all) /\ all[j].role = "user"
    BY DEF Context!Questions
  <2>2. j # 1
    BY <1>1, <2>1
  <2>3. j - 1 \in 1..Len(k) /\ (j - 1) + 1 = j
    BY <1>1, <1>3, <2>1, <2>2
  <2>4. k[j - 1].role = "user"
    BY <1>1, <2>1, <2>3
  <2>5. j - 1 \in Context!Questions(k)
    BY <2>3, <2>4 DEF Context!Questions
  <2>6. j - 1 <= n
    BY <1>2, <2>5 DEF n
  <2> QED BY <1>3, <2>1, <2>6
<1>6. NewestPlace(all) = n + 1
  BY <1>1, <1>4, <1>5, NewestIs
<1> QED BY <1>3, <1>4, <1>6 DEF n

\* A system prompt separates no result from its call.
LEMMA PairsBehind ==
  ASSUME NEW all, NEW m, NEW k, InFront(all, m, k), m.role = "system"
  PROVE  /\ PairsWhole(all) => PairsWhole(k)
         /\ PairsWhole(k) => PairsWhole(all)
<1>1. /\ Len(all) = Len(k) + 1 /\ Len(k) \in Nat
      /\ all[1] = m /\ \A i \in 1..Len(k) : all[i + 1] = k[i]
  <2>1. k \in Seq(ChatMessage)
    BY DEF InFront
  <2>2. Len(k) \in Nat
    BY <2>1
  <2> QED BY <2>2 DEF InFront
<1>2. ASSUME PairsWhole(all), NEW i \in 1..Len(k)
      PROVE  /\ k[i].role = "tool" => i > 1 /\ k[i - 1].role = "assistant" /\ k[i - 1].call = k[i].call
             /\ k[i].role = "assistant" /\ k[i].call # 0 => i < Len(k) /\ k[i + 1].role = "tool"
  <2>1. i + 1 \in 1..Len(all) /\ all[i + 1] = k[i] /\ (i + 1) - 1 = i
    BY <1>1
  <2>2. /\ all[i + 1].role = "tool" => all[i].role = "assistant" /\ all[i].call = all[i + 1].call
        /\ all[i + 1].role = "assistant" /\ all[i + 1].call # 0 => i + 1 < Len(all) /\ all[(i + 1) + 1].role = "tool"
    BY <1>2, <2>1 DEF PairsWhole
  <2>3. i = 1 => all[i].role = "system"
    BY <1>1
  <2>4. i > 1 => all[i] = k[i - 1]
    <3>1. i > 1 => i - 1 \in 1..Len(k) /\ (i - 1) + 1 = i
      BY <1>1
    <3> QED BY <1>1, <3>1
  <2>5. i + 1 < Len(all) => i < Len(k) /\ all[(i + 1) + 1] = k[i + 1]
    <3>1. i + 1 < Len(all) => i < Len(k) /\ i + 1 \in 1..Len(k)
      BY <1>1
    <3> QED BY <1>1, <3>1
  <2>6. i = 1 \/ i > 1
    OBVIOUS
  <2> QED BY <2>1, <2>2, <2>3, <2>4, <2>5, <2>6
<1>3. ASSUME PairsWhole(k), NEW i \in 1..Len(all)
      PROVE  /\ all[i].role = "tool" => i > 1 /\ all[i - 1].role = "assistant" /\ all[i - 1].call = all[i].call
             /\ all[i].role = "assistant" /\ all[i].call # 0 => i < Len(all) /\ all[i + 1].role = "tool"
  <2>1. CASE i = 1
    BY <1>1, <2>1
  <2>2. CASE i # 1
    <3> DEFINE j == i - 1
    <3>1. j \in 1..Len(k) /\ j + 1 = i /\ i > 1
      BY <1>1, <2>2
    <3>2. all[i] = k[j]
      BY <1>1, <3>1
    <3>3. /\ k[j].role = "tool" => j > 1 /\ k[j - 1].role = "assistant" /\ k[j - 1].call = k[j].call
          /\ k[j].role = "assistant" /\ k[j].call # 0 => j < Len(k) /\ k[j + 1].role = "tool"
      BY <1>3, <3>1 DEF PairsWhole
    <3>4. j > 1 => all[i - 1] = k[j - 1]
      <4>1. j > 1 => j - 1 \in 1..Len(k) /\ (j - 1) + 1 = i - 1
        BY <1>1
      <4> HIDE DEF j
      <4> QED BY <1>1, <4>1
    <3>5. j < Len(k) => i < Len(all) /\ all[i + 1] = k[j + 1]
      <4>1. j < Len(k) => i < Len(all) /\ j + 1 \in 1..Len(k) /\ (j + 1) + 1 = i + 1
        BY <1>1, <3>1
      <4> HIDE DEF j
      <4> QED BY <1>1, <4>1
    <3> HIDE DEF j
    <3> QED BY <3>1, <3>2, <3>3, <3>4, <3>5
  <2> QED BY <2>1, <2>2
<1> QED BY <1>2, <1>3 DEF PairsWhole

\* What is trimmed fits its budget, and is still a request with the newest
\* question, whole if anything is with it (trimChatHistory, in chatUtils.ts).
LEMMA TrimFits ==
  ASSUME NEW raw, Request(raw)
  PROVE  LET ms == Context!Trim(raw, Context!Budget) IN
         Request(ms) /\ Context!TotalCost(ms) <= Context!Budget /\ Leaves(ms, raw)
<1> DEFINE B == Context!Budget
<1>1. /\ B \in Nat /\ SystemReserve + MessageOverhead <= B /\ MessageOverhead < SystemReserve
      /\ SystemReserve \in Nat /\ MessageOverhead \in Nat
  BY ContextAssumption DEF Context!LimitsFit, Context!Budget
<1> HIDE DEF B
<1>2. /\ raw \in Seq(ChatMessage) /\ Len(raw) >= 2
      /\ raw[1].role = "system" /\ raw[2].role = "user" /\ PairsWhole(raw)
  BY DEF Request
<1>3. CASE Context!TotalCost(raw) <= B
  <2>1. Context!Trim(raw, B) = raw
    BY <1>3 DEF Context!Trim
  <2>2. NewestPlace(raw) \in 1..Len(raw)
    <3>1. 2 \in Context!Questions(raw)
      BY <1>2 DEF Context!Questions
    <3> QED BY <1>2, <3>1, NewestQuestion DEF Context!Questions
  <2>3. raw[NewestPlace(raw)] \in ChatMessage
    BY <1>2, <2>2, ElementOfSeq
  <2>4. raw[NewestPlace(raw)].text <= raw[NewestPlace(raw)].text
    BY <2>3 DEF ChatMessage
  <2> QED BY <1>2, <1>3, <2>1, <2>4 DEF Leaves, B
<1>4. CASE ~(Context!TotalCost(raw) <= B)
  <2> DEFINE system == Context!Truncated(raw[1], B - SystemReserve)
             rest == Tail(raw)
             left == B - Context!Cost(system)
             k == Context!Kept(rest, left)
             ms == <<system>> \o k
  <2>1. Context!Trim(raw, B) = ms
    BY <1>2, <1>4 DEF Context!Trim
  <2>2. raw[1] \in ChatMessage /\ 1 \in 1..Len(raw) /\ Len(raw) \in Nat
    BY <1>2
  <2>3. B - SystemReserve \in Nat /\ MessageOverhead <= B - SystemReserve
    BY <1>1
  <2>4. /\ system \in ChatMessage /\ system.role = "system"
        /\ Context!Cost(system) <= B - SystemReserve /\ Context!Cost(system) \in Nat
    BY <1>2, <2>2, <2>3, TruncatedFits, MessageCost
  <2>5. InFront(raw, raw[1], rest)
    BY <1>2, <2>2, TailInFront
  <2>6. left \in Nat /\ MessageOverhead <= left
    BY <1>1, <2>4
  <2> HIDE DEF system, rest, left
  <2>7. rest \in Seq(ChatMessage) /\ Len(rest) >= 1 /\ rest[1].role = "user" /\ PairsWhole(rest) /\ 1 \in 1..Len(rest)
    <3>1. rest \in Seq(ChatMessage) /\ Len(raw) = Len(rest) + 1 /\ \A i \in 1..Len(rest) : raw[i + 1] = rest[i]
      BY <2>5 DEF InFront
    <3>2. Len(rest) \in Nat /\ 1 \in 1..Len(rest) /\ Len(rest) >= 1
      BY <1>2, <3>1
    <3>3. rest[1] = raw[2]
      BY <3>1, <3>2
    <3>4. PairsWhole(rest)
      BY <1>2, <2>5, PairsBehind
    <3> QED BY <1>2, <3>1, <3>2, <3>3, <3>4
  <2>8. KeptWell(k, rest, left)
    BY <2>6, <2>7, KeptFits
  <2> HIDE DEF k
  <2>9. /\ k \in Seq(ChatMessage) /\ Len(k) >= 1 /\ k[1].role = "user"
        /\ Context!TotalCost(k) <= left /\ PairsWhole(k)
        /\ k[NewestPlace(k)].text <= rest[NewestPlace(rest)].text
        /\ k[NewestPlace(k)] # rest[NewestPlace(rest)] => Len(k) = 1
    BY <2>8 DEF KeptWell
  <2>10. InFront(ms, system, k)
    BY <2>4, <2>9, ConcatInFront
  <2>11. Context!TotalCost(ms) = Context!Cost(system) + Context!TotalCost(k)
    BY <2>4, <2>9, CostInFront
  <2> HIDE DEF ms
  <2>12. /\ ms \in Seq(ChatMessage) /\ Len(ms) = Len(k) + 1 /\ Len(k) \in Nat /\ ms[1] = system
         /\ \A i \in 1..Len(k) : ms[i + 1] = k[i]
    BY <2>9, <2>10 DEF InFront
  <2>13. ms[2] = k[1] /\ Len(ms) >= 2
    <3>1. 1 \in 1..Len(k) /\ 1 + 1 = 2
      BY <2>9, <2>12
    <3> QED BY <2>9, <2>12, <3>1
  <2>14. PairsWhole(ms)
    BY <2>4, <2>9, <2>10, PairsBehind
  <2>15. Request(ms)
    BY <2>4, <2>9, <2>12, <2>13, <2>14 DEF Request
  <2>16. Context!TotalCost(ms) <= B
    BY <1>1, <2>4, <2>9, <2>11, CostIsNat DEF left
  <2>17. 1 \in Context!Questions(k) /\ 1 \in Context!Questions(rest)
    BY <2>7, <2>9, <2>12 DEF Context!Questions
  <2>18. ms[NewestPlace(ms)] = k[NewestPlace(k)]
    BY <2>4, <2>10, <2>17, NewestBehind
  <2>19. raw[NewestPlace(raw)] = rest[NewestPlace(rest)]
    BY <1>2, <2>5, <2>17, NewestBehind
  <2>20. Leaves(ms, raw)
    BY <2>9, <2>12, <2>18, <2>19 DEF Leaves
  <2> QED BY <2>1, <2>15, <2>16, <2>20 DEF B
<1> QED BY <1>3, <1>4

\* What is left for the answer: prompt, answer and reserve fit the window when the
\* prompt is within its budget and the answer has a limit (capMaxTokens, in chatUtils.ts).
LEMMA CappedFits ==
  ASSUME NEW requested \in RequestedTokens \cup {-1}, NEW prompt \in Nat
  PROVE  LET answer == Context!Capped(requested, prompt) IN
         /\ answer \in Nat \cup {Context!NoLimit}
         /\ prompt <= Context!Budget /\ answer # Context!NoLimit => prompt + answer + AnswerReserve <= ContextSize
<1> DEFINE left == ContextSize - prompt - AnswerReserve
           available == IF left < 1 THEN 1 ELSE left
<1>1. ContextSize \in Nat /\ AnswerReserve \in Nat /\ left \in Int
  BY ContextAssumption
<1>2. Context!Budget \in Nat /\ Context!Budget + AnswerReserve < ContextSize
  BY ContextAssumption DEF Context!LimitsFit, Context!Budget
<1>3. prompt <= Context!Budget => left >= 1
  BY <1>1, <1>2
<1>4. Context!Capped(requested, prompt) =
        IF requested < 0 \/ requested < available THEN requested ELSE available
  BY DEF Context!Capped
<1>5. requested \in Nat \/ requested = -1
  BY ContextAssumption
<1>6. Context!NoLimit = -1
  BY DEF Context!NoLimit
<1>7. CASE requested = -1
  BY <1>4, <1>6, <1>7
<1>8. CASE requested \in Nat
  BY <1>1, <1>3, <1>4, <1>6, <1>8
<1> QED BY <1>5, <1>7, <1>8

\* A request that is sent, trimmed unless it goes on with a tool's result, keeps the
\* invariant (send, in useChatSend.ts).
LEMMA ContextSends ==
  ASSUME NEW w \in ContextType, w.system.role = "system", w.system.call = 0,
         NEW bubbles, Bubbles(bubbles), bubbles # <<>>,
         NEW raw, Request(raw), NEW followup \in BOOLEAN, NEW requested \in RequestedTokens \cup {-1}
  PROVE  LET v == Context!Sent(w, bubbles, raw, followup, requested) IN v \in ContextType /\ ContextKeeps(v)
<1> DEFINE ms == IF followup THEN raw ELSE Context!Trim(raw, Context!Budget)
           answer == Context!Capped(requested, Context!TotalCost(ms))
           request == [messages |-> ms, answer |-> answer, of |-> raw, followup |-> followup]
           v == Context!Sent(w, bubbles, raw, followup, requested)
<1>1. v = [w EXCEPT !.msgs = bubbles, !.failed = ms, !.asked = ~followup, !.request = request]
  BY DEF Context!Sent
<1>2. Request(ms) /\ Leaves(ms, raw) /\ (~followup => Context!TotalCost(ms) <= Context!Budget)
  <2>1. CASE followup
    <3>1. 2 \in Context!Questions(raw) /\ raw \in Seq(ChatMessage)
      BY DEF Context!Questions, Request
    <3>2. NewestPlace(raw) \in 1..Len(raw)
      BY <3>1, NewestQuestion DEF Context!Questions
    <3>3. raw[NewestPlace(raw)] \in ChatMessage
      BY <3>1, <3>2, ElementOfSeq
    <3> QED BY <2>1, <3>3 DEF Leaves, ChatMessage
  <2>2. CASE ~followup
    BY <2>2, TrimFits
  <2> QED BY <2>1, <2>2
<1>3. ms \in Seq(ChatMessage) /\ raw \in Seq(ChatMessage)
  BY <1>2 DEF Request
<1>4. Context!TotalCost(ms) \in Nat
  BY <1>3, CostIsNat
<1>5. /\ answer \in Nat \cup {Context!NoLimit}
      /\ Context!TotalCost(ms) <= Context!Budget /\ answer # Context!NoLimit =>
           Context!TotalCost(ms) + answer + AnswerReserve <= ContextSize
  BY <1>4, CappedFits
<1> HIDE DEF ms, answer
<1>6. request \in ContextRequest
  <2> HIDE DEF ChatMessage
  <2> QED BY <1>3, <1>5 DEF ContextRequest
<1>7. /\ request.messages = ms /\ request.answer = answer /\ request.of = raw /\ request.followup = followup
  OBVIOUS
<1> HIDE DEF request, v
<1>8. /\ v \in ContextType /\ v.system = w.system /\ v.msgs = bubbles /\ v.failed = ms /\ v.request = request
  <2>1. bubbles \in Seq(ChatMessage) /\ (~followup) \in BOOLEAN
    BY DEF Bubbles
  <2> HIDE DEF ChatMessage
  <2> QED BY <1>1, <1>3, <1>6, <2>1 DEF ContextType
<1>9. ms # <<>>
  <2>1. Len(ms) >= 2
    BY <1>2 DEF Request
  <2> QED BY <2>1
<1>10. ContextKeeps(v)
  BY <1>2, <1>5, <1>7, <1>8, <1>9 DEF ContextKeeps
<1> QED BY <1>8, <1>10 DEF v

\* No conversation is without its first question, also with another bubble.
LEMMA BubblesGrow ==
  ASSUME NEW ms, Bubbles(ms), NEW m \in ChatMessage, m.call = 0,
         m.role = "user" \/ (m.role = "assistant" /\ ms # <<>>)
  PROVE  Bubbles(Append(ms, m)) /\ Append(ms, m) # <<>> /\ Append(ms, m) \in Seq(ChatMessage)
<1> DEFINE new == Append(ms, m)
<1>1. ms \in Seq(ChatMessage) /\ Len(ms) \in Nat
  BY DEF Bubbles
<1>2. /\ new \in Seq(ChatMessage) /\ new # <<>> /\ Len(new) = Len(ms) + 1
      /\ \A i \in 1..Len(ms) : new[i] = ms[i]
      /\ new[Len(ms) + 1] = m
  BY <1>1, AppendProperties
<1> HIDE DEF new
<1>3. ASSUME NEW i \in 1..Len(new) PROVE new[i].role \in {"user", "assistant"} /\ new[i].call = 0
  <2>1. CASE i = Len(ms) + 1
    BY <1>2, <2>1
  <2>2. CASE i # Len(ms) + 1
    <3>1. i \in 1..Len(ms)
      BY <1>1, <1>2, <2>2
    <3> QED BY <1>2, <3>1 DEF Bubbles
  <2> QED BY <2>1, <2>2
<1>4. new[1].role = "user"
  <2>1. CASE ms = <<>>
    <3>1. Len(ms) = 0
      BY <2>1
    <3> QED BY <1>2, <2>1, <3>1
  <2>2. CASE ms # <<>>
    <3>1. 1 \in 1..Len(ms)
      BY <1>1, <2>2
    <3> QED BY <1>2, <2>2, <3>1 DEF Bubbles
  <2> QED BY <2>1, <2>2
<1>5. Bubbles(new)
  BY <1>2, <1>3, <1>4 DEF Bubbles
<1> QED BY <1>2, <1>5 DEF new

\* Without the answer it ends with, a conversation is one that is still there.
LEMMA BubblesCut ==
  ASSUME NEW ms, Bubbles(ms)
  PROVE  Bubbles(Context!WithoutDangling(ms)) /\ (ms # <<>> => Context!WithoutDangling(ms) # <<>>)
<1>1. ms \in Seq(ChatMessage) /\ Len(ms) \in Nat
  BY DEF Bubbles
<1>2. CASE ~(ms # <<>> /\ ms[Len(ms)].role = "assistant")
  <2>1. Context!WithoutDangling(ms) = ms
    BY <1>2 DEF Context!WithoutDangling
  <2> QED BY <2>1
<1>3. CASE ms # <<>> /\ ms[Len(ms)].role = "assistant"
  <2> DEFINE k == SubSeq(ms, 1, Len(ms) - 1)
  <2>1. Context!WithoutDangling(ms) = k
    BY <1>3 DEF Context!WithoutDangling
  <2>2. ms[1].role = "user"
    BY <1>3 DEF Bubbles
  <2>3. Len(ms) >= 2
    <3>1. Len(ms) # 0 /\ Len(ms) # 1
      BY <1>1, <1>3, <2>2
    <3>2. \A n \in Nat : n # 0 /\ n # 1 => n >= 2
      OBVIOUS
    <3>3. Len(ms) \in Nat
      BY <1>1
    <3> QED BY <3>1, <3>2, <3>3
  <2>4. /\ 1 \in Nat \ {0} /\ Len(ms) - 1 \in 1..Len(ms) /\ 1 \in 1..Len(ms) - 1
        /\ \A i \in 1..Len(ms) - 1 : i \in 1..Len(ms) /\ 1 + i - 1 = i
    BY <1>1, <2>3
  <2>5. /\ k \in Seq(ChatMessage) /\ Len(k) = Len(ms) - 1
        /\ \A i \in 1..Len(ms) - 1 : k[i] = ms[i]
    <3>1. \A i \in 1..Len(ms) - 1 : ms[i] \in ChatMessage
      BY <1>1, <2>4, ElementOfSeq
    <3> QED BY <1>1, <2>3, <2>4, <3>1, SubSeqProperties
  <2> HIDE DEF k
  <2>6. k # <<>> /\ k[1].role = "user"
    BY <1>1, <2>2, <2>3, <2>4, <2>5
  <2>7. \A i \in 1..Len(k) : k[i].role \in {"user", "assistant"} /\ k[i].call = 0
    BY <2>4, <2>5 DEF Bubbles
  <2>8. Bubbles(k)
    BY <2>5, <2>6, <2>7 DEF Bubbles
  <2> QED BY <2>1, <2>6, <2>8
<1> QED BY <1>2, <1>3

\* The system prompt and the bubbles are a request (send, in useChatSend.ts).
LEMMA BubblesAsked ==
  ASSUME NEW system \in ChatMessage, system.role = "system", NEW ms, Bubbles(ms), ms # <<>>
  PROVE  Request(<<system>> \o ms)
<1> DEFINE all == <<system>> \o ms
<1>1. ms \in Seq(ChatMessage) /\ Len(ms) \in Nat /\ 1 \in 1..Len(ms)
  BY DEF Bubbles
<1>2. InFront(all, system, ms)
  BY <1>1, ConcatInFront
<1> HIDE DEF all
<1>3. /\ all \in Seq(ChatMessage) /\ Len(all) = Len(ms) + 1
      /\ all[1] = system /\ \A i \in 1..Len(ms) : all[i + 1] = ms[i]
  BY <1>2 DEF InFront
<1>4. PairsWhole(ms)
  BY DEF PairsWhole, Bubbles
<1>5. PairsWhole(all)
  BY <1>2, <1>4, PairsBehind
<1>6. all[2] = ms[1] /\ Len(all) >= 2
  <2>1. 1 + 1 = 2
    OBVIOUS
  <2> QED BY <1>1, <1>3, <2>1
<1>7. Request(all)
  BY <1>1, <1>3, <1>5, <1>6 DEF Request, Bubbles
<1> QED BY <1>7 DEF all

\* A call and its result go behind a request together (approvePendingTool, in useChatSend.ts).
LEMMA ToolsAsked ==
  ASSUME NEW ms, Request(ms), NEW a \in ChatMessage, NEW t \in ChatMessage,
         a.role = "assistant", t.role = "tool", a.call = t.call
  PROVE  Request(ms \o <<a, t>>)
<1> DEFINE all == ms \o <<a, t>>
           l == Len(ms)
<1>1. ms \in Seq(ChatMessage) /\ l \in Nat /\ l >= 2 /\ 1 \in 1..l /\ 2 \in 1..l
  BY DEF Request
<1>2. <<a, t>> \in Seq(ChatMessage) /\ Len(<<a, t>>) = 2 /\ <<a, t>>[1] = a /\ <<a, t>>[2] = t
  OBVIOUS
<1>3. /\ all \in Seq(ChatMessage) /\ Len(all) = l + 2
      /\ \A i \in 1..l + 2 : all[i] = IF i <= l THEN ms[i] ELSE <<a, t>>[i - l]
  BY <1>1, <1>2, ConcatProperties
<1> HIDE DEF all, l
<1>4. \A i \in 1..l : all[i] = ms[i]
  BY <1>1, <1>3
<1>5. all[l + 1] = a /\ all[l + 2] = t
  <2>1. l + 1 \in 1..l + 2 /\ ~(l + 1 <= l) /\ (l + 1) - l = 1
    BY <1>1
  <2>2. l + 2 \in 1..l + 2 /\ ~(l + 2 <= l) /\ (l + 2) - l = 2
    BY <1>1
  <2> QED BY <1>2, <1>3, <2>1, <2>2
<1>6. ASSUME NEW i \in 1..Len(all)
      PROVE  /\ all[i].role = "tool" => i > 1 /\ all[i - 1].role = "assistant" /\ all[i - 1].call = all[i].call
             /\ all[i].role = "assistant" /\ all[i].call # 0 => i < Len(all) /\ all[i + 1].role = "tool"
  <2>1. CASE i \in 1..l
    <3>1. /\ ms[i].role = "tool" => i > 1 /\ ms[i - 1].role = "assistant" /\ ms[i - 1].call = ms[i].call
          /\ ms[i].role = "assistant" /\ ms[i].call # 0 => i < l /\ ms[i + 1].role = "tool"
      BY <2>1 DEF Request, PairsWhole, l
    <3>2. i > 1 => all[i - 1] = ms[i - 1]
      <4>1. i > 1 => i - 1 \in 1..l
        BY <1>1, <2>1
      <4> QED BY <1>4, <4>1
    <3>3. i < l => i < Len(all) /\ all[i + 1] = ms[i + 1]
      <4>1. i < l => i < Len(all) /\ i + 1 \in 1..l
        BY <1>1, <1>3, <2>1
      <4> QED BY <1>4, <4>1
    <3> QED BY <1>4, <2>1, <3>1, <3>2, <3>3
  <2>2. CASE i = l + 1
    <3>1. i < Len(all) /\ i + 1 = l + 2
      BY <1>1, <1>3, <2>2
    <3> QED BY <1>5, <2>2, <3>1
  <2>3. CASE i = l + 2
    <3>1. i > 1 /\ i - 1 = l + 1
      BY <1>1, <2>3
    <3> QED BY <1>5, <2>3, <3>1
  <2>4. i \in 1..l \/ i = l + 1 \/ i = l + 2
    BY <1>1, <1>3
  <2> QED BY <2>1, <2>2, <2>3, <2>4
<1>7. all[1] = ms[1] /\ all[2] = ms[2] /\ Len(all) >= 2
  BY <1>1, <1>3, <1>4
<1>8. PairsWhole(all)
  BY <1>6 DEF PairsWhole
<1>9. Request(all)
  BY <1>3, <1>7, <1>8 DEF Request
<1> QED BY <1>9 DEF all

\* No request is one of the type.
LEMMA NoRequestFits == Context!NoRequest \in ContextRequest
<1>1. <<>> \in Seq(ChatMessage)
  OBVIOUS
<1> HIDE DEF ChatMessage
<1> QED BY <1>1 DEF Context!NoRequest, ContextRequest

\* The conversation starts with the invariant (useChatSend.ts).
LEMMA ContextInit ==
  ASSUME Context!Init PROVE ContextInv
<1>1. PICK system \in TextLengths :
        panel = [ system |-> Context!Message("system", system, 0, 0), msgs |-> <<>>, failed |-> <<>>,
                  asked |-> FALSE, calls |-> 0, pending |-> FALSE, request |-> Context!NoRequest ]
  BY DEF Context!Init
<1>2. system \in Nat
  BY ContextAssumption
<1>3. Context!Message("system", system, 0, 0) \in ChatMessage
  BY <1>2 DEF ChatMessage, Context!Message
<1>4. Context!Message("system", system, 0, 0).role = "system" /\ Context!Message("system", system, 0, 0).call = 0
  BY DEF Context!Message
<1>5. <<>> \in Seq(ChatMessage) /\ Len(<<>>) = 0
  OBVIOUS
<1>6. Context!NoRequest \in ContextRequest
  BY NoRequestFits
<1>7. panel \in ContextType
  <2> HIDE DEF ChatMessage
  <2> QED BY <1>1, <1>3, <1>5, <1>6 DEF ContextType
<1>8. /\ panel.system.role = "system" /\ panel.system.call = 0 /\ panel.msgs = <<>> /\ panel.failed = <<>>
      /\ panel.request = Context!NoRequest
  BY <1>1, <1>4
<1>9. Bubbles(<<>>)
  BY <1>5 DEF Bubbles
<1> QED BY <1>7, <1>8, <1>9 DEF ContextInv, ContextKeeps

\* When no request is under way, what is left to keep is the bubbles and the request
\* that a retry or a tool's result would go on from (useChatSend.ts).
LEMMA ContextRests ==
  ASSUME panel \in ContextType, ContextKeeps(panel), NEW ms, Bubbles(ms), ms # <<>>,
         NEW failed \in {panel.failed, <<>>}, NEW asked \in BOOLEAN, NEW pending \in BOOLEAN,
         panel' = [panel EXCEPT !.msgs = ms, !.failed = failed, !.asked = asked, !.pending = pending,
                                !.request = Context!NoRequest]
  PROVE  ContextInv'
<1>1. ms \in Seq(ChatMessage) /\ failed \in Seq(ChatMessage) /\ (failed # <<>> => failed = panel.failed)
  <2>1. panel.failed \in Seq(ChatMessage) /\ <<>> \in Seq(ChatMessage)
    BY DEF ContextType
  <2> QED BY <2>1 DEF Bubbles
<1>2. /\ panel' \in ContextType /\ panel'.system = panel.system /\ panel'.msgs = ms
      /\ panel'.failed = failed /\ panel'.request = Context!NoRequest
  <2> HIDE DEF ChatMessage
  <2> QED BY <1>1, NoRequestFits DEF ContextType
<1>3. ContextKeeps(panel')
  BY <1>1, <1>2 DEF ContextKeeps
<1> QED BY <1>2, <1>3 DEF ContextInv, ContextKeeps

\* A question keeps the invariant (send, in useChatSend.ts).
LEMMA ContextAsks ==
  ASSUME ContextInv, Context!Ask PROVE ContextInv'
<1>1. PICK text \in TextLengths, images \in 0..1, requested \in RequestedTokens \cup {-1} :
        LET question == Context!Message("user", text, images, 0)
            before == Context!WithoutDangling(panel.msgs)
        IN  \E bubbles \in {Append(before, question)} \cup
                           (IF before # <<>> /\ before[Len(before)] = question THEN {before} ELSE {}) :
              panel' = Context!Sent(panel, bubbles, <<panel.system>> \o Append(panel.msgs, question), FALSE, requested)
  BY DEF Context!Ask
<1> DEFINE question == Context!Message("user", text, images, 0)
           before == Context!WithoutDangling(panel.msgs)
           raw == <<panel.system>> \o Append(panel.msgs, question)
<1>2. PICK bubbles \in {Append(before, question)} \cup
                       (IF before # <<>> /\ before[Len(before)] = question THEN {before} ELSE {}) :
        panel' = Context!Sent(panel, bubbles, raw, FALSE, requested)
  BY <1>1
<1>3. bubbles = Append(before, question) \/ (before # <<>> /\ bubbles = before)
  BY <1>2
<1>4. /\ panel \in ContextType /\ panel.system \in ChatMessage /\ panel.system.role = "system"
      /\ panel.system.call = 0 /\ Bubbles(panel.msgs)
  BY DEF ContextInv, ContextType, ContextKeeps
<1>5. question \in ChatMessage /\ question.role = "user" /\ question.call = 0
  BY ContextAssumption DEF Context!Message, ChatMessage
<1> HIDE DEF question
<1>6. Bubbles(before)
  BY <1>4, BubblesCut
<1> HIDE DEF before
<1>7. Bubbles(bubbles) /\ bubbles # <<>>
  BY <1>3, <1>5, <1>6, BubblesGrow
<1>8. Request(raw)
  <2>1. Bubbles(Append(panel.msgs, question)) /\ Append(panel.msgs, question) # <<>>
    BY <1>4, <1>5, BubblesGrow
  <2> QED BY <1>4, <2>1, BubblesAsked
<1> HIDE DEF raw
<1>9. panel' \in ContextType /\ ContextKeeps(panel')
  BY <1>2, <1>4, <1>7, <1>8, ContextSends
<1> QED BY <1>9 DEF ContextInv, ContextKeeps

\* A tool's result keeps the invariant (approvePendingTool, in useChatSend.ts).
LEMMA ContextToolAnswers ==
  ASSUME ContextInv, Context!ToolAnswered PROVE ContextInv'
<1>1. PICK text \in TextLengths, requested \in RequestedTokens \cup {-1} :
        LET n == panel.calls + 1
        IN  /\ panel.failed # <<>> /\ n <= 2
            /\ panel' = Context!Sent([panel EXCEPT !.calls = n, !.pending = FALSE],
                          Context!WithoutDangling(panel.msgs),
                          panel.failed \o <<Context!Message("assistant", 0, 0, n), Context!Message("tool", text, 0, n)>>,
                          TRUE, requested)
  BY DEF Context!ToolAnswered
<1> DEFINE n == panel.calls + 1
           a == Context!Message("assistant", 0, 0, n)
           t == Context!Message("tool", text, 0, n)
           w == [panel EXCEPT !.calls = n, !.pending = FALSE]
           before == Context!WithoutDangling(panel.msgs)
<1>2. panel.failed # <<>> /\ panel' = Context!Sent(w, before, panel.failed \o <<a, t>>, TRUE, requested)
  BY <1>1
<1>3. panel \in ContextType /\ panel.calls \in 0..2 /\ panel.system.role = "system" /\ panel.system.call = 0
  BY DEF ContextInv, ContextType, ContextKeeps
<1>4. n \in 0..2
  BY <1>1, <1>3
<1> HIDE DEF n
<1>5. text \in Nat
  BY ContextAssumption
<1>6. t \in ChatMessage /\ t.role = "tool" /\ t.call = n
  BY <1>4, <1>5 DEF Context!Message, ChatMessage
<1>7. a \in ChatMessage /\ a.role = "assistant" /\ a.call = n
  BY <1>4 DEF Context!Message, ChatMessage
<1> HIDE DEF a, t
<1>8. Request(panel.failed) /\ panel.msgs # <<>> /\ Bubbles(panel.msgs)
  BY <1>2 DEF ContextInv, ContextKeeps
<1>9. Request(panel.failed \o <<a, t>>)
  BY <1>6, <1>7, <1>8, ToolsAsked
<1>10. Bubbles(before) /\ before # <<>>
  BY <1>8, BubblesCut
<1>11. w \in ContextType /\ w.system = panel.system
  <2> HIDE DEF ChatMessage
  <2> QED BY <1>3, <1>4 DEF ContextType
<1> HIDE DEF w, before
<1>12. panel' \in ContextType /\ ContextKeeps(panel')
  BY <1>2, <1>3, <1>9, <1>10, <1>11, ContextSends
<1> QED BY <1>12 DEF ContextInv, ContextKeeps

\* Every step of a conversation keeps the invariant (useChatSend.ts).
LEMMA ContextNext ==
  ASSUME ContextInv, Context!Next PROVE ContextInv'
<1>1. /\ panel \in ContextType /\ ContextKeeps(panel) /\ panel.asked \in BOOLEAN /\ panel.pending \in BOOLEAN
  BY DEF ContextInv, ContextType
<1>2. panel.system.role = "system" /\ panel.system.call = 0 /\ Bubbles(panel.msgs)
  BY DEF ContextInv, ContextKeeps
<1>3. /\ panel.failed # <<>> => panel.msgs # <<>> /\ Request(panel.failed)
      /\ panel.request # Context!NoRequest => panel.failed # <<>>
  BY DEF ContextInv, ContextKeeps
<1>4. ASSUME NEW text \in TextLengths, panel.msgs # <<>>
      PROVE  Bubbles(Context!Shown(text)) /\ Context!Shown(text) # <<>>
  <2> DEFINE answer == Context!Message("assistant", text, 0, 0)
  <2>1. answer \in ChatMessage /\ answer.role = "assistant" /\ answer.call = 0
    BY ContextAssumption DEF Context!Message, ChatMessage
  <2> HIDE DEF answer
  <2>2. Bubbles(Append(panel.msgs, answer)) /\ Append(panel.msgs, answer) # <<>>
    BY <1>2, <1>4, <2>1, BubblesGrow
  <2> QED BY <2>2 DEF answer, Context!Shown
<1>5. CASE Context!Ask
  BY <1>5, ContextAsks
<1>6. CASE Context!Answered
  <2>1. PICK text \in TextLengths :
          /\ panel.request # Context!NoRequest
          /\ panel' = [panel EXCEPT !.msgs = Context!Shown(text), !.failed = <<>>, !.asked = FALSE,
                                    !.request = Context!NoRequest]
    BY <1>6 DEF Context!Answered
  <2>2. panel' = [panel EXCEPT !.msgs = Context!Shown(text), !.failed = <<>>, !.asked = FALSE,
                               !.pending = panel.pending, !.request = Context!NoRequest]
    BY <1>1, <2>1 DEF ContextType
  <2>3. Bubbles(Context!Shown(text)) /\ Context!Shown(text) # <<>>
    BY <1>3, <1>4, <2>1
  <2> QED BY <1>1, <2>2, <2>3, ContextRests
<1>7. CASE Context!Fails
  <2>1. panel.request # Context!NoRequest /\ panel.msgs # <<>>
    BY <1>3, <1>7 DEF Context!Fails
  <2>2. \/ \E text \in TextLengths :
             panel' = [panel EXCEPT !.msgs = Context!Shown(text), !.request = Context!NoRequest]
        \/ panel' = [panel EXCEPT !.request = Context!NoRequest]
        \/ panel' = [panel EXCEPT !.failed = <<>>, !.asked = FALSE, !.request = Context!NoRequest]
    BY <1>7 DEF Context!Fails
  <2>3. CASE \E text \in TextLengths :
               panel' = [panel EXCEPT !.msgs = Context!Shown(text), !.request = Context!NoRequest]
    <3>1. PICK text \in TextLengths :
            panel' = [panel EXCEPT !.msgs = Context!Shown(text), !.request = Context!NoRequest]
      BY <2>3
    <3>2. panel' = [panel EXCEPT !.msgs = Context!Shown(text), !.failed = panel.failed, !.asked = panel.asked,
                                 !.pending = panel.pending, !.request = Context!NoRequest]
      BY <1>1, <3>1 DEF ContextType
    <3>3. Bubbles(Context!Shown(text)) /\ Context!Shown(text) # <<>>
      BY <1>4, <2>1
    <3> QED BY <1>1, <3>2, <3>3, ContextRests
  <2>4. CASE panel' = [panel EXCEPT !.request = Context!NoRequest]
    <3>1. panel' = [panel EXCEPT !.msgs = panel.msgs, !.failed = panel.failed, !.asked = panel.asked,
                                 !.pending = panel.pending, !.request = Context!NoRequest]
      BY <1>1, <2>4 DEF ContextType
    <3> QED BY <1>1, <1>2, <2>1, <3>1, ContextRests
  <2>5. CASE panel' = [panel EXCEPT !.failed = <<>>, !.asked = FALSE, !.request = Context!NoRequest]
    <3>1. panel' = [panel EXCEPT !.msgs = panel.msgs, !.failed = <<>>, !.asked = FALSE,
                                 !.pending = panel.pending, !.request = Context!NoRequest]
      BY <1>1, <2>5 DEF ContextType
    <3> QED BY <1>1, <1>2, <2>1, <3>1, ContextRests
  <2> QED BY <2>2, <2>3, <2>4, <2>5
<1>8. CASE Context!Retry
  <2>1. PICK requested \in RequestedTokens \cup {-1} :
          /\ panel.failed # <<>>
          /\ panel' = Context!Sent(panel, Context!WithoutDangling(panel.msgs), panel.failed, FALSE, requested)
    BY <1>8 DEF Context!Retry
  <2>2. Bubbles(Context!WithoutDangling(panel.msgs)) /\ Context!WithoutDangling(panel.msgs) # <<>>
    BY <1>2, <1>3, <2>1, BubblesCut
  <2>3. panel' \in ContextType /\ ContextKeeps(panel')
    BY <1>1, <1>2, <1>3, <2>1, <2>2, ContextSends
  <2> QED BY <2>3 DEF ContextInv, ContextKeeps
<1>9. CASE Context!CallsTool
  <2>1. PICK text \in TextLengths :
          /\ panel.request # Context!NoRequest
          /\ panel' = [panel EXCEPT !.msgs = Context!Shown(text), !.pending = TRUE, !.request = Context!NoRequest]
    BY <1>9 DEF Context!CallsTool
  <2>2. panel' = [panel EXCEPT !.msgs = Context!Shown(text), !.failed = panel.failed, !.asked = panel.asked,
                               !.pending = TRUE, !.request = Context!NoRequest]
    BY <1>1, <2>1 DEF ContextType
  <2>3. Bubbles(Context!Shown(text)) /\ Context!Shown(text) # <<>>
    BY <1>3, <1>4, <2>1
  <2> QED BY <1>1, <2>2, <2>3, ContextRests
<1>10. CASE Context!ToolAnswered
  BY <1>10, ContextToolAnswers
<1>11. CASE Context!ToolDropped
  <2>1. panel.request = Context!NoRequest
    BY <1>11 DEF Context!ToolDropped
  <2>2. \/ panel.failed # <<>> /\ panel' = [panel EXCEPT !.pending = FALSE]
        \/ panel' = [panel EXCEPT !.pending = FALSE, !.failed = <<>>, !.asked = FALSE,
                                  !.msgs = Context!WithoutDangling(panel.msgs)]
    BY <1>11 DEF Context!ToolDropped
  <2>3. CASE panel.failed # <<>> /\ panel' = [panel EXCEPT !.pending = FALSE]
    <3>1. panel' = [panel EXCEPT !.msgs = panel.msgs, !.failed = panel.failed, !.asked = panel.asked,
                                 !.pending = FALSE, !.request = Context!NoRequest]
      BY <1>1, <2>1, <2>3 DEF ContextType
    <3> QED BY <1>1, <1>2, <1>3, <2>3, <3>1, ContextRests
  <2>4. CASE panel' = [panel EXCEPT !.pending = FALSE, !.failed = <<>>, !.asked = FALSE,
                                    !.msgs = Context!WithoutDangling(panel.msgs)]
    <3> DEFINE before == Context!WithoutDangling(panel.msgs)
    <3>1. Bubbles(before) /\ before \in Seq(ChatMessage)
      BY <1>2, BubblesCut DEF Bubbles
    <3> HIDE DEF before
    <3>2. panel' = [panel EXCEPT !.pending = FALSE, !.failed = <<>>, !.asked = FALSE, !.msgs = before]
      BY <2>4 DEF before
    <3>3. /\ panel' \in ContextType /\ panel'.system = panel.system /\ panel'.msgs = before
          /\ panel'.failed = <<>> /\ panel'.request = Context!NoRequest
      <4>1. <<>> \in Seq(ChatMessage)
        OBVIOUS
      <4> HIDE DEF ChatMessage
      <4> QED BY <1>1, <2>1, <3>1, <3>2, <4>1 DEF ContextType
    <3>4. ContextKeeps(panel')
      BY <1>2, <3>1, <3>3 DEF ContextKeeps
    <3> QED BY <3>3, <3>4 DEF ContextInv, ContextKeeps
  <2> QED BY <2>2, <2>3, <2>4
<1> QED BY <1>5, <1>6, <1>7, <1>8, <1>9, <1>10, <1>11 DEF Context!Next

\* What the invariant says of a conversation: its type, the request fits with the
\* newest question, and its tool exchanges are whole.
LEMMA ContextShows ==
  ASSUME ContextInv PROVE Context!TypeOK /\ Context!FitsTheWindow /\ Context!ToolPairsWhole
<1>1. /\ panel \in ContextType /\ panel.msgs \in Seq(ChatMessage) /\ panel.failed \in Seq(ChatMessage)
      /\ panel.calls \in 0..2 /\ panel.asked \in BOOLEAN /\ panel.pending \in BOOLEAN
      /\ panel.request.answer \in Nat \cup {Context!NoLimit}
  BY DEF ContextInv, ContextType, ContextRequest
<1>2. Context!TypeOK
  <2>1. ASSUME NEW ms \in Seq(ChatMessage), NEW i \in DOMAIN ms
        PROVE  ms[i].role \in {"system", "user", "assistant", "tool"} /\ ms[i].text \in Nat
    <3>1. i \in 1..Len(ms)
      OBVIOUS
    <3>2. ms[i] \in ChatMessage
      BY <3>1, ElementOfSeq
    <3> QED BY <3>2 DEF ChatMessage
  <2>2. Context!LimitsFit
    BY ContextAssumption
  <2> QED BY <1>1, <2>1, <2>2 DEF Context!TypeOK
<1>3. ASSUME panel.request # Context!NoRequest
      PROVE  LET r == panel.request IN
             /\ Request(r.messages) /\ Leaves(r.messages, r.of)
             /\ ~r.followup =>
                  /\ Context!TotalCost(r.messages) <= Context!Budget
                  /\ r.answer # Context!NoLimit =>
                       Context!TotalCost(r.messages) + r.answer + AnswerReserve <= ContextSize
  BY <1>3 DEF ContextInv, ContextKeeps
<1>4. Context!FitsTheWindow
  <2> SUFFICES ASSUME panel.request # Context!NoRequest
               PROVE LET ms == panel.request.messages
                         raw == panel.request.of
                     IN  /\ ~panel.request.followup =>
                              /\ Context!TotalCost(ms) <= Context!Budget
                              /\ panel.request.answer # Context!NoLimit =>
                                   Context!TotalCost(ms) + panel.request.answer + AnswerReserve <= ContextSize
                         /\ ms[1].role = "system" /\ ms[2].role = "user"
                         /\ Context!Questions(ms) # {} /\ ms[NewestPlace(ms)].text <= raw[NewestPlace(raw)].text
                         /\ ms[NewestPlace(ms)] # raw[NewestPlace(raw)] => Len(ms) = 2
    BY DEF Context!FitsTheWindow, NewestPlace
  <2>1. 2 \in Context!Questions(panel.request.messages)
    BY <1>3 DEF Context!Questions, Request
  <2> QED BY <1>3, <2>1 DEF Request, Leaves
<1>5. Context!ToolPairsWhole
  <2>1. CASE panel.request = Context!NoRequest
    <3>1. panel.request.messages = <<>>
      BY <2>1 DEF Context!NoRequest
    <3>2. DOMAIN <<>> = {}
      OBVIOUS
    <3> QED BY <3>1, <3>2 DEF Context!ToolPairsWhole
  <2>2. CASE panel.request # Context!NoRequest
    <3> DEFINE ms == panel.request.messages
    <3>1. PairsWhole(ms) /\ ms \in Seq(ChatMessage)
      BY <1>3, <2>2 DEF Request
    <3> HIDE DEF ms
    <3>2. DOMAIN ms = 1..Len(ms)
      BY <3>1
    <3> QED BY <3>1, <3>2 DEF Context!ToolPairsWhole, PairsWhole, ms
  <2> QED BY <2>1, <2>2
<1> QED BY <1>2, <1>4, <1>5

-----------------------------------------------------------------------------
\* The parts together.

PanelsInv ==
  /\ part = "models" => ModelsInv
  /\ part = "discover" => DiscoverInv
  /\ part = "bench" => BenchInv
  /\ part = "frame" => FrameInv
  /\ part = "tuning" => TuningInv
  /\ part = "composer" => ComposerInv
  /\ part = "mcp" => McpInv
  /\ part = "calls" => CallInv
  /\ part = "profiles" => ProfilesInv
  /\ part = "projects" => ProjectsInv
  /\ part = "loading" => LoadingInv
  /\ part = "preferences" => PreferencesInv
  /\ part = "chain" => ChainInv
  /\ part = "workspace" => WorkspaceInv
  /\ part = "context" => ContextInv

\* Every part starts with its invariant, and its own actions alone move it.
LEMMA PanelsInit ==
  ASSUME Init PROVE PanelsInv
<1>1. part = "models" => ModelsInv
  BY ModelsInit DEF Init
<1>2. part = "discover" => DiscoverInv
  BY DiscoverInit DEF Init
<1>3. part = "bench" => BenchInv
  BY BenchInit DEF Init
<1>4. part = "frame" => FrameInv
  BY FrameInit DEF Init
<1>5. part = "tuning" => TuningInv
  BY TuningInit DEF Init
<1>6. part = "composer" => ComposerInv
  BY ComposerInit DEF Init
<1>7. part = "mcp" => McpInv
  BY McpInit DEF Init
<1>8. part = "calls" => CallInv
  BY CallInit DEF Init
<1>9. part = "profiles" => ProfilesInv
  BY ProfilesInit DEF Init
<1>10. part = "projects" => ProjectsInv
  BY ProjectsInit DEF Init
<1>11. part = "loading" => LoadingInv
  BY LoadingInit DEF Init
<1>12. part = "preferences" => PreferencesInv
  BY PreferencesInit DEF Init
<1>13. part = "chain" => ChainInv
  BY ChainInit DEF Init
<1>14. part = "workspace" => WorkspaceInv
  BY WorkspaceInit DEF Init
<1>15. part = "context" => ContextInv
  BY ContextInit DEF Init
<1> QED BY <1>1, <1>2, <1>3, <1>4, <1>5, <1>6, <1>7, <1>8, <1>9, <1>10, <1>11, <1>12, <1>13, <1>14, <1>15 DEF PanelsInv

\* The invariants are about the panel alone.
LEMMA PanelsStutter ==
  ASSUME PanelsInv, UNCHANGED vars PROVE PanelsInv'
<1>0. part' = part /\ panel' = panel
  BY DEF vars
<1>1. part = "models" => ModelsInv'
  BY <1>0 DEF PanelsInv, ModelsInv, ModelsScans
<1>2. part = "discover" => DiscoverInv'
  BY <1>0 DEF PanelsInv, DiscoverInv, DiscoverAnswers, DiscoverListens
<1>3. part = "bench" => BenchInv'
  BY <1>0 DEF PanelsInv, BenchInv, BenchKeeps, BenchList, Newest
<1>4. part = "frame" => FrameInv'
  BY <1>0 DEF PanelsInv, FrameInv
<1>5. part = "tuning" => TuningInv'
  BY <1>0 DEF PanelsInv, TuningInv, TuningKeeps, TuningType
<1>6. part = "composer" => ComposerInv'
  BY <1>0 DEF PanelsInv, ComposerInv, ComposerKeeps
<1>7. part = "mcp" => McpInv'
  BY <1>0 DEF PanelsInv, McpInv, McpKeeps
<1>8. part = "calls" => CallInv'
  BY <1>0 DEF PanelsInv, CallInv, CallKeeps, CallPieces, Calls!OfferedAsWritten, Calls!Proper, Calls!Intended, Calls!Valid
<1>9. part = "profiles" => ProfilesInv'
  BY <1>0 DEF PanelsInv, ProfilesInv
<1>10. part = "projects" => ProjectsInv'
  BY <1>0 DEF PanelsInv, ProjectsInv
<1>11. part = "loading" => LoadingInv'
  BY <1>0 DEF PanelsInv, LoadingInv
<1>12. part = "preferences" => PreferencesInv'
  BY <1>0 DEF PanelsInv, PreferencesInv
<1>13. part = "chain" => ChainInv'
  BY <1>0 DEF PanelsInv, ChainInv
<1>14. part = "workspace" => WorkspaceInv'
  BY <1>0 DEF PanelsInv, WorkspaceInv
<1>15. part = "context" => ContextInv'
  BY <1>0 DEF PanelsInv, ContextInv, ContextKeeps, ContextType
<1> QED BY <1>0, <1>1, <1>2, <1>3, <1>4, <1>5, <1>6, <1>7, <1>8, <1>9, <1>10, <1>11, <1>12, <1>13, <1>14, <1>15 DEF PanelsInv

\* A step of the part that was chosen keeps its invariant.
LEMMA PanelsNext ==
  ASSUME PanelsInv, Next PROVE PanelsInv'
<1>0. part' = part
  BY DEF Next
<1>1. CASE part = "models"
  <2>1. ModelsInv /\ Models!Next
    BY <1>1 DEF PanelsInv, Next
  <2>2. ModelsInv'
    BY <2>1, ModelsNext
  <2> QED BY <1>0, <1>1, <2>2 DEF PanelsInv
<1>2. CASE part = "discover"
  <2>1. DiscoverInv /\ Discover!Next
    BY <1>2 DEF PanelsInv, Next
  <2>2. DiscoverInv'
    BY <2>1, DiscoverNext
  <2> QED BY <1>0, <1>2, <2>2 DEF PanelsInv
<1>3. CASE part = "bench"
  <2>1. BenchInv /\ Bench!Next
    BY <1>3 DEF PanelsInv, Next
  <2>2. BenchInv'
    BY <2>1, BenchNext
  <2> QED BY <1>0, <1>3, <2>2 DEF PanelsInv
<1>4. CASE part = "frame"
  <2>1. FrameInv /\ Window!Next
    BY <1>4 DEF PanelsInv, Next
  <2>2. FrameInv'
    BY <2>1, FrameNext
  <2> QED BY <1>0, <1>4, <2>2 DEF PanelsInv
<1>5. CASE part = "tuning"
  <2>1. TuningInv /\ Tune!Next
    BY <1>5 DEF PanelsInv, Next
  <2>2. TuningInv'
    BY <2>1, TuningNext
  <2> QED BY <1>0, <1>5, <2>2 DEF PanelsInv
<1>6. CASE part = "composer"
  <2>1. ComposerInv /\ Comp!Next
    BY <1>6 DEF PanelsInv, Next
  <2>2. ComposerInv'
    BY <2>1, ComposerNext
  <2> QED BY <1>0, <1>6, <2>2 DEF PanelsInv
<1>7. CASE part = "mcp"
  <2>1. McpInv /\ Mcp!Next
    BY <1>7 DEF PanelsInv, Next
  <2>2. McpInv'
    BY <2>1, McpNext
  <2> QED BY <1>0, <1>7, <2>2 DEF PanelsInv
<1>8. CASE part = "calls"
  <2>1. CallInv /\ Calls!Next
    BY <1>8 DEF PanelsInv, Next
  <2>2. CallInv'
    BY <2>1, CallNext
  <2> QED BY <1>0, <1>8, <2>2 DEF PanelsInv
<1>9. CASE part = "profiles"
  <2>1. ProfilesInv /\ Prof!Next
    BY <1>9 DEF PanelsInv, Next
  <2>2. ProfilesInv'
    BY <2>1, ProfilesNext
  <2> QED BY <1>0, <1>9, <2>2 DEF PanelsInv
<1>10. CASE part = "projects"
  <2>1. ProjectsInv /\ Proj!Next
    BY <1>10 DEF PanelsInv, Next
  <2>2. ProjectsInv'
    BY <2>1, ProjectsNext
  <2> QED BY <1>0, <1>10, <2>2 DEF PanelsInv
<1>11. CASE part = "loading"
  <2>1. LoadingInv /\ Loading!Next
    BY <1>11 DEF PanelsInv, Next
  <2>2. LoadingInv'
    BY <2>1, LoadingNext
  <2> QED BY <1>0, <1>11, <2>2 DEF PanelsInv
<1>12. CASE part = "preferences"
  <2>1. PreferencesInv /\ Prefs!Next
    BY <1>12 DEF PanelsInv, Next
  <2>2. PreferencesInv'
    BY <2>1, PreferencesNext
  <2> QED BY <1>0, <1>12, <2>2 DEF PanelsInv
<1>13. CASE part = "chain"
  <2>1. ChainInv /\ Chain!Next
    BY <1>13 DEF PanelsInv, Next
  <2>2. ChainInv'
    BY <2>1, ChainNext
  <2> QED BY <1>0, <1>13, <2>2 DEF PanelsInv
<1>14. CASE part = "workspace"
  <2>1. WorkspaceInv /\ Workspace!Next
    BY <1>14 DEF PanelsInv, Next
  <2>2. WorkspaceInv'
    BY <2>1, WorkspaceNext
  <2> QED BY <1>0, <1>14, <2>2 DEF PanelsInv
<1>15. CASE part = "context"
  <2>1. ContextInv /\ Context!Next
    BY <1>15 DEF PanelsInv, Next
  <2>2. ContextInv'
    BY <2>1, ContextNext
  <2> QED BY <1>0, <1>15, <2>2 DEF PanelsInv
<1>16. CASE part \notin {"models", "discover", "bench", "frame", "tuning", "composer", "mcp", "calls", "profiles", "projects", "loading", "preferences", "chain", "workspace", "context"}
  BY <1>0, <1>16 DEF PanelsInv
<1> QED BY <1>1, <1>2, <1>3, <1>4, <1>5, <1>6, <1>7, <1>8, <1>9, <1>10, <1>11, <1>12, <1>13, <1>14, <1>15, <1>16

\* The invariants of all parts always hold.
LEMMA PanelsInvAlways == Spec => []PanelsInv
<1>1. Init => PanelsInv
  BY PanelsInit
<1>2. PanelsInv /\ [Next]_vars => PanelsInv'
  BY PanelsNext, PanelsStutter
<1> QED BY <1>1, <1>2, PTL DEF Spec

\* Whatever answers late to a panel (a scan, an inspection, a benchmark, a timer),
\* it ends nothing that replaced it and shows nothing of another subject; the server's
\* adapters are excepted, which are only never left busy when nothing is due
\* (Models.tsx, Discover.tsx, Bench.tsx, useFlashMessage.ts).
THEOREM AnswersStayCurrent == Spec => []AnswersAreCurrent
<1>1. PanelsInv => AnswersAreCurrent
  BY ModelsShows, DiscoverShows, BenchShows, FrameShows DEF PanelsInv, AnswersAreCurrent
<1> QED BY <1>1, PanelsInvAlways, PTL

\* However many servers and tools there are and whatever they are called: a call runs
\* on its own only after its user has approved it by hand, every tool is offered
\* under a name of its own, and the call that is offered is the one the model wrote
\* (Mcp.tsx, useChatMcpTools.ts, chatSendHelpers.ts).
THEOREM ToolsStayApproved == Spec => []ToolsAreApproved
<1>1. PanelsInv => ToolsAreApproved
  BY McpShows, ComposerShows, CallShows DEF PanelsInv, ToolsAreApproved
<1> QED BY <1>1, PanelsInvAlways, PTL

\* What took long belongs to a state that may be over when it ends: an older scan is never
\* shown after a newer one; a failed restart is rolled back only if nothing was published
\* since it began, and with no save waiting before it undoes nothing; and no document of a
\* project joins a message that is on its way (Models.tsx, tuningAsync.ts, Chat.tsx).
THEOREM StepsStayCurrent == Spec => StepsAreCurrent
<1> DEFINE Step == /\ part = "models" => Models!NeverOlder
                   /\ part = "tuning" => Tune!RollbackIsCurrent
                   /\ part = "composer" => Comp!NothingBoundWhileSending
<1>1. PanelsInv /\ [Next]_vars => [Step]_vars
  BY ModelsNext, TuningNext, ComposerNext DEF PanelsInv, Next
<1> QED BY <1>1, PanelsInvAlways, PTL DEF Spec, StepsAreCurrent

\* Whatever the user edits, in any order and however late saves and storage answer: what
\* is selected is stored and is what the editor shows, what was typed stays until it is
\* saved, lists agree with their storage unless it refused a list of projects, a change of the sampler chain moves one sampler
\* only, and what is stored of the conversations is what is read back (Projects.tsx,
\* modelProfiles.ts, useRuntimesController.ts, useTuningController.ts, preferences.ts,
\* TuningSamplerChain.tsx, chatHistory.ts).
THEOREM EditsStayKept == Spec => []EditsAreKept
<1>1. PanelsInv => EditsAreKept
  BY ProjectsShow, ProfilesShow, LoadingShows, TuningShows, PreferencesShow, ChainShows, WorkspaceShows
     DEF PanelsInv, EditsAreKept
<1> QED BY <1>1, PanelsInvAlways, PTL

\* However long the messages are and whatever was sent, retried and called before: a
\* request has the system prompt, a question, the newest one whole unless it is all that
\* is left, and each tool's result behind its call; and if a limit of the answer is set,
\* prompt, answer and reserve fit the window (chatUtils.ts, useChatSend.ts).
THEOREM RequestsStayInTheWindow == Spec => []RequestsFit
<1>1. PanelsInv => RequestsFit
  BY ContextShows DEF PanelsInv, RequestsFit
<1> QED BY <1>1, PanelsInvAlways, PTL
=============================================================================
