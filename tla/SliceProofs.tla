----------------------------- MODULE SliceProofs -----------------------------
(***************************************************************************)
(* Lemmas the other proofs share: what the slice helpers return, how a fact*)
(* spreads along a list, and what a function defined by recursion over the *)
(* positions of a list computes.  The first ones rest on one fact: Nth(I,k)*)
(* is an element of I for every k up to the size of I, and a different one *)
(* for each k.                                                             *)
(***************************************************************************)
EXTENDS Slices, FiniteSetTheorems, SequenceTheorems, TLAPS

-----------------------------------------------------------------------------
(* Subsequences *)

\* The rank of an element in a finite set of positions is one to one onto
\* 1..Cardinality(I): Nth, which picks the element of rank k, is well defined.
LEMMA RankIsOnto ==
  ASSUME NEW n \in Nat, NEW I \in SUBSET (1..n)
  PROVE  /\ IsFiniteSet(I) /\ Cardinality(I) \in 0..n
         /\ \A k \in 1..Cardinality(I) : \E i \in I : Rank(I, i) = k
         /\ \A i \in I : Rank(I, i) \in 1..Cardinality(I)
         /\ \A i1, i2 \in I : Rank(I, i1) = Rank(I, i2) => i1 = i2
<1> DEFINE upTo(i) == {j \in I : j <= i}
           rank == [i \in I |-> Rank(I, i)]
<1>1. /\ IsFiniteSet(1..n) /\ Cardinality(1..n) = n
  BY FS_Interval
<1>2. IsFiniteSet(I) /\ Cardinality(I) \in Nat /\ Cardinality(I) <= n
  BY <1>1, FS_Subset, FS_CardinalityType
<1>3. ASSUME NEW i \in I
      PROVE  Rank(I, i) \in 1..Cardinality(I) /\ IsFiniteSet(upTo(i))
  <2>1. upTo(i) \in SUBSET I /\ i \in upTo(i)
    OBVIOUS
  <2>2. /\ IsFiniteSet(upTo(i)) /\ Cardinality(upTo(i)) \in Nat
        /\ Cardinality(upTo(i)) <= Cardinality(I)
    BY <1>2, <2>1, FS_Subset, FS_CardinalityType
  <2>3. Cardinality(upTo(i)) # 0
    BY <2>1, <2>2, FS_EmptySet
  <2> QED
    BY <1>2, <2>2, <2>3 DEF Rank
<1>4. ASSUME NEW i1 \in I, NEW i2 \in I, i1 < i2
      PROVE  Rank(I, i1) # Rank(I, i2)
  <2>1. \A j \in I : j \in Int
    OBVIOUS
  <2>2. \A j \in I : j <= i1 => j <= i2
    BY <1>4, <2>1
  <2>3. ~(i2 <= i1)
    BY <1>4, <2>1
  <2>4. upTo(i1) \in SUBSET upTo(i2)
    BY <2>2
  <2>5. i2 \in upTo(i2) /\ i2 \notin upTo(i1)
    BY <2>1, <2>3
  <2>6. upTo(i1) # upTo(i2)
    BY <2>5
  <2> HIDE DEF upTo
  <2> QED
    BY <1>3, <2>4, <2>6, FS_Subset DEF Rank, upTo
<1>5. \A i1, i2 \in I : Rank(I, i1) = Rank(I, i2) => i1 = i2
  <2>1. \A i \in I : i \in Int
    OBVIOUS
  <2> QED
    BY <1>4, <2>1
<1>6. rank \in Injection(I, 1..Cardinality(I))
  BY <1>3, <1>5 DEF Injection, IsInjective
<1>7. IsFiniteSet(1..Cardinality(I)) /\ Cardinality(1..Cardinality(I)) = Cardinality(I)
  BY <1>2, FS_Interval
<1>8. rank \in Surjection(I, 1..Cardinality(I))
  BY <1>6, <1>7, FS_Injection
<1>9. \A k \in 1..Cardinality(I) : \E i \in I : Rank(I, i) = k
  BY <1>8 DEF Surjection
<1>10. Cardinality(I) \in 0..n
  BY <1>2
<1>11. \A i \in I : Rank(I, i) \in 1..Cardinality(I)
  BY <1>3
<1> HIDE DEF upTo, rank
<1> QED
  BY <1>2, <1>5, <1>9, <1>10, <1>11

\* Nth(I, k) is the element of rank k.
LEMMA NthProperties ==
  ASSUME NEW n \in Nat, NEW I \in SUBSET (1..n), NEW k \in 1..Cardinality(I)
  PROVE  Nth(I, k) \in I /\ Rank(I, Nth(I, k)) = k
<1>1. \E i \in I : Rank(I, i) = k
  BY RankIsOnto
<1> QED
  BY <1>1 DEF Nth

\* Pick(s, I) is a sequence over the same set, it holds exactly the elements at
\* the positions I, and each of its places is one of them, a different one each.
LEMMA PickProperties ==
  ASSUME NEW S, NEW s \in Seq(S), NEW I \in SUBSET DOMAIN s
  PROVE  /\ Pick(s, I) \in Seq(S)
         /\ Range(Pick(s, I)) = {s[i] : i \in I}
         /\ Len(Pick(s, I)) = Cardinality(I)
         /\ \A j, k \in DOMAIN Pick(s, I) : j # k =>
              \E i1, i2 \in I : /\ i1 # i2
                                /\ Pick(s, I)[j] = s[i1] /\ Pick(s, I)[k] = s[i2]
<1> DEFINE n == Len(s)
           c == Cardinality(I)
<1>1. n \in Nat /\ DOMAIN s = 1..n /\ I \in SUBSET (1..n) /\ \A i \in 1..n : s[i] \in S
  BY LenProperties, ElementOfSeq
<1> HIDE DEF n
<1>2. c \in Nat /\ \A k \in 1..c : Nth(I, k) \in I
  <2>1. c \in Nat
    BY <1>1, RankIsOnto
  <2>2. ASSUME NEW k \in 1..c PROVE Nth(I, k) \in I
    BY <1>1, NthProperties
  <2> QED
    BY <2>1, <2>2
<1>3. \A i \in I : \E k \in 1..c : Nth(I, k) = i
  <2> SUFFICES ASSUME NEW i \in I PROVE \E k \in 1..c : Nth(I, k) = i
    OBVIOUS
  <2>1. Rank(I, i) \in 1..c
    BY <1>1, RankIsOnto
  <2>2. Nth(I, Rank(I, i)) \in I /\ Rank(I, Nth(I, Rank(I, i))) = Rank(I, i)
    BY <1>1, <2>1, NthProperties
  <2>3. Nth(I, Rank(I, i)) = i
    BY <1>1, <2>2, RankIsOnto
  <2> QED
    BY <2>1, <2>3
<1>4. \A j, k \in 1..c : j # k => Nth(I, j) # Nth(I, k)
  BY <1>1, NthProperties
<1> HIDE DEF c
<1>5. Pick(s, I) = [k \in 1..c |-> s[Nth(I, k)]]
  BY DEF Pick, c
<1>6. Pick(s, I) \in Seq(S) /\ Len(Pick(s, I)) = c /\ DOMAIN Pick(s, I) = 1..c
  <2>1. Pick(s, I) \in [1..c -> S]
    BY <1>1, <1>2, <1>5
  <2> QED
    BY <1>2, <2>1
<1>7. Range(Pick(s, I)) = {s[i] : i \in I}
  <2>1. \A k \in 1..c : Pick(s, I)[k] = s[Nth(I, k)]
    BY <1>5
  <2>2. Range(Pick(s, I)) \subseteq {s[i] : i \in I}
    BY <1>2, <1>6, <2>1 DEF Range
  <2>3. ASSUME NEW i \in I PROVE s[i] \in Range(Pick(s, I))
    BY <1>3, <1>6, <2>1 DEF Range
  <2> QED
    BY <2>2, <2>3
<1> QED
  BY <1>2, <1>4, <1>5, <1>6, <1>7 DEF c

\* remove: every occurrence goes and nothing else does.
LEMMA WithoutProperties ==
  ASSUME NEW S, NEW s \in Seq(S), NEW e
  PROVE  /\ Without(s, e) \in Seq(S)
         /\ Range(Without(s, e)) = Range(s) \ {e}
<1> DEFINE I == {k \in DOMAIN s : s[k] # e}
<1>1. I \in SUBSET DOMAIN s
  OBVIOUS
<1>2. Pick(s, I) \in Seq(S) /\ Range(Pick(s, I)) = {s[i] : i \in I}
  BY <1>1, PickProperties
<1>3. {s[i] : i \in I} = Range(s) \ {e}
  BY DEF Range
<1> QED
  BY <1>2, <1>3 DEF Without

\* appendUnique: the element is in, and nothing else comes or goes.
LEMMA WithOnceProperties ==
  ASSUME NEW S, NEW s \in Seq(S), NEW e \in S
  PROVE  /\ WithOnce(s, e) \in Seq(S)
         /\ Range(WithOnce(s, e)) = Range(s) \cup {e}
<1>1. CASE e \in Range(s)
  BY <1>1 DEF WithOnce
<1>2. CASE e \notin Range(s)
  <2>1. DOMAIN s = 1..Len(s) /\ Len(s) \in Nat
    BY LenProperties
  <2>2. /\ Append(s, e) \in Seq(S) /\ Len(Append(s, e)) = Len(s) + 1
        /\ \A i \in 1..Len(s) : Append(s, e)[i] = s[i]
        /\ Append(s, e)[Len(s) + 1] = e
    BY AppendProperties
  <2>3. DOMAIN Append(s, e) = 1..(Len(s) + 1)
    BY <2>2, LenProperties
  <2>4. Range(Append(s, e)) = Range(s) \cup {e}
    BY <2>1, <2>2, <2>3 DEF Range
  <2> QED
    BY <1>2, <2>2, <2>4 DEF WithOnce
<1> QED
  BY <1>1, <1>2

\* The elements of the tail are elements of the whole.
LEMMA TailMembers ==
  ASSUME NEW S, NEW s \in Seq(S), s # <<>>
  PROVE  /\ Head(s) \in S /\ Tail(s) \in Seq(S)
         /\ Head(s) \in Range(s) /\ Range(Tail(s)) \subseteq Range(s)
         /\ \A e \in Range(s) : e = Head(s) \/ e \in Range(Tail(s))
<1>1. /\ Head(s) \in S /\ Tail(s) \in Seq(S) /\ Len(Tail(s)) = Len(s) - 1
      /\ \A i \in 1..Len(Tail(s)) : Tail(s)[i] = s[i + 1]
  BY HeadTailProperties
<1>2. Len(s) \in Nat \ {0} /\ DOMAIN s = 1..Len(s) /\ DOMAIN Tail(s) = 1..(Len(s) - 1)
  BY <1>1, EmptySeq, LenProperties
<1>3. Head(s) = s[1]
  OBVIOUS
<1>4. \A i \in 2..Len(s) : i - 1 \in DOMAIN Tail(s) /\ s[i] = Tail(s)[i - 1]
  BY <1>1, <1>2
<1>5. \A i \in DOMAIN s : i = 1 \/ i \in 2..Len(s)
  BY <1>2
<1>6. Range(s) = {s[i] : i \in 1..Len(s)}
  BY <1>2 DEF Range
<1>7. Range(Tail(s)) = {Tail(s)[i] : i \in 1..(Len(s) - 1)}
  BY <1>2 DEF Range
<1>8. Head(s) \in Range(s)
  BY <1>2, <1>3, <1>6
<1>9. Range(Tail(s)) \subseteq Range(s)
  BY <1>1, <1>2, <1>6, <1>7
<1>10. \A e \in Range(s) : e = Head(s) \/ e \in Range(Tail(s))
  BY <1>2, <1>3, <1>4, <1>5, <1>6, <1>7
<1> QED
  BY <1>1, <1>8, <1>9, <1>10


-----------------------------------------------------------------------------
(* Along a list *)

\* What holds at 0, and after k whenever it holds after k steps, holds after n.
LEMMA Spreads ==
  ASSUME NEW n \in Nat, NEW T, 0 \in T, \A k \in 0..(n - 1) : k \in T => k + 1 \in T
  PROVE  \A k \in 0..n : k \in T
<1> DEFINE I == {k \in 1..n : k \notin T}
<1> SUFFICES ASSUME I # {} PROVE FALSE
  <2>1. \A k \in 0..n : k = 0 \/ k \in 1..n
    OBVIOUS
  <2> QED
    BY <2>1
<1>1. I \in SUBSET (1..n) /\ \A k \in 1..n : k \in I <=> k \notin T
  OBVIOUS
<1> HIDE DEF I
<1>2. IsFiniteSet(I) /\ Cardinality(I) \in Nat /\ Cardinality(I) # 0
  BY <1>1, RankIsOnto, FS_EmptySet, FS_CardinalityType
<1>3. PICK m \in I : Rank(I, m) = 1
  <2>1. 1 \in 1..Cardinality(I)
    BY <1>2
  <2> QED
    BY <1>1, <2>1, RankIsOnto
<1>4. m \in 1..n /\ m \notin T
  BY <1>1
<1>5. m - 1 \in 0..n /\ m - 1 \notin T /\ m - 1 \in 0..(n - 1) /\ (m - 1) + 1 = m
  <2>1. m - 1 \in 0..(n - 1) /\ (m - 1) + 1 = m
    BY <1>4
  <2> QED
    BY <1>4, <2>1
<1>6. m - 1 \in I
  <2>1. m - 1 # 0
    BY <1>5
  <2> QED
    BY <1>1, <1>5, <2>1
<1>7. Rank(I, m - 1) \in 1..Cardinality(I) /\ Rank(I, m - 1) # 1
  <2>1. m - 1 # m
    BY <1>4
  <2>2. I \in SUBSET (1..n)
    BY <1>1
  <2> QED
    BY <1>3, <1>6, <2>1, <2>2, RankIsOnto
<1>8. Rank(I, m - 1) <= Rank(I, m)
  <2>1. {j \in I : j <= m - 1} \in SUBSET {j \in I : j <= m}
    <3>1. \A j \in I : j \in Int
      BY <1>1
    <3>2. m \in Int
      BY <1>4
    <3>3. \A j \in I : j <= m - 1 => j <= m
      BY <3>1, <3>2
    <3> QED
      BY <3>3
  <2>2. IsFiniteSet({j \in I : j <= m})
    BY <1>2, FS_Subset, {j \in I : j <= m} \in SUBSET I
  <2> QED
    BY <2>1, <2>2, FS_Subset DEF Rank
<1> QED
  BY <1>2, <1>3, <1>7, <1>8

\* A recursion over the positions of a list defines a function: g runs through
\* them from base.
Runs(g, n, V, base, next) ==
  g \in [0..n -> V] /\ g[0] = base /\ \A k \in 1..n : g[k] = next[k][g[k - 1]]

LEMMA Iterates ==
  ASSUME NEW n \in Nat, NEW V, NEW base \in V, NEW next \in [1..n -> [V -> V]]
  PROVE  \E g : Runs(g, n, V, base, next)
<1> DEFINE T == {m \in 0..n : \E g : Runs(g, m, V, base, next)}
<1>1. 0 \in T
  <2> DEFINE start == [k \in 0..0 |-> base]
  <2>1. Runs(start, 0, V, base, next)
    BY DEF Runs
  <2> HIDE DEF start
  <2>2. \E g : Runs(g, 0, V, base, next)
    BY <2>1
  <2> QED
    BY <2>2
<1>2. ASSUME NEW m \in 0..(n - 1), m \in T PROVE m + 1 \in T
  <2>1. PICK g : Runs(g, m, V, base, next)
    BY <1>2
  <2> DEFINE h == [k \in 0..(m + 1) |-> IF k = m + 1 THEN next[m + 1][g[m]] ELSE g[k]]
  <2>2. next[m + 1][g[m]] \in V
    BY <2>1 DEF Runs
  <2>3. h \in [0..(m + 1) -> V] /\ h[0] = base
    BY <2>1, <2>2 DEF Runs
  <2>4. \A k \in 0..m : h[k] = g[k]
    OBVIOUS
  <2>5. h[m + 1] = next[m + 1][g[m]]
    OBVIOUS
  <2> HIDE DEF h
  <2>6. ASSUME NEW k \in 1..(m + 1) PROVE h[k] = next[k][h[k - 1]]
    <3>1. k - 1 \in 0..m /\ h[k - 1] = g[k - 1]
      BY <2>4
    <3>2. CASE k = m + 1
      BY <2>5, <3>1, <3>2
    <3>3. CASE k # m + 1
      <4>1. k \in 1..m /\ k \in 0..m
        BY <3>3
      <4> QED
        BY <2>1, <2>4, <3>1, <4>1 DEF Runs
    <3> QED
      BY <3>2, <3>3
  <2>7. Runs(h, m + 1, V, base, next)
    BY <2>3, <2>6 DEF Runs
  <2> QED
    BY <2>7
<1> HIDE DEF T
<1>3. n \in T
  <2>1. \A k \in 0..(n - 1) : k \in T => k + 1 \in T
    BY <1>2
  <2>2. \A k \in 0..n : k \in T
    BY <1>1, <2>1, Spreads
  <2> QED
    BY <2>2
<1>4. PICK g : Runs(g, n, V, base, next)
  BY <1>3 DEF T
<1> QED
  BY <1>4

-----------------------------------------------------------------------------
(* Adding up *)

\* The loop has a sum after each of its turns.
LEMMA SummedRuns ==
  ASSUME NEW n \in Nat, NEW w, \A k \in 1..n : w[k] \in Nat, NEW from \in Nat
  PROVE  \E f : /\ f[0] = from /\ \A k \in 0..(n - 1) : f[k + 1] = f[k] + w[k + 1]
                /\ Summed(from, w, n) = f[n]
<1> DEFINE next == [k \in 1..n |-> [x \in Nat |-> x + w[k]]]
           adds(f) == f = [k \in 0..n |-> IF k = 0 THEN from ELSE f[k - 1] + w[k]]
<1>1. \E f : adds(f)
  <2>1. next \in [1..n -> [Nat -> Nat]]
    OBVIOUS
  <2> HIDE DEF next
  <2>2. PICK g : Runs(g, n, Nat, from, next)
    BY <2>1, Iterates
  <2>3. \A k \in 1..n : k - 1 \in 0..n /\ g[k] = g[k - 1] + w[k]
    <3>1. \A k \in 1..n : k - 1 \in 0..n
      OBVIOUS
    <3>2. \A k \in 1..n : g[k] = next[k][g[k - 1]] /\ g[k - 1] \in Nat
      BY <2>2, <3>1 DEF Runs
    <3> QED
      BY <3>1, <3>2 DEF next
  <2>4. \A k \in 0..n : g[k] = IF k = 0 THEN from ELSE g[k - 1] + w[k]
    <3>1. \A k \in 0..n : k = 0 \/ k \in 1..n
      OBVIOUS
    <3> QED
      BY <2>2, <2>3, <3>1 DEF Runs
  <2>5. adds(g)
    BY <2>2, <2>4 DEF Runs
  <2> QED
    BY <2>5
<1>2. Summed(from, w, n) = (CHOOSE f : adds(f))[n]
  BY DEF Summed
<1> HIDE DEF adds
<1>3. PICK f : f = (CHOOSE g : adds(g)) /\ adds(f)
  BY <1>1
<1>4. /\ f[0] = from /\ \A k \in 0..(n - 1) : f[k + 1] = f[k] + w[k + 1]
  <2>1. \A k \in 0..n : f[k] = IF k = 0 THEN from ELSE f[k - 1] + w[k]
    BY <1>3 DEF adds
  <2>2. \A k \in 0..(n - 1) : k + 1 \in 0..n /\ k + 1 # 0 /\ (k + 1) - 1 = k
    OBVIOUS
  <2> QED
    BY <2>1, <2>2
<1> QED
  BY <1>2, <1>3, <1>4

\* What starts as the loop does and grows as it does ends as it does.
LEMMA SumIs ==
  ASSUME NEW n \in Nat, NEW w, \A k \in 1..n : w[k] \in Nat, NEW from \in Nat,
         NEW f, f[0] = from, \A k \in 0..(n - 1) : f[k + 1] = f[k] + w[k + 1]
  PROVE  Summed(from, w, n) = f[n] /\ f[n] \in Nat
<1>1. PICK g : /\ g[0] = from /\ \A k \in 0..(n - 1) : g[k + 1] = g[k] + w[k + 1]
               /\ Summed(from, w, n) = g[n]
  BY SummedRuns
<1> DEFINE T == {k \in 0..n : g[k] = f[k] /\ f[k] \in Nat}
<1>2. 0 \in T
  BY <1>1
<1>3. \A k \in 0..(n - 1) : k \in T => k + 1 \in T
  <2> SUFFICES ASSUME NEW k \in 0..(n - 1), k \in T PROVE k + 1 \in T
    OBVIOUS
  <2>1. k + 1 \in 1..n /\ w[k + 1] \in Nat
    OBVIOUS
  <2> QED
    BY <1>1, <2>1
<1> HIDE DEF T
<1>4. \A k \in 0..n : k \in T
  BY <1>2, <1>3, Spreads
<1>5. n \in T
  BY <1>4
<1> QED
  BY <1>1, <1>5 DEF T

LEMMA SummedSteps ==
  ASSUME NEW n \in Nat, NEW w, \A k \in 1..n : w[k] \in Nat, NEW from \in Nat
  PROVE  /\ Summed(from, w, 0) = from
         /\ \A m \in 0..n : Summed(from, w, m) \in Nat
         /\ \A m \in 0..(n - 1) : Summed(from, w, m + 1) = Summed(from, w, m) + w[m + 1]
<1>1. PICK f : f[0] = from /\ \A k \in 0..(n - 1) : f[k + 1] = f[k] + w[k + 1]
  BY SummedRuns
<1>2. ASSUME NEW m \in 0..n PROVE Summed(from, w, m) = f[m] /\ f[m] \in Nat
  <2>1. m \in Nat /\ \A k \in 1..m : w[k] \in Nat
    OBVIOUS
  <2>2. \A k \in 0..(m - 1) : f[k + 1] = f[k] + w[k + 1]
    BY <1>1
  <2> QED
    BY <1>1, <2>1, <2>2, SumIs
<1>3. 0 \in 0..n /\ \A m \in 0..(n - 1) : m \in 0..n /\ m + 1 \in 0..n
  OBVIOUS
<1> QED
  BY <1>1, <1>2, <1>3


\* One more number is added last.
LEMMA SumGrows ==
  ASSUME NEW n \in Nat, NEW w, NEW v, \A k \in 1..n : w[k] \in Nat /\ v[k] = w[k],
         v[n + 1] \in Nat
  PROVE  Summed(0, v, n + 1) = Summed(0, w, n) + v[n + 1]
<1>1. PICK l \in Nat : l = n + 1
  OBVIOUS
<1>2. \A k \in 1..l : v[k] \in Nat
  <2>1. \A k \in 1..l : k = n + 1 \/ k \in 1..n
    BY <1>1
  <2> QED
    BY <2>1
<1>3. \A k \in 0..(l - 1) : Summed(0, v, k + 1) = Summed(0, v, k) + v[k + 1]
  BY ONLY l \in Nat, <1>2, 0 \in Nat, SummedSteps
<1>4. Summed(0, v, n + 1) = Summed(0, v, n) + v[n + 1]
  <2>1. n \in 0..(l - 1)
    BY <1>1
  <2> QED
    BY ONLY <1>3, <2>1
<1>5. Summed(0, w, n) = Summed(0, v, n)
  <2> DEFINE f == [k \in 0..n |-> Summed(0, v, k)]
  <2>1. \A k \in 1..n : w[k] \in Nat
    OBVIOUS
  <2>2. f[0] = 0
    <3>1. Summed(0, v, 0) = 0
      BY ONLY l \in Nat, <1>2, 0 \in Nat, SummedSteps
    <3> QED
      BY <3>1
  <2>3. \A k \in 0..(n - 1) : f[k + 1] = f[k] + w[k + 1]
    <3>1. \A k \in 0..(n - 1) : k \in 0..(l - 1) /\ k \in 0..n /\ k + 1 \in 0..n /\ k + 1 \in 1..n
      BY <1>1
    <3> QED
      BY <1>3, <3>1
  <2>4. f[n] = Summed(0, v, n)
    OBVIOUS
  <2> HIDE DEF f
  <2>5. Summed(0, w, n) = f[n]
    BY ONLY n \in Nat, <2>1, <2>2, <2>3, 0 \in Nat, SumIs
  <2> QED
    BY <2>4, <2>5
<1> QED
  BY <1>4, <1>5
=============================================================================
