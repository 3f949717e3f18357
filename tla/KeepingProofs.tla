----------------------------- MODULE KeepingProofs -----------------------------
(***************************************************************************)
(* What Keep, Total and flattening do to a sequence. Keep keeps exactly    *)
(* the members of S, each at its rank, in order and no more than once      *)
(* each; an element that is appended comes last or not at all. A total     *)
(* loses what is taken out. Beneath them, induction and recursion over the *)
(* naturals, with a set in the place of the predicate.                     *)
(***************************************************************************)
EXTENDS Keeping, Integers, FiniteSets, FiniteSetTheorems, SequenceTheorems, TLAPS

\* Where the members of S stand in a sequence, how many of them stand at i or before,
Places(seq, S)  == {i \in DOMAIN seq : seq[i] \in S}
Rank(seq, S, i) == Cardinality({j \in Places(seq, S) : j <= i})

\* and what Keep makes of them: each comes to stand at its rank.
Ranked(seq, S) ==
  [k \in 1..Cardinality(Places(seq, S)) |-> seq[CHOOSE i \in Places(seq, S) : Rank(seq, S, i) = k]]

\* A set of naturals has a least member.
LEMMA Least ==
  ASSUME NEW T \in SUBSET Nat, T # {}
  PROVE  \E m \in T : \A n \in T : m <= n
<1>1. PICK t \in T : TRUE
  OBVIOUS
<1> DEFINE Below == {0..m : m \in {n \in T : n <= t}}
<1>2. IsWellFoundedOn(StrictSubsetOrdering(0..t), SUBSET (0..t))
  <2>1. IsFiniteSet(0..t)
    BY FS_Interval
  <2> QED
    BY <2>1, FS_FiniteSubsetsOfFinite, FS_StrictSubsetOrderingWellFounded
<1>3. Below \subseteq SUBSET (0..t) /\ Below # {}
  OBVIOUS
<1>4. PICK x \in Below : \A y \in Below : <<y, x>> \notin StrictSubsetOrdering(0..t)
  <2> HIDE DEF Below
  <2> QED
    BY <1>2, <1>3, WFMin
<1>5. PICK m \in T : m <= t /\ x = 0..m
  BY <1>4
<1>6. ASSUME NEW n \in T, n < m
      PROVE  FALSE
  <2>1. 0..n \in Below /\ 0..n \subseteq x /\ 0..n # x
    <3>1. m \in 0..m /\ m \notin 0..n
      BY <1>5, <1>6
    <3> QED
      BY <1>5, <1>6, <3>1
  <2> QED
    BY <2>1, <1>3, <1>4 DEF StrictSubsetOrdering
<1> QED
  BY <1>6

\* The greatest of some numbers up to n is one of them.
LEMMA Greatest ==
  ASSUME NEW n \in Nat, NEW S \in SUBSET (1..n), S # {}
  PROVE  \E m \in S : \A k \in S : k <= m
<1> DEFINE T == {k \in Nat : \A m \in S : m <= k}
<1>1. n \in T
  OBVIOUS
<1>2. PICK k \in T : \A m \in T : k <= m
  <2>1. T \in SUBSET Nat
    OBVIOUS
  <2> HIDE DEF T
  <2> QED
    BY <1>1, <2>1, Least
<1>3. k \in S
  <2> SUFFICES ASSUME k \notin S PROVE FALSE
    OBVIOUS
  <2>1. PICK m \in S : TRUE
    OBVIOUS
  <2>2. m \in Nat \ {0} /\ m <= k /\ k \in Nat
    BY <1>2
  <2>3. k - 1 \in Nat /\ ~(k <= k - 1)
    BY <2>2
  <2>4. \A x \in S : x <= k - 1
    <3>1. \A x \in S : x \in Nat /\ x <= k /\ x # k
      BY <1>2
    <3> QED
      BY <2>2, <3>1
  <2> QED
    BY <1>2, <2>3, <2>4
<1> QED
  BY <1>2, <1>3

\* What holds of zero and, wherever it holds, of the next number holds of all.
LEMMA Induction ==
  ASSUME NEW S \in SUBSET Nat, 0 \in S, \A n \in S : n + 1 \in S
  PROVE  Nat \subseteq S
<1> DEFINE T == Nat \ S
<1> SUFFICES ASSUME T # {} PROVE FALSE
  OBVIOUS
<1>1. PICK m \in T : \A n \in T : m <= n
  <2>1. T \in SUBSET Nat
    OBVIOUS
  <2> HIDE DEF T
  <2> QED
    BY <2>1, Least
<1>2. m # 0 /\ m \in Nat /\ m \notin S
  BY <1>1
<1>3. m - 1 \in Nat /\ (m - 1) + 1 = m /\ ~(m <= m - 1)
  BY <1>2
<1>4. m - 1 \in S
  BY <1>1, <1>3
<1>5. (m - 1) + 1 \in S
  BY <1>4
<1> QED
  BY <1>2, <1>3, <1>5

\* What E makes of a function from D to V is one, each of whose values depends on
\* values of a smaller measure alone.
Recursive(D, V, N, measure, E) ==
  /\ N \in Nat /\ measure \in [D -> 0..N] /\ [D -> V] # {}
  /\ E \in [[D -> V] -> [D -> V]]
  /\ \A f, g \in [D -> V], i \in D :
       (\A j \in D : measure[j] < measure[i] => f[j] = g[j]) => E[f][i] = E[g][i]

\* Then there is a function that E leaves as it is, which is what a recursive
\* definition asks for.
LEMMA Recursion ==
  ASSUME NEW D, NEW V, NEW N, NEW measure, NEW E, Recursive(D, V, N, measure, E)
  PROVE  \E f \in [D -> V] : f = E[f]
<1>0. /\ N \in Nat /\ measure \in [D -> 0..N] /\ [D -> V] # {}
      /\ E \in [[D -> V] -> [D -> V]]
      /\ \A f, g \in [D -> V], i \in D :
           (\A j \in D : measure[j] < measure[i] => f[j] = g[j]) => E[f][i] = E[g][i]
  BY DEF Recursive
<1> DEFINE Upto(k) == \E f \in [D -> V] : \A i \in D : measure[i] < k => f[i] = E[f][i]
           S == {k \in Nat : Upto(k)}
<1>1. 0 \in S
  <2>1. \A i \in D : ~(measure[i] < 0)
    BY <1>0
  <2> QED
    BY <1>0, <2>1
<1>2. ASSUME NEW k \in S PROVE k + 1 \in S
  <2>1. PICK f \in [D -> V] : \A i \in D : measure[i] < k => f[i] = E[f][i]
    OBVIOUS
  <2> DEFINE g == [i \in D |-> IF measure[i] < k THEN f[i] ELSE E[f][i]]
  <2>2. g \in [D -> V] /\ \A i \in D : g[i] = IF measure[i] < k THEN f[i] ELSE E[f][i]
    BY <1>0, <2>1
  <2> HIDE DEF g
  <2>3. ASSUME NEW i \in D, measure[i] < k + 1
        PROVE  g[i] = E[g][i]
    <3>1. measure[i] \in Nat /\ \A j \in D : measure[j] \in Nat
      BY <1>0
    <3>2. \A j \in D : measure[j] < measure[i] => g[j] = f[j]
      BY <2>2, <2>3, <3>1
    <3>3. E[g][i] = E[f][i]
      BY <1>0, <2>1, <2>2, <3>2
    <3> QED
      BY <2>1, <2>2, <3>3
  <2>4. Upto(k + 1)
    BY <2>2, <2>3
  <2> QED
    BY <2>4
<1>3. N + 1 \in S
  <2>1. S \in SUBSET Nat
    OBVIOUS
  <2> HIDE DEF S
  <2>2. Nat \subseteq S
    BY <1>1, <1>2, <2>1, Induction
  <2> QED
    BY <1>0, <2>2
<1>4. PICK f \in [D -> V] : \A i \in D : measure[i] < N + 1 => f[i] = E[f][i]
  BY <1>3
<1>5. \A i \in D : f[i] = E[f][i]
  BY <1>0, <1>4
<1>6. E[f] \in [D -> V]
  BY <1>0
<1> QED
  BY <1>5, <1>6

\* Two functions are the same if each of their values is wherever those of a smaller
\* measure are.
SameByMeasure(D, measure, f, g) ==
  /\ measure \in [D -> Nat]
  /\ \A i \in D : (\A j \in D : measure[j] < measure[i] => f[j] = g[j]) => f[i] = g[i]

LEMMA SameThroughout ==
  ASSUME NEW D, NEW measure, NEW f, NEW g, SameByMeasure(D, measure, f, g)
  PROVE  \A i \in D : f[i] = g[i]
<1>0. /\ measure \in [D -> Nat]
      /\ \A i \in D : (\A j \in D : measure[j] < measure[i] => f[j] = g[j]) => f[i] = g[i]
  BY DEF SameByMeasure
<1> DEFINE T == {measure[i] : i \in {j \in D : f[j] # g[j]}}
<1> SUFFICES ASSUME T # {} PROVE FALSE
  OBVIOUS
<1>1. PICK m \in T : \A n \in T : m <= n
  <2>1. T \in SUBSET Nat
    BY <1>0
  <2> HIDE DEF T
  <2> QED
    BY <2>1, Least
<1>2. PICK i \in D : f[i] # g[i] /\ measure[i] = m
  BY <1>1
<1>3. ASSUME NEW j \in D, measure[j] < measure[i]
      PROVE  f[j] = g[j]
  <2>1. measure[j] \in Nat /\ m \in Nat /\ ~(m <= measure[j])
    BY <1>0, <1>2, <1>3
  <2> QED
    BY <1>1, <2>1
<1> QED
  BY <1>0, <1>2, <1>3

--------------------------------------------------------------------------------
\* The places and the ranks are finite and numbers, and ranks grow along the places.
LEMMA Ranks ==
  ASSUME NEW A, NEW seq \in Seq(A), NEW S
  PROVE  /\ Places(seq, S) \subseteq 1..Len(seq)
         /\ IsFiniteSet(Places(seq, S)) /\ Cardinality(Places(seq, S)) \in Nat
         /\ Cardinality(Places(seq, S)) <= Len(seq)
         /\ \A i \in Nat : /\ Rank(seq, S, i) \in Nat
                           /\ Rank(seq, S, i) <= Cardinality(Places(seq, S))
                           /\ IsFiniteSet({j \in Places(seq, S) : j <= i})
<1> DEFINE K == Places(seq, S)
<1>1. K \subseteq 1..Len(seq) /\ Len(seq) \in Nat
  BY DEF Places
<1> HIDE DEF K
<1>2. IsFiniteSet(1..Len(seq)) /\ Cardinality(1..Len(seq)) = Len(seq)
  <2>1. Len(seq) \in Int /\ 1 \in Int
    BY <1>1
  <2>2. /\ IsFiniteSet(1..Len(seq))
        /\ Cardinality(1..Len(seq)) = IF 1 > Len(seq) THEN 0 ELSE Len(seq) - 1 + 1
    BY <2>1, FS_Interval
  <2> QED
    BY <1>1, <2>2
<1>3. IsFiniteSet(K) /\ Cardinality(K) \in Nat /\ Cardinality(K) <= Len(seq)
  BY <1>1, <1>2, FS_Subset, FS_CardinalityType
<1>4. ASSUME NEW i \in Nat
      PROVE  /\ IsFiniteSet({j \in K : j <= i})
             /\ Cardinality({j \in K : j <= i}) \in Nat
             /\ Cardinality({j \in K : j <= i}) <= Cardinality(K)
  <2>1. {j \in K : j <= i} \in SUBSET K
    OBVIOUS
  <2>2. /\ IsFiniteSet({j \in K : j <= i}) /\ Cardinality({j \in K : j <= i}) <= Cardinality(K)
        /\ Cardinality({j \in K : j <= i}) \in Nat
    BY <1>3, <2>1, FS_Subset, FS_CardinalityType
  <2> QED
    BY <1>3, <2>2
<1> QED
  BY <1>1, <1>3, <1>4 DEF K, Rank

\* From one place to the next number the rank grows by one if that is a place too.
LEMMA RankSteps ==
  ASSUME NEW A, NEW seq \in Seq(A), NEW S, NEW i \in Nat
  PROVE  /\ Rank(seq, S, 0) = 0
         /\ Rank(seq, S, i + 1) = IF i + 1 \in Places(seq, S) THEN Rank(seq, S, i) + 1
                                  ELSE Rank(seq, S, i)
<1> DEFINE K == Places(seq, S)
           Upto(n) == {j \in K : j <= n}
<1>1. K \subseteq Nat /\ 0 \notin K /\ IsFiniteSet(Upto(i))
  BY Ranks DEF K
<1>2. Upto(0) = {}
  BY <1>1
<1>3. Upto(i + 1) = IF i + 1 \in K THEN Upto(i) \cup {i + 1} ELSE Upto(i)
  BY <1>1
<1>4. i + 1 \notin Upto(i)
  OBVIOUS
<1>5. Cardinality(Upto(i) \cup {i + 1}) = Cardinality(Upto(i)) + 1
  <2> HIDE DEF Upto
  <2> QED
    BY <1>1, <1>4, FS_AddElement
<1>6. Cardinality(Upto(0)) = 0
  BY <1>2, FS_EmptySet
<1>7. Cardinality(Upto(i + 1)) = IF i + 1 \in K THEN Cardinality(Upto(i)) + 1 ELSE Cardinality(Upto(i))
  BY <1>3, <1>5
<1> QED
  BY <1>6, <1>7 DEF Rank

\* Up to its last place the rank has grown to the number of places.
LEMMA RankAtEnd ==
  ASSUME NEW A, NEW seq \in Seq(A), NEW S, NEW i \in Nat, Len(seq) <= i
  PROVE  Rank(seq, S, i) = Cardinality(Places(seq, S))
<1>1. {j \in Places(seq, S) : j <= i} = Places(seq, S)
  BY Ranks
<1> QED
  BY <1>1 DEF Rank

\* Ranks tell places apart, by order.
LEMMA RanksGrow ==
  ASSUME NEW A, NEW seq \in Seq(A), NEW S,
         NEW i \in Nat, NEW j \in Places(seq, S), i < j
  PROVE  Rank(seq, S, i) < Rank(seq, S, j)
<1> DEFINE K == Places(seq, S)
           Upto(n) == {m \in K : m <= n}
<1>1. K \subseteq Nat /\ IsFiniteSet(Upto(j)) /\ IsFiniteSet(Upto(i)) /\ j \in Nat
  BY Ranks DEF K
<1>2. Upto(i) \in SUBSET Upto(j) /\ j \in Upto(j) /\ j \notin Upto(i)
  BY <1>1
<1> HIDE DEF Upto
<1>3. Cardinality(Upto(i)) <= Cardinality(Upto(j)) /\ Cardinality(Upto(i)) # Cardinality(Upto(j))
  BY <1>1, <1>2, FS_Subset
<1>4. Cardinality(Upto(i)) \in Nat /\ Cardinality(Upto(j)) \in Nat
  BY <1>1, FS_CardinalityType
<1>5. Cardinality(Upto(i)) < Cardinality(Upto(j))
  BY <1>3, <1>4
<1> QED
  BY <1>5 DEF Upto, K, Rank

--------------------------------------------------------------------------------
\* Every rank is the rank of one place, and of one only.
LEMMA PlaceOfRank ==
  ASSUME NEW A, NEW seq \in Seq(A), NEW S, NEW k \in 1..Cardinality(Places(seq, S))
  PROVE  \E i \in Places(seq, S) : Rank(seq, S, i) = k
<1> DEFINE T == {n \in Nat : k <= Rank(seq, S, n)}
<1>1. Cardinality(Places(seq, S)) \in Nat /\ k \in Nat \ {0} /\ Len(seq) \in Nat
  BY Ranks
<1>2. Len(seq) \in T
  BY <1>1, RankAtEnd
<1>3. PICK m \in T : \A n \in T : m <= n
  <2> HIDE DEF T
  <2>1. T \in SUBSET Nat
    BY DEF T
  <2> QED
    BY <1>2, <2>1, Least
<1>4. m # 0
  BY <1>1, <1>3, RankSteps
<1>5. m - 1 \in Nat /\ m - 1 \notin T /\ (m - 1) + 1 = m
  BY <1>3, <1>4
<1>6. Rank(seq, S, m - 1) \in Nat /\ Rank(seq, S, m) \in Nat
  BY <1>1, <1>5, Ranks
<1>7. Rank(seq, S, m) = IF m \in Places(seq, S) THEN Rank(seq, S, m - 1) + 1
                        ELSE Rank(seq, S, m - 1)
  BY SMTT(30), <1>5, RankSteps
<1> QED
  BY <1>1, <1>3, <1>5, <1>6, <1>7

LEMMA SameRankSamePlace ==
  ASSUME NEW A, NEW seq \in Seq(A), NEW S, NEW i \in Places(seq, S), NEW j \in Places(seq, S),
         Rank(seq, S, i) = Rank(seq, S, j)
  PROVE  i = j
<1>1. i \in Nat /\ j \in Nat
  BY Ranks
<1>2. Rank(seq, S, i) \in Nat
  BY <1>1, Ranks
<1>3. ~(i < j) /\ ~(j < i)
  BY <1>1, <1>2, RanksGrow
<1> QED
  BY <1>1, <1>3

\* A place has its rank in what is kept, and what is kept there.
LEMMA AtItsRank ==
  ASSUME NEW A, NEW seq \in Seq(A), NEW S, NEW i \in Places(seq, S)
  PROVE  /\ Rank(seq, S, i) \in 1..Cardinality(Places(seq, S))
         /\ Ranked(seq, S)[Rank(seq, S, i)] = seq[i]
<1>1. i \in Nat \ {0} /\ i - 1 \in Nat /\ (i - 1) + 1 = i
  BY Ranks
<1>2. Rank(seq, S, i) = Rank(seq, S, i - 1) + 1
  BY <1>1, RankSteps
<1>3. Rank(seq, S, i) \in 1..Cardinality(Places(seq, S))
  <2>1. Rank(seq, S, i - 1) \in Nat /\ Rank(seq, S, i) <= Cardinality(Places(seq, S))
    BY <1>1, Ranks
  <2>2. Cardinality(Places(seq, S)) \in Nat
    BY Ranks
  <2> QED
    BY <1>2, <2>1, <2>2
<1>4. (CHOOSE j \in Places(seq, S) : Rank(seq, S, j) = Rank(seq, S, i)) = i
  BY SameRankSamePlace
<1> QED
  BY <1>3, <1>4 DEF Ranked

\* What is kept is a sequence no longer than the first, of its members of S.
LEMMA RankedSequence ==
  ASSUME NEW A, NEW seq \in Seq(A), NEW S
  PROVE  /\ Ranked(seq, S) \in Seq(A) /\ Ranked(seq, S) \in Seq(S)
         /\ Len(Ranked(seq, S)) = Cardinality(Places(seq, S))
         /\ Len(Ranked(seq, S)) <= Len(seq)
         /\ DOMAIN Ranked(seq, S) = 1..Cardinality(Places(seq, S))
         /\ \A k \in DOMAIN Ranked(seq, S) :
              \E i \in Places(seq, S) : Rank(seq, S, i) = k /\ Ranked(seq, S)[k] = seq[i]
<1> DEFINE n == Cardinality(Places(seq, S))
           kept == Ranked(seq, S)
<1>1. n \in Nat /\ n <= Len(seq)
  BY Ranks
<1>2. DOMAIN kept = 1..n
  BY DEF Ranked
<1>3. ASSUME NEW k \in 1..n
      PROVE  \E i \in Places(seq, S) : Rank(seq, S, i) = k /\ kept[k] = seq[i]
  <2>1. PICK i \in Places(seq, S) : Rank(seq, S, i) = k
    BY PlaceOfRank
  <2> QED
    BY <2>1, AtItsRank
<1>4. \A k \in 1..n : kept[k] \in A \cap S
  <2>1. \A i \in Places(seq, S) : seq[i] \in A \cap S
    BY DEF Places
  <2> QED
    BY <1>3, <2>1
<1>5. kept = [k \in 1..n |-> kept[k]]
  BY DEF Ranked
<1> HIDE DEF kept, n
<1>6. kept \in Seq(A) /\ kept \in Seq(S) /\ Len(kept) = n
  BY <1>1, <1>2, <1>4, <1>5
<1> QED
  BY <1>1, <1>2, <1>3, <1>6 DEF kept, n

--------------------------------------------------------------------------------
\* Ranks depend on the places up to there alone.
LEMMA SameRanks ==
  ASSUME NEW seq, NEW other, NEW S, NEW R, NEW i,
         \A j : j <= i => (j \in Places(seq, S) <=> j \in Places(other, R))
  PROVE  Rank(seq, S, i) = Rank(other, R, i)
<1>1. {j \in Places(seq, S) : j <= i} = {j \in Places(other, R) : j <= i}
  OBVIOUS
<1> QED
  BY <1>1 DEF Rank

LEMMA RankedAppended ==
  ASSUME NEW A, NEW seq \in Seq(A), NEW x \in A, NEW S
  PROVE  Ranked(Append(seq, x), S) = IF x \in S THEN Append(Ranked(seq, S), x) ELSE Ranked(seq, S)
<1> DEFINE more == Append(seq, x)
           kept == Ranked(seq, S)
           new  == Ranked(more, S)
           then == IF x \in S THEN Append(kept, x) ELSE kept
<1>1. /\ more \in Seq(A) /\ Len(more) = Len(seq) + 1 /\ Len(seq) \in Nat
      /\ DOMAIN seq = 1..Len(seq) /\ DOMAIN more = 1..(Len(seq) + 1)
      /\ \A i \in 1..Len(seq) : more[i] = seq[i]
      /\ more[Len(seq) + 1] = x
  OBVIOUS
<1>2. /\ new \in Seq(A) /\ Len(new) = Cardinality(Places(more, S))
      /\ kept \in Seq(A) /\ Len(kept) = Cardinality(Places(seq, S))
  <2> HIDE DEF more
  <2> QED
    BY <1>1, RankedSequence
<1>k. \A k \in DOMAIN kept :
        \E i \in Places(seq, S) : Rank(seq, S, i) = k /\ kept[k] = seq[i]
  BY RankedSequence
<1> HIDE DEF more, new, kept
<1>3. \A j : j <= Len(seq) => (j \in Places(more, S) <=> j \in Places(seq, S))
  BY <1>1 DEF Places
<1>4. \A i \in 1..Len(seq) : Rank(more, S, i) = Rank(seq, S, i)
  <2> SUFFICES ASSUME NEW i \in 1..Len(seq)
               PROVE  Rank(more, S, i) = Rank(seq, S, i)
    OBVIOUS
  <2>1. \A j : j <= i => (j \in Places(more, S) <=> j \in Places(seq, S))
    BY <1>1 DEF Places
  <2> QED
    BY <2>1, SameRanks
<1>5. Rank(more, S, Len(seq)) = Len(kept)
  <2>1. Rank(more, S, Len(seq)) = Rank(seq, S, Len(seq))
    BY <1>3, SameRanks
  <2> QED
    BY <1>1, <1>2, <2>1, RankAtEnd
<1>6. Len(seq) + 1 \in Places(more, S) <=> x \in S
  BY <1>1 DEF Places
<1>7. Len(new) = IF x \in S THEN Len(kept) + 1 ELSE Len(kept)
  <2>1. Rank(more, S, Len(seq) + 1) = Len(new)
    BY <1>1, <1>2, RankAtEnd
  <2> QED
    BY <1>1, <1>5, <1>6, <2>1, RankSteps
<1>8. x \in S => new[Len(kept) + 1] = x
  <2> SUFFICES ASSUME x \in S PROVE new[Len(kept) + 1] = x
    OBVIOUS
  <2>1. Rank(more, S, Len(seq) + 1) = Len(kept) + 1
    BY <1>1, <1>5, <1>6, RankSteps
  <2> QED
    BY <1>1, <1>6, <2>1, AtItsRank DEF new
<1>9. \A k \in 1..Len(kept) : new[k] = kept[k]
  <2> SUFFICES ASSUME NEW k \in 1..Len(kept) PROVE new[k] = kept[k]
    OBVIOUS
  <2>1. PICK i \in Places(seq, S) : Rank(seq, S, i) = k /\ kept[k] = seq[i]
    BY <1>2, <1>k
  <2>2. i \in 1..Len(seq)
    BY <1>1 DEF Places
  <2>3. i \in Places(more, S) /\ Rank(more, S, i) = k /\ more[i] = seq[i]
    BY <1>1, <1>3, <1>4, <2>1, <2>2
  <2> QED
    BY <1>1, <2>1, <2>3, AtItsRank DEF new
<1>10. then \in Seq(A) /\ Len(then) = Len(new) /\ Len(kept) \in Nat
  BY <1>2, <1>7
<1>11. \A k \in 1..Len(new) : new[k] = then[k]
  BY <1>2, <1>7, <1>8, <1>9, <1>10
<1> HIDE DEF then
<1>12. new = then
  BY <1>2, <1>10, <1>11, SeqEqual
<1> QED
  BY <1>12 DEF new, then, more, kept

--------------------------------------------------------------------------------
LEMMA KeepIsRanked ==
  ASSUME NEW A, NEW seq \in Seq(A), NEW S
  PROVE  Keep(seq, S) = Ranked(seq, S)
<1> DEFINE Step(f) == [n \in 0..Len(seq) |->
                         IF n = 0 THEN <<>>
                         ELSE IF seq[n] \in S THEN Append(f[n - 1], seq[n]) ELSE f[n - 1]]
           Kept == CHOOSE f : f = Step(f)
           Upto == [n \in 0..Len(seq) |-> Ranked(SubSeq(seq, 1, n), S)]
<1>1. Keep(seq, S) = Kept[Len(seq)]
  BY DEF Keep
<1>u. Upto = [n \in 0..Len(seq) |-> Upto[n]]
      /\ \A n \in 0..Len(seq) : Upto[n] = Ranked(SubSeq(seq, 1, n), S)
  OBVIOUS
<1> HIDE DEF Upto
<1>2. Len(seq) \in Nat /\ Upto[Len(seq)] = Ranked(seq, S)
  <2>1. Len(seq) \in Nat /\ SubSeq(seq, 1, Len(seq)) = seq
    BY SubSeqFull
  <2>2. Len(seq) \in 0..Len(seq)
    BY <2>1
  <2> QED
    BY <1>u, <2>1, <2>2
<1>3. Upto[0] = <<>>
  <2>1. SubSeq(seq, 1, 0) = <<>>
    OBVIOUS
  <2>2. Places(<<>>, S) = {}
    BY DEF Places
  <2>3. Cardinality(Places(<<>>, S)) = 0 /\ <<>> \in Seq(A)
    <3>1. Cardinality({}) = 0 /\ <<>> \in Seq(A)
      BY FS_EmptySet
    <3> QED
      BY <2>2, <3>1
  <2>4. Ranked(<<>>, S) \in Seq(A) /\ Len(Ranked(<<>>, S)) = 0
    BY <2>3, RankedSequence
  <2>5. Ranked(<<>>, S) = <<>>
    BY <2>4, EmptySeq
  <2>6. 0 \in 0..Len(seq)
    BY <1>2
  <2> QED
    BY <1>u, <2>1, <2>5, <2>6
<1>4. ASSUME NEW n \in 1..Len(seq)
      PROVE  Upto[n] = IF seq[n] \in S THEN Append(Upto[n - 1], seq[n]) ELSE Upto[n - 1]
  <2>1. /\ n - 1 \in 0..Len(seq) /\ n \in 0..Len(seq) /\ seq[n] \in A
        /\ SubSeq(seq, 1, n - 1) \in Seq(A)
    BY <1>2
  <2>2. SubSeq(seq, 1, n) = Append(SubSeq(seq, 1, n - 1), seq[n])
    BY <1>2
  <2>3. Ranked(SubSeq(seq, 1, n), S) = IF seq[n] \in S THEN Append(Ranked(SubSeq(seq, 1, n - 1), S), seq[n])
                                      ELSE Ranked(SubSeq(seq, 1, n - 1), S)
    <3> DEFINE before == SubSeq(seq, 1, n - 1)
               x == seq[n]
    <3>1. before \in Seq(A) /\ x \in A
      BY <2>1
    <3> HIDE DEF before, x
    <3>2. Ranked(Append(before, x), S) = IF x \in S THEN Append(Ranked(before, S), x) ELSE Ranked(before, S)
      BY <3>1, RankedAppended
    <3> QED
      BY <2>2, <3>2 DEF before, x
  <2> QED
    BY <1>u, <2>1, <2>3
<1>5. Upto = Step(Upto)
  <2>2. \A n \in 0..Len(seq) : n = 0 \/ n \in 1..Len(seq)
    BY <1>2
  <2> QED
    BY <1>3, <1>4, <1>u, <2>2
<1>6. Kept = Step(Kept)
  <2> HIDE DEF Step
  <2> QED
    BY <1>5
<1> HIDE DEF Kept
<1>7. \A n \in 0..Len(seq) : Kept[n] = Upto[n]
  <2> DEFINE T == {n \in 0..Len(seq) : Kept[n] # Upto[n]}
  <2> SUFFICES ASSUME T # {} PROVE FALSE
    OBVIOUS
  <2>1. T \in SUBSET Nat
    OBVIOUS
  <2>2. PICK m \in T : \A n \in T : m <= n
    <3> HIDE DEF T
    <3> QED
      BY <2>1, Least
  <2>3. m # 0
    BY <1>3, <1>6
  <2>4. m \in 1..Len(seq) /\ m - 1 \in 0..Len(seq) /\ m - 1 < m
    BY <1>2, <2>2, <2>3
  <2>5. Kept[m - 1] = Upto[m - 1]
    BY <2>2, <2>4
  <2>6. Kept[m] = IF seq[m] \in S THEN Append(Kept[m - 1], seq[m]) ELSE Kept[m - 1]
    BY <1>6, <2>3, <2>2
  <2> QED
    BY <1>4, <2>2, <2>4, <2>5, <2>6
<1> QED
  BY <1>1, <1>2, <1>7

--------------------------------------------------------------------------------
\* What is kept is a sequence no longer than the first, of its members of S,
LEMMA KeptSequence ==
  ASSUME NEW A, NEW seq \in Seq(A), NEW S
  PROVE  /\ Keep(seq, S) \in Seq(A) /\ Keep(seq, S) \in Seq(S)
         /\ Len(Keep(seq, S)) = Cardinality(Places(seq, S))
         /\ Len(Keep(seq, S)) <= Len(seq)
         /\ DOMAIN Keep(seq, S) = 1..Cardinality(Places(seq, S))
         /\ \A k \in DOMAIN Keep(seq, S) :
              \E i \in Places(seq, S) : Rank(seq, S, i) = k /\ Keep(seq, S)[k] = seq[i]
<1>1. Keep(seq, S) = Ranked(seq, S)
  BY KeepIsRanked
<1>2. /\ Ranked(seq, S) \in Seq(A) /\ Ranked(seq, S) \in Seq(S)
      /\ Len(Ranked(seq, S)) = Cardinality(Places(seq, S))
      /\ Len(Ranked(seq, S)) <= Len(seq)
      /\ DOMAIN Ranked(seq, S) = 1..Cardinality(Places(seq, S))
      /\ \A k \in DOMAIN Ranked(seq, S) :
           \E i \in Places(seq, S) : Rank(seq, S, i) = k /\ Ranked(seq, S)[k] = seq[i]
  BY RankedSequence
<1> QED
  BY <1>1, <1>2, Zenon

\* each of them at its rank,
LEMMA KeptAtRank ==
  ASSUME NEW A, NEW seq \in Seq(A), NEW S, NEW i \in Places(seq, S)
  PROVE  /\ Rank(seq, S, i) \in 1..Cardinality(Places(seq, S))
         /\ Keep(seq, S)[Rank(seq, S, i)] = seq[i]
<1>1. Keep(seq, S) = Ranked(seq, S)
  BY KeepIsRanked
<1> QED
  BY <1>1, AtItsRank

LEMMA KeepAppended ==
  ASSUME NEW A, NEW seq \in Seq(A), NEW x \in A, NEW S
  PROVE  Keep(Append(seq, x), S) = IF x \in S THEN Append(Keep(seq, S), x) ELSE Keep(seq, S)
<1>1. Append(seq, x) \in Seq(A)
  OBVIOUS
<1>2. Keep(Append(seq, x), S) = Ranked(Append(seq, x), S) /\ Keep(seq, S) = Ranked(seq, S)
  BY <1>1, KeepIsRanked
<1> QED
  BY <1>2, RankedAppended

\* It matters only which members of the sequence are in S.
LEMMA KeepDepends ==
  ASSUME NEW A, NEW seq \in Seq(A), NEW S, NEW R, Places(seq, S) = Places(seq, R)
  PROVE  Keep(seq, S) = Keep(seq, R)
<1>1. Ranked(seq, S) = Ranked(seq, R)
  BY DEF Ranked, Rank
<1> QED
  BY <1>1, KeepIsRanked

\* What is kept is what is there and in S,
LEMMA KeptMembers ==
  ASSUME NEW A, NEW seq \in Seq(A), NEW S
  PROVE  \A x : (\E k \in DOMAIN Keep(seq, S) : Keep(seq, S)[k] = x)
               <=> x \in S /\ (\E i \in DOMAIN seq : seq[i] = x)
<1> SUFFICES ASSUME NEW x
             PROVE  (\E k \in DOMAIN Keep(seq, S) : Keep(seq, S)[k] = x)
                      <=> x \in S /\ (\E i \in DOMAIN seq : seq[i] = x)
  OBVIOUS
<1>1. /\ DOMAIN Keep(seq, S) = 1..Cardinality(Places(seq, S))
      /\ \A k \in DOMAIN Keep(seq, S) : \E i \in Places(seq, S) : Keep(seq, S)[k] = seq[i]
  BY KeptSequence
<1>2. ASSUME NEW k \in DOMAIN Keep(seq, S), Keep(seq, S)[k] = x
      PROVE  x \in S /\ \E i \in DOMAIN seq : seq[i] = x
  <2>1. PICK i \in Places(seq, S) : Keep(seq, S)[k] = seq[i]
    BY <1>1, <1>2
  <2> QED
    BY <1>2, <2>1 DEF Places
<1>3. ASSUME x \in S, NEW i \in DOMAIN seq, seq[i] = x
      PROVE  \E k \in DOMAIN Keep(seq, S) : Keep(seq, S)[k] = x
  <2>1. i \in Places(seq, S)
    BY <1>3 DEF Places
  <2>2. /\ Rank(seq, S, i) \in DOMAIN Keep(seq, S)
        /\ Keep(seq, S)[Rank(seq, S, i)] = x
    BY <1>1, <1>3, <2>1, KeptAtRank
  <2> QED
    BY <2>2
<1> QED
  BY <1>2, <1>3

\* and once at most if it is there once.
LEMMA KeptOnce ==
  ASSUME NEW A, NEW seq \in Seq(A), NEW S,
         \A i, j \in DOMAIN seq : seq[i] = seq[j] => i = j
  PROVE  \A k, m \in DOMAIN Keep(seq, S) : Keep(seq, S)[k] = Keep(seq, S)[m] => k = m
<1> SUFFICES ASSUME NEW k \in DOMAIN Keep(seq, S), NEW m \in DOMAIN Keep(seq, S),
                    Keep(seq, S)[k] = Keep(seq, S)[m]
             PROVE  k = m
  OBVIOUS
<1>1. \A n \in DOMAIN Keep(seq, S) :
        \E i \in Places(seq, S) : Rank(seq, S, i) = n /\ Keep(seq, S)[n] = seq[i]
  BY KeptSequence
<1>2. PICK i \in Places(seq, S) : Rank(seq, S, i) = k /\ Keep(seq, S)[k] = seq[i]
  BY <1>1
<1>3. PICK j \in Places(seq, S) : Rank(seq, S, j) = m /\ Keep(seq, S)[m] = seq[j]
  BY <1>1
<1>4. i \in DOMAIN seq /\ j \in DOMAIN seq
  BY DEF Places
<1> QED
  BY <1>2, <1>3, <1>4

LEMMA KeepOfNone ==
  ASSUME NEW A, NEW seq \in Seq(A), NEW S, \A i \in DOMAIN seq : seq[i] \notin S
  PROVE  Keep(seq, S) = <<>>
<1>1. Places(seq, S) = {}
  BY DEF Places
<1>2. Cardinality(Places(seq, S)) = 0
  BY <1>1, FS_EmptySet
<1>3. Keep(seq, S) \in Seq(A) /\ Len(Keep(seq, S)) = 0
  BY <1>2, KeptSequence
<1> QED
  BY <1>3, EmptySeq

\* What is kept stands in the order it stood in.
LEMMA KeptInOrder ==
  ASSUME NEW A, NEW seq \in Seq(A), NEW S
  PROVE  \A k, m \in DOMAIN Keep(seq, S) :
           k < m => \E i, j \in DOMAIN seq :
                      i < j /\ seq[i] = Keep(seq, S)[k] /\ seq[j] = Keep(seq, S)[m]
<1> SUFFICES ASSUME NEW k \in DOMAIN Keep(seq, S), NEW m \in DOMAIN Keep(seq, S), k < m
             PROVE  \E i, j \in DOMAIN seq :
                      i < j /\ seq[i] = Keep(seq, S)[k] /\ seq[j] = Keep(seq, S)[m]
  OBVIOUS
<1>1. k \in 1..Cardinality(Places(seq, S)) /\ m \in 1..Cardinality(Places(seq, S))
  BY KeptSequence
<1>2. PICK i \in Places(seq, S) : Rank(seq, S, i) = k
  BY <1>1, PlaceOfRank
<1>3. PICK j \in Places(seq, S) : Rank(seq, S, j) = m
  BY <1>1, PlaceOfRank
<1>4. Keep(seq, S)[k] = seq[i] /\ Keep(seq, S)[m] = seq[j]
  BY <1>2, <1>3, KeptAtRank
<1>5. i \in Nat /\ j \in Nat /\ i \in DOMAIN seq /\ j \in DOMAIN seq
  BY DEF Places
<1>6. ~(j < i)
  <2> SUFFICES ASSUME j < i PROVE FALSE
    OBVIOUS
  <2>1. Rank(seq, S, j) < Rank(seq, S, i)
    BY <1>5, RanksGrow
  <2>2. k \in Int /\ m \in Int
    <3>1. Cardinality(Places(seq, S)) \in Nat
      BY Ranks
    <3> QED
      BY <1>1, <3>1
  <2> QED
    BY <1>2, <1>3, <2>1, <2>2
<1>7. i # j
  <2>1. k # m
    <3>1. Cardinality(Places(seq, S)) \in Nat
      BY Ranks
    <3> QED
      BY <1>1, <3>1
  <2> QED
    BY <1>2, <1>3, <2>1
<1> QED
  BY <1>4, <1>5, <1>6, <1>7
--------------------------------------------------------------------------------
\* One sequence behind another, position by position.
LEMMA Joined ==
  ASSUME NEW A, NEW s \in Seq(A), NEW t \in Seq(A)
  PROVE  /\ s \o t \in Seq(A) /\ Len(s) \in Nat /\ Len(t) \in Nat
         /\ Len(s \o t) = Len(s) + Len(t)
         /\ \A i \in 1..Len(s) : (s \o t)[i] = s[i]
         /\ \A i \in 1..Len(t) : (s \o t)[Len(s) + i] = t[i]
OBVIOUS

\* What FlattenSeq is by definition, for whichever module has it,
Flattened(seqs) ==
  IF Len(seqs) = 0 THEN seqs
  ELSE LET flatten[i \in 1..Len(seqs)] == IF i = 1 THEN seqs[i] ELSE flatten[i - 1] \o seqs[i]
       IN  flatten[Len(seqs)]

\* and what it does: it puts one sequence behind another.
Flattening(seqs, flat) ==
  /\ flat[0] = <<>> /\ flat[Len(seqs)] = Flattened(seqs)
  /\ \A i \in 1..Len(seqs) : flat[i] = flat[i - 1] \o seqs[i]

LEMMA FlatOf ==
  ASSUME NEW A, NEW seqs \in Seq(Seq(A))
  PROVE  \E flat \in [0..Len(seqs) -> Seq(A)] : Flattening(seqs, flat)
<1> DEFINE top == Len(seqs)
           D == 1..top
           V == Seq(A)
           Next(f, i) == IF i = 1 THEN seqs[i] ELSE f[i - 1] \o seqs[i]
           E == [f \in [D -> V] |-> [i \in D |-> Next(f, i)]]
           Flatten == CHOOSE f : f = [i \in D |-> Next(f, i)]
           measure == [i \in D |-> i]
           start == [i \in D |-> <<>>]
<1>1. top \in Nat /\ \A i \in D : seqs[i] \in V
  OBVIOUS
<1> HIDE DEF top, V
<1>2. \A i \in D : i \in Nat /\ (i # 1 => i - 1 \in D /\ i - 1 < i)
  BY <1>1
<1>3. ASSUME NEW f \in [D -> V], NEW i \in D
      PROVE  Next(f, i) \in V
  <2>1. i # 1 => f[i - 1] \in V
    BY <1>2
  <2> QED
    BY <1>1, <2>1 DEF V
<1>4. ASSUME NEW f, NEW g, NEW i \in D, \A j \in D : measure[j] < measure[i] => f[j] = g[j]
      PROVE  Next(f, i) = Next(g, i)
  <2>1. i # 1 => f[i - 1] = g[i - 1]
    BY <1>2, <1>4
  <2> QED
    BY <2>1
<1> HIDE DEF Next
<1>5. Recursive(D, V, top, measure, E)
  <2>1. measure \in [D -> 0..top] /\ start \in [D -> V]
    BY <1>1 DEF V
  <2>2. E \in [[D -> V] -> [D -> V]]
    BY <1>3
  <2> HIDE DEF D, measure, start
  <2>3. \A f, g \in [D -> V], i \in D :
          (\A j \in D : measure[j] < measure[i] => f[j] = g[j]) => E[f][i] = E[g][i]
    BY <1>4
  <2> HIDE DEF E
  <2> QED
    BY <1>1, <2>1, <2>2, <2>3 DEF Recursive
<1>6. PICK f \in [D -> V] : f = [i \in D |-> Next(f, i)]
  <2>1. \E f \in [D -> V] : f = E[f]
    <3> HIDE DEF D, measure, E
    <3> QED
      BY <1>5, Recursion
  <2> HIDE DEF D
  <2> QED
    BY <2>1
<1>7. Flatten = [i \in D |-> Next(Flatten, i)]
  <2> HIDE DEF D
  <2> QED
    BY <1>6
<1> HIDE DEF Flatten
<1>8. \A i \in D : f[i] = Flatten[i]
  <2>1. SameByMeasure(D, measure, f, Flatten)
    <3>1. measure \in [D -> Nat]
      BY <1>1
    <3>2. \A i \in D : (\A j \in D : measure[j] < measure[i] => f[j] = Flatten[j]) => f[i] = Flatten[i]
      <4> HIDE DEF measure, D
      <4> QED
        BY <1>4, <1>6, <1>7
    <3> HIDE DEF measure, D
    <3> QED
      BY <3>1, <3>2 DEF SameByMeasure
  <2> HIDE DEF measure, D
  <2> QED
    BY <2>1, SameThroughout
<1> DEFINE flat == [i \in 0..top |-> IF i = 0 THEN <<>> ELSE f[i]]
<1>9. /\ flat \in [0..top -> V] /\ flat[0] = <<>>
      /\ \A i \in 1..top : flat[i] = f[i] /\ flat[i - 1] = IF i = 1 THEN <<>> ELSE f[i - 1]
  BY <1>1 DEF V
<1> HIDE DEF flat
<1>10. \A i \in 1..top : flat[i] = flat[i - 1] \o seqs[i]
  <2> SUFFICES ASSUME NEW i \in 1..top PROVE flat[i] = flat[i - 1] \o seqs[i]
    OBVIOUS
  <2>1. f[i] = Next(f, i) /\ seqs[i] \in V
    BY <1>1, <1>6
  <2>2. i = 1 => <<>> \o seqs[i] = seqs[i]
    BY <2>1 DEF V
  <2> QED
    BY <1>9, <2>1, <2>2 DEF Next
<1>11. flat[top] = Flattened(seqs)
  <2>1. CASE top = 0
    BY <1>9, <2>1 DEF Flattened, top
  <2>2. CASE top # 0
    <3>1. Flattened(seqs) = Flatten[top]
      BY <2>2 DEF Flattened, Flatten, Next, top
    <3>2. top \in D
      BY <1>1, <2>2
    <3> QED
      BY <1>8, <1>9, <3>1, <3>2
  <2> QED
    BY <2>1, <2>2
<1> QED
  BY <1>9, <1>10, <1>11 DEF Flattening, top, V

\* A part of a sequence.
LEMMA Part ==
  ASSUME NEW A, NEW s \in Seq(A), NEW m \in Nat \ {0}, NEW n \in Nat, n <= Len(s)
  PROVE  /\ SubSeq(s, m, n) \in Seq(A)
         /\ Len(SubSeq(s, m, n)) = IF m <= n THEN n + 1 - m ELSE 0
         /\ \A i \in 1..Len(SubSeq(s, m, n)) : SubSeq(s, m, n)[i] = s[m + i - 1]
<1>1. \A i \in m..n : s[i] \in A
  OBVIOUS
<1>2. /\ SubSeq(s, m, n) \in Seq(A)
      /\ Len(SubSeq(s, m, n)) = IF m <= n THEN n - m + 1 ELSE 0
      /\ \A i \in 1..(n - m + 1) : SubSeq(s, m, n)[i] = s[m + i - 1]
  BY <1>1, SubSeqProperties
<1> DEFINE u == SubSeq(s, m, n)
<1> HIDE DEF u
<1>3. Len(u) = IF m <= n THEN n + 1 - m ELSE 0
  BY <1>2 DEF u
<1>4. \A i \in 1..Len(u) : i \in 1..(n - m + 1)
  BY <1>3
<1> QED
  BY <1>2, <1>3, <1>4 DEF u

\* All is kept if all is in S.
LEMMA KeepOfAll ==
  ASSUME NEW A, NEW seq \in Seq(A), NEW S, \A i \in DOMAIN seq : seq[i] \in S
  PROVE  Keep(seq, S) = seq
<1> DEFINE n == Len(seq)
           kept == Keep(seq, S)
<1>1. n \in Nat /\ DOMAIN seq = 1..n
  OBVIOUS
<1> HIDE DEF n
<1>2. Places(seq, S) = 1..n
  BY <1>1 DEF Places
<1>3. \A i \in 1..n : Rank(seq, S, i) = i
  <2> SUFFICES ASSUME NEW i \in 1..n PROVE Rank(seq, S, i) = i
    OBVIOUS
  <2>1. {j \in Places(seq, S) : j <= i} = 1..i
    BY <1>1, <1>2
  <2>2. Cardinality(1..i) = i
    <3>1. 1 \in Int /\ i \in Int /\ ~(1 > i)
      BY <1>1
    <3>2. Cardinality(1..i) = i - 1 + 1
      BY <3>1, FS_Interval
    <3> QED
      BY <3>1, <3>2
  <2> QED
    BY <2>1, <2>2 DEF Rank
<1>4. Cardinality(1..n) = n
  <2>1. CASE n = 0
    <3>1. 1..n = {}
      BY <2>1
    <3> QED
      BY <2>1, <3>1, FS_EmptySet
  <2>2. CASE n # 0
    <3>1. 1 \in Int /\ n \in Int /\ ~(1 > n)
      BY <1>1, <2>2
    <3>2. Cardinality(1..n) = n - 1 + 1
      BY <3>1, FS_Interval
    <3> QED
      BY <3>1, <3>2
  <2> QED
    BY <2>1, <2>2
<1>5. /\ kept \in Seq(A) /\ Len(kept) = n /\ DOMAIN kept = 1..n
      /\ \A k \in 1..n : \E i \in 1..n : Rank(seq, S, i) = k /\ kept[k] = seq[i]
  <2>1. /\ kept \in Seq(A) /\ Len(kept) = Cardinality(Places(seq, S))
        /\ DOMAIN kept = 1..Cardinality(Places(seq, S))
        /\ \A k \in DOMAIN kept : \E i \in Places(seq, S) : Rank(seq, S, i) = k /\ kept[k] = seq[i]
    BY KeptSequence
  <2> HIDE DEF kept
  <2> QED
    BY <1>2, <1>4, <2>1
<1> HIDE DEF kept
<1>6. \A k \in 1..n : kept[k] = seq[k]
  BY <1>3, <1>5
<1>7. kept = seq
  <2>1. seq \in Seq(A) /\ Len(seq) = n
    BY DEF n
  <2> QED
    BY <1>5, <1>6, <2>1, SeqEqual
<1> QED
  BY <1>7 DEF kept

\* What is flattened has the elements of its parts.
LEMMA FlatIn ==
  ASSUME NEW A, NEW seqs \in Seq(Seq(A))
  PROVE  Flattened(seqs) \in Seq(A)
<1>1. PICK flat \in [0..Len(seqs) -> Seq(A)] : Flattening(seqs, flat)
  BY FlatOf
<1>2. Len(seqs) \in 0..Len(seqs)
  OBVIOUS
<1> QED
  BY <1>1, <1>2 DEF Flattening

\* Sequences of one element each are flattened to the sequence of those.
LEMMA FlatOfSingles ==
  ASSUME NEW A, NEW seq \in Seq(A)
  PROVE  Flattened([i \in DOMAIN seq |-> <<seq[i]>>]) = seq
<1> DEFINE n == Len(seq)
           seqs == [i \in DOMAIN seq |-> <<seq[i]>>]
<1>1. /\ n \in Nat /\ DOMAIN seq = 1..n /\ seqs \in Seq(Seq(A)) /\ Len(seqs) = n
      /\ \A i \in 1..n : seqs[i] = <<seq[i]>> /\ seq[i] \in A
  <2>1. n \in Nat /\ DOMAIN seq = 1..n /\ \A i \in 1..n : seq[i] \in A
    OBVIOUS
  <2> HIDE DEF n
  <2>2. \A i \in 1..n : <<seq[i]>> \in Seq(A)
    BY <2>1
  <2>3. seqs \in [1..n -> Seq(A)] /\ \A i \in 1..n : seqs[i] = <<seq[i]>>
    BY <2>1, <2>2
  <2>4. seqs \in Seq(Seq(A)) /\ Len(seqs) = n
    <3> HIDE DEF seqs
    <3> QED
      BY <2>1, <2>3
  <2> QED
    BY <2>1, <2>3, <2>4
<1>2. PICK flat \in [0..n -> Seq(A)] : Flattening(seqs, flat)
  BY <1>1, FlatOf
<1>3. /\ flat[0] = <<>> /\ flat[n] = Flattened(seqs)
      /\ \A i \in 1..n : flat[i] = flat[i - 1] \o <<seq[i]>>
  BY <1>1, <1>2 DEF Flattening
<1> HIDE DEF n, seqs
<1> DEFINE S == {i \in Nat : i <= n => Len(flat[i]) = i /\ \A k \in 1..i : flat[i][k] = seq[k]}
<1>4. 0 \in S
  BY <1>3
<1>5. ASSUME NEW i \in S PROVE i + 1 \in S
  <2> SUFFICES ASSUME i + 1 <= n
               PROVE  Len(flat[i + 1]) = i + 1 /\ \A k \in 1..(i + 1) : flat[i + 1][k] = seq[k]
    OBVIOUS
  <2>1. i \in Nat /\ i + 1 \in 1..n /\ i \in 0..n /\ (i + 1) - 1 = i
    BY <1>1
  <2> DEFINE u == flat[i]
             x == seq[i + 1]
  <2>2. u \in Seq(A) /\ Len(u) = i /\ (\A k \in 1..i : u[k] = seq[k]) /\ x \in A
    BY <1>1, <1>2, <2>1
  <2>3. flat[i + 1] = u \o <<x>>
    BY <1>3, <2>1
  <2> HIDE DEF u
  <2>4. Len(u \o <<x>>) = i + 1 /\ (u \o <<x>>)[i + 1] = x /\ \A k \in 1..i : (u \o <<x>>)[k] = u[k]
    <3>1. u \in Seq(A) /\ <<x>> \in Seq(A) /\ Len(<<x>>) = 1 /\ <<x>>[1] = x
      BY <2>2
    <3> HIDE DEF x
    <3>2. /\ Len(u \o <<x>>) = Len(u) + Len(<<x>>)
          /\ \A k \in 1..Len(u) : (u \o <<x>>)[k] = u[k]
          /\ \A k \in 1..Len(<<x>>) : (u \o <<x>>)[Len(u) + k] = <<x>>[k]
      BY <3>1, Joined
    <3>3. 1 \in 1..Len(<<x>>)
      BY <3>1
    <3> QED
      BY <2>1, <2>2, <3>1, <3>2, <3>3
  <2> QED
    BY <2>1, <2>2, <2>3, <2>4
<1>6. n \in S
  <2> HIDE DEF S
  <2>1. S \in SUBSET Nat
    BY DEF S
  <2>2. Nat \subseteq S
    BY <1>4, <1>5, <2>1, Induction
  <2> QED
    BY <1>1, <2>2
<1>7. flat[n] \in Seq(A) /\ Len(flat[n]) = n /\ \A k \in 1..n : flat[n][k] = seq[k]
  BY <1>1, <1>2, <1>6
<1>8. flat[n] = seq
  <2>1. seq \in Seq(A) /\ Len(seq) = n
    BY DEF n
  <2> QED
    BY <1>7, <2>1, SeqEqual
<1> QED
  BY <1>3, <1>8 DEF seqs

\* What Total is by definition: a sum that grows by one element at a time.
Totals(seq, sum) ==
  /\ sum[0] = 0 /\ sum[Len(seq)] = Total(seq)
  /\ \A n \in 1..Len(seq) : sum[n] = sum[n - 1] + seq[n]

LEMMA TotalOf ==
  ASSUME NEW seq \in Seq(Int)
  PROVE  \E sum \in [0..Len(seq) -> Int] : Totals(seq, sum)
<1> DEFINE top == Len(seq)
           D == 0..top
           Next(f, n) == IF n = 0 THEN 0 ELSE f[n - 1] + seq[n]
           E == [f \in [D -> Int] |-> [n \in D |-> Next(f, n)]]
           Sum == CHOOSE f : f = [n \in D |-> Next(f, n)]
           measure == [n \in D |-> n]
           start == [n \in D |-> 0]
<1>1. top \in Nat /\ \A n \in 1..top : seq[n] \in Int
  OBVIOUS
<1> HIDE DEF top
<1>2. \A n \in D : n \in Nat /\ (n # 0 => n - 1 \in D /\ n - 1 < n /\ n \in 1..top)
  BY <1>1
<1>3. ASSUME NEW f \in [D -> Int], NEW n \in D
      PROVE  Next(f, n) \in Int
  <2>1. n # 0 => f[n - 1] \in Int /\ seq[n] \in Int
    BY <1>1, <1>2
  <2> QED
    BY <2>1
<1>4. ASSUME NEW f, NEW g, NEW n \in D, \A j \in D : measure[j] < measure[n] => f[j] = g[j]
      PROVE  Next(f, n) = Next(g, n)
  <2>1. n # 0 => f[n - 1] = g[n - 1]
    BY <1>2, <1>4
  <2> QED
    BY <2>1
<1> HIDE DEF Next
<1>5. Recursive(D, Int, top, measure, E)
  <2>1. measure \in [D -> 0..top] /\ start \in [D -> Int]
    BY <1>1
  <2>2. E \in [[D -> Int] -> [D -> Int]]
    BY <1>3
  <2> HIDE DEF D, measure, start
  <2>3. \A f, g \in [D -> Int], n \in D :
          (\A j \in D : measure[j] < measure[n] => f[j] = g[j]) => E[f][n] = E[g][n]
    BY <1>4
  <2> HIDE DEF E
  <2> QED
    BY <1>1, <2>1, <2>2, <2>3 DEF Recursive
<1>6. PICK f \in [D -> Int] : f = [n \in D |-> Next(f, n)]
  <2>1. \E f \in [D -> Int] : f = E[f]
    <3> HIDE DEF D, measure, E
    <3> QED
      BY <1>5, Recursion
  <2> HIDE DEF D
  <2> QED
    BY <2>1
<1>7. Sum = [n \in D |-> Next(Sum, n)]
  <2> HIDE DEF D
  <2> QED
    BY <1>6
<1>8. Total(seq) = Sum[top]
  BY DEF Total, Next, top
<1> HIDE DEF Sum
<1>9. Sum \in [D -> Int]
  <2>1. SameByMeasure(D, measure, f, Sum)
    <3>1. measure \in [D -> Nat]
      BY <1>1
    <3>2. \A n \in D : (\A j \in D : measure[j] < measure[n] => f[j] = Sum[j]) => f[n] = Sum[n]
      <4> HIDE DEF measure, D
      <4> QED
        BY <1>4, <1>6, <1>7
    <3> HIDE DEF measure, D
    <3> QED
      BY <3>1, <3>2 DEF SameByMeasure
  <2>2. \A n \in D : f[n] = Sum[n]
    <3> HIDE DEF measure, D
    <3> QED
      BY <2>1, SameThroughout
  <2> HIDE DEF D, Next
  <2> QED
    BY <1>6, <1>7, <2>2
<1>10. \A n \in D : Sum[n] = Next(Sum, n)
  <2> HIDE DEF D, Next
  <2> QED
    BY <1>7
<1>11. 0 \in D /\ \A n \in 1..top : n \in D /\ n # 0
  BY <1>1
<1>12. Totals(seq, Sum)
  BY <1>8, <1>10, <1>11 DEF Totals, Next, top
<1> QED
  BY <1>9, <1>12 DEF top

\* A sequence without its i-th element.
Drops(seq, i, rest) ==
  /\ Len(seq) = Len(rest) + 1
  /\ \A k \in 1..Len(rest) : rest[k] = IF k < i THEN seq[k] ELSE seq[k + 1]

LEMMA TotalWithout ==
  ASSUME NEW seq \in Seq(Int), NEW i \in 1..Len(seq), NEW rest \in Seq(Int), Drops(seq, i, rest)
  PROVE  Total(rest) \in Int /\ Total(seq) = Total(rest) + seq[i]
<1>1. PICK f \in [0..Len(seq) -> Int] : Totals(seq, f)
  BY TotalOf
<1>2. PICK g \in [0..Len(rest) -> Int] : Totals(rest, g)
  BY TotalOf
<1> DEFINE top == Len(seq)
<1>3. /\ top \in Nat /\ i \in 1..top /\ Len(rest) \in Nat /\ top = Len(rest) + 1 /\ i \in Nat
      /\ \A k \in 1..top : seq[k] \in Int
  BY DEF Drops
<1>4. /\ f[0] = 0 /\ f[top] = Total(seq) /\ g[0] = 0 /\ g[top - 1] = Total(rest)
      /\ \A k \in 1..top : f[k] = f[k - 1] + seq[k]
      /\ \A k \in 1..(top - 1) : g[k] = g[k - 1] + (IF k < i THEN seq[k] ELSE seq[k + 1])
  BY <1>1, <1>2, <1>3 DEF Totals, Drops
<1>5. \A k \in 0..(top - 1) : g[k] \in Int
  BY SMTT(30), <1>2, <1>3
<1> HIDE DEF top
<1> DEFINE S == {k \in Nat : k <= top => f[k] = IF k < i THEN g[k] ELSE g[k - 1] + seq[i]}
<1>6. 0 \in S
  BY <1>3, <1>4
<1>7. ASSUME NEW k \in S PROVE k + 1 \in S
  <2> SUFFICES ASSUME k + 1 <= top
               PROVE  f[k + 1] = IF k + 1 < i THEN g[k + 1] ELSE g[(k + 1) - 1] + seq[i]
    OBVIOUS
  <2>1. k \in Nat /\ k + 1 \in 1..top /\ k <= top /\ (k + 1) - 1 = k /\ k \in 0..(top - 1)
    BY <1>3
  <2>2. f[k + 1] = f[k] + seq[k + 1]
    BY <1>4, <2>1
  <2>3. CASE k + 1 < i
    <3>1. k + 1 \in 1..(top - 1) /\ k < i
      BY <1>3, <2>1, <2>3
    <3>2. g[k + 1] = g[k] + seq[k + 1]
      BY <1>4, <2>1, <2>3, <3>1
    <3> QED
      BY <2>1, <2>2, <2>3, <3>1, <3>2
  <2>4. CASE k + 1 = i
    <3>1. f[k] = g[k]
      BY <1>3, <2>1, <2>4
    <3> QED
      BY <1>3, <2>1, <2>2, <2>4, <3>1
  <2>5. CASE k + 1 > i
    <3>1. k \in 1..(top - 1) /\ ~(k < i) /\ k - 1 \in 0..(top - 1)
      BY <1>3, <2>1, <2>5
    <3>2. g[k] = g[k - 1] + seq[k + 1]
      BY <1>4, <3>1
    <3>3. f[k] = g[k - 1] + seq[i]
      BY <2>1, <3>1
    <3>4. seq[k + 1] \in Int /\ seq[i] \in Int /\ g[k - 1] \in Int
      BY <1>3, <1>5, <2>1, <3>1
    <3>5. (g[k - 1] + seq[i]) + seq[k + 1] = (g[k - 1] + seq[k + 1]) + seq[i]
      BY SMTT(30), <3>4
    <3> QED
      BY <2>1, <2>2, <2>5, <3>2, <3>3, <3>5
  <2> QED
    BY <1>3, <2>1, <2>3, <2>4, <2>5
<1>8. top \in S
  <2> HIDE DEF S
  <2>1. S \in SUBSET Nat
    BY DEF S
  <2>2. Nat \subseteq S
    BY <1>6, <1>7, <2>1, Induction
  <2> QED
    BY <1>3, <2>2
<1>9. f[top] = g[top - 1] + seq[i]
  BY <1>3, <1>8
<1> QED
  BY <1>3, <1>4, <1>5, <1>9

\* Two parts of a sequence joined are the sequence without what is between them.
LEMMA WithoutOne ==
  ASSUME NEW A, NEW seq \in Seq(A), NEW i \in 1..Len(seq)
  PROVE  LET rest == SubSeq(seq, 1, i - 1) \o SubSeq(seq, i + 1, Len(seq))
         IN  rest \in Seq(A) /\ Drops(seq, i, rest)
<1> DEFINE n == Len(seq)
           u == SubSeq(seq, 1, i - 1)
           v == SubSeq(seq, i + 1, n)
<1>1. n \in Nat \ {0} /\ i \in Nat \ {0} /\ i <= n
  OBVIOUS
<1>2. u \in Seq(A) /\ Len(u) = i - 1 /\ \A k \in 1..(i - 1) : u[k] = seq[k]
  OBVIOUS
<1>3. v \in Seq(A) /\ Len(v) = n - i /\ \A k \in 1..(n - i) : v[k] = seq[i + k]
  <2>1. \A k \in 1..(n - i) : v[k] = seq[(i + 1) + k - 1] /\ (i + 1) + k - 1 = i + k
    OBVIOUS
  <2>2. v \in Seq(A) /\ Len(v) = n - i
    OBVIOUS
  <2> QED
    BY <2>1, <2>2
<1> HIDE DEF n, u, v
<1> DEFINE rest == u \o v
<1>4. /\ rest \in Seq(A) /\ Len(rest) = (i - 1) + (n - i)
      /\ \A k \in 1..(i - 1) : rest[k] = u[k]
      /\ \A k \in 1..(n - i) : rest[(i - 1) + k] = v[k]
  <2>1. u \in Seq(A) /\ v \in Seq(A)
    BY <1>2, <1>3
  <2>2. /\ rest \in Seq(A) /\ Len(rest) = Len(u) + Len(v)
        /\ \A k \in 1..Len(u) : rest[k] = u[k]
        /\ \A k \in 1..Len(v) : rest[Len(u) + k] = v[k]
    BY <2>1, Joined
  <2> HIDE DEF rest
  <2> QED
    BY <1>2, <1>3, <2>2
<1> HIDE DEF rest
<1>5. Len(rest) = n - 1
  BY <1>1, <1>4
<1>6. ASSUME NEW k \in 1..(n - 1)
      PROVE  rest[k] = IF k < i THEN seq[k] ELSE seq[k + 1]
  <2>1. CASE k < i
    <3>1. k \in 1..(i - 1)
      BY <1>1, <2>1
    <3> QED
      BY <1>2, <1>4, <2>1, <3>1
  <2>2. CASE ~(k < i)
    <3>1. k - i + 1 \in 1..(n - i) /\ (i - 1) + (k - i + 1) = k /\ i + (k - i + 1) = k + 1
      BY <1>1, <2>2
    <3>2. rest[(i - 1) + (k - i + 1)] = seq[i + (k - i + 1)]
      BY <1>3, <1>4, <3>1
    <3> QED
      BY <2>2, <3>1, <3>2
  <2> QED
    BY <2>1, <2>2
<1>7. Drops(seq, i, rest)
  <2>1. Len(seq) = Len(rest) + 1
    BY <1>1, <1>5 DEF n
  <2> QED
    BY <1>5, <1>6, <2>1 DEF Drops
<1> QED
  BY <1>4, <1>7 DEF rest, u, v, n

\* Division with remainder,
LEMMA Division ==
  ASSUME NEW n \in Int, NEW d \in Nat \ {0}
  PROVE  /\ n \div d \in Int /\ n % d \in 0..(d - 1)
         /\ n = d * (n \div d) + (n % d)
OBVIOUS

\* which says what the quotient is,
LEMMA Quotient ==
  ASSUME NEW d \in Nat \ {0}, NEW p \in Int, NEW q \in Int, p < q
  PROVE  d * p + d <= d * q
<1>1. d * p + d = d * (p + 1)
  OBVIOUS
<1>2. p + 1 \in Int /\ p + 1 <= q
  OBVIOUS
<1>3. \A a, b \in Int : a <= b => d * a <= d * b
  OBVIOUS
<1> QED
  BY <1>1, <1>2, <1>3

LEMMA QuotientIs ==
  ASSUME NEW n \in Int, NEW d \in Nat \ {0}, NEW q \in Int, NEW r \in 0..(d - 1), n = d * q + r
  PROVE  n \div d = q /\ n % d = r
<1> DEFINE p == n \div d
           s == n % d
<1>1. p \in Int /\ s \in 0..(d - 1) /\ n = d * p + s
  BY Division
<1> HIDE DEF p, s
<1>2. d * p \in Int /\ d * q \in Int
  BY <1>1
<1>3. ~(p < q)
  <2>1. p < q => d * p + d <= d * q
    BY <1>1, Quotient
  <2> QED
    BY <1>1, <1>2, <2>1
<1>4. ~(q < p)
  <2>1. q < p => d * q + d <= d * p
    BY <1>1, Quotient
  <2> QED
    BY <1>1, <1>2, <2>1
<1>5. p = q
  BY <1>1, <1>3, <1>4
<1>6. s = r
  BY <1>1, <1>2, <1>5
<1> QED
  BY <1>5, <1>6 DEF p, s
================================================================================
