------------------------- MODULE SubsequencesProofs -------------------------
(* Lemmas about sequences of which only some elements are kept.            *)
EXTENDS Subsequences, TLAPS, FiniteSetTheorems

LEMMA JoinedElements ==
    ASSUME NEW X, NEW p \in Seq(X), NEW q \in Seq(X)
    PROVE  /\ p \o q \in Seq(X) /\ Len(p \o q) = Len(p) + Len(q)
           /\ \A k \in 1..Len(p) : (p \o q)[k] = p[k]
           /\ \A k \in 1..Len(q) : (p \o q)[Len(p) + k] = q[k]
  OBVIOUS

LEMMA SameElements ==
    ASSUME NEW X, NEW p \in Seq(X), NEW q \in Seq(X),
           Len(p) = Len(q), \A k \in 1..Len(p) : p[k] = q[k]
    PROVE  p = q
  <1>1. /\ p = [k \in 1..Len(p) |-> p[k]]
        /\ q = [k \in 1..Len(q) |-> q[k]]
    OBVIOUS
  <1> QED BY <1>1, Zenon

LEMMA IsConcat ==
    ASSUME NEW X, NEW p \in Seq(X), NEW q \in Seq(X), NEW r \in Seq(X),
           Len(r) = Len(p) + Len(q),
           \A k \in 1..Len(p) : r[k] = p[k],
           \A k \in 1..Len(q) : r[Len(p) + k] = q[k]
    PROVE  r = p \o q
  <1>1. /\ p \o q \in Seq(X) /\ Len(p \o q) = Len(p) + Len(q)
        /\ Len(p) \in Nat /\ Len(q) \in Nat
        /\ \A k \in 1..Len(p) : (p \o q)[k] = p[k]
        /\ \A k \in 1..Len(q) : (p \o q)[Len(p) + k] = q[k]
    OBVIOUS
  <1>2. ASSUME NEW k \in 1..(Len(p) + Len(q)) PROVE r[k] = (p \o q)[k]
    <2>1. CASE k \in 1..Len(p)
      BY <1>1, <2>1
    <2>2. CASE k \notin 1..Len(p)
      <3>1. PICK i \in 1..Len(q) : k = Len(p) + i
        <4>1. k - Len(p) \in 1..Len(q) /\ k = Len(p) + (k - Len(p))
          BY <1>1, <2>2
        <4> QED BY <4>1
      <3> QED BY <1>1, <3>1
    <2> QED BY <2>1, <2>2
  <1> QED BY <1>1, <1>2, SameElements

(* Ranks number the places from 1, in their order and without a gap. *)
LEMMA RankFacts ==
    ASSUME NEW N \in Nat, NEW ps \in SUBSET (1..N)
    PROVE  /\ IsFiniteSet(ps) /\ Cardinality(ps) \in Nat
           /\ \A k \in 1..N : Rank(ps, k) \in 0..Cardinality(ps)
           /\ \A k \in ps : Rank(ps, k) \in 1..Cardinality(ps)
           /\ \A i, j \in ps : i < j => Rank(ps, i) < Rank(ps, j)
  <1>1. IsFiniteSet(ps) /\ Cardinality(ps) \in Nat
    <2>1. IsFiniteSet(1..N)
      BY FS_Interval
    <2>2. IsFiniteSet(ps)
      BY <2>1, FS_Subset
    <2> QED BY <2>2, FS_CardinalityType
  <1> DEFINE upto(k) == {j \in ps : j <= k}
  <1>2. ASSUME NEW k \in 1..N
        PROVE  /\ IsFiniteSet(upto(k)) /\ Cardinality(upto(k)) \in 0..Cardinality(ps)
               /\ k \in ps => Cardinality(upto(k)) # 0
    <2>1. upto(k) \in SUBSET ps
      OBVIOUS
    <2>2. IsFiniteSet(upto(k)) /\ Cardinality(upto(k)) \in Nat /\ Cardinality(upto(k)) <= Cardinality(ps)
      BY ONLY <1>1, <2>1, FS_Subset, FS_CardinalityType
    <2>3. k \in ps => upto(k) # {}
      OBVIOUS
    <2>4. k \in ps => Cardinality(upto(k)) # 0
      BY <2>2, <2>3, FS_EmptySet
    <2> QED BY <1>1, <2>2, <2>4
  <1>3. ASSUME NEW i \in ps, NEW j \in ps, i < j
        PROVE  Cardinality(upto(i)) < Cardinality(upto(j))
    <2>1. upto(i) \in SUBSET upto(j) /\ upto(i) # upto(j)
      <3>1. i \in Int /\ j \in Int /\ ps \subseteq Int
        OBVIOUS
      <3>2. j \in upto(j) /\ j \notin upto(i)
        BY <1>3, <3>1
      <3>3. \A k \in ps : k <= i => k <= j
        BY <1>3, <3>1
      <3>4. upto(i) \subseteq upto(j)
        BY <3>3, Zenon
      <3> QED BY <3>2, <3>4, Zenon
    <2>2. IsFiniteSet(upto(j)) /\ Cardinality(upto(i)) \in Nat /\ Cardinality(upto(j)) \in Nat
      BY <1>1, <1>2
    <2> HIDE DEF upto
    <2>3. Cardinality(upto(i)) <= Cardinality(upto(j)) /\ Cardinality(upto(i)) # Cardinality(upto(j))
      BY ONLY <2>1, <2>2, FS_Subset
    <2> QED BY <2>2, <2>3
  <1> QED BY <1>1, <1>2, <1>3 DEF Rank

LEMMA NthFacts ==
    ASSUME NEW N \in Nat, NEW ps \in SUBSET (1..N)
    PROVE  /\ \A n \in 1..Cardinality(ps) : Nth(ps, n) \in ps /\ Rank(ps, Nth(ps, n)) = n
           /\ \A k \in ps : Nth(ps, Rank(ps, k)) = k
  <1> DEFINE c == Cardinality(ps)
             r == [k \in ps |-> Rank(ps, k)]
  <1>1. /\ IsFiniteSet(ps) /\ c \in Nat
        /\ \A k \in ps : Rank(ps, k) \in 1..c
        /\ \A i, j \in ps : i < j => Rank(ps, i) < Rank(ps, j)
    BY RankFacts
  <1>2. \A i, j \in ps : Rank(ps, i) = Rank(ps, j) => i = j
    <2> SUFFICES ASSUME NEW i \in ps, NEW j \in ps, Rank(ps, i) = Rank(ps, j), i # j
                 PROVE  FALSE
      OBVIOUS
    <2>1. i \in Int /\ j \in Int /\ (i < j \/ j < i)
      OBVIOUS
    <2>2. Rank(ps, i) \in Int /\ Rank(ps, j) \in Int
      BY <1>1
    <2> QED BY <1>1, <2>1, <2>2
  <1>3. r \in Injection(ps, 1..c)
    BY <1>1, <1>2 DEF Injection, IsInjective
  <1>4. IsFiniteSet(1..c) /\ Cardinality(1..c) = c
    BY <1>1, FS_Interval
  <1>5. r \in Surjection(ps, 1..c)
    BY ONLY <1>3, <1>4, FS_Injection
  <1>6. \A n \in 1..c : \E k \in ps : Rank(ps, k) = n
    BY <1>5 DEF Surjection
  <1> QED BY <1>1, <1>2, <1>6 DEF Nth


(* Keeping elements of a sequence, and of what is appended to it *)
LEMMA ShiftCardinality ==
    ASSUME NEW T \in SUBSET Int, IsFiniteSet(T), NEW d \in Int
    PROVE  LET s == {t + d : t \in T} IN IsFiniteSet(s) /\ Cardinality(s) = Cardinality(T)
  <1> DEFINE s == {t + d : t \in T}
             f == [t \in T |-> t + d]
  <1>0. \A t, u \in T : t + d = u + d => t = u
    OBVIOUS
  <1>1. f \in Injection(T, s)
    <2>1. f \in [T -> s] /\ DOMAIN f = T /\ \A t \in T : f[t] = t + d
      OBVIOUS
    <2> HIDE DEF f, s
    <2> QED BY <1>0, <2>1 DEF Injection, IsInjective
  <1>2. f \in Surjection(T, s)
    BY DEF Surjection
  <1>3. ExistsBijection(T, s)
    BY <1>1, <1>2 DEF Bijection, ExistsBijection
  <1> QED BY ONLY <1>3, IsFiniteSet(T), FS_Bijection

(* Where the concatenation has the elements, and how they rank there *)
LEMMA RankConcat ==
    ASSUME NEW X, NEW S, NEW a \in Seq(X), NEW b \in Seq(X)
    PROVE  LET ps == Where(a \o b, S)
               pa == Where(a, S)
               pb == Where(b, S) IN
           /\ ps \in SUBSET (1..(Len(a) + Len(b)))
           /\ pa \in SUBSET (1..Len(a)) /\ pb \in SUBSET (1..Len(b))
           /\ Cardinality(ps) = Cardinality(pa) + Cardinality(pb)
           /\ \A k \in pa : k \in ps /\ Rank(ps, k) = Rank(pa, k)
           /\ \A k \in pb : /\ k + Len(a) \in ps
                            /\ Rank(ps, k + Len(a)) = Cardinality(pa) + Rank(pb, k)
  <1> DEFINE ps == Where(a \o b, S)
             pa == Where(a, S)
             pb == Where(b, S)
             m  == Len(a)
             n  == Len(b)
             up(T) == {t + m : t \in T}
  <1>1. m \in Nat /\ n \in Nat /\ DOMAIN a = 1..m /\ DOMAIN b = 1..n
    OBVIOUS
  <1>2. /\ DOMAIN (a \o b) = 1..(m + n)
        /\ \A k \in 1..m : (a \o b)[k] = a[k]
        /\ \A k \in 1..n : (a \o b)[k + m] = b[k]
    OBVIOUS
  <1> HIDE DEF m, n
  <1>3. ps \in SUBSET (1..(m + n)) /\ pa \in SUBSET (1..m) /\ pb \in SUBSET (1..n)
    BY <1>1, <1>2 DEF Where
  <1>4. \A k \in 1..m : k \in ps <=> k \in pa
    BY <1>1, <1>2 DEF Where
  <1>5. \A k \in 1..n : k + m \in ps <=> k \in pb
    BY <1>1, <1>2 DEF Where
  <1> HIDE DEF ps, pa, pb
  <1>6. \A k \in 1..(m + n) : k \in 1..m \/ (k - m \in 1..n /\ k = (k - m) + m)
    BY <1>1
  <1>7. /\ IsFiniteSet(ps) /\ IsFiniteSet(pa) /\ IsFiniteSet(pb)
        /\ Cardinality(ps) \in Nat /\ Cardinality(pa) \in Nat /\ Cardinality(pb) \in Nat
    <2>1. m + n \in Nat
      BY <1>1
    <2> QED BY <1>1, <1>3, <2>1, RankFacts
  <1>8. ASSUME NEW T \in SUBSET pb
        PROVE  /\ IsFiniteSet(pa \cup up(T)) /\ IsFiniteSet(T)
               /\ Cardinality(pa \cup up(T)) = Cardinality(pa) + Cardinality(T)
    <2>0. T \in SUBSET Int
      BY <1>3
    <2>1. IsFiniteSet(T) /\ T \in SUBSET Int
      BY ONLY <1>7, T \in SUBSET pb, <2>0, FS_Subset
    <2>2. IsFiniteSet(up(T)) /\ Cardinality(up(T)) = Cardinality(T)
      <3>1. m \in Int
        BY <1>1
      <3> QED BY ONLY <2>1, <3>1, ShiftCardinality
    <2>3. pa \cap up(T) = {}
      BY <1>1, <1>3
    <2>4. Cardinality(T) \in Nat
      BY <2>1, FS_CardinalityType
    <2> HIDE DEF up
    <2>5. /\ IsFiniteSet(pa \cup up(T))
          /\ Cardinality(pa \cup up(T)) = Cardinality(pa) + Cardinality(T) - Cardinality({})
      BY ONLY <1>7, <2>2, <2>3, FS_Union
    <2> QED BY <1>7, <2>1, <2>4, <2>5, FS_EmptySet
  <1>9. ps = pa \cup up(pb)
    <2>1. pa \subseteq ps
      BY <1>3, <1>4
    <2>2. up(pb) \subseteq ps
      BY <1>3, <1>5
    <2>3. ASSUME NEW k \in ps PROVE k \in pa \cup up(pb)
      <3>1. CASE k \in 1..m
        BY <1>4, <3>1
      <3>2. CASE k - m \in 1..n /\ k = (k - m) + m
        BY <1>5, <3>2
      <3> QED BY <1>3, <1>6, <3>1, <3>2
    <2> QED BY <2>1, <2>2, <2>3
  <1>10. Cardinality(ps) = Cardinality(pa) + Cardinality(pb)
    BY <1>8, <1>9
  <1>11. ASSUME NEW k \in pa PROVE k \in ps /\ Rank(ps, k) = Rank(pa, k)
    <2>1. {j \in ps : j <= k} = {j \in pa : j <= k}
      BY <1>1, <1>3, <1>9
    <2> QED BY <1>9, <2>1 DEF Rank
  <1>12. ASSUME NEW k \in pb
         PROVE  k + m \in ps /\ Rank(ps, k + m) = Cardinality(pa) + Rank(pb, k)
    <2> DEFINE T == {j \in pb : j <= k}
    <2>1. {j \in ps : j <= k + m} = pa \cup up(T)
      <3>1. \A j \in pa : j <= k + m
        BY <1>1, <1>3
      <3>2. \A j \in pb : j + m <= k + m <=> j <= k
        BY <1>1, <1>3
      <3> QED BY <1>9, <3>1, <3>2
    <2>2. T \in SUBSET pb
      OBVIOUS
    <2> HIDE DEF T
    <2>3. Cardinality(pa \cup up(T)) = Cardinality(pa) + Cardinality(T)
      BY <1>8, <2>2
    <2> QED BY <1>9, <2>1, <2>3 DEF Rank, T
  <1> QED BY <1>3, <1>10, <1>11, <1>12 DEF ps, pa, pb, m, n

LEMMA KeepingType ==
    ASSUME NEW X, NEW S, NEW q \in Seq(X)
    PROVE  /\ Keeping(q, S) \in Seq(X \cap S)
           /\ Len(Keeping(q, S)) = Cardinality(Where(q, S))
           /\ Len(Keeping(q, S)) \in Nat
  <1> DEFINE ps == Where(q, S)
             c  == Cardinality(ps)
  <1>1. Len(q) \in Nat /\ ps \in SUBSET (1..Len(q)) /\ \A k \in ps : q[k] \in X \cap S
    BY DEF Where
  <1>2. c \in Nat
    BY <1>1, RankFacts
  <1>3. \A n \in 1..c : q[Nth(ps, n)] \in X \cap S
    BY <1>1, NthFacts
  <1> HIDE DEF ps
  <1>4. Keeping(q, S) = [n \in 1..c |-> q[Nth(ps, n)]]
    BY DEF Keeping, Chosen, ps
  <1> HIDE DEF c
  <1>5. Keeping(q, S) \in Seq(X \cap S) /\ Len(Keeping(q, S)) = c
    BY <1>2, <1>3, <1>4
  <1> QED BY <1>2, <1>5 DEF c, ps

LEMMA KeepingConcat ==
    ASSUME NEW X, NEW S, NEW a \in Seq(X), NEW b \in Seq(X)
    PROVE  Keeping(a \o b, S) = Keeping(a, S) \o Keeping(b, S)
  <1> DEFINE ps == Where(a \o b, S)
             pa == Where(a, S)
             pb == Where(b, S)
             ca == Cardinality(pa)
             cb == Cardinality(pb)
             kc == Keeping(a \o b, S)
             ka == Keeping(a, S)
             kb == Keeping(b, S)
  <1>0. /\ Len(a) \in Nat /\ Len(b) \in Nat /\ Len(a) + Len(b) \in Nat
        /\ \A k \in 1..Len(a) : (a \o b)[k] = a[k]
        /\ \A k \in 1..Len(b) : (a \o b)[k + Len(a)] = b[k]
    OBVIOUS
  <1>1. /\ ps \in SUBSET (1..(Len(a) + Len(b)))
        /\ pa \in SUBSET (1..Len(a)) /\ pb \in SUBSET (1..Len(b))
        /\ Cardinality(ps) = ca + cb
        /\ \A k \in pa : k \in ps /\ Rank(ps, k) = Rank(pa, k)
        /\ \A k \in pb : k + Len(a) \in ps /\ Rank(ps, k + Len(a)) = ca + Rank(pb, k)
    BY RankConcat
  <1>2. /\ kc = [n \in 1..Cardinality(ps) |-> (a \o b)[Nth(ps, n)]]
        /\ ka = [n \in 1..ca |-> a[Nth(pa, n)]]
        /\ kb = [n \in 1..cb |-> b[Nth(pb, n)]]
    BY DEF Keeping, Chosen
  <1>3. /\ ka \in Seq(X \cap S) /\ Len(ka) = ca /\ ca \in Nat
        /\ kb \in Seq(X \cap S) /\ Len(kb) = cb /\ cb \in Nat
    BY KeepingType
  <1>4. /\ kc \in Seq(X \cap S) /\ Len(kc) = ca + cb
    <2>1. a \o b \in Seq(X)
      OBVIOUS
    <2> QED BY <1>1, <2>1, KeepingType
  <1> HIDE DEF ps, pa, pb, ca, cb, kc, ka, kb
  <1>5. ASSUME NEW n \in 1..ca PROVE kc[n] = ka[n]
    <2> DEFINE k == Nth(pa, n)
    <2>1. k \in pa /\ Rank(pa, k) = n
      BY <1>0, <1>1, NthFacts DEF ca
    <2> HIDE DEF k
    <2>2. k \in ps /\ Rank(ps, k) = n /\ k \in 1..Len(a)
      BY <1>1, <2>1
    <2>3. Nth(ps, n) = k
      BY <1>0, <1>1, <2>2, NthFacts
    <2>4. kc[n] = (a \o b)[k]
      <3>1. n \in 1..Cardinality(ps)
        BY <1>1, <1>3
      <3> QED BY <1>2, <2>3, <3>1
    <2>5. ka[n] = a[k]
      BY <1>2 DEF k
    <2> QED BY <1>0, <2>2, <2>4, <2>5
  <1>6. ASSUME NEW n \in 1..cb PROVE kc[ca + n] = kb[n]
    <2> DEFINE k == Nth(pb, n)
    <2>1. k \in pb /\ Rank(pb, k) = n
      BY <1>0, <1>1, NthFacts DEF cb
    <2> HIDE DEF k
    <2>2. k + Len(a) \in ps /\ Rank(ps, k + Len(a)) = ca + n /\ k \in 1..Len(b)
      BY <1>1, <2>1
    <2>3. Nth(ps, ca + n) = k + Len(a)
      BY <1>0, <1>1, <2>2, NthFacts
    <2>4. kc[ca + n] = (a \o b)[k + Len(a)]
      <3>1. ca + n \in 1..Cardinality(ps)
        BY <1>1, <1>3
      <3> QED BY <1>2, <2>3, <3>1
    <2>5. kb[n] = b[k]
      BY <1>2 DEF k
    <2> QED BY <1>0, <2>2, <2>4, <2>5
  <1>7. \A n \in 1..(ca + cb) : n \in 1..ca \/ (n - ca \in 1..cb /\ n = ca + (n - ca))
    BY <1>3
  <1>8. \A n \in 1..(ca + cb) : kc[n] = (ka \o kb)[n]
    <2> SUFFICES ASSUME NEW n \in 1..(ca + cb) PROVE kc[n] = (ka \o kb)[n]
      OBVIOUS
    <2>1. CASE n \in 1..ca
      BY <1>3, <1>5, <2>1
    <2>2. CASE n - ca \in 1..cb /\ n = ca + (n - ca)
      <3>1. PICK i \in 1..cb : n = ca + i
        BY <2>2
      <3>2. (ka \o kb)[ca + i] = kb[i]
        BY <1>3, <3>1
      <3> QED BY <1>6, <3>1, <3>2
    <2> QED BY <1>7, <2>1, <2>2
  <1>9. kc = ka \o kb
    <2>1. ka \o kb \in Seq(X \cap S) /\ Len(ka \o kb) = ca + cb
      BY ONLY <1>3, JoinedElements
    <2> QED BY ONLY <1>4, <1>8, <2>1, SameElements
  <1> QED BY <1>9 DEF kc, ka, kb

LEMMA KeepingOne ==
    ASSUME NEW X, NEW S, NEW e \in X
    PROVE  /\ Keeping(<<e>>, S) = IF e \in S THEN <<e>> ELSE <<>>
           /\ Keeping(<<>>, S) = <<>>
  <1>1. Where(<<>>, S) = {}
    BY DEF Where
  <1>2. Keeping(<<>>, S) = <<>>
    <2>1. <<>> \in Seq(X)
      OBVIOUS
    <2>2. Keeping(<<>>, S) \in Seq(X \cap S) /\ Len(Keeping(<<>>, S)) = 0
      BY ONLY <1>1, <2>1, FS_EmptySet, KeepingType
    <2> QED BY ONLY <2>2
  <1>3. CASE e \in S
    <2>1. Where(<<e>>, S) = {1}
      BY <1>3 DEF Where
    <2>2. Cardinality({1}) = 1
      BY FS_Singleton
    <2>3. {1} \in SUBSET (1..1)
      OBVIOUS
    <2>4. Nth({1}, 1) \in {1}
      BY ONLY <2>2, <2>3, NthFacts
    <2>5. Keeping(<<e>>, S) = [n \in 1..1 |-> <<e>>[Nth({1}, n)]]
      BY <2>1, <2>2 DEF Keeping, Chosen
    <2>6. Keeping(<<e>>, S) = [n \in 1..1 |-> e]
      BY <2>4, <2>5
    <2> QED BY <1>2, <1>3, <2>6
  <1>4. CASE e \notin S
    <2>1. Where(<<e>>, S) = {}
      BY <1>4 DEF Where
    <2>2. Keeping(<<e>>, S) = <<>>
      <3>1. <<e>> \in Seq(X)
        OBVIOUS
      <3>2. Keeping(<<e>>, S) \in Seq(X \cap S) /\ Len(Keeping(<<e>>, S)) = 0
        BY ONLY <2>1, <3>1, FS_EmptySet, KeepingType
      <3> QED BY ONLY <3>2
    <2> QED BY <1>2, <1>4, <2>2
  <1> QED BY <1>3, <1>4

LEMMA KeepingAppend ==
    ASSUME NEW X, NEW S, NEW q \in Seq(X), NEW e \in X
    PROVE  Keeping(Append(q, e), S) =
               IF e \in S THEN Append(Keeping(q, S), e) ELSE Keeping(q, S)
  <1>1. Append(q, e) = q \o <<e>> /\ <<e>> \in Seq(X)
    OBVIOUS
  <1>2. Keeping(Append(q, e), S) = Keeping(q, S) \o Keeping(<<e>>, S)
    BY <1>1, KeepingConcat
  <1>3. Keeping(q, S) \in Seq(X \cap S)
    BY KeepingType
  <1>4. Keeping(<<e>>, S) = IF e \in S THEN <<e>> ELSE <<>>
    BY KeepingOne
  <1>5. CASE e \in S
    <2>1. Keeping(q, S) \o <<e>> = Append(Keeping(q, S), e)
      BY <1>3
    <2> QED BY <1>2, <1>4, <1>5, <2>1
  <1>6. CASE e \notin S
    <2>1. Keeping(q, S) \o <<>> = Keeping(q, S)
      BY <1>3
    <2> QED BY <1>2, <1>4, <1>6, <2>1
  <1> QED BY <1>5, <1>6
=============================================================================
