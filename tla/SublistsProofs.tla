--------------------------- MODULE SublistsProofs ---------------------------
(* What Keep keeps, and that what is appended or removed is all that changes *)
(* of a sequence.                                                            *)
EXTENDS Sublists, SequencesExt, FunctionTheorems, FiniteSetTheorems, SequenceTheorems, TLAPS

\* Every rank up to the number of elements is some element's, for a set of
\* places: counting up to an element is injective, so it reaches every number.
LEMMA Ranks ==
  ASSUME NEW n \in Nat, NEW I \in SUBSET (1 .. n), NEW k \in 1 .. Cardinality(I)
  PROVE  \E i \in I : Cardinality({j \in I : j <= i}) = k
  <1> DEFINE upto(i) == {j \in I : j <= i}
             rank == [i \in I |-> Cardinality(upto(i))]
             N == 1 .. Cardinality(I)
  <1>1. IsFiniteSet(I) /\ Cardinality(I) \in Nat
    <2>1. IsFiniteSet(1 .. n)
      BY FS_Interval
    <2> QED BY <2>1, FS_Subset, FS_CardinalityType
  <1>2. ASSUME NEW T \in SUBSET I
        PROVE  IsFiniteSet(T) /\ Cardinality(T) \in Nat /\ Cardinality(T) <= Cardinality(I)
    BY <1>1, FS_Subset, FS_CardinalityType
  <1>3. ASSUME NEW i \in I PROVE rank[i] \in N
    <2>1. upto(i) \in SUBSET I /\ i \in upto(i)
      BY <1>1
    <2>2. Cardinality(upto(i)) # 0
      BY <1>2, <2>1, FS_EmptySet
    <2> QED BY <1>2, <2>1, <2>2
  <1>4. ASSUME NEW i \in I, NEW h \in I, i < h PROVE rank[i] # rank[h]
    <2>1. upto(i) \in SUBSET upto(h) /\ h \in upto(h) /\ h \notin upto(i)
      <3>1. i \in Nat /\ h \in Nat /\ \A j \in I : j \in Nat
        OBVIOUS
      <3>2. \A j \in upto(i) : j \in I /\ j <= h
        BY <1>4, <3>1
      <3>3. h \in upto(h)
        BY <3>1
      <3>4. h \notin upto(i)
        BY <1>4, <3>1
      <3> QED BY <3>2, <3>3, <3>4
    <2>2. upto(h) \in SUBSET I
      OBVIOUS
    <2>3. IsFiniteSet(upto(h)) /\ upto(i) # upto(h)
      BY <1>2, <2>1, <2>2
    <2>4. Cardinality(upto(i)) < Cardinality(upto(h))
      BY <2>1, <2>3, FS_Subset, FS_CardinalityType
    <2>5. Cardinality(upto(i)) \in Nat /\ Cardinality(upto(h)) \in Nat
      BY <1>2, <2>2
    <2> HIDE DEF upto
    <2> QED BY <2>4, <2>5
  <1>5. rank \in [I -> N]
    BY <1>3
  <1>6. rank \in Injection(I, N)
    <2>1. \A i, h \in I : rank[i] = rank[h] => i = h
      BY <1>4
    <2> QED BY <1>5, <2>1, Fun_IsInj
  <1>7. IsFiniteSet(N) /\ Cardinality(N) = Cardinality(I)
    BY <1>1, FS_Interval
  <1>8. rank \in Surjection(I, N)
    BY <1>6, <1>7, FS_Injection
  <1>9. PICK i \in I : rank[i] = k
    <2>1. \A m \in N : \E i \in I : rank[i] = m
      <3> HIDE DEF rank, N
      <3> QED BY <1>8, Fun_SurjectionProperties
    <2> QED BY <2>1
  <1> QED BY <1>9

\* Keep keeps exactly the elements of A, and none twice that was not there twice.
LEMMA KeepProperties ==
  ASSUME NEW S, NEW s \in Seq(S), NEW A
  PROVE  /\ Keep(s, A) \in Seq(S)
         /\ Range(Keep(s, A)) = Range(s) \cap A
         /\ IsInjective(s) => IsInjective(Keep(s, A))
         /\ Keep(s, A) = <<>> <=> Range(s) \cap A = {}
  <1> DEFINE I == {i \in DOMAIN s : s[i] \in A}
             upto(i) == Cardinality({j \in I : j <= i})
             nth(k) == CHOOSE i \in I : upto(i) = k
             N == Cardinality(I)
             t == Keep(s, A)
  <1>1. /\ Len(s) \in Nat /\ DOMAIN s = 1 .. Len(s) /\ I \in SUBSET (1 .. Len(s))
        /\ \A i \in 1 .. Len(s) : s[i] \in S
    OBVIOUS
  <1>2. IsFiniteSet(I) /\ N \in Nat
    <2>1. IsFiniteSet(1 .. Len(s))
      BY <1>1, FS_Interval
    <2> QED BY <1>1, <2>1, FS_Subset, FS_CardinalityType
  <1>3. \A k \in 1 .. N : \E i \in I : upto(i) = k
    BY <1>1, Ranks
  <1>4. \A k \in 1 .. N : nth(k) \in I /\ upto(nth(k)) = k
    BY <1>3
  <1>5. t = [k \in 1 .. N |-> s[nth(k)]]
    BY DEF Keep
  <1>6. \A i \in I : upto(i) \in 1 .. N
    <2> TAKE i \in I
    <2> DEFINE T == {j \in I : j <= i}
    <2>1. T \in SUBSET I /\ i \in T
      BY <1>1
    <2>2. IsFiniteSet(T) /\ Cardinality(T) \in Nat /\ Cardinality(T) <= N
      BY <1>2, <2>1, FS_Subset, FS_CardinalityType
    <2>3. Cardinality(T) # 0
      BY <2>1, <2>2, FS_EmptySet
    <2> HIDE DEF T, N
    <2> QED BY <1>2, <2>2, <2>3 DEF T
  <1>7. \A i, h \in I : upto(i) = upto(h) => i = h
    <2>1. ASSUME NEW i \in I, NEW h \in I, i < h PROVE upto(i) # upto(h)
      <3> DEFINE T == {j \in I : j <= i}
                 U == {j \in I : j <= h}
      <3>1. \A j \in I : j \in Nat
        BY <1>1
      <3>2. T \in SUBSET U /\ U \in SUBSET I /\ h \in U /\ h \notin T
        BY <2>1, <3>1
      <3>3. IsFiniteSet(U) /\ Cardinality(T) # Cardinality(U)
        BY <1>2, <3>2, FS_Subset
      <3> QED BY <3>3
    <2>2. \A i, h \in I : i < h \/ h < i \/ i = h
      BY <1>1
    <2> HIDE DEF upto
    <2> QED BY <2>1, <2>2
  <1>8. \A i \in I : nth(upto(i)) = i
    BY <1>4, <1>6, <1>7
  <1> HIDE DEF nth, upto
  <1>9. \A k \in 1 .. N : nth(k) \in DOMAIN s /\ s[nth(k)] \in A
    BY <1>4
  <1>10. t \in Seq(S) /\ Len(t) = N /\ DOMAIN t = 1 .. N
    <2>1. t \in [1 .. N -> S]
      BY <1>1, <1>5, <1>9
    <2> HIDE DEF t, N
    <2> QED BY <1>2, <2>1
  <1>11. Range(t) = Range(s) \cap A
    <2>1. Range(t) \subseteq Range(s) \cap A
      BY <1>5, <1>9, <1>10 DEF Range
    <2>2. ASSUME NEW i \in DOMAIN s, s[i] \in A PROVE s[i] \in Range(t)
      <3>1. i \in I /\ upto(i) \in 1 .. N /\ t[upto(i)] = s[i]
        BY <1>5, <1>6, <1>8, <2>2
      <3> HIDE DEF t, N
      <3> QED BY <1>10, <3>1 DEF Range
    <2> HIDE DEF t
    <2> QED BY <2>1, <2>2 DEF Range
  <1>12. ASSUME IsInjective(s) PROVE IsInjective(t)
    <2>1. \A k, l \in 1 .. N : t[k] = t[l] => nth(k) = nth(l)
      BY <1>5, <1>9, <1>12 DEF IsInjective
    <2>2. \A k, l \in 1 .. N : nth(k) = nth(l) => k = l
      BY <1>4
    <2> HIDE DEF t, N
    <2> QED BY <1>10, <2>1, <2>2 DEF IsInjective
  <1>13. t = <<>> <=> Range(t) = {}
    <2> HIDE DEF t, N
    <2>1. CASE N = 0
      <3>1. DOMAIN t = {} /\ t = <<>>
        BY <1>10, <2>1
      <3> QED BY <3>1 DEF Range
    <2>2. CASE N # 0
      <3>1. 1 \in DOMAIN t /\ t # <<>>
        BY <1>2, <1>10, <2>2
      <3>2. t[1] \in Range(t)
        BY <3>1 DEF Range
      <3> QED BY <3>1, <3>2
    <2> QED BY <2>1, <2>2
  <1> HIDE DEF t
  <1>14. t = <<>> <=> Range(s) \cap A = {}
    BY <1>11, <1>13
  <1>15. /\ t \in Seq(S) /\ Range(t) = Range(s) \cap A
         /\ IsInjective(s) => IsInjective(t)
    BY <1>10, <1>11, <1>12
  <1> QED BY <1>14, <1>15 DEF t

\* Keep keeps the order.
LEMMA KeepOrder ==
  ASSUME NEW S, NEW s \in Seq(S), NEW A,
         NEW k \in DOMAIN Keep(s, A), NEW l \in DOMAIN Keep(s, A), k < l
  PROVE  \E i, j \in DOMAIN s : i < j /\ s[i] = Keep(s, A)[k] /\ s[j] = Keep(s, A)[l]
  <1> DEFINE I == {i \in DOMAIN s : s[i] \in A}
             below(i) == {j \in I : j <= i}
             nth(n) == CHOOSE i \in I : Cardinality(below(i)) = n
  <1>1. I \in SUBSET (1 .. Len(s)) /\ Len(s) \in Nat
    OBVIOUS
  <1>2. IsFiniteSet(I) /\ Cardinality(I) \in Nat
    <2>1. IsFiniteSet(1 .. Len(s))
      BY <1>1, FS_Interval
    <2> QED BY <1>1, <2>1, FS_Subset, FS_CardinalityType
  <1>3. Keep(s, A) = [n \in 1 .. Cardinality(I) |-> s[nth(n)]]
    BY DEF Keep
  <1>4. k \in 1 .. Cardinality(I) /\ l \in 1 .. Cardinality(I)
    <2> HIDE DEF I, nth
    <2> QED BY <1>3
  <1>5. \A n \in 1 .. Cardinality(I) : \E i \in I : Cardinality(below(i)) = n
    BY <1>1, Ranks
  <1>6. \A n \in 1 .. Cardinality(I) : nth(n) \in I /\ Cardinality(below(nth(n))) = n
    BY <1>5
  <1> HIDE DEF nth
  <1>7. nth(k) \in I /\ nth(l) \in I
    <2> HIDE DEF I, below
    <2> QED BY <1>4, <1>6
  <1>8. nth(k) \in Nat /\ nth(l) \in Nat /\ \A j \in I : j \in Nat
    <2>1. \A j \in I : j \in Nat
      OBVIOUS
    <2> HIDE DEF I
    <2> QED BY <1>7, <2>1
  <1>9. ASSUME nth(l) <= nth(k) PROVE FALSE
    <2>1. below(nth(l)) \in SUBSET below(nth(k)) /\ below(nth(k)) \in SUBSET I
      <3> HIDE DEF I
      <3> QED BY <1>9, <1>8
    <2>2. IsFiniteSet(below(nth(k)))
      BY <1>2, <2>1, FS_Subset
    <2>3. Cardinality(below(nth(l))) <= Cardinality(below(nth(k)))
      BY <2>1, <2>2, FS_Subset
    <2> HIDE DEF below, I
    <2>4. Cardinality(below(nth(l))) = l /\ Cardinality(below(nth(k))) = k
      BY <1>4, <1>6
    <2>5. k \in Nat /\ l \in Nat
      BY <1>2, <1>4
    <2> QED BY <2>3, <2>4, <2>5
  <1>10. nth(k) \in DOMAIN s /\ nth(l) \in DOMAIN s /\ nth(k) < nth(l)
    BY <1>9, <1>7, <1>8
  <1>11. Keep(s, A)[k] = s[nth(k)] /\ Keep(s, A)[l] = s[nth(l)]
    BY <1>3, <1>4
  <1> QED BY <1>10, <1>11

\* Nothing but the removed element leaves a sequence.
LEMMA RemoveAtProperties ==
  ASSUME NEW S, NEW s \in Seq(S), NEW i \in DOMAIN s
  PROVE  /\ RemoveAt(s, i) \in Seq(S) /\ Len(RemoveAt(s, i)) = Len(s) - 1
         /\ Range(RemoveAt(s, i)) \subseteq Range(s)
         /\ \A q \in Range(s) : q # s[i] => q \in Range(RemoveAt(s, i))
         /\ IsInjective(s) => /\ IsInjective(RemoveAt(s, i))
                              /\ Range(RemoveAt(s, i)) = Range(s) \ {s[i]}
  <1> DEFINE t == RemoveAt(s, i)
             front == SubSeq(s, 1, i - 1)
             back == SubSeq(s, i + 1, Len(s))
  <1>1. i \in 1 .. Len(s) /\ DOMAIN s = 1 .. Len(s)
    OBVIOUS
  <1>2. t = front \o back
    BY DEF RemoveAt
  <1>3. /\ front \in Seq(S) /\ Len(front) = i - 1
        /\ \A j \in 1 .. i - 1 : front[j] = s[j]
    BY <1>1
  <1>4. /\ back \in Seq(S) /\ Len(back) = Len(s) - i
        /\ \A j \in 1 .. Len(s) - i : back[j] = s[i + j]
    BY <1>1
  <1> HIDE DEF front, back, t
  <1>5. t \in Seq(S) /\ Len(t) = Len(s) - 1
    <2>1. t \in Seq(S) /\ Len(t) = Len(front) + Len(back)
      BY <1>2, <1>3, <1>4, ConcatProperties
    <2>2. (i - 1) + (Len(s) - i) = Len(s) - 1
      BY <1>1
    <2> QED BY <1>3, <1>4, <2>1, <2>2
  <1>6. \A j \in 1 .. Len(s) - 1 : t[j] = IF j < i THEN s[j] ELSE s[j + 1]
    <2>1. \A j \in 1 .. Len(s) - 1 : t[j] = IF j < i THEN front[j] ELSE back[j - (i - 1)]
      BY <1>1, <1>2, <1>3, <1>4
    <2>2. ASSUME NEW j \in 1 .. Len(s) - 1, ~(j < i)
          PROVE  back[j - (i - 1)] = s[j + 1]
      <3>1. j - (i - 1) \in 1 .. Len(s) - i /\ i + (j - (i - 1)) = j + 1
        BY <1>1, <2>2
      <3> QED BY <1>4, <3>1
    <2>3. \A j \in 1 .. Len(s) - 1 : j < i => j \in 1 .. i - 1
      BY <1>1
    <2> QED BY <1>3, <2>1, <2>2, <2>3
  <1>7. DOMAIN t = 1 .. Len(s) - 1
    BY <1>5
  <1>8. Range(t) \subseteq Range(s)
    BY <1>1, <1>6, <1>7 DEF Range
  <1>9. ASSUME NEW j \in 1 .. Len(s), j # i PROVE s[j] \in Range(t)
    <2>1. CASE j < i
      BY <1>1, <1>6, <1>7, <2>1 DEF Range
    <2>2. CASE j > i
      <3>1. j - 1 \in 1 .. Len(s) - 1 /\ t[j - 1] = s[j]
        BY <1>1, <1>6, <2>2
      <3> QED BY <1>7, <3>1 DEF Range
    <2> QED BY <1>1, <1>9, <2>1, <2>2
  <1>10. \A q \in Range(s) : q # s[i] => q \in Range(t)
    BY <1>1, <1>9 DEF Range
  <1>11. ASSUME IsInjective(s) PROVE IsInjective(t) /\ Range(t) = Range(s) \ {s[i]}
    <2>1. \A j, k \in 1 .. Len(s) : s[j] = s[k] => j = k
      BY <1>1, <1>11 DEF IsInjective
    <2>2. \A j \in 1 .. Len(s) - 1 : j \in 1 .. Len(s) /\ j + 1 \in 1 .. Len(s)
      BY <1>1
    <2>3. \A j, k \in 1 .. Len(s) - 1 : t[j] = t[k] => j = k
      BY <1>1, <1>6, <2>1, <2>2
    <2>4. \A j \in 1 .. Len(s) - 1 : t[j] # s[i]
      BY <1>1, <1>6, <2>1, <2>2
    <2> QED BY <1>7, <1>8, <1>10, <2>3, <2>4 DEF IsInjective, Range
  <1> QED BY <1>5, <1>8, <1>10, <1>11 DEF t

\* A sequence that others are appended to.
LEMMA ConcatRange ==
  ASSUME NEW S, NEW s \in Seq(S), NEW t \in Seq(S)
  PROVE  /\ s \o t \in Seq(S) /\ Range(s \o t) = Range(s) \cup Range(t)
         /\ IsInjective(s) /\ IsInjective(t) /\ Range(s) \cap Range(t) = {}
                => IsInjective(s \o t)
  <1> DEFINE u == s \o t
  <1>1. /\ u \in Seq(S) /\ DOMAIN u = 1 .. Len(s) + Len(t)
        /\ DOMAIN s = 1 .. Len(s) /\ DOMAIN t = 1 .. Len(t)
        /\ Len(s) \in Nat /\ Len(t) \in Nat
    OBVIOUS
  <1>2. \A i \in 1 .. Len(s) + Len(t) :
            u[i] = IF i <= Len(s) THEN s[i] ELSE t[i - Len(s)]
    OBVIOUS
  <1>3. \A i \in 1 .. Len(t) : u[Len(s) + i] = t[i]
    BY <1>1, <1>2
  <1>4. \A i \in 1 .. Len(s) : u[i] = s[i]
    BY <1>1, <1>2
  <1> HIDE DEF u
  <1>5. \A i \in 1 .. Len(s) + Len(t) : \/ i \in 1 .. Len(s)
                                        \/ i > Len(s) /\ i - Len(s) \in 1 .. Len(t)
    BY <1>1
  <1>6. Range(u) \subseteq Range(s) \cup Range(t)
    BY <1>1, <1>2, <1>5 DEF Range
  <1>7. Range(s) \subseteq Range(u)
    BY <1>1, <1>4 DEF Range
  <1>8. Range(t) \subseteq Range(u)
    <2>1. \A i \in 1 .. Len(t) : Len(s) + i \in 1 .. Len(s) + Len(t)
      BY <1>1
    <2> QED BY <1>1, <1>3, <2>1 DEF Range
  <1>9. ASSUME IsInjective(s), IsInjective(t), Range(s) \cap Range(t) = {}
        PROVE  IsInjective(u)
    <2>1. \A i \in 1 .. Len(s), j \in 1 .. Len(t) : s[i] # t[j]
      BY <1>1, <1>9 DEF Range
    <2>2. ASSUME NEW i \in 1 .. Len(s) + Len(t), NEW j \in 1 .. Len(s) + Len(t), u[i] = u[j]
          PROVE  i = j
      <3>1. CASE i \in 1 .. Len(s) /\ j \in 1 .. Len(s)
        BY <1>1, <1>4, <1>9, <2>2, <3>1 DEF IsInjective
      <3>2. CASE i > Len(s) /\ j > Len(s)
        <4>1. t[i - Len(s)] = t[j - Len(s)]
          BY <1>1, <1>2, <2>2, <3>2
        <4>2. i - Len(s) \in DOMAIN t /\ j - Len(s) \in DOMAIN t
          BY <1>1, <3>2
        <4>3. i - Len(s) = j - Len(s)
          BY <1>9, <4>1, <4>2 DEF IsInjective
        <4> QED BY <1>1, <4>3
      <3>3. CASE i \in 1 .. Len(s) /\ j > Len(s)
        BY <1>1, <1>2, <1>5, <2>1, <2>2, <3>3
      <3>4. CASE j \in 1 .. Len(s) /\ i > Len(s)
        BY <1>1, <1>2, <1>5, <2>1, <2>2, <3>4
      <3> QED BY <1>5, <3>1, <3>2, <3>3, <3>4
    <2> QED BY <1>1, <2>2 DEF IsInjective
  <1> QED BY <1>1, <1>6, <1>7, <1>8, <1>9 DEF u

\* A sequence with one more element at its end.
LEMMA AppendRange ==
  ASSUME NEW S, NEW s \in Seq(S), NEW x \in S
  PROVE  /\ Append(s, x) \in Seq(S) /\ Range(Append(s, x)) = Range(s) \cup {x}
         /\ IsInjective(s) /\ x \notin Range(s) => IsInjective(Append(s, x))
  <1>1. <<x>> \in Seq(S) /\ Range(<<x>>) = {x} /\ IsInjective(<<x>>)
    BY DEF Range, IsInjective
  <1>2. Append(s, x) = s \o <<x>>
    BY AppendIsConcat
  <1>3. /\ s \o <<x>> \in Seq(S) /\ Range(s \o <<x>>) = Range(s) \cup Range(<<x>>)
        /\ IsInjective(s) /\ IsInjective(<<x>>) /\ Range(s) \cap Range(<<x>>) = {}
               => IsInjective(s \o <<x>>)
    BY <1>1, ConcatRange
  <1> DEFINE one == <<x>>
  <1> HIDE DEF one
  <1>4. x \notin Range(s) => Range(s) \cap {x} = {}
    OBVIOUS
  <1> QED BY <1>1, <1>2, <1>3, <1>4
=============================================================================
