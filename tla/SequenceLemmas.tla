--------------------------- MODULE SequenceLemmas ---------------------------
(* What the sequence operators the modules are built from return.            *)
EXTENDS Integers, SequencesExt, SequenceTheorems, FiniteSetTheorems, TLAPS

LEMMA SubSeqFacts ==
  ASSUME NEW S, NEW s \in Seq(S), NEW m \in 1..(Len(s) + 1), NEW n \in 0..Len(s)
  PROVE  /\ SubSeq(s, m, n) \in Seq(S)
         /\ Len(SubSeq(s, m, n)) = IF m <= n THEN n - m + 1 ELSE 0
         /\ \A i \in 1..(n - m + 1) : SubSeq(s, m, n)[i] = s[m + i - 1]
<1>1. m \in Int /\ n \in Int
  OBVIOUS
<1>2. \A i \in m..n : i \in 1..Len(s)
  OBVIOUS
<1>3. \A i \in m..n : s[i] \in S
  BY <1>2
<1>4. QED
  BY <1>1, <1>3, SubSeqProperties

(* Concatenation, each part by itself.                                       *)
LEMMA JoinFacts ==
  ASSUME NEW S, NEW s \in Seq(S), NEW t \in Seq(S)
  PROVE  /\ s \o t \in Seq(S) /\ Len(s \o t) = Len(s) + Len(t)
         /\ \A i \in 1..Len(s) : (s \o t)[i] = s[i]
         /\ \A i \in 1..Len(t) : (s \o t)[Len(s) + i] = t[i]
<1>1. /\ s \o t \in Seq(S) /\ Len(s \o t) = Len(s) + Len(t)
      /\ \A i \in 1 .. Len(s) + Len(t) : (s \o t)[i] = IF i <= Len(s) THEN s[i] ELSE t[i - Len(s)]
  BY ConcatProperties
<1>2. Len(s) \in Nat /\ Len(t) \in Nat
  OBVIOUS
<1>3. ASSUME NEW i \in 1..Len(s) PROVE (s \o t)[i] = s[i]
  <2>1. i \in 1 .. Len(s) + Len(t) /\ i <= Len(s)
    BY <1>2
  <2>q. QED
    BY <1>1, <2>1
<1>4. ASSUME NEW i \in 1..Len(t) PROVE (s \o t)[Len(s) + i] = t[i]
  <2>1. Len(s) + i \in 1 .. Len(s) + Len(t) /\ ~(Len(s) + i <= Len(s)) /\ (Len(s) + i) - Len(s) = i
    BY <1>2
  <2>q. QED
    BY <1>1, <2>1
<1>q. QED
  BY <1>1, <1>3, <1>4

(* Front: the stack after a return.                                          *)
LEMMA FrontFacts ==
  ASSUME NEW S, NEW s \in Seq(S), s # <<>>
  PROVE  /\ Front(s) \in Seq(S)
         /\ Len(Front(s)) = Len(s) - 1
         /\ \A i \in 1..(Len(s) - 1) : Front(s)[i] = s[i]
<1>1. /\ 1 \in 1..(Len(s) + 1) /\ Len(s) - 1 \in 0..Len(s)
      /\ Len(s) \in Nat /\ Len(s) # 0
  BY EmptySeq
<1>2. /\ SubSeq(s, 1, Len(s) - 1) \in Seq(S)
      /\ Len(SubSeq(s, 1, Len(s) - 1)) = IF 1 <= Len(s) - 1 THEN Len(s) - 1 - 1 + 1 ELSE 0
      /\ \A i \in 1..(Len(s) - 1 - 1 + 1) : SubSeq(s, 1, Len(s) - 1)[i] = s[1 + i - 1]
  BY <1>1, SubSeqFacts
<1>3. /\ Front(s) = SubSeq(s, 1, Len(s) - 1)
      /\ Len(s) - 1 - 1 + 1 = Len(s) - 1
      /\ \A i \in 1..(Len(s) - 1) : 1 + i - 1 = i
  BY <1>1 DEF Front
<1>4. Len(Front(s)) = Len(s) - 1
  BY <1>1, <1>2, <1>3
<1>5. \A i \in 1..(Len(s) - 1) : Front(s)[i] = s[i]
  BY <1>2, <1>3
<1>6. QED
  BY <1>2, <1>3, <1>4, <1>5

(* Replacing the last element, the top of a stack.                           *)
LEMMA LastFacts ==
  ASSUME NEW S, NEW s \in Seq(S), s # <<>>
  PROVE  /\ Last(s) \in S /\ Last(s) = s[Len(s)]
         /\ Len(s) \in 1..Len(s)
         /\ \A e \in S : /\ [s EXCEPT ![Len(s)] = e] \in Seq(S)
                         /\ Len([s EXCEPT ![Len(s)] = e]) = Len(s)
BY DEF Last

LEMMA RemoveAtFacts ==
  ASSUME NEW S, NEW s \in Seq(S), NEW i \in 1..Len(s)
  PROVE  /\ RemoveAt(s, i) \in Seq(S)
         /\ Len(RemoveAt(s, i)) = Len(s) - 1
         /\ \A j \in 1..(Len(s) - 1) : RemoveAt(s, i)[j] = IF j < i THEN s[j] ELSE s[j + 1]
<1> DEFINE A == SubSeq(s, 1, i - 1)
           B == SubSeq(s, i + 1, Len(s))
<1>1. /\ A \in Seq(S) /\ Len(A) = i - 1
      /\ \A j \in 1..(i - 1) : A[j] = s[j]
  <2>1. 1 \in 1..(Len(s) + 1) /\ i - 1 \in 0..Len(s)
    OBVIOUS
  <2>2. /\ A \in Seq(S) /\ Len(A) = IF 1 <= i - 1 THEN i - 1 - 1 + 1 ELSE 0
        /\ \A j \in 1..(i - 1 - 1 + 1) : A[j] = s[1 + j - 1]
    BY <2>1, SubSeqFacts
  <2>3. QED
    BY <2>2
<1>2. /\ B \in Seq(S) /\ Len(B) = Len(s) - i
      /\ \A j \in 1..(Len(s) - i) : B[j] = s[i + j]
  <2>1. i + 1 \in 1..(Len(s) + 1) /\ Len(s) \in 0..Len(s)
    OBVIOUS
  <2>2. /\ B \in Seq(S)
        /\ Len(B) = IF i + 1 <= Len(s) THEN Len(s) - (i + 1) + 1 ELSE 0
        /\ \A j \in 1..(Len(s) - (i + 1) + 1) : B[j] = s[i + 1 + j - 1]
    BY <2>1, SubSeqFacts
  <2>3. QED
    BY <2>2
<1> HIDE DEF A, B
<1>3. /\ A \o B \in Seq(S)
      /\ Len(A \o B) = Len(A) + Len(B)
      /\ \A j \in 1..(Len(A) + Len(B)) :
           (A \o B)[j] = IF j <= Len(A) THEN A[j] ELSE B[j - Len(A)]
  BY <1>1, <1>2, ConcatProperties
<1>4. \A j \in 1..(Len(s) - 1) : (A \o B)[j] = IF j < i THEN s[j] ELSE s[j + 1]
  <2> SUFFICES ASSUME NEW j \in 1..(Len(s) - 1)
               PROVE  (A \o B)[j] = IF j < i THEN s[j] ELSE s[j + 1]
    OBVIOUS
  <2>0. (A \o B)[j] = IF j <= Len(A) THEN A[j] ELSE B[j - Len(A)]
    BY <1>1, <1>2, <1>3
  <2>1. CASE j < i
    <3>1. j \in 1..(i - 1) /\ j <= Len(A)
      BY <1>1, <2>1
    <3>2. QED
      BY <1>1, <2>0, <2>1, <3>1
  <2>2. CASE ~(j < i)
    <3>1. ~(j <= Len(A))
      BY <1>1, <2>2
    <3>2. PICK k \in 1..(Len(s) - i) : k = j - Len(A)
      BY <1>1, <2>2
    <3>3. i + k = j + 1
      BY <1>1, <3>2
    <3>4. B[k] = s[j + 1]
      BY <1>2, <3>3
    <3>5. (A \o B)[j] = B[k]
      BY <2>0, <3>1, <3>2
    <3>6. QED
      BY <2>2, <3>4, <3>5
  <2>3. QED
    BY <2>1, <2>2
<1>5. RemoveAt(s, i) = A \o B
  BY DEF RemoveAt, A, B
<1>6. Len(A) + Len(B) = Len(s) - 1
  BY <1>1, <1>2
<1>7. QED
  BY <1>3, <1>4, <1>5, <1>6, Zenon

-----------------------------------------------------------------------------
(* Sequences in which nothing occurs twice.                                  *)

In(x, s) == \E i \in DOMAIN s : s[i] = x
Distinct(s) == \A i, j \in DOMAIN s : s[i] = s[j] => i = j

LEMMA AppendDistinct ==
  ASSUME NEW S, NEW s \in Seq(S), Distinct(s), NEW e \in S, ~In(e, s),
         NEW t, t = Append(s, e)
  PROVE  /\ Distinct(t)
         /\ \A x : In(x, t) <=> In(x, s) \/ x = e
<1>1. /\ Len(s) \in Nat /\ DOMAIN s = 1..Len(s) /\ DOMAIN t = 1..(Len(s) + 1)
      /\ t[Len(s) + 1] = e /\ \A i \in 1..Len(s) : t[i] = s[i]
  OBVIOUS
<1>2. \A i \in 1..Len(s) : s[i] # e
  BY <1>1 DEF In
<1>3. Distinct(t)
  <2> SUFFICES ASSUME NEW i \in 1..(Len(s) + 1), NEW j \in 1..(Len(s) + 1), t[i] = t[j]
               PROVE  i = j
    BY <1>1 DEF Distinct
  <2>1. CASE i \in 1..Len(s) /\ j \in 1..Len(s)
    BY <1>1, <2>1 DEF Distinct
  <2>2. CASE i = Len(s) + 1 /\ j \in 1..Len(s)
    BY <1>1, <1>2, <2>2
  <2>3. CASE j = Len(s) + 1 /\ i \in 1..Len(s)
    BY <1>1, <1>2, <2>3
  <2>4. QED
    BY <1>1, <2>1, <2>2, <2>3
<1>4. ASSUME NEW x PROVE In(x, t) <=> In(x, s) \/ x = e
  <2>1. ASSUME In(x, t) PROVE In(x, s) \/ x = e
    BY <1>1, <2>1 DEF In
  <2>2. ASSUME In(x, s) PROVE In(x, t)
    BY <1>1, <2>2 DEF In
  <2>3. ASSUME x = e PROVE In(x, t)
    BY <1>1, <2>3 DEF In
  <2>4. QED
    BY <2>1, <2>2, <2>3
<1>5. QED
  BY <1>3, <1>4

LEMMA RemoveAtDistinct ==
  ASSUME NEW S, NEW s \in Seq(S), Distinct(s), NEW i \in 1..Len(s),
         NEW t, t = RemoveAt(s, i)
  PROVE  /\ Distinct(t)
         /\ \A x : In(x, t) <=> In(x, s) /\ x # s[i]
<1>1. /\ t \in Seq(S) /\ Len(t) = Len(s) - 1
      /\ \A j \in 1..(Len(s) - 1) : t[j] = IF j < i THEN s[j] ELSE s[j + 1]
  BY RemoveAtFacts
<1>2. DOMAIN t = 1..(Len(s) - 1) /\ DOMAIN s = 1..Len(s) /\ Len(s) \in Nat
  BY <1>1
<1> DEFINE old(j) == IF j < i THEN j ELSE j + 1
<1>3. \A j \in 1..(Len(s) - 1) : old(j) \in 1..Len(s) /\ old(j) # i /\ t[j] = s[old(j)]
  BY <1>1, <1>2
<1>4. \A j, k \in 1..(Len(s) - 1) : old(j) = old(k) => j = k
  BY <1>2
<1>5. \A k \in 1..Len(s) : k # i => \E j \in 1..(Len(s) - 1) : old(j) = k
  <2> SUFFICES ASSUME NEW k \in 1..Len(s), k # i
               PROVE  \E j \in 1..(Len(s) - 1) : old(j) = k
    OBVIOUS
  <2>1. CASE k < i
    BY <1>2, <2>1
  <2>2. CASE k > i
    <3>1. k - 1 \in 1..(Len(s) - 1) /\ old(k - 1) = k
      BY <1>2, <2>2
    <3>2. QED
      BY <3>1
  <2>3. QED
    BY <1>2, <2>1, <2>2
<1> HIDE DEF old
<1>6. Distinct(t)
  BY <1>2, <1>3, <1>4 DEF Distinct
<1>7. ASSUME NEW x, In(x, t) PROVE In(x, s) /\ x # s[i]
  BY <1>2, <1>3, <1>7 DEF In, Distinct
<1>8. ASSUME NEW x, In(x, s), x # s[i] PROVE In(x, t)
  <2>1. PICK k \in 1..Len(s) : s[k] = x
    BY <1>2, <1>8 DEF In
  <2>2. PICK j \in 1..(Len(s) - 1) : old(j) = k
    BY <1>5, <1>8, <2>1
  <2>3. t[j] = x
    BY <1>3, <2>1, <2>2
  <2>4. QED
    BY <1>2, <2>3 DEF In
<1>9. QED
  BY <1>6, <1>7, <1>8

LEMMA FrontDistinct ==
  ASSUME NEW S, NEW s \in Seq(S), Distinct(s), s # <<>>, NEW t, t = Front(s)
  PROVE  /\ Distinct(t)
         /\ \A x : In(x, t) <=> In(x, s) /\ x # Last(s)
<1>1. /\ t \in Seq(S) /\ Len(t) = Len(s) - 1
      /\ \A j \in 1..(Len(s) - 1) : t[j] = s[j]
  BY FrontFacts
<1>2. /\ DOMAIN t = 1..(Len(s) - 1) /\ DOMAIN s = 1..Len(s) /\ Len(s) \in Nat /\ Len(s) \in 1..Len(s)
      /\ Last(s) = s[Len(s)]
  BY <1>1, LastFacts
<1>3. \A j \in 1..(Len(s) - 1) : j \in 1..Len(s) /\ j # Len(s)
  <2>1. Len(s) \in Nat
    BY <1>2
  <2>2. \A n \in Nat : \A j \in 1..(n - 1) : j \in 1..n /\ j # n
    OBVIOUS
  <2>3. QED
    BY <2>1, <2>2
<1>4. Distinct(t)
  <2> SUFFICES ASSUME NEW j \in 1..(Len(s) - 1), NEW k \in 1..(Len(s) - 1), t[j] = t[k]
               PROVE  j = k
    BY <1>2 DEF Distinct
  <2>1. s[j] = s[k]
    BY <1>1
  <2>2. QED
    BY <1>2, <1>3, <2>1 DEF Distinct
<1>5. ASSUME NEW x, In(x, t) PROVE In(x, s) /\ x # Last(s)
  BY <1>1, <1>2, <1>3, <1>5 DEF In, Distinct
<1>6. ASSUME NEW x, In(x, s), x # Last(s) PROVE In(x, t)
  <2>1. PICK k \in 1..Len(s) : s[k] = x
    BY <1>2, <1>6 DEF In
  <2>2. k \in 1..(Len(s) - 1)
    BY <1>2, <1>6, <2>1
  <2>3. QED
    BY <1>1, <1>2, <2>1, <2>2 DEF In
<1>7. QED
  BY <1>4, <1>5, <1>6

LEMMA TailDistinct ==
  ASSUME NEW S, NEW s \in Seq(S), Distinct(s), s # <<>>, NEW t, t = Tail(s)
  PROVE  /\ Distinct(t)
         /\ \A x : In(x, t) <=> In(x, s) /\ x # Head(s)
<1>1. /\ t \in Seq(S) /\ Len(t) = Len(s) - 1 /\ Len(s) \in Nat /\ Len(s) > 0
      /\ \A j \in 1..(Len(s) - 1) : t[j] = s[j + 1]
      /\ Head(s) = s[1]
  OBVIOUS
<1>2. DOMAIN t = 1..(Len(s) - 1) /\ DOMAIN s = 1..Len(s) /\ 1 \in 1..Len(s)
  BY <1>1
<1>3. \A j \in 1..(Len(s) - 1) : j + 1 \in 1..Len(s) /\ j + 1 # 1
  BY <1>1
<1>4. Distinct(t)
  <2> SUFFICES ASSUME NEW j \in 1..(Len(s) - 1), NEW k \in 1..(Len(s) - 1), t[j] = t[k]
               PROVE  j = k
    BY <1>2 DEF Distinct
  <2>1. j + 1 = k + 1
    BY <1>1, <1>2, <1>3 DEF Distinct
  <2>2. QED
    BY <2>1
<1>5. ASSUME NEW x, In(x, t) PROVE In(x, s) /\ x # Head(s)
  <2>1. PICK j \in 1..(Len(s) - 1) : t[j] = x
    BY <1>2, <1>5 DEF In
  <2>2. j + 1 \in 1..Len(s) /\ j + 1 # 1 /\ s[j + 1] = x
    BY <1>1, <1>3, <2>1
  <2>3. QED
    BY <1>1, <1>2, <2>2 DEF In, Distinct
<1>6. ASSUME NEW x, In(x, s), x # Head(s) PROVE In(x, t)
  <2>1. PICK k \in 1..Len(s) : s[k] = x
    BY <1>2, <1>6 DEF In
  <2>2. k - 1 \in 1..(Len(s) - 1) /\ (k - 1) + 1 = k
    BY <1>1, <1>6, <2>1
  <2>3. t[k - 1] = x
    BY <1>1, <2>1, <2>2
  <2>4. QED
    BY <1>2, <2>2, <2>3 DEF In
<1>7. QED
  BY <1>4, <1>5, <1>6

-----------------------------------------------------------------------------
(* Counting the places of a sequence that meet a condition.                  *)

(* The n-th element of a finite set of naturals is there.                    *)
UpToPlace(P, i) == {k \in P : k <= i}

LEMMA NthExists ==
  ASSUME NEW P \in SUBSET Nat, IsFiniteSet(P), NEW n \in 1..Cardinality(P)
  PROVE  \E i \in P : Cardinality(UpToPlace(P, i)) = n
<1> DEFINE T == 1..Cardinality(P)
           f == [i \in P |-> Cardinality(UpToPlace(P, i))]
<1>1. Cardinality(P) \in Nat
  BY FS_CardinalityType
<1>2. IsFiniteSet(T) /\ Cardinality(T) = Cardinality(P)
  BY <1>1, FS_Interval
<1>3. ASSUME NEW i \in P
      PROVE  IsFiniteSet(UpToPlace(P, i)) /\ Cardinality(UpToPlace(P, i)) \in T
  <2>1. UpToPlace(P, i) \in SUBSET P /\ i \in UpToPlace(P, i)
    BY DEF UpToPlace
  <2>2. IsFiniteSet(UpToPlace(P, i)) /\ Cardinality(UpToPlace(P, i)) <= Cardinality(P)
    BY <2>1, FS_Subset
  <2>3. Cardinality(UpToPlace(P, i)) \in Nat /\ Cardinality(UpToPlace(P, i)) # 0
    BY <2>1, <2>2, FS_CardinalityType, FS_EmptySet
  <2>q. QED
    BY <1>1, <2>2, <2>3
<1>4. ASSUME NEW i \in P, NEW k \in P, i < k
      PROVE  f[i] # f[k]
  <2>0. i \in Nat /\ k \in Nat /\ \A l \in P : l \in Nat
    OBVIOUS
  <2>1. \A l : l \in UpToPlace(P, i) <=> (l \in P /\ l <= i)
    BY DEF UpToPlace
  <2>4. \A l : l \in UpToPlace(P, k) <=> (l \in P /\ l <= k)
    BY DEF UpToPlace
  <2>3. UpToPlace(P, i) \in SUBSET UpToPlace(P, k) /\ k \in UpToPlace(P, k) /\ k \notin UpToPlace(P, i)
    <3>1. \A l \in Nat : l <= i => l <= k
      BY <2>0, <1>4
    <3>2. k <= k /\ ~(k <= i)
      BY <2>0, <1>4
    <3>3. \A l : l \in UpToPlace(P, i) => l \in UpToPlace(P, k)
      BY <2>0, <2>1, <2>4, <3>1
    <3>4. k \in UpToPlace(P, k) /\ k \notin UpToPlace(P, i)
      BY <2>1, <2>4, <3>2
    <3>q. QED
      BY <3>3, <3>4
  <2>2. Cardinality(UpToPlace(P, k)) # Cardinality(UpToPlace(P, i))
    BY <2>3, <1>3, FS_Subset
  <2>q. QED
    BY <2>2
<1>5. f \in [P -> T]
  BY <1>3
<1> HIDE DEF f, T
<1>6. \A i, k \in P : f[i] = f[k] => i = k
  <2> SUFFICES ASSUME NEW i \in P, NEW k \in P, i # k PROVE f[i] # f[k]
    OBVIOUS
  <2>1. i < k \/ k < i
    OBVIOUS
  <2>q. QED
    BY <2>1, <1>4
<1>7. f \in Injection(P, T)
  BY <1>5, <1>6 DEF Injection, IsInjective
<1>8. f \in Surjection(P, T)
  BY <1>2, <1>7, FS_Injection
<1>9. n \in T
  BY DEF T
<1>10. \E i \in P : f[i] = n
  BY <1>8, <1>9 DEF Surjection
<1>q. QED
  BY <1>10 DEF f

=============================================================================
