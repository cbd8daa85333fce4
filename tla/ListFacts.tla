----------------------------- MODULE ListFacts ------------------------------
(***************************************************************************)
(* Facts about the sequences that stand for the linked lists of the server:*)
(* what taking out the first occurrence of an element and appending one do *)
(* to the elements, and to the pointers that link them.                    *)
(***************************************************************************)
EXTENDS Lists, Integers, SequencesExt, SequenceTheorems, FiniteSetTheorems, TLAPS

(* Every non-empty set of naturals has a least element, and Min is one: of *)
(* the finite intervals 0 .. x with x in the set one is minimal.           *)
LEMMA MinOfNats ==
  ASSUME NEW I \in SUBSET Nat, I # {}
  PROVE  Min(I) \in I /\ \A y \in I : Min(I) <= y
<1>. DEFINE T == {0 .. x : x \in I}
<1>1. T \subseteq FiniteSubsetsOf(Nat)
  <2>1. \A x \in I : IsFiniteSet(0 .. x)
    BY FS_Interval
  <2>. QED  BY <2>1 DEF FiniteSubsetsOf
<1>2. T # {}
  OBVIOUS
<1>3. IsWellFoundedOn(StrictSubsetOrdering(Nat), FiniteSubsetsOf(Nat))
  BY FS_StrictSubsetOrderingWellFounded
<1>4. PICK t \in T : \A r \in T : ~(<<r, t>> \in StrictSubsetOrdering(Nat))
  <2>. HIDE DEF T
  <2>. QED  BY <1>1, <1>2, <1>3, WFMin
<1>5. PICK x \in I : t = 0 .. x
  OBVIOUS
<1>6. \A y \in I : x <= y
  <2>. SUFFICES ASSUME NEW y \in I, y < x  PROVE FALSE
    OBVIOUS
  <2>1. 0 .. y \subseteq 0 .. x /\ 0 .. y # 0 .. x
    OBVIOUS
  <2>2. <<0 .. y, t>> \in StrictSubsetOrdering(Nat)
    BY <1>5, <2>1 DEF StrictSubsetOrdering
  <2>. QED  BY <1>4, <2>2
<1>. QED
  BY <1>6 DEF Min

(* The members of T are values of f for members of S: T is no larger.      *)
LEMMA ImageBound ==
  ASSUME NEW S, IsFiniteSet(S), NEW T, NEW f, \A t \in T : \E x \in S : f[x] = t
  PROVE  IsFiniteSet(T) /\ Cardinality(T) \in Nat /\ Cardinality(T) <= Cardinality(S)
<1>. DEFINE U == {x \in S : f[x] \in T}
            g == [x \in U |-> f[x]]
<1>1. IsFiniteSet(U) /\ Cardinality(U) <= Cardinality(S)
  BY FS_Subset
<1>2. g \in Surjection(U, T)
  BY DEF Surjection
<1>3. IsFiniteSet(T) /\ Cardinality(T) <= Cardinality(U)
  BY <1>1, <1>2, FS_Surjection
<1>. QED  BY <1>1, <1>3, FS_CardinalityType

(* Without the k-th element those after it move up by one.                 *)
LEMMA RemoveAtShape ==
  ASSUME NEW S, NEW s \in Seq(S), NEW k \in 1 .. Len(s)
  PROVE  /\ RemoveAt(s, k) \in Seq(S)
         /\ Len(RemoveAt(s, k)) = Len(s) - 1
         /\ \A i \in 1 .. Len(s) - 1 :
              RemoveAt(s, k)[i] = IF i < k THEN s[i] ELSE s[i+1]
<1>1. Len(s) \in Nat /\ DOMAIN s = 1 .. Len(s)
  BY LenProperties
<1>2. /\ SubSeq(s, 1, k-1) \in Seq(S)
      /\ Len(SubSeq(s, 1, k-1)) = k-1
      /\ \A i \in 1 .. k-1 : SubSeq(s, 1, k-1)[i] = s[i]
  <2>1. \A i \in 1 .. k-1 : s[i] \in S
    BY <1>1, ElementOfSeq
  <2>2. 1 \in Int /\ k-1 \in Int
    BY <1>1
  <2>3. /\ SubSeq(s, 1, k-1) \in Seq(S)
        /\ Len(SubSeq(s, 1, k-1)) = IF 1 <= k-1 THEN (k-1) - 1 + 1 ELSE 0
        /\ \A i \in 1 .. (k-1) - 1 + 1 : SubSeq(s, 1, k-1)[i] = s[1 + i - 1]
    BY <2>1, <2>2, SubSeqProperties
  <2>4. /\ (k-1) - 1 + 1 = k-1
        /\ \A i \in 1 .. k-1 : 1 + i - 1 = i
        /\ (IF 1 <= k-1 THEN (k-1) - 1 + 1 ELSE 0) = k-1
    BY <1>1
  <2>. QED  BY <2>3, <2>4
<1>3. /\ SubSeq(s, k+1, Len(s)) \in Seq(S)
      /\ Len(SubSeq(s, k+1, Len(s))) = Len(s) - k
      /\ \A i \in 1 .. Len(s) - k : SubSeq(s, k+1, Len(s))[i] = s[k+i]
  <2>1. \A i \in k+1 .. Len(s) : s[i] \in S
    BY <1>1, ElementOfSeq
  <2>2. k+1 \in Int /\ Len(s) \in Int
    BY <1>1
  <2>3. /\ SubSeq(s, k+1, Len(s)) \in Seq(S)
        /\ Len(SubSeq(s, k+1, Len(s))) =
             IF k+1 <= Len(s) THEN Len(s) - (k+1) + 1 ELSE 0
        /\ \A i \in 1 .. Len(s) - (k+1) + 1 :
             SubSeq(s, k+1, Len(s))[i] = s[(k+1) + i - 1]
    BY <2>1, <2>2, SubSeqProperties
  <2>4. /\ Len(s) - (k+1) + 1 = Len(s) - k
        /\ \A i \in 1 .. Len(s) - k : (k+1) + i - 1 = k + i
        /\ (IF k+1 <= Len(s) THEN Len(s) - (k+1) + 1 ELSE 0) = Len(s) - k
    <3>1. Len(s) \in Nat /\ k \in Nat /\ k <= Len(s)
      BY <1>1
    <3>. QED  BY <3>1
  <2>5. Len(SubSeq(s, k+1, Len(s))) = Len(s) - k
    BY <2>3, <2>4
  <2>6. \A i \in 1 .. Len(s) - k : SubSeq(s, k+1, Len(s))[i] = s[k+i]
    BY <2>3, <2>4
  <2>. QED  BY <2>3, <2>5, <2>6
<1>. DEFINE a == SubSeq(s, 1, k-1)  b == SubSeq(s, k+1, Len(s))
<1>. HIDE DEF a, b
<1>4. /\ a \o b \in Seq(S)
      /\ Len(a \o b) = Len(a) + Len(b)
      /\ \A i \in 1 .. Len(a) + Len(b) :
           (a \o b)[i] = IF i <= Len(a) THEN a[i] ELSE b[i - Len(a)]
  BY <1>2, <1>3, ConcatProperties DEF a, b
<1>5. Len(a) = k-1 /\ Len(b) = Len(s) - k
  BY <1>2, <1>3 DEF a, b
<1>6. \A i \in 1 .. Len(s) - 1 : (a \o b)[i] = IF i < k THEN s[i] ELSE s[i+1]
  <2>. SUFFICES ASSUME NEW i \in 1 .. Len(s) - 1
                PROVE  (a \o b)[i] = IF i < k THEN s[i] ELSE s[i+1]
    OBVIOUS
  <2>1. CASE i < k
    BY <2>1, <1>1, <1>2, <1>4, <1>5 DEF a
  <2>2. CASE ~(i < k)
    <3>1. (a \o b)[i] = b[i - (k-1)]
      BY <2>2, <1>1, <1>4, <1>5
    <3>2. i - (k-1) \in 1 .. Len(s) - k
      BY <2>2, <1>1
    <3>3. b[i - (k-1)] = s[k + (i - (k-1))]
      BY <3>2, <1>3 DEF b
    <3>. QED  BY <3>1, <3>3, <2>2, <1>1
  <2>. QED  BY <2>1, <2>2
<1>7. RemoveAt(s, k) = a \o b
  BY DEF RemoveAt, a, b
<1>8. Len(a \o b) = Len(s) - 1
  BY <1>1, <1>4, <1>5
<1>. QED  BY <1>4, <1>6, <1>7, <1>8

(* RemoveFirst changes nothing when e is not in s; otherwise the elements  *)
(* after some occurrence k of e move up by one.                            *)
LEMMA RemoveFirstShape ==
  ASSUME NEW S, NEW s \in Seq(S), NEW e
  PROVE  \/ e \notin ToSet(s) /\ RemoveFirst(s, e) = s
         \/ \E k \in 1 .. Len(s) :
              /\ s[k] = e
              /\ RemoveFirst(s, e) \in Seq(S)
              /\ Len(RemoveFirst(s, e)) = Len(s) - 1
              /\ \A i \in 1 .. Len(s) - 1 :
                   RemoveFirst(s, e)[i] = IF i < k THEN s[i] ELSE s[i+1]
<1>. DEFINE I == {i \in 1 .. Len(s) : s[i] = e}
            k == Min(I)
<1>0. Len(s) \in Nat /\ DOMAIN s = 1 .. Len(s)
  BY LenProperties
<1>1. CASE I = {}
  BY <1>0, <1>1 DEF RemoveFirst, ToSet
<1>2. CASE I # {}
  <2>1. k \in I
    <3>1. I \in SUBSET Nat
      BY <1>0
    <3>. HIDE DEF I
    <3>. QED  BY <3>1, <1>2, MinOfNats
  <2>2. k \in 1 .. Len(s) /\ s[k] = e
    BY <2>1
  <2>3. SelectInSeq(s, LAMBDA v : v = e) = k
    BY <1>2 DEF SelectInSeq
  <2>. HIDE DEF k
  <2>4. RemoveFirst(s, e) = RemoveAt(s, k)
    BY <2>2, <2>3 DEF RemoveFirst
  <2>. HIDE DEF I
  <2>. QED  BY <2>2, <2>4, RemoveAtShape
<1>. QED  BY <1>1, <1>2

(* Taking out one occurrence of e leaves a sequence over the same set whose*)
(* elements are elements of s, every element but e among them.             *)
LEMMA RemoveFirstElements ==
  ASSUME NEW S, NEW s \in Seq(S), NEW e
  PROVE  /\ RemoveFirst(s, e) \in Seq(S)
         /\ ToSet(RemoveFirst(s, e)) \subseteq ToSet(s)
         /\ \A x \in ToSet(s) : x # e => x \in ToSet(RemoveFirst(s, e))
<1>0. Len(s) \in Nat /\ DOMAIN s = 1 .. Len(s)
  BY LenProperties
<1>1. CASE e \notin ToSet(s) /\ RemoveFirst(s, e) = s
  BY <1>1
<1>2. ASSUME NEW k \in 1 .. Len(s), s[k] = e,
             RemoveFirst(s, e) \in Seq(S),
             Len(RemoveFirst(s, e)) = Len(s) - 1,
             \A i \in 1 .. Len(s) - 1 :
               RemoveFirst(s, e)[i] = IF i < k THEN s[i] ELSE s[i+1]
      PROVE  /\ ToSet(RemoveFirst(s, e)) \subseteq ToSet(s)
             /\ \A x \in ToSet(s) : x # e => x \in ToSet(RemoveFirst(s, e))
  <2>. DEFINE r == RemoveFirst(s, e)
  <2>1. DOMAIN r = 1 .. Len(s) - 1
    BY <1>2, LenProperties
  <2>. HIDE DEF r
  <2>2. \A i \in 1 .. Len(s) - 1 : r[i] = IF i < k THEN s[i] ELSE s[i+1]
    BY <1>2 DEF r
  <2>3. ToSet(r) \subseteq ToSet(s)
    BY <1>0, <2>1, <2>2 DEF ToSet
  <2>4. ASSUME NEW j \in 1 .. Len(s), s[j] # e  PROVE s[j] \in ToSet(r)
    <3>1. CASE j < k
      <4>1. j \in 1 .. Len(s) - 1 /\ r[j] = s[j]
        BY <1>0, <2>2, <3>1
      <4>. QED  BY <4>1, <2>1 DEF ToSet
    <3>2. CASE j > k
      <4>1. j-1 \in 1 .. Len(s) - 1 /\ r[j-1] = s[j]
        BY <1>0, <2>2, <3>2
      <4>. QED  BY <4>1, <2>1 DEF ToSet
    <3>. QED  BY <1>2, <2>4, <3>1, <3>2
  <2>. QED  BY <1>0, <2>3, <2>4 DEF ToSet, r
<1>. QED
  BY <1>1, <1>2, RemoveFirstShape

(* It creates no second occurrence, and an element that was there once is  *)
(* gone.                                                                   *)
LEMMA RemoveFirstOnce ==
  ASSUME NEW S, NEW s \in Seq(S), NEW e, NEW T, Once(s, T)
  PROVE  /\ Once(RemoveFirst(s, e), T)
         /\ e \in T => e \notin ToSet(RemoveFirst(s, e))
<1>0. Len(s) \in Nat /\ DOMAIN s = 1 .. Len(s)
  BY LenProperties
<1>1. CASE e \notin ToSet(s) /\ RemoveFirst(s, e) = s
  BY <1>1
<1>2. ASSUME NEW k \in 1 .. Len(s), s[k] = e,
             RemoveFirst(s, e) \in Seq(S),
             Len(RemoveFirst(s, e)) = Len(s) - 1,
             \A i \in 1 .. Len(s) - 1 :
               RemoveFirst(s, e)[i] = IF i < k THEN s[i] ELSE s[i+1]
      PROVE  /\ Once(RemoveFirst(s, e), T)
             /\ e \in T => e \notin ToSet(RemoveFirst(s, e))
  <2>. DEFINE r == RemoveFirst(s, e)
              old(i) == IF i < k THEN i ELSE i+1
  <2>1. DOMAIN r = 1 .. Len(s) - 1
    BY <1>2, LenProperties
  <2>. HIDE DEF r
  <2>2. \A i \in 1 .. Len(s) - 1 :
          r[i] = s[old(i)] /\ old(i) \in 1 .. Len(s) /\ old(i) # k
    BY <1>0, <1>2 DEF r
  <2>3. \A i, j \in 1 .. Len(s) - 1 : old(i) = old(j) => i = j
    BY <1>0
  <2>. HIDE DEF old
  <2>4. Once(r, T)
    BY <1>0, <2>1, <2>2, <2>3 DEF Once
  <2>5. e \in T => e \notin ToSet(r)
    <3>1. k \in DOMAIN s /\ s[k] = e /\ \A i \in DOMAIN s : s[i] = e /\ e \in T => i = k
      BY <1>0, <1>2 DEF Once
    <3>2. e \in T => \A i \in DOMAIN r : r[i] # e
      BY <1>0, <2>1, <2>2, <3>1
    <3>. QED  BY <3>2 DEF ToSet
  <2>. QED  BY <2>4, <2>5 DEF r
<1>. QED
  BY <1>1, <1>2, RemoveFirstShape

(* The elements that stay are in their order.                              *)
LEMMA RemoveFirstOrder ==
  ASSUME NEW S, NEW s \in Seq(S), NEW e, NEW r, r = RemoveFirst(s, e)
  PROVE  \E old :
           /\ \A i \in DOMAIN r : old[i] \in DOMAIN s /\ r[i] = s[old[i]]
           /\ \A i, j \in DOMAIN r : old[i] <= old[j] => i <= j
           /\ \A k \in DOMAIN s : s[k] # e => \E i \in DOMAIN r : old[i] = k
<1>0. Len(s) \in Nat /\ DOMAIN s = 1 .. Len(s)
  BY LenProperties
<1>1. CASE r = s
  <2>. DEFINE f == [i \in DOMAIN s |-> i]
  <2>1. /\ \A i \in DOMAIN r : f[i] \in DOMAIN s /\ r[i] = s[f[i]]
        /\ \A i, j \in DOMAIN r : f[i] <= f[j] => i <= j
        /\ \A k \in DOMAIN s : s[k] # e => \E i \in DOMAIN r : f[i] = k
    BY <1>1
  <2>. QED  BY <2>1
<1>2. ASSUME NEW k \in 1 .. Len(s), s[k] = e, r \in Seq(S), Len(r) = Len(s) - 1,
             \A i \in 1 .. Len(s) - 1 : r[i] = IF i < k THEN s[i] ELSE s[i+1]
      PROVE  \E old :
               /\ \A i \in DOMAIN r : old[i] \in DOMAIN s /\ r[i] = s[old[i]]
               /\ \A i, j \in DOMAIN r : old[i] <= old[j] => i <= j
               /\ \A h \in DOMAIN s : s[h] # e => \E i \in DOMAIN r : old[i] = h
  <2>. DEFINE f == [i \in 1 .. Len(s) - 1 |-> IF i < k THEN i ELSE i + 1]
  <2>1. DOMAIN r = 1 .. Len(s) - 1
    BY <1>2, LenProperties
  <2>2. \A i \in 1 .. Len(s) - 1 : f[i] \in 1 .. Len(s) /\ r[i] = s[f[i]]
    BY <1>0, <1>2
  <2>3. \A i, j \in 1 .. Len(s) - 1 : f[i] <= f[j] => i <= j
    BY <1>0
  <2>4. ASSUME NEW h \in 1 .. Len(s), h # k  PROVE \E i \in 1 .. Len(s) - 1 : f[i] = h
    <3>1. CASE h < k
      <4>1. h \in 1 .. Len(s) - 1 /\ f[h] = h
        BY <1>0, <3>1
      <4>. QED  BY <4>1
    <3>2. CASE h > k
      <4>1. h - 1 \in 1 .. Len(s) - 1 /\ f[h - 1] = h
        BY <1>0, <3>2
      <4>. QED  BY <4>1
    <3>. QED  BY <2>4, <1>0, <3>1, <3>2
  <2>. HIDE DEF f
  <2>5. /\ \A i \in DOMAIN r : f[i] \in DOMAIN s /\ r[i] = s[f[i]]
        /\ \A i, j \in DOMAIN r : f[i] <= f[j] => i <= j
        /\ \A h \in DOMAIN s : s[h] # e => \E i \in DOMAIN r : f[i] = h
    BY <1>0, <1>2, <2>1, <2>2, <2>3, <2>4
  <2>. QED  BY <2>5
<1>3. \/ r = s
      \/ \E k \in 1 .. Len(s) :
           /\ s[k] = e /\ r \in Seq(S) /\ Len(r) = Len(s) - 1
           /\ \A i \in 1 .. Len(s) - 1 : r[i] = IF i < k THEN s[i] ELSE s[i+1]
  BY RemoveFirstShape
<1>. QED  BY <1>1, <1>2, <1>3

(* Appending x adds x to the elements.                                     *)
LEMMA AppendElements ==
  ASSUME NEW S, NEW s \in Seq(S), NEW x \in S
  PROVE  /\ Append(s, x) \in Seq(S)
         /\ ToSet(Append(s, x)) = ToSet(s) \cup {x}
<1>1. /\ Append(s, x) \in Seq(S)
      /\ Len(Append(s, x)) = Len(s) + 1
      /\ \A i \in 1 .. Len(s) : Append(s, x)[i] = s[i]
      /\ Append(s, x)[Len(s) + 1] = x
  BY AppendProperties
<1>2. /\ Len(s) \in Nat
      /\ DOMAIN s = 1 .. Len(s)
      /\ DOMAIN Append(s, x) = 1 .. Len(s) + 1
  BY <1>1, LenProperties
<1>3. 1 .. Len(s) + 1 = (1 .. Len(s)) \cup {Len(s) + 1}
  BY <1>2
<1>. QED
  BY <1>1, <1>2, <1>3 DEF ToSet

(* It adds no second occurrence of a member of T if x is new or not in T.  *)
LEMMA AppendOnce ==
  ASSUME NEW S, NEW s \in Seq(S), NEW x \in S, NEW T, Once(s, T),
         x \notin ToSet(s) \/ x \notin T
  PROVE  Once(Append(s, x), T)
<1>1. /\ Append(s, x) \in Seq(S)
      /\ Len(Append(s, x)) = Len(s) + 1
      /\ \A i \in 1 .. Len(s) : Append(s, x)[i] = s[i]
      /\ Append(s, x)[Len(s) + 1] = x
  BY AppendProperties
<1>2. /\ Len(s) \in Nat
      /\ DOMAIN s = 1 .. Len(s)
      /\ DOMAIN Append(s, x) = 1 .. Len(s) + 1
  BY <1>1, LenProperties
<1>3. \A i \in 1 .. Len(s) + 1 : i \in 1 .. Len(s) \/ i = Len(s) + 1
  BY <1>2
<1>. QED
  BY <1>1, <1>2, <1>3 DEF Once, ToSet

-----------------------------------------------------------------------------
(* A sequence backwards.                                                   *)
LEMMA ReverseShape ==
  ASSUME NEW S, NEW s \in Seq(S)
  PROVE  /\ Reverse(s) \in Seq(S) /\ Len(Reverse(s)) = Len(s)
         /\ \A i \in 1 .. Len(s) : Reverse(s)[i] = s[Len(s) - i + 1]
<1>1. Len(s) \in Nat
  BY LenProperties
<1>2. Reverse(s) = [i \in 1 .. Len(s) |-> s[Len(s) - i + 1]]
  <2>1. Reverse(s) = [i \in 1 .. Len(s) |-> s[(Len(s) - i) + 1]]
    BY DEF Reverse
  <2>. QED  BY <2>1
<1>3. \A i \in 1 .. Len(s) : s[Len(s) - i + 1] \in S
  <2>1. \A i \in 1 .. Len(s) : Len(s) - i + 1 \in 1 .. Len(s)
    BY <1>1
  <2>. QED  BY <2>1, ElementOfSeq
<1>. DEFINE r == [i \in 1 .. Len(s) |-> s[Len(s) - i + 1]]
<1>4. r \in Seq(S) /\ Len(r) = Len(s)
  BY <1>1, <1>3, IsASeq, LenProperties
<1>. QED  BY <1>2, <1>4

(* What is met backwards is the reverse.                                   *)
LEMMA ReverseLinked ==
  ASSUME NEW S, NEW q \in Seq(S), Once(q, S), NEW last, NEW link, NEW end, Backed(q, last, link, end)
  PROVE  /\ Reverse(q) \in Seq(S) /\ Once(Reverse(q), S)
         /\ Linked(Reverse(q), last, link, end)
<1>. DEFINE r == Reverse(q)
<1>1. /\ r \in Seq(S) /\ Len(r) = Len(q) /\ Len(q) \in Nat
      /\ \A i \in 1 .. Len(q) : r[i] = q[Len(q) - i + 1]
  BY ReverseShape, LenProperties
<1>2. DOMAIN r = 1 .. Len(q) /\ DOMAIN q = 1 .. Len(q)
  BY <1>1, LenProperties
<1>. HIDE DEF r
<1>3. \A i \in 1 .. Len(q) : Len(q) - i + 1 \in 1 .. Len(q)
  BY <1>1
<1>4. Once(r, S)
  <2>. SUFFICES ASSUME NEW i \in 1 .. Len(q), NEW j \in 1 .. Len(q), r[i] = r[j], r[i] \in S
                PROVE  i = j
    BY <1>2 DEF Once
  <2>1. Len(q) - i + 1 = Len(q) - j + 1
    BY <1>1, <1>2, <1>3 DEF Once
  <2>. QED  BY <1>1, <2>1
<1>5. last = IF Len(r) = 0 THEN end ELSE r[1]
  <2>1. CASE Len(q) = 0
    BY <1>1, <2>1 DEF Backed
  <2>2. CASE Len(q) # 0
    <3>1. 1 \in 1 .. Len(q) /\ Len(q) - 1 + 1 = Len(q)
      BY <1>1, <2>2
    <3>. QED  BY <1>1, <2>2, <3>1 DEF Backed
  <2>. QED  BY <2>1, <2>2
<1>6. ASSUME NEW i \in 1 .. Len(r)  PROVE link[r[i]] = IF i = Len(r) THEN end ELSE r[i+1]
  <2>. DEFINE j == Len(q) - i + 1
  <2>1. j \in 1 .. Len(q) /\ r[i] = q[j] /\ (j = 1 <=> i = Len(q))
    BY <1>1, <1>6
  <2>2. link[q[j]] = IF j = 1 THEN end ELSE q[j-1]
    BY <2>1 DEF Backed
  <2>3. i # Len(q) => i + 1 \in 1 .. Len(q) /\ Len(q) - (i+1) + 1 = j - 1
    BY <1>1, <1>6
  <2>4. i # Len(q) => r[i+1] = q[j-1]
    BY <1>1, <2>3
  <2>. QED  BY <1>1, <2>1, <2>2, <2>4
<1>. QED  BY <1>1, <1>4, <1>5, <1>6 DEF Linked, r

(* A new element at the end.                                               *)
LEMMA AppendLinked ==
  ASSUME NEW S, NEW q \in Seq(S), Once(q, S), NEW e \in S, e \notin ToSet(q), NEW end,
         NEW first, NEW link, NEW new, Linked(q, first, link, end),
         \A i \in 1 .. Len(q) : new[q[i]] = IF i = Len(q) THEN e ELSE link[q[i]],
         new[e] = end
  PROVE  Linked(Append(q, e), IF Len(q) = 0 THEN e ELSE first, new, end)
<1>. DEFINE r == Append(q, e)
<1>1. /\ r \in Seq(S) /\ Len(r) = Len(q) + 1 /\ Len(q) \in Nat
      /\ \A i \in 1 .. Len(q) : r[i] = q[i]
      /\ r[Len(q) + 1] = e
  BY AppendProperties, LenProperties
<1>. HIDE DEF r
<1>2. (IF Len(q) = 0 THEN e ELSE first) = r[1] /\ Len(r) # 0
  BY <1>1 DEF Linked
<1>3. ASSUME NEW i \in 1 .. Len(r)  PROVE new[r[i]] = IF i = Len(r) THEN end ELSE r[i+1]
  <2>1. CASE i = Len(q) + 1
    BY <1>1, <2>1
  <2>2. CASE i # Len(q) + 1
    <3>1. i \in 1 .. Len(q) /\ i # Len(r) /\ r[i] = q[i]
      BY <1>1, <2>2
    <3>2. CASE i = Len(q)
      BY <1>1, <3>1, <3>2
    <3>3. CASE i # Len(q)
      <4>1. i + 1 \in 1 .. Len(q)
        BY <1>1, <3>1, <3>3
      <4>2. new[q[i]] = q[i+1]
        BY <3>1, <3>3 DEF Linked
      <4>. QED  BY <1>1, <3>1, <4>1, <4>2
    <3>. QED  BY <3>2, <3>3
  <2>. QED  BY <2>1, <2>2
<1>. QED  BY <1>2, <1>3 DEF Linked, r

(* So it is the first that is met backwards.                                *)
LEMMA AppendBacked ==
  ASSUME NEW S, NEW q \in Seq(S), NEW e \in S, NEW end,
         NEW last, NEW link, NEW new, Backed(q, last, link, end),
         \A i \in 1 .. Len(q) : new[q[i]] = link[q[i]],
         new[e] = last
  PROVE  Backed(Append(q, e), e, new, end)
<1>. DEFINE r == Append(q, e)
<1>1. /\ r \in Seq(S) /\ Len(r) = Len(q) + 1 /\ Len(q) \in Nat
      /\ \A i \in 1 .. Len(q) : r[i] = q[i]
      /\ r[Len(q) + 1] = e
  BY AppendProperties, LenProperties
<1>. HIDE DEF r
<1>2. ASSUME NEW i \in 1 .. Len(r)  PROVE new[r[i]] = IF i = 1 THEN end ELSE r[i-1]
  <2>1. CASE i = Len(q) + 1
    <3>1. CASE Len(q) = 0
      BY <1>1, <2>1, <3>1 DEF Backed
    <3>2. CASE Len(q) # 0
      <4>1. i # 1 /\ i - 1 = Len(q) /\ Len(q) \in 1 .. Len(q)
        BY <1>1, <2>1, <3>2
      <4>. QED  BY <1>1, <2>1, <3>2, <4>1 DEF Backed
    <3>. QED  BY <3>1, <3>2
  <2>2. CASE i # Len(q) + 1
    <3>1. i \in 1 .. Len(q) /\ r[i] = q[i]
      BY <1>1, <2>2
    <3>2. i # 1 => i - 1 \in 1 .. Len(q)
      BY <1>1, <3>1
    <3>. QED  BY <1>1, <3>1, <3>2 DEF Backed
  <2>. QED  BY <2>1, <2>2
<1>3. e = IF Len(r) = 0 THEN end ELSE r[Len(r)]
  BY <1>1
<1>. QED  BY <1>2, <1>3 DEF Backed, r

(* The k-th element taken out: its neighbours are joined.                  *)
LEMMA RemoveLinked ==
  ASSUME NEW S, NEW q \in Seq(S), Once(q, S), NEW k \in 1 .. Len(q), NEW end,
         NEW first, NEW link, NEW new, Linked(q, first, link, end),
         \A i \in 1 .. Len(q) : i # k => new[q[i]] = IF i = k-1 THEN link[q[k]] ELSE link[q[i]]
  PROVE  Linked(RemoveAt(q, k), IF k = 1 THEN link[q[k]] ELSE first, new, end)
<1>. DEFINE r == RemoveAt(q, k)
<1>1. /\ r \in Seq(S) /\ Len(r) = Len(q) - 1 /\ Len(q) \in Nat
      /\ \A i \in 1 .. Len(q) - 1 : r[i] = IF i < k THEN q[i] ELSE q[i+1]
  BY RemoveAtShape, LenProperties
<1>. HIDE DEF r
<1>2. link[q[k]] = IF k = Len(q) THEN end ELSE q[k+1]
  BY DEF Linked
<1>3. (IF k = 1 THEN link[q[k]] ELSE first) = IF Len(r) = 0 THEN end ELSE r[1]
  <2>1. CASE k = 1
    <3>1. CASE Len(q) = 1
      BY <1>1, <1>2, <2>1, <3>1
    <3>2. CASE Len(q) # 1
      <4>1. 1 \in 1 .. Len(q) - 1 /\ ~(1 < k)
        BY <1>1, <2>1, <3>2
      <4>. QED  BY <1>1, <1>2, <2>1, <3>2, <4>1
    <3>. QED  BY <3>1, <3>2
  <2>2. CASE k # 1
    <3>1. 1 \in 1 .. Len(q) - 1 /\ 1 < k
      BY <1>1, <2>2
    <3>. QED  BY <1>1, <2>2, <3>1 DEF Linked
  <2>. QED  BY <2>1, <2>2
<1>4. ASSUME NEW i \in 1 .. Len(r)  PROVE new[r[i]] = IF i = Len(r) THEN end ELSE r[i+1]
  <2>1. CASE i + 1 < k
    <3>1. /\ r[i] = q[i] /\ r[i+1] = q[i+1] /\ i # Len(r) /\ i \in 1 .. Len(q)
          /\ i # k /\ i # k-1 /\ i # Len(q)
      BY <1>1, <2>1
    <3>. QED  BY <3>1 DEF Linked
  <2>2. CASE i + 1 = k
    <3>1. r[i] = q[i] /\ i \in 1 .. Len(q) /\ i # k /\ i = k-1
      BY <1>1, <2>2
    <3>2. i # Len(r) => i+1 \in 1 .. Len(q) - 1 /\ ~(i+1 < k)
      BY <1>1, <2>2
    <3>3. i # Len(r) => r[i+1] = q[k+1] /\ k # Len(q)
      BY <1>1, <2>2, <3>2
    <3>4. i = Len(r) => k = Len(q)
      BY <1>1, <2>2
    <3>. QED  BY <1>2, <3>1, <3>3, <3>4
  <2>3. CASE i + 1 > k
    <3>1. /\ r[i] = q[i+1] /\ i+1 \in 1 .. Len(q) /\ i+1 # k /\ i+1 # k-1
          /\ i = Len(r) <=> i+1 = Len(q)
      BY <1>1, <2>3
    <3>2. i # Len(r) => i+1 \in 1 .. Len(q) - 1 /\ ~(i+1 < k) /\ r[i+1] = q[(i+1)+1]
      BY <1>1, <2>3
    <3>. QED  BY <3>1, <3>2 DEF Linked
  <2>. QED  BY <1>1, <2>1, <2>2, <2>3
<1>. QED  BY <1>3, <1>4 DEF Linked, r

(* So they are for the way back.                                            *)
LEMMA RemoveBacked ==
  ASSUME NEW S, NEW q \in Seq(S), Once(q, S), NEW k \in 1 .. Len(q), NEW end,
         NEW last, NEW link, NEW new, Backed(q, last, link, end),
         \A i \in 1 .. Len(q) : i # k => new[q[i]] = IF i = k+1 THEN link[q[k]] ELSE link[q[i]]
  PROVE  Backed(RemoveAt(q, k), IF k = Len(q) THEN link[q[k]] ELSE last, new, end)
<1>. DEFINE r == RemoveAt(q, k)
<1>1. /\ r \in Seq(S) /\ Len(r) = Len(q) - 1 /\ Len(q) \in Nat
      /\ \A i \in 1 .. Len(q) - 1 : r[i] = IF i < k THEN q[i] ELSE q[i+1]
  BY RemoveAtShape, LenProperties
<1>. HIDE DEF r
<1>2. link[q[k]] = IF k = 1 THEN end ELSE q[k-1]
  BY DEF Backed
<1>3. (IF k = Len(q) THEN link[q[k]] ELSE last) = IF Len(r) = 0 THEN end ELSE r[Len(r)]
  <2>1. CASE k = Len(q)
    <3>1. CASE Len(q) = 1
      BY <1>1, <1>2, <2>1, <3>1
    <3>2. CASE Len(q) # 1
      <4>1. Len(r) \in 1 .. Len(q) - 1 /\ Len(r) < k /\ Len(r) = k-1
        BY <1>1, <2>1, <3>2
      <4>. QED  BY <1>1, <1>2, <2>1, <3>2, <4>1
    <3>. QED  BY <3>1, <3>2
  <2>2. CASE k # Len(q)
    <3>1. Len(r) \in 1 .. Len(q) - 1 /\ ~(Len(r) < k) /\ Len(r) + 1 = Len(q)
      BY <1>1, <2>2
    <3>. QED  BY <1>1, <2>2, <3>1 DEF Backed
  <2>. QED  BY <2>1, <2>2
<1>4. ASSUME NEW i \in 1 .. Len(r)  PROVE new[r[i]] = IF i = 1 THEN end ELSE r[i-1]
  <2>1. CASE i < k
    <3>1. r[i] = q[i] /\ i \in 1 .. Len(q) /\ i # k /\ i # k+1
      BY <1>1, <2>1
    <3>2. i # 1 => r[i-1] = q[i-1]
      BY <1>1, <2>1
    <3>. QED  BY <3>1, <3>2 DEF Backed
  <2>2. CASE i = k
    <3>1. r[i] = q[k+1] /\ k+1 \in 1 .. Len(q) /\ k+1 # k
      BY <1>1, <2>2
    <3>2. i # 1 => i-1 \in 1 .. Len(q) - 1 /\ i-1 < k
      BY <1>1, <2>2
    <3>3. i # 1 => r[i-1] = q[k-1]
      BY <1>1, <2>2, <3>2
    <3>. QED  BY <1>2, <2>2, <3>1, <3>3
  <2>3. CASE i > k
    <3>1. r[i] = q[i+1] /\ i+1 \in 1 .. Len(q) /\ i+1 # k /\ i+1 # k+1 /\ i+1 # 1 /\ i # 1
      BY <1>1, <2>3
    <3>2. i-1 \in 1 .. Len(q) - 1 /\ ~(i-1 < k) /\ (i-1)+1 = (i+1)-1
      BY <1>1, <2>3
    <3>. QED  BY <1>1, <3>1, <3>2 DEF Backed
  <2>. QED  BY <1>1, <2>1, <2>2, <2>3
<1>. QED  BY <1>3, <1>4 DEF Backed, r

(* A sequence without repetition is no longer than its set is large.       *)
LEMMA OnceLength ==
  ASSUME NEW S, NEW q \in Seq(S), Once(q, S)
  PROVE  /\ IsFiniteSet(ToSet(q)) /\ Cardinality(ToSet(q)) = Len(q)
         /\ IsFiniteSet(S) => Len(q) <= Cardinality(S)
<1>1. Len(q) \in Nat /\ DOMAIN q = 1 .. Len(q) /\ q \in [1 .. Len(q) -> S]
  BY LenProperties
<1>2. q \in Bijection(1 .. Len(q), ToSet(q))
  <2>1. q \in [1 .. Len(q) -> ToSet(q)]
    BY <1>1 DEF ToSet
  <2>2. \A i, j \in 1 .. Len(q) : q[i] = q[j] => i = j
    BY <1>1 DEF Once
  <2>3. \A x \in ToSet(q) : \E i \in 1 .. Len(q) : q[i] = x
    BY <1>1 DEF ToSet
  <2>. QED  BY <2>1, <2>2, <2>3 DEF Bijection, Injection, Surjection, IsInjective
<1>3. IsFiniteSet(1 .. Len(q)) /\ Cardinality(1 .. Len(q)) = IF 1 > Len(q) THEN 0 ELSE Len(q) - 1 + 1
  BY <1>1, FS_Interval
<1>4. Cardinality(1 .. Len(q)) = Len(q)
  BY <1>1, <1>3
<1>5. IsFiniteSet(ToSet(q)) /\ Cardinality(ToSet(q)) = Len(q)
  BY <1>2, <1>3, <1>4, FS_Bijection DEF ExistsBijection
<1>6. ToSet(q) \subseteq S
  BY <1>1 DEF ToSet
<1>. QED  BY <1>5, <1>6, FS_Subset

(* What RemoveFirst takes out is the first element of its kind; it is the  *)
(* only one where no element is twice.                                     *)
LEMMA FirstRemoved ==
  ASSUME NEW S, NEW q \in Seq(S), NEW k \in 1 .. Len(q), \A j \in 1 .. k-1 : q[j] # q[k]
  PROVE  RemoveFirst(q, q[k]) = RemoveAt(q, k)
<1>. DEFINE same == {i \in 1 .. Len(q) : q[i] = q[k]}
<1>1. Len(q) \in Nat
  BY LenProperties
<1>2. Min(same) \in same /\ Min(same) <= k
  <2>1. same \in SUBSET Nat /\ k \in same
    BY <1>1
  <2>. HIDE DEF same
  <2>. QED  BY <2>1, MinOfNats
<1>3. Min(same) = k
  <2>. DEFINE m == Min(same)
  <2>1. m \in 1 .. Len(q) /\ q[m] = q[k] /\ m <= k
    BY <1>2
  <2>. HIDE DEF m
  <2>2. m = k
    BY <1>1, <2>1
  <2>. QED  BY <2>2 DEF m
<1>4. SelectInSeq(q, LAMBDA v : v = q[k]) = k
  BY <1>3 DEF SelectInSeq
<1>5. k # 0
  BY <1>1
<1>. QED  BY <1>4, <1>5 DEF RemoveFirst

LEMMA RemoveFirstAt ==
  ASSUME NEW S, NEW q \in Seq(S), Once(q, S), NEW k \in 1 .. Len(q)
  PROVE  RemoveFirst(q, q[k]) = RemoveAt(q, k)
<1>1. DOMAIN q = 1 .. Len(q) /\ Len(q) \in Nat /\ q[k] \in S
  BY LenProperties, ElementOfSeq
<1>2. \A j \in 1 .. k-1 : q[j] # q[k]
  BY <1>1 DEF Once
<1>. QED  BY <1>2, FirstRemoved

-----------------------------------------------------------------------------
(* Places that are good one after the other all are: there is no first that*)
(* is not.                                                                 *)
LEMMA AllPlaces ==
  ASSUME NEW from \in Nat, NEW last \in Nat, NEW Good, from <= last => from \in Good,
         \A i \in from .. last : i # last /\ i \in Good => i + 1 \in Good
  PROVE  \A i \in from .. last : i \in Good
<1>. DEFINE Bad == {i \in from .. last : i \notin Good}
<1>. SUFFICES ASSUME Bad # {}  PROVE FALSE
  OBVIOUS
<1>1. Bad \in SUBSET Nat
  OBVIOUS
<1>2. PICK i : i \in Bad /\ \A j \in Bad : i <= j
  <2>. HIDE DEF Bad
  <2>. QED  BY <1>1, MinOfNats
<1>3. i # from /\ i \in from .. last
  BY <1>2
<1>4. i - 1 \in from .. last /\ i - 1 # last /\ (i - 1) + 1 = i /\ i - 1 \notin Bad
  BY <1>2, <1>3
<1>. QED  BY <1>2, <1>4
=============================================================================
