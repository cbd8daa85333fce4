----------------------------- MODULE WireProofs -----------------------------
(***************************************************************************)
(* Theorems about Wire, for any lines, names, passwords and sessions and   *)
(* for every room that parseTokens begins with: what strtok_r and the      *)
(* growing buffer make of a line, what is decoded of the packet built from *)
(* it, who gets in with a LOGIN, and what a member is shown of a MESSAGE.  *)
(***************************************************************************)
EXTENDS Wire, ListFacts
-----------------------------------------------------------------------------
(* FlattenSeq, one sequence after the other: f[i] is what the first i are. *)
Flattens(q, f) ==
  /\ f[0] = <<>> /\ f[Len(q)] = FlattenSeq(q)
  /\ \A i \in 1 .. Len(q) : f[i] = f[i-1] \o q[i]

(* There is such an f.                                                     *)
LEMMA FlattenAt ==
  ASSUME NEW S, NEW q \in Seq(Seq(S))
  PROVE  \E f : Flattens(q, f)
<1>. DEFINE L == Len(q)
            Begins(g, m) == g = [i \in 1 .. m |-> IF i = 1 THEN q[i] ELSE g[i-1] \o q[i]]
            Good == {m \in 0 .. L : \E g : Begins(g, m)}
            flatten == CHOOSE g : Begins(g, L)
            f == [i \in 0 .. L |-> IF i = 0 THEN <<>> ELSE flatten[i]]
<1>1. L \in Nat /\ \A i \in 1 .. L : q[i] \in Seq(S)
  BY LenProperties, ElementOfSeq
<1>2. FlattenSeq(q) = IF L = 0 THEN q ELSE flatten[L]
  BY DEF FlattenSeq
<1>. HIDE DEF L
<1>3. 0 \in Good
  <2>. DEFINE g == [i \in 1 .. 0 |-> <<>>]
  <2>1. Begins(g, 0)
    OBVIOUS
  <2>. HIDE DEF Begins
  <2>2. \E h : Begins(h, 0)
    BY <2>1
  <2>. QED  BY <1>1, <2>2
<1>4. \A m \in 0 .. L : m # L /\ m \in Good => m + 1 \in Good
  <2>. SUFFICES ASSUME NEW m \in 0 .. L, m # L, NEW g, Begins(g, m)
                PROVE  m + 1 \in 0 .. L /\ \E h : Begins(h, m + 1)
    OBVIOUS
  <2>. DEFINE Goes(i, h) == IF i = 1 THEN q[i] ELSE h[i-1] \o q[i]
              h == [i \in 1 .. m + 1 |-> IF i <= m THEN g[i] ELSE Goes(i, g)]
              rhs == [i \in 1 .. m + 1 |-> Goes(i, h)]
  <2>1. m \in Nat /\ m + 1 \in 0 .. L
    BY <1>1
  <2>2. \A i \in 1 .. m : g[i] = Goes(i, g)
    <3>. HIDE DEF Goes
    <3>. QED  BY DEF Goes
  <2>3. \A i \in 1 .. m + 1 : h[i] = Goes(i, g)
    <3>1. \A i \in 1 .. m + 1 : h[i] = IF i <= m THEN g[i] ELSE Goes(i, g)
      OBVIOUS
    <3>2. \A i \in 1 .. m + 1 : i <= m => i \in 1 .. m
      BY <2>1
    <3>. HIDE DEF h, Goes
    <3>. QED  BY <2>2, <3>1, <3>2
  <2>4. \A i \in 1 .. m : h[i] = g[i]
    BY <2>1
  <2>5. \A i \in 1 .. m + 1 : Goes(i, h) = Goes(i, g)
    <3>. SUFFICES ASSUME NEW i \in 1 .. m + 1, i # 1  PROVE h[i-1] = g[i-1]
      BY DEF Goes
    <3>1. i - 1 \in 1 .. m
      BY <2>1
    <3>. HIDE DEF h
    <3>. QED  BY <2>4, <3>1
  <2>6. h = [i \in 1 .. m + 1 |-> h[i]] /\ rhs = [i \in 1 .. m + 1 |-> rhs[i]]
    OBVIOUS
  <2>7. \A i \in 1 .. m + 1 : h[i] = rhs[i]
    <3>1. \A i \in 1 .. m + 1 : rhs[i] = Goes(i, h)
      OBVIOUS
    <3>. HIDE DEF h, rhs, Goes
    <3>. QED  BY <2>3, <2>5, <3>1
  <2>8. h = rhs
    <3>. HIDE DEF h, rhs
    <3>. QED  BY <2>6, <2>7
  <2>9. Begins(h, m + 1)
    <3>. HIDE DEF h
    <3>. QED  BY <2>8
  <2>. HIDE DEF Begins
  <2>. QED  BY <2>1, <2>9
<1>5. Begins(flatten, L)
  <2>1. \A m \in 0 .. L : m \in Good
    <3>. HIDE DEF Good
    <3>. QED  BY <1>1, <1>3, <1>4, AllPlaces
  <2>. HIDE DEF Begins
  <2>2. \E g : Begins(g, L)
    BY <1>1, <2>1
  <2>. QED  BY <2>2
<1>6. \A i \in 1 .. L : flatten[i] = IF i = 1 THEN q[i] ELSE flatten[i-1] \o q[i]
  <2>. HIDE DEF flatten
  <2>. QED  BY <1>5
<1>. HIDE DEF flatten
<1>7. f[0] = <<>>
  BY <1>1
<1>8. f[L] = FlattenSeq(q)
  <2>1. L = 0 => q = <<>>
    BY EmptySeq DEF L
  <2>2. f[L] = IF L = 0 THEN <<>> ELSE flatten[L]
    BY <1>1
  <2>. QED  BY <1>2, <2>1, <2>2
<1>9. \A i \in 1 .. L : f[i] = f[i-1] \o q[i]
  <2>. SUFFICES ASSUME NEW i \in 1 .. L  PROVE f[i] = f[i-1] \o q[i]
    OBVIOUS
  <2>1. f[i] = flatten[i] /\ f[i-1] = IF i = 1 THEN <<>> ELSE flatten[i-1]
    BY <1>1
  <2>2. <<>> \o q[i] = q[i]
    BY <1>1, ConcatEmptySeq
  <2>. HIDE DEF f
  <2>. QED  BY <1>6, <2>1, <2>2
<1>. QED
  <2>. HIDE DEF f
  <2>. QED  BY <1>7, <1>8, <1>9 DEF L, Flattens

(* What each of them is made of.                                           *)
LEMMA FlattenType ==
  ASSUME NEW S, NEW q \in Seq(Seq(S)), NEW f, Flattens(q, f)
  PROVE  \A i \in 0 .. Len(q) : f[i] \in Seq(S)
<1>1. Len(q) \in Nat /\ \A i \in 1 .. Len(q) : q[i] \in Seq(S)
  BY LenProperties, ElementOfSeq
<1>. DEFINE Good == {i \in 0 .. Len(q) : f[i] \in Seq(S)}
<1>2. 0 \in Good
  <2>1. 0 \in 0 .. Len(q) /\ f[0] = <<>> /\ <<>> \in Seq(S)
    BY <1>1, EmptySeq DEF Flattens
  <2>. QED  BY <2>1
<1>3. \A i \in 0 .. Len(q) : i # Len(q) /\ i \in Good => i + 1 \in Good
  <2>. SUFFICES ASSUME NEW i \in 0 .. Len(q), i # Len(q), f[i] \in Seq(S)
                PROVE  i + 1 \in 0 .. Len(q) /\ f[i+1] \in Seq(S)
    OBVIOUS
  <2>1. i + 1 \in 1 .. Len(q) /\ i + 1 \in 0 .. Len(q) /\ (i + 1) - 1 = i
    BY <1>1
  <2>2. f[i+1] = f[i] \o q[i+1]
    BY <2>1 DEF Flattens
  <2>. QED  BY <1>1, <2>1, <2>2, ConcatProperties
<1>4. \A i \in 0 .. Len(q) : i \in Good
  <2>. HIDE DEF Good
  <2>. QED  BY <1>1, <1>2, <1>3, AllPlaces
<1>. QED  BY <1>4

-----------------------------------------------------------------------------
(* UpTo: the characters before the first that is an end.  The first n of   *)
(* L characters are none, and then there is one, or nothing.               *)
Stops(t, L, ends, n) ==
  n \in 0 .. L /\ (\A i \in 1 .. n : t[i] \notin ends) /\ (n = L \/ t[n+1] \in ends)

(* UpTo finds the first end there.                                         *)
LEMMA FirstEnd ==
  ASSUME NEW L \in Nat, NEW n, NEW t, DOMAIN t = 1 .. L, NEW ends, Stops(t, L, ends, n)
  PROVE  Min({i \in DOMAIN t : t[i] \in ends} \cup {L + 1}) = n + 1
<1>. DEFINE E == {i \in DOMAIN t : t[i] \in ends} \cup {L + 1}
<1>. n \in Nat
  BY DEF Stops
<1>1. n + 1 \in E
  BY DEF Stops
<1>2. ASSUME NEW i \in E  PROVE n + 1 <= i
  <2>1. i \in Nat /\ i >= 1 /\ i \notin 1 .. n
    BY DEF Stops
  <2>. QED  BY <2>1
<1>3. E \in SUBSET Nat
  OBVIOUS
<1>. HIDE DEF E
<1>4. Min(E) \in E /\ \A i \in E : Min(E) <= i
  BY <1>1, <1>3, MinOfNats
<1>5. Min(E) = n + 1
  <2>. PICK m : m = Min(E)
    OBVIOUS
  <2>1. m \in Nat /\ m <= n + 1 /\ n + 1 <= m
    BY <1>1, <1>2, <1>3, <1>4
  <2>. QED  BY <2>1
<1>. QED  BY <1>5 DEF E

(* The number of characters before it.                                     *)
LEMMA StopsIn ==
  ASSUME NEW L \in Nat, NEW n, NEW t, NEW ends, Stops(t, L, ends, n)
  PROVE  n \in Nat /\ n <= L /\ (n + 1) - 1 = n
<1>1. n \in 0 .. L
  BY DEF Stops
<1>. QED  BY <1>1

(* UpTo is the beginning of that length.                                   *)
LEMMA UpToIs ==
  ASSUME NEW S, NEW t \in Seq(S), NEW ends, NEW n, Stops(t, Len(t), ends, n)
  PROVE  UpTo(t, ends) = SubSeq(t, 1, n)
<1>1. Len(t) \in Nat /\ DOMAIN t = 1 .. Len(t)
  BY LenProperties
<1>2. Min({i \in DOMAIN t : t[i] \in ends} \cup {Len(t) + 1}) = n + 1
  BY <1>1, FirstEnd
<1>3. (n + 1) - 1 = n
  BY <1>1, StopsIn
<1>. QED  BY <1>2, <1>3 DEF UpTo

(* Where that is.                                                          *)
LEMMA EndsSomewhere ==
  ASSUME NEW L \in Nat, NEW t, NEW ends
  PROVE  \E n : Stops(t, L, ends, n)
<1>. DEFINE E == {i \in 0 .. L : i = L \/ t[i+1] \in ends}
<1>1. E \in SUBSET Nat /\ L \in E
  OBVIOUS
<1>. PICK n : n = Min(E)
  OBVIOUS
<1>2. n \in E /\ \A i \in E : n <= i
  <2>. HIDE DEF E
  <2>. QED  BY <1>1, MinOfNats
<1>3. \A i \in 1 .. n : t[i] \notin ends
  <2>. SUFFICES ASSUME NEW i \in 1 .. n, t[i] \in ends  PROVE FALSE
    OBVIOUS
  <2>1. n \in 0 .. L
    BY <1>2
  <2>2. i - 1 \in 0 .. L /\ (i - 1) + 1 = i /\ ~(n <= i - 1)
    BY <2>1
  <2>3. i - 1 \in E
    BY <2>2
  <2>. HIDE DEF E
  <2>. QED  BY <1>2, <2>2, <2>3
<1>4. n \in 0 .. L /\ (n = L \/ t[n+1] \in ends)
  BY <1>2
<1>. QED  BY <1>3, <1>4 DEF Stops

(* The rest of s from a on, up to the end of the run that i is in.         *)
LEMMA UpToRun ==
  ASSUME NEW S, NEW s \in Seq(S), NEW ends, NEW a \in 1 .. Len(s), NEW i \in a .. Len(s),
         \A j \in a .. i : s[j] \notin ends, i = Len(s) \/ s[i+1] \in ends
  PROVE  UpTo(SubSeq(s, a, Len(s)), ends) = SubSeq(s, a, i)
<1>. PICK t : t = SubSeq(s, a, Len(s))
  OBVIOUS
<1>1. Len(s) \in Nat
  BY LenProperties
<1>2. /\ t \in Seq(S) /\ Len(t) = Len(s) - a + 1
      /\ \A j \in 1 .. Len(s) - a + 1 : t[j] = s[a+j-1]
  <2>1. \A j \in a .. Len(s) : s[j] \in S
    BY <1>1, ElementOfSeq
  <2>. QED  BY <1>1, <2>1, SubSeqProperties
<1>3. UpTo(t, ends) = SubSeq(t, 1, i - a + 1)
  <2>1. i - a + 1 \in 0 .. Len(t)
    BY <1>1, <1>2
  <2>2. ASSUME NEW j \in 1 .. i - a + 1  PROVE t[j] \notin ends
    <3>1. a + j - 1 \in a .. i /\ j \in 1 .. Len(s) - a + 1
      BY <1>1
    <3>. QED  BY <1>2, <3>1
  <2>3. i - a + 1 = Len(t) \/ t[(i - a + 1) + 1] \in ends
    <3>1. CASE i = Len(s)
      BY <1>2, <3>1
    <3>2. CASE i # Len(s)
      <4>1. (i - a + 1) + 1 \in 1 .. Len(s) - a + 1 /\ a + ((i - a + 1) + 1) - 1 = i + 1
        BY <1>1, <3>2
      <4>. QED  BY <1>2, <3>2, <4>1
    <3>. QED  BY <3>1, <3>2
  <2>4. Stops(t, Len(t), ends, i - a + 1)
    BY <2>1, <2>2, <2>3 DEF Stops
  <2>. QED  BY <1>2, <2>4, UpToIs
<1>4. SubSeq(t, 1, i - a + 1) = SubSeq(s, a, i)
  <2>1. /\ Len(s) \in 1 .. Len(s) /\ 1 \in 1 .. Len(s) - a + 1
        /\ i - a + 1 \in 1 .. Len(s) - a + 1
        /\ a + 1 - 1 = a /\ a + (i - a + 1) - 1 = i
    BY <1>1
  <2>2. SubSeq(SubSeq(s, a, Len(s)), 1, i - a + 1) = SubSeq(s, a + 1 - 1, a + (i - a + 1) - 1)
    BY <2>1, SubSeqOfSubSeq
  <2>. QED  BY <2>1, <2>2
<1>. QED  BY <1>3, <1>4

-----------------------------------------------------------------------------
(* strtok.  The places a token begins at, and how many there are up to the *)
(* i-th character.                                                         *)
Starts(s, ends) == {i \in DOMAIN s : s[i] \notin ends /\ (i = 1 \/ s[i-1] \in ends)}
Count(s, ends, i) == Cardinality({j \in Starts(s, ends) : j <= i})

(* The count goes up by one at each of them.                               *)
LEMMA CountNext ==
  ASSUME NEW S, NEW s \in Seq(S), NEW ends
  PROVE  /\ Count(s, ends, 0) = 0 /\ Count(s, ends, Len(s)) = Cardinality(Starts(s, ends))
         /\ Starts(s, ends) \subseteq 1 .. Len(s)
         /\ \A i \in 0 .. Len(s) : Count(s, ends, i) \in Nat
         /\ \A i \in 1 .. Len(s) : Count(s, ends, i) =
              Count(s, ends, i - 1) + (IF i \in Starts(s, ends) THEN 1 ELSE 0)
<1>. PICK L : L = Len(s)
  OBVIOUS
<1>. PICK A : A = Starts(s, ends)
  OBVIOUS
<1>1. L \in Nat /\ A \subseteq 1 .. L
  BY LenProperties DEF Starts
<1>2. IsFiniteSet(1 .. L)
  BY <1>1, FS_Interval
<1>3. \A i \in 0 .. L : /\ IsFiniteSet({j \in A : j <= i})
                        /\ Cardinality({j \in A : j <= i}) \in Nat
  <2>. SUFFICES ASSUME NEW i \in 0 .. L
                PROVE  IsFiniteSet({j \in A : j <= i}) /\ Cardinality({j \in A : j <= i}) \in Nat
    OBVIOUS
  <2>1. {j \in A : j <= i} \in SUBSET (1 .. L)
    BY <1>1
  <2>2. IsFiniteSet({j \in A : j <= i})
    BY <1>2, <2>1, FS_Subset
  <2>. QED  BY <2>2, FS_CardinalityType
<1>4. Cardinality({j \in A : j <= 0}) = 0
  <2>1. {j \in A : j <= 0} = {}
    BY <1>1
  <2>. QED  BY <2>1, FS_EmptySet
<1>5. {j \in A : j <= L} = A
  BY <1>1
<1>. DEFINE UpToAt(i) == {j \in A : j <= i}
<1>6. ASSUME NEW i \in 1 .. L
      PROVE  Cardinality(UpToAt(i)) = Cardinality(UpToAt(i - 1)) + (IF i \in A THEN 1 ELSE 0)
  <2>1. i - 1 \in 0 .. L /\ ~(i <= i - 1)
    BY <1>1
  <2>2. /\ IsFiniteSet(UpToAt(i - 1)) /\ Cardinality(UpToAt(i - 1)) \in Nat
        /\ i \notin UpToAt(i - 1)
    BY <1>3, <2>1
  <2>3. UpToAt(i) = IF i \in A THEN UpToAt(i - 1) \cup {i} ELSE UpToAt(i - 1)
    BY <1>1
  <2>. HIDE DEF UpToAt
  <2>4. Cardinality(UpToAt(i - 1) \cup {i}) = Cardinality(UpToAt(i - 1)) + 1
    BY <2>2, FS_AddElement
  <2>. QED  BY <2>2, <2>3, <2>4
<1>. QED  BY <1>1, <1>3, <1>4, <1>5, <1>6 DEF Count

(* So it never goes down, is different at any two of them, and takes every *)
(* value up to the number of tokens at one.                                *)
LEMMA CountOrder ==
  ASSUME NEW S, NEW s \in Seq(S), NEW ends
  PROVE  /\ \A i, j \in 0 .. Len(s) : i <= j => Count(s, ends, i) <= Count(s, ends, j)
         /\ \A a, b \in Starts(s, ends) : Count(s, ends, a) = Count(s, ends, b) => a = b
         /\ \A k \in 1 .. Count(s, ends, Len(s)) :
              \E a \in Starts(s, ends) : Count(s, ends, a) = k
<1>. PICK L : L = Len(s)
  OBVIOUS
<1>. PICK A : A = Starts(s, ends)
  OBVIOUS
<1>. DEFINE c == [i \in 0 .. L |-> Count(s, ends, i)]
<1>1. L \in Nat /\ A \subseteq 1 .. L
  BY LenProperties, CountNext
<1>2. /\ c[0] = 0 /\ c \in [0 .. L -> Nat]
      /\ \A i \in 1 .. L : c[i] = c[i-1] + (IF i \in A THEN 1 ELSE 0)
      /\ \A i \in 0 .. L : c[i] = Count(s, ends, i)
  <2>1. \A i \in 1 .. L : i \in 0 .. L /\ i - 1 \in 0 .. L
    BY <1>1
  <2>2. \A i \in 0 .. L : Count(s, ends, i) \in Nat
    BY CountNext
  <2>3. Count(s, ends, 0) = 0
    BY CountNext
  <2>4. \A i \in 1 .. L : Count(s, ends, i) = Count(s, ends, i - 1) + (IF i \in A THEN 1 ELSE 0)
    BY CountNext
  <2>5. 0 \in 0 .. L
    BY <1>1
  <2>. QED  BY <2>1, <2>2, <2>3, <2>4, <2>5
<1>. HIDE DEF c
<1>3. \A i, j \in 0 .. L : i <= j => c[i] <= c[j]
  <2>. SUFFICES ASSUME NEW i \in 0 .. L
                PROVE  \A j \in i .. L : c[i] <= c[j]
    BY <1>1
  <2>. DEFINE Good == {j \in i .. L : c[i] <= c[j]}
  <2>1. i \in Good
    BY <1>1, <1>2
  <2>2. \A j \in i .. L : j # L /\ j \in Good => j + 1 \in Good
    <3>. SUFFICES ASSUME NEW j \in i .. L, j # L, c[i] <= c[j]
                  PROVE  j + 1 \in i .. L /\ c[i] <= c[j+1]
      OBVIOUS
    <3>1. j + 1 \in i .. L /\ j + 1 \in 1 .. L /\ (j + 1) - 1 = j /\ j \in 0 .. L
      BY <1>1
    <3>2. c[j+1] = c[j] + (IF j + 1 \in A THEN 1 ELSE 0)
      BY <1>2, <3>1
    <3>3. c[i] \in Nat /\ c[j] \in Nat
      BY <1>2, <3>1
    <3>. QED  BY <3>1, <3>2, <3>3
  <2>3. i \in Nat
    BY <1>1
  <2>4. \A j \in i .. L : j \in Good
    <3>. HIDE DEF Good
    <3>. QED  BY <1>1, <2>1, <2>2, <2>3, AllPlaces
  <2>. QED  BY <2>4
<1>4. ASSUME NEW a \in A, NEW b \in A, a < b  PROVE c[a] < c[b]
  <2>1. a \in 0 .. L /\ b \in 1 .. L /\ b - 1 \in 0 .. L /\ b \in 0 .. L /\ a <= b - 1
    BY <1>1, <1>4
  <2>2. c[a] <= c[b-1] /\ c[b] = c[b-1] + 1
    BY <1>2, <1>3, <2>1
  <2>3. c[a] \in Nat /\ c[b-1] \in Nat
    BY <1>2, <2>1
  <2>. QED  BY <2>2, <2>3
<1>5. \A a, b \in A : c[a] = c[b] => a = b
  <2>. SUFFICES ASSUME NEW a \in A, NEW b \in A, c[a] = c[b], a # b  PROVE FALSE
    OBVIOUS
  <2>1. a < b \/ b < a
    BY <1>1
  <2>2. c[a] < c[a]
    BY <1>4, <2>1
  <2>3. c[a] \in Nat
    BY <1>1, <1>2
  <2>. QED  BY <2>2, <2>3
<1>6. \A k \in 1 .. c[L] : \E a \in A : c[a] = k
  <2>. DEFINE Good == {i \in 0 .. L : \A k \in 1 .. c[i] : \E a \in A : c[a] = k}
  <2>1. 0 \in Good
    BY <1>1, <1>2
  <2>2. \A i \in 0 .. L : i # L /\ i \in Good => i + 1 \in Good
    <3>. SUFFICES ASSUME NEW i \in 0 .. L, i # L, \A k \in 1 .. c[i] : \E a \in A : c[a] = k,
                         NEW k \in 1 .. c[i+1]
                  PROVE  \E a \in A : c[a] = k
      BY <1>1
    <3>1. i + 1 \in 0 .. L /\ i + 1 \in 1 .. L /\ (i + 1) - 1 = i
      BY <1>1
    <3>2. c[i+1] = c[i] + (IF i + 1 \in A THEN 1 ELSE 0) /\ c[i] \in Nat
      BY <1>2, <3>1
    <3>3. k \in 1 .. c[i] \/ (i + 1 \in A /\ c[i+1] = k)
      BY <3>2
    <3>. QED  BY <3>1, <3>3
  <2>3. \A i \in 0 .. L : i \in Good
    <3>. HIDE DEF Good
    <3>. QED  BY <1>1, <2>1, <2>2, AllPlaces
  <2>4. L \in 0 .. L
    BY <1>1
  <2>. QED  BY <2>3, <2>4
<1>7. L \in 0 .. L /\ A \subseteq 0 .. L
  BY <1>1
<1>. QED  BY <1>2, <1>3, <1>5, <1>6, <1>7

(* A beginning is a sequence of its length.                                *)
LEMMA PrefixOf ==
  ASSUME NEW S, NEW t \in Seq(S), NEW n \in 0 .. Len(t)
  PROVE  SubSeq(t, 1, n) \in Seq(S) /\ Len(SubSeq(t, 1, n)) = n
<1>1. Len(t) \in Nat /\ n \in Nat /\ 1 \in Int /\ n \in Int /\ n - 1 + 1 = n
  BY LenProperties
<1>2. \A j \in 1 .. n : t[j] \in S
  BY <1>1, ElementOfSeq
<1>3. SubSeq(t, 1, n) \in Seq(S) /\ Len(SubSeq(t, 1, n)) = IF 1 <= n THEN n - 1 + 1 ELSE 0
  BY <1>1, <1>2, SubSeqProperties
<1>. QED  BY <1>1, <1>3

(* It is a sequence, and not empty if the first character is no end.       *)
LEMMA UpToType ==
  ASSUME NEW S, NEW s \in Seq(S), NEW ends, NEW a \in 1 .. Len(s)
  PROVE  /\ UpTo(SubSeq(s, a, Len(s)), ends) \in Seq(S)
         /\ s[a] \notin ends => UpTo(SubSeq(s, a, Len(s)), ends) # <<>>
<1>. PICK t : t = SubSeq(s, a, Len(s))
  OBVIOUS
<1>1. t \in Seq(S) /\ Len(t) \in Nat \ {0} /\ t[1] = s[a]
  <2>1. Len(s) \in Nat
    BY LenProperties
  <2>2. \A j \in a .. Len(s) : s[j] \in S
    BY <2>1, ElementOfSeq
  <2>3. 1 \in 1 .. Len(s) - a + 1 /\ a + 1 - 1 = a
    BY <2>1
  <2>. QED  BY <2>1, <2>2, <2>3, SubSeqProperties
<1>2. PICK n : Stops(t, Len(t), ends, n)
  BY <1>1, EndsSomewhere
<1>3. n \in 0 .. Len(t) /\ UpTo(t, ends) = SubSeq(t, 1, n)
  BY <1>1, <1>2, UpToIs DEF Stops
<1>4. SubSeq(t, 1, n) \in Seq(S) /\ (n # 0 => SubSeq(t, 1, n) # <<>>)
  <2>1. SubSeq(t, 1, n) \in Seq(S) /\ Len(SubSeq(t, 1, n)) = n
    BY <1>1, <1>3, PrefixOf
  <2>2. Len(<<>>) = 0
    BY EmptySeq
  <2>. QED  BY <2>1, <2>2
<1>5. s[a] \notin ends => n # 0
  <2>1. n = 0 => t[n+1] \in ends
    BY <1>1, <1>2 DEF Stops
  <2>. QED  BY <1>1, <2>1
<1>. QED  BY <1>3, <1>4, <1>5

(* A token for each of the places, in their order.                         *)
LEMMA TokenAt ==
  ASSUME NEW S, NEW s \in Seq(S), NEW ends
  PROVE  /\ strtok(s, ends) \in Seq(Seq(S))
         /\ Len(strtok(s, ends)) = Count(s, ends, Len(s))
         /\ \A a \in Starts(s, ends) :
              /\ Count(s, ends, a) \in 1 .. Count(s, ends, Len(s))
              /\ strtok(s, ends)[Count(s, ends, a)] = UpTo(SubSeq(s, a, Len(s)), ends)
<1>. DEFINE n == Count(s, ends, Len(s))
            Place(k) == CHOOSE i \in Starts(s, ends) : Count(s, ends, i) = k
<1>1. strtok(s, ends) = [k \in 1 .. n |-> UpTo(SubSeq(s, Place(k), Len(s)), ends)]
  <2>1. strtok(s, ends) =
          [k \in 1 .. Cardinality(Starts(s, ends)) |-> UpTo(SubSeq(s, Place(k), Len(s)), ends)]
    BY DEF strtok, Starts, Count
  <2>2. n = Cardinality(Starts(s, ends))
    BY CountNext
  <2>. QED  BY <2>1, <2>2
<1>2. n \in Nat /\ Len(s) \in Nat /\ Starts(s, ends) \subseteq 1 .. Len(s)
  <2>1. Len(s) \in Nat
    BY LenProperties
  <2>. QED  BY <2>1, CountNext
<1>3. ASSUME NEW k \in 1 .. n
      PROVE  Place(k) \in Starts(s, ends) /\ Count(s, ends, Place(k)) = k
  <2>1. \E a \in Starts(s, ends) : Count(s, ends, a) = k
    BY CountOrder
  <2>. QED  BY <2>1
<1>4. ASSUME NEW a \in Starts(s, ends)
      PROVE  Count(s, ends, a) \in 1 .. n /\ Place(Count(s, ends, a)) = a
  <2>1. Count(s, ends, a) \in 1 .. n
    <3>1. a \in 1 .. Len(s) /\ a - 1 \in 0 .. Len(s) /\ a \in 0 .. Len(s) /\ Len(s) \in 0 .. Len(s)
          /\ a <= Len(s)
      BY <1>2
    <3>2. Count(s, ends, a) = Count(s, ends, a - 1) + 1 /\ Count(s, ends, a - 1) \in Nat
      BY <3>1, CountNext
    <3>3. Count(s, ends, a) <= Count(s, ends, Len(s))
      BY <3>1, CountOrder
    <3>. QED  BY <1>2, <3>2, <3>3
  <2>2. Place(Count(s, ends, a)) \in Starts(s, ends)
        /\ Count(s, ends, Place(Count(s, ends, a))) = Count(s, ends, a)
    BY <1>3, <2>1
  <2>. HIDE DEF Place
  <2>3. Place(Count(s, ends, a)) = a
    BY <2>2, CountOrder
  <2>. QED  BY <2>1, <2>3
<1>. HIDE DEF n, Place
<1>5. \A k \in 1 .. n : UpTo(SubSeq(s, Place(k), Len(s)), ends) \in Seq(S)
  BY <1>2, <1>3, UpToType
<1>6. strtok(s, ends) \in Seq(Seq(S)) /\ Len(strtok(s, ends)) = n
  <2>. PICK q : q = strtok(s, ends)
    OBVIOUS
  <2>1. q = [k \in 1 .. n |-> q[k]] /\ \A k \in 1 .. n : q[k] \in Seq(S)
    BY <1>1, <1>5
  <2>. QED  BY <1>2, <2>1
<1>7. \A a \in Starts(s, ends) :
        strtok(s, ends)[Count(s, ends, a)] = UpTo(SubSeq(s, a, Len(s)), ends)
  BY <1>1, <1>4
<1>. QED  BY <1>4, <1>6, <1>7 DEF n

(* The characters of s that are no ends, each a sequence; t and w are the  *)
(* sequences that the tokens and these characters build up.                *)
Singles(s, ends) == [i \in DOMAIN s |-> IF s[i] \in ends THEN <<>> ELSE <<s[i]>>]
Cuts(S, s, ends, t, w) ==
  s \in Seq(S) /\ Flattens(strtok(s, ends), t) /\ Flattens(Singles(s, ends), w)

(* A sequence for each character.                                          *)
LEMMA SinglesType ==
  ASSUME NEW S, NEW s \in Seq(S), NEW ends
  PROVE  Singles(s, ends) \in Seq(Seq(S)) /\ Len(Singles(s, ends)) = Len(s)
<1>. PICK q : q = Singles(s, ends)
  OBVIOUS
<1>1. Len(s) \in Nat /\ DOMAIN s = 1 .. Len(s)
  BY LenProperties
<1>2. \A i \in 1 .. Len(s) : s[i] \in S
  BY ElementOfSeq
<1>3. q = [i \in 1 .. Len(s) |-> q[i]] /\ \A i \in 1 .. Len(s) : q[i] \in Seq(S)
  BY <1>1, <1>2 DEF Singles
<1>. QED  BY <1>1, <1>3

(* What a step along s adds to either.                                     *)
LEMMA SinglesNext ==
  ASSUME NEW S, NEW s, NEW ends, NEW t, NEW w, Cuts(S, s, ends, t, w), NEW i \in 1 .. Len(s)
  PROVE  /\ s[i] \in ends => w[i] = w[i-1]
         /\ s[i] \notin ends => w[i] = w[i-1] \o <<s[i]>>
         /\ w[i-1] \in Seq(S) /\ <<s[i]>> \in Seq(S)
<1>. PICK q : q = Singles(s, ends)
  OBVIOUS
<1>1. s \in Seq(S)
  BY DEF Cuts
<1>2. q \in Seq(Seq(S)) /\ Len(q) = Len(s)
  BY <1>1, SinglesType
<1>3. Len(s) \in Nat /\ DOMAIN s = 1 .. Len(s) /\ s[i] \in S
  BY <1>1, LenProperties, ElementOfSeq
<1>4. i - 1 \in 0 .. Len(q)
  BY <1>2, <1>3
<1>5. w[i-1] \in Seq(S)
  <2>1. Flattens(q, w)
    BY DEF Cuts
  <2>. QED  BY <1>2, <1>4, <2>1, FlattenType
<1>6. q[i] = IF s[i] \in ends THEN <<>> ELSE <<s[i]>>
  BY <1>3 DEF Singles
<1>7. w[i] = w[i-1] \o q[i]
  BY <1>2 DEF Cuts, Flattens
<1>8. <<s[i]>> \in Seq(S)
  <2>. PICK e : e = s[i]
    OBVIOUS
  <2>1. e \in S
    BY <1>3
  <2>2. <<e>> \in Seq(S)
    BY <2>1
  <2>. QED  BY <2>2
<1>9. w[i-1] \o <<>> = w[i-1]
  BY <1>5, ConcatEmptySeq
<1>. QED  BY <1>5, <1>6, <1>7, <1>8, <1>9

(* Each token adds the run that begins at its place.                       *)
LEMMA TokensNext ==
  ASSUME NEW S, NEW s, NEW ends, NEW t, NEW w, Cuts(S, s, ends, t, w),
         NEW a \in Starts(s, ends)
  PROVE  /\ t[Count(s, ends, a) - 1] \in Seq(S)
         /\ t[Count(s, ends, a)] =
              t[Count(s, ends, a) - 1] \o UpTo(SubSeq(s, a, Len(s)), ends)
<1>. PICK q : q = strtok(s, ends)
  OBVIOUS
<1>. PICK k : k = Count(s, ends, a)
  OBVIOUS
<1>1. s \in Seq(S) /\ Flattens(q, t)
  BY DEF Cuts
<1>2. /\ q \in Seq(Seq(S)) /\ k \in 1 .. Len(q)
      /\ q[k] = UpTo(SubSeq(s, a, Len(s)), ends)
  BY <1>1, TokenAt
<1>3. Len(q) \in Nat
  BY <1>2, LenProperties
<1>4. k - 1 \in 0 .. Len(q)
  BY <1>2, <1>3
<1>5. t[k-1] \in Seq(S)
  BY <1>1, <1>2, <1>4, FlattenType
<1>6. t[k] = t[k-1] \o q[k]
  BY <1>1, <1>2 DEF Flattens
<1>. QED  BY <1>2, <1>5, <1>6

(* Where tokens begin, in terms of the length.                             *)
LEMMA PlacesOf ==
  ASSUME NEW S, NEW s, NEW ends, NEW t, NEW w, Cuts(S, s, ends, t, w)
  PROVE  /\ Len(s) \in Nat /\ Starts(s, ends) \subseteq 1 .. Len(s)
         /\ \A i \in 1 .. Len(s) :
              i \in Starts(s, ends) <=> s[i] \notin ends /\ (i = 1 \/ s[i-1] \in ends)
<1>1. Len(s) \in Nat /\ DOMAIN s = 1 .. Len(s)
  BY LenProperties DEF Cuts
<1>. QED  BY <1>1 DEF Starts

(* A piece of s and the piece with one more character.                     *)
LEMMA PieceNext ==
  ASSUME NEW S, NEW s \in Seq(S), NEW a \in 1 .. Len(s), NEW i \in a .. Len(s)
  PROVE  /\ SubSeq(s, a, a) = <<s[a]>> /\ SubSeq(s, a, i) \in Seq(S)
         /\ i # Len(s) => SubSeq(s, a, i + 1) = SubSeq(s, a, i) \o <<s[i+1]>>
<1>1. Len(s) \in Nat
  BY LenProperties
<1>2. a \in a .. Len(s) /\ a + 1 \in Int /\ a \in Int /\ a < a + 1 /\ i \in Int
  BY <1>1
<1>3. SubSeq(s, a, a) = <<s[a]>> \o SubSeq(s, a + 1, a)
  BY <1>2, SubSeqRecursiveFirst
<1>4. SubSeq(s, a + 1, a) = <<>>
  BY <1>2, SubSeqEmpty
<1>5. <<s[a]>> \in Seq(S)
  <2>. PICK e : e = s[a]
    OBVIOUS
  <2>1. e \in S
    BY ElementOfSeq
  <2>2. <<e>> \in Seq(S)
    BY <2>1
  <2>. QED  BY <2>2
<1>6. <<s[a]>> \o <<>> = <<s[a]>>
  BY <1>5, ConcatEmptySeq
<1>7. SubSeq(s, a, i) \in Seq(S)
  <2>1. \A j \in a .. i : j \in 1 .. Len(s)
    BY <1>1
  <2>2. \A j \in a .. i : s[j] \in S
    BY <2>1, ElementOfSeq
  <2>. QED  BY <1>2, <2>2, SubSeqProperties
<1>8. i # Len(s) => SubSeq(s, a, i + 1) = SubSeq(s, a, (i + 1) - 1) \o <<s[i+1]>>
  <2>1. i # Len(s) => i + 1 \in a .. Len(s)
    BY <1>1
  <2>. QED  BY <2>1, SubSeqRecursiveSecond
<1>9. (i + 1) - 1 = i
  BY <1>1
<1>. QED  BY <1>3, <1>4, <1>6, <1>7, <1>8, <1>9

(* The first i characters without the ends are the tokens so far, and the  *)
(* beginning of the one that is open.                                      *)
Open(s, ends, a, i) ==
  /\ a \in Starts(s, ends) /\ a <= i /\ Count(s, ends, a) = Count(s, ends, i)
  /\ \A j \in a .. i : s[j] \notin ends

JoinedTo(s, ends, t, w, i) ==
  \/ (i = 0 \/ s[i] \in ends) /\ w[i] = t[Count(s, ends, i)]
  \/ \E a : /\ i # 0 /\ s[i] \notin ends /\ Open(s, ends, a, i)
            /\ w[i] = t[Count(s, ends, i) - 1] \o SubSeq(s, a, i)

(* The token that is open ends.                                            *)
LEMMA TokenEnds ==
  ASSUME NEW S, NEW s, NEW ends, NEW t, NEW w, Cuts(S, s, ends, t, w), NEW i \in 0 .. Len(s),
         JoinedTo(s, ends, t, w, i), i = Len(s) \/ s[i+1] \in ends
  PROVE  w[i] = t[Count(s, ends, i)]
<1>. SUFFICES ASSUME NEW a, i # 0, s[i] \notin ends, Open(s, ends, a, i),
                     w[i] = t[Count(s, ends, i) - 1] \o SubSeq(s, a, i)
              PROVE  w[i] = t[Count(s, ends, i)]
  BY DEF JoinedTo
<1>1. a \in Starts(s, ends) /\ a <= i /\ Count(s, ends, a) = Count(s, ends, i)
  BY DEF Open
<1>2. a \in 1 .. Len(s) /\ i \in a .. Len(s)
  <2>1. Len(s) \in Nat /\ Starts(s, ends) \subseteq 1 .. Len(s)
    BY PlacesOf
  <2>. QED  BY <1>1, <2>1
<1>3. UpTo(SubSeq(s, a, Len(s)), ends) = SubSeq(s, a, i)
  <2>1. \A j \in a .. i : s[j] \notin ends
    BY DEF Open
  <2>2. s \in Seq(S)
    BY DEF Cuts
  <2>. QED  BY <1>2, <2>1, <2>2, UpToRun
<1>4. t[Count(s, ends, a)] = t[Count(s, ends, a) - 1] \o SubSeq(s, a, i)
  BY <1>1, <1>3, TokensNext
<1>. QED  BY <1>1, <1>4

(* Three sequences and what appending two of them, or all, gives.          *)
Glued(S, x, y, z, xy, yz, xyz) ==
  /\ x \in Seq(S) /\ y \in Seq(S) /\ z \in Seq(S)
  /\ xy = x \o y /\ yz = y \o z /\ xyz = xy \o z

(* Two sequences and what appending them gives.                            *)
Joins(x, y, xy) == xy = x \o y

(* Appending is associative.                                               *)
LEMMA Regrouped ==
  ASSUME NEW S, NEW x, NEW y, NEW z, NEW xy, NEW yz, NEW xyz, Glued(S, x, y, z, xy, yz, xyz)
  PROVE  Joins(x, yz, xyz)
BY ConcatAssociative DEF Glued, Joins

(* One more character.                                                     *)
LEMMA JoinNext ==
  ASSUME NEW S, NEW s, NEW ends, NEW t, NEW w, Cuts(S, s, ends, t, w), NEW i \in 0 .. Len(s),
         i # Len(s), JoinedTo(s, ends, t, w, i)
  PROVE  JoinedTo(s, ends, t, w, i + 1)
<1>1. /\ i + 1 \in 1 .. Len(s) /\ (i + 1) - 1 = i /\ i + 1 # 0 /\ i \in Nat /\ i + 1 <= i + 1
      /\ Len(s) \in Nat /\ (i = 0 <=> i + 1 = 1)
  <2>1. Len(s) \in Nat
    BY PlacesOf
  <2>. QED  BY <2>1
<1>2. s \in Seq(S)
  BY DEF Cuts
<1>3. /\ Count(s, ends, i) \in Nat
      /\ Count(s, ends, i + 1) =
           Count(s, ends, i) + (IF i + 1 \in Starts(s, ends) THEN 1 ELSE 0)
  <2>1. Count(s, ends, i + 1) =
          Count(s, ends, (i + 1) - 1) + (IF i + 1 \in Starts(s, ends) THEN 1 ELSE 0)
    BY <1>1, <1>2, CountNext
  <2>2. Count(s, ends, i) \in Nat
    BY <1>2, CountNext
  <2>. QED  BY <1>1, <2>1, <2>2
<1>4. i + 1 \in Starts(s, ends) <=> s[i+1] \notin ends /\ (i = 0 \/ s[i] \in ends)
  <2>1. i + 1 \in Starts(s, ends) <=>
          s[i+1] \notin ends /\ (i + 1 = 1 \/ s[(i + 1) - 1] \in ends)
    BY <1>1, PlacesOf
  <2>. QED  BY <1>1, <2>1
<1>5. /\ s[i+1] \in ends => w[i+1] = w[i]
      /\ s[i+1] \notin ends => w[i+1] = w[i] \o <<s[i+1]>>
      /\ <<s[i+1]>> \in Seq(S)
  <2>1. /\ s[i+1] \in ends => w[i+1] = w[(i + 1) - 1]
        /\ s[i+1] \notin ends => w[i+1] = w[(i + 1) - 1] \o <<s[i+1]>>
        /\ <<s[i+1]>> \in Seq(S)
    BY <1>1, SinglesNext
  <2>. QED  BY <1>1, <2>1
<1>6. CASE s[i+1] \in ends
  <2>1. Count(s, ends, i + 1) = Count(s, ends, i)
    BY <1>3, <1>4, <1>6
  <2>2. w[i] = t[Count(s, ends, i)]
    BY <1>6, TokenEnds
  <2>. QED  BY <1>5, <1>6, <2>1, <2>2 DEF JoinedTo
<1>7. CASE s[i+1] \notin ends /\ (i = 0 \/ s[i] \in ends)
  <2>1. /\ Count(s, ends, i + 1) = Count(s, ends, i) + 1 /\ i + 1 \in Starts(s, ends)
        /\ Count(s, ends, i + 1) - 1 = Count(s, ends, i)
    BY <1>3, <1>4, <1>7
  <2>2. w[i] = t[Count(s, ends, i)]
    BY <1>7 DEF JoinedTo
  <2>3. SubSeq(s, i + 1, i + 1) = <<s[i+1]>>
    <3>1. i + 1 \in (i + 1) .. Len(s)
      BY <1>1
    <3>. QED  BY <1>1, <1>2, <3>1, PieceNext
  <2>4. Open(s, ends, i + 1, i + 1)
    <3>1. \A j \in (i + 1) .. (i + 1) : j = i + 1
      BY <1>1
    <3>. QED  BY <1>1, <1>7, <2>1, <3>1 DEF Open
  <2>5. w[i+1] = t[Count(s, ends, i + 1) - 1] \o SubSeq(s, i + 1, i + 1)
    BY <1>5, <1>7, <2>1, <2>2, <2>3
  <2>. QED  BY <1>1, <1>7, <2>4, <2>5 DEF JoinedTo
<1>8. CASE s[i+1] \notin ends /\ i # 0 /\ s[i] \notin ends
  <2>1. Count(s, ends, i + 1) = Count(s, ends, i)
    BY <1>3, <1>4, <1>8
  <2>2. PICK a : Open(s, ends, a, i) /\ w[i] = t[Count(s, ends, i) - 1] \o SubSeq(s, a, i)
    BY <1>8 DEF JoinedTo
  <2>3. a \in Starts(s, ends) /\ a <= i /\ Count(s, ends, a) = Count(s, ends, i)
    BY <2>2 DEF Open
  <2>4. /\ a \in 1 .. Len(s) /\ i \in a .. Len(s) /\ a <= i + 1
        /\ \A j \in a .. (i + 1) : j \in a .. i \/ j = i + 1
    <3>1. Starts(s, ends) \subseteq 1 .. Len(s)
      BY PlacesOf
    <3>. QED  BY <1>1, <2>3, <3>1
  <2>5. Open(s, ends, a, i + 1)
    BY <1>8, <2>1, <2>2, <2>3, <2>4 DEF Open
  <2>6. SubSeq(s, a, i + 1) = SubSeq(s, a, i) \o <<s[i+1]>> /\ SubSeq(s, a, i) \in Seq(S)
    BY <1>2, <2>4, PieceNext
  <2>7. t[Count(s, ends, i) - 1] \in Seq(S)
    BY <2>3, TokensNext
  <2>8. Glued(S, t[Count(s, ends, i) - 1], SubSeq(s, a, i), <<s[i+1]>>,
              w[i], SubSeq(s, a, i + 1), w[i+1])
    BY <1>5, <1>8, <2>2, <2>6, <2>7, Zenon DEF Glued
  <2>9. w[i+1] = t[Count(s, ends, i + 1) - 1] \o SubSeq(s, a, i + 1)
    <3>1. Joins(t[Count(s, ends, i) - 1], SubSeq(s, a, i + 1), w[i+1])
      BY <2>8, Regrouped
    <3>. QED  BY <2>1, <3>1 DEF Joins
  <2>. QED  BY <1>1, <1>8, <2>5, <2>9 DEF JoinedTo
<1>. QED  BY <1>6, <1>7, <1>8

(* All characters but the ends are in the tokens, in their order.          *)
LEMMA TokensJoined ==
  ASSUME NEW S, NEW s \in Seq(S), NEW ends
  PROVE  FlattenSeq(strtok(s, ends)) = Without(s, ends)
<1>1. PICK t : Flattens(strtok(s, ends), t)
  BY TokenAt, FlattenAt
<1>2. PICK w : Flattens(Singles(s, ends), w)
  BY SinglesType, FlattenAt
<1>. PICK L : L = Len(s)
  OBVIOUS
<1>3. Cuts(S, s, ends, t, w)
  BY <1>1, <1>2 DEF Cuts
<1>4. L \in Nat
  BY LenProperties
<1>. DEFINE Good == {i \in 0 .. L : JoinedTo(s, ends, t, w, i)}
<1>5. 0 \in Good
  <2>1. w[0] = <<>> /\ t[0] = <<>> /\ Count(s, ends, 0) = 0
    BY <1>1, <1>2, CountNext DEF Flattens
  <2>2. JoinedTo(s, ends, t, w, 0)
    BY <2>1 DEF JoinedTo
  <2>3. 0 \in 0 .. L
    BY <1>4
  <2>. QED  BY <2>2, <2>3
<1>6. \A i \in 0 .. L : i # L /\ i \in Good => i + 1 \in Good
  <2>. SUFFICES ASSUME NEW i \in 0 .. L, i # L, JoinedTo(s, ends, t, w, i)
                PROVE  i + 1 \in 0 .. L /\ JoinedTo(s, ends, t, w, i + 1)
    OBVIOUS
  <2>1. i + 1 \in 0 .. L
    BY <1>4
  <2>. QED  BY <1>3, <2>1, JoinNext
<1>7. JoinedTo(s, ends, t, w, L)
  <2>1. \A i \in 0 .. L : i \in Good
    <3>. HIDE DEF Good
    <3>. QED  BY <1>4, <1>5, <1>6, AllPlaces
  <2>2. L \in 0 .. L
    BY <1>4
  <2>. QED  BY <2>1, <2>2
<1>8. w[L] = t[Count(s, ends, L)]
  <2>1. L \in 0 .. L
    BY <1>4
  <2>. QED  BY <1>3, <1>7, <2>1, TokenEnds
<1>9. w[L] = FlattenSeq(Singles(s, ends))
  <2>1. Len(Singles(s, ends)) = L
    BY SinglesType
  <2>. QED  BY <1>2, <2>1 DEF Flattens
<1>10. t[Count(s, ends, L)] = FlattenSeq(strtok(s, ends))
  <2>1. Len(strtok(s, ends)) = Count(s, ends, L)
    BY TokenAt
  <2>. QED  BY <1>1, <2>1 DEF Flattens
<1>. QED  BY <1>8, <1>9, <1>10 DEF Without, Singles

-----------------------------------------------------------------------------
(* parseTokens.  What KeepToken has made of the first i tokens.            *)
Empty ==
  [n |-> 0, currMax |-> TokenRoom, buffer |-> [i \in 1 .. TokenRoom |-> <<>>]]

Keeps(q, K) ==
  /\ K[0] = Empty /\ K[Len(q)] = FoldLeft(KeepToken, Empty, q)
  /\ \A i \in 1 .. Len(q) : K[i] = KeepToken(K[i-1], q[i])

(* The greatest of some naturals.                                          *)
LEMMA MaxOfSome ==
  ASSUME NEW m \in Nat, NEW x \in SUBSET (1 .. m), x # {}
  PROVE  Max(x) \in 1 .. m /\ Max(x) \in x /\ \A y \in x : y <= Max(x)
<1>. DEFINE I == {m - y : y \in x}
<1>1. I \subseteq Nat /\ I # {}
  <2>1. \A y \in x : m - y \in Nat
    <3>1. \A y \in 1 .. m : m - y \in Nat
      OBVIOUS
    <3>. QED  BY <3>1
  <2>. QED  BY <2>1
<1>2. Min(I) \in I /\ \A j \in I : Min(I) <= j
  <2>. HIDE DEF I
  <2>. QED  BY <1>1, MinOfNats
<1>3. PICK z \in x : Min(I) = m - z
  BY <1>2
<1>4. \A y \in x : z >= y
  <2>. SUFFICES ASSUME NEW y \in x  PROVE z >= y
    OBVIOUS
  <2>1. m - z <= m - y
    BY <1>2, <1>3
  <2>2. y \in 1 .. m /\ z \in 1 .. m
    OBVIOUS
  <2>. QED  BY <2>1, <2>2
<1>5. Max(x) \in x /\ \A y \in x : Max(x) >= y
  <2>1. \E u : u \in x /\ \A y \in x : u >= y
    BY <1>4
  <2>. QED  BY <2>1, Zenon DEF Max
<1>6. \A y \in x : y \in 1 .. m
  OBVIOUS
<1>. QED
  <2>1. Max(x) \in 1 .. m
    BY <1>5, <1>6
  <2>2. ASSUME NEW y \in x  PROVE y <= Max(x)
    <3>1. y \in 1 .. m /\ Max(x) >= y
      BY <1>5, <1>6
    <3>. QED  BY <2>1, <3>1
  <2>. QED  BY <1>5, <2>1, <2>2

(* The greatest of some that m + 1 is among.                               *)
LEMMA MaxOfLast ==
  ASSUME NEW m \in Nat, NEW x \in SUBSET (1 .. m + 1), m + 1 \in x
  PROVE  Max(x) = m + 1 /\ x \ {m + 1} \in SUBSET (1 .. m)
<1>1. m + 1 \in Nat
  OBVIOUS
<1>2. Max(x) \in 1 .. m + 1 /\ \A y \in x : y <= Max(x)
  BY <1>1, MaxOfSome
<1>3. m + 1 <= Max(x)
  BY <1>2
<1>4. Max(x) = m + 1
  BY <1>2, <1>3
<1>5. \A y \in 1 .. m + 1 : y # m + 1 => y \in 1 .. m
  OBVIOUS
<1>6. x \ {m + 1} \in SUBSET (1 .. m)
  BY <1>5
<1>. QED  BY <1>4, <1>6

(* FoldLeft goes through the sets of places, from each to the one without  *)
(* its greatest; of these sets the intervals from 1 are those that matter. *)
LEMMA KeepsAt ==
  ASSUME NEW S, NEW q \in Seq(S)
  PROVE  \E K : Keeps(q, K)
<1>. DEFINE L == Len(q)
            Begins(g, m) ==
              g = [x \in SUBSET (1 .. m) |->
                     IF x = {} THEN Empty ELSE KeepToken(g[x \ {Max(x)}], q[Max(x)])]
            Good == {m \in 0 .. L : \E g : Begins(g, m)}
            iter == CHOOSE g : Begins(g, L)
            K == [i \in 0 .. L |-> iter[1 .. i]]
<1>1. L \in Nat /\ DOMAIN q = 1 .. L
  BY LenProperties
<1>2. FoldLeft(KeepToken, Empty, q) = iter[1 .. L]
  BY <1>1 DEF FoldLeft, MapThenFoldSet
<1>. HIDE DEF L
<1>3. 0 \in Good
  <2>. DEFINE g == [x \in SUBSET (1 .. 0) |-> Empty]
  <2>1. Begins(g, 0)
    OBVIOUS
  <2>. HIDE DEF Begins
  <2>2. \E h : Begins(h, 0)
    BY <2>1
  <2>. QED  BY <1>1, <2>2
<1>4. \A m \in 0 .. L : m # L /\ m \in Good => m + 1 \in Good
  <2>. SUFFICES ASSUME NEW m \in 0 .. L, m # L, NEW g, Begins(g, m)
                PROVE  m + 1 \in 0 .. L /\ \E h : Begins(h, m + 1)
    OBVIOUS
  <2>1. m \in Nat /\ m + 1 \in 0 .. L
    BY <1>1
  <2>. DEFINE D == SUBSET (1 .. m + 1)
              Goes(x, h) == IF x = {} THEN Empty ELSE KeepToken(h[x \ {Max(x)}], q[Max(x)])
              h == [x \in D |-> IF m + 1 \in x THEN KeepToken(g[x \ {m + 1}], q[m+1]) ELSE g[x]]
              rhs == [x \in D |-> Goes(x, h)]
  <2>2. \A x \in SUBSET (1 .. m) : g[x] = Goes(x, g)
    <3>. HIDE DEF Goes
    <3>. QED  BY DEF Goes
  <2>3. \A x \in SUBSET (1 .. m) : x \in D /\ h[x] = g[x]
    <3>. SUFFICES ASSUME NEW x \in SUBSET (1 .. m)  PROVE x \in D /\ h[x] = g[x]
      OBVIOUS
    <3>1. x \in D /\ m + 1 \notin x
      BY <2>1
    <3>. QED  BY <3>1
  <2>4. ASSUME NEW x \in D  PROVE h[x] = Goes(x, h)
    <3>1. CASE m + 1 \in x
      <4>1. Max(x) = m + 1 /\ x \ {m + 1} \in SUBSET (1 .. m) /\ x # {}
        BY <2>1, <3>1, MaxOfLast
      <4>2. h[x] = KeepToken(g[x \ {m + 1}], q[m+1])
        BY <3>1
      <4>3. h[x \ {m + 1}] = g[x \ {m + 1}]
        BY <2>3, <4>1
      <4>. HIDE DEF h
      <4>. QED  BY <4>1, <4>2, <4>3
    <3>2. CASE m + 1 \notin x
      <4>1. x \in SUBSET (1 .. m)
        BY <2>1, <3>2
      <4>2. h[x] = Goes(x, g)
        BY <2>2, <2>3, <4>1
      <4>3. x # {} => h[x \ {Max(x)}] = g[x \ {Max(x)}]
        <5>1. x \ {Max(x)} \in SUBSET (1 .. m)
          BY <4>1
        <5>. QED  BY <2>3, <5>1
      <4>. HIDE DEF h
      <4>. QED  BY <4>2, <4>3
    <3>. QED  BY <3>1, <3>2
  <2>5. h = rhs
    <3>1. h = [x \in D |-> h[x]] /\ rhs = [x \in D |-> rhs[x]]
      OBVIOUS
    <3>2. \A x \in D : rhs[x] = Goes(x, h)
      OBVIOUS
    <3>. HIDE DEF h, rhs, Goes, D
    <3>3. \A x \in D : h[x] = rhs[x]
      BY <2>4, <3>2
    <3>. QED  BY <3>1, <3>3
  <2>6. Begins(h, m + 1)
    <3>. HIDE DEF h
    <3>. QED  BY <2>5
  <2>. HIDE DEF Begins
  <2>. QED  BY <2>1, <2>6
<1>5. Begins(iter, L)
  <2>1. \A m \in 0 .. L : m \in Good
    <3>. HIDE DEF Good
    <3>. QED  BY <1>1, <1>3, <1>4, AllPlaces
  <2>. HIDE DEF Begins
  <2>2. \E g : Begins(g, L)
    BY <1>1, <2>1
  <2>. QED  BY <2>2
<1>6. \A x \in SUBSET (1 .. L) :
        iter[x] = IF x = {} THEN Empty ELSE KeepToken(iter[x \ {Max(x)}], q[Max(x)])
  <2>. HIDE DEF iter
  <2>. QED  BY <1>5
<1>. HIDE DEF iter
<1>7. K[0] = Empty /\ K[L] = iter[1 .. L]
  <2>1. 1 .. 0 = {} /\ 0 \in 0 .. L /\ L \in 0 .. L
    BY <1>1
  <2>2. iter[{}] = Empty
    BY <1>6
  <2>. QED  BY <2>1, <2>2
<1>8. ASSUME NEW i \in 1 .. L  PROVE K[i] = KeepToken(K[i-1], q[i])
  <2>1. /\ i \in 0 .. L /\ i - 1 \in 0 .. L /\ i - 1 \in Nat /\ (i - 1) + 1 = i
        /\ 1 .. i \in SUBSET (1 .. L) /\ i \in 1 .. i /\ 1 .. i # {}
        /\ (1 .. i) \ {i} = 1 .. i - 1
    <3>1. i \in Nat /\ 1 <= i /\ i <= L
      BY <1>1
    <3>2. i \in 0 .. L /\ i - 1 \in 0 .. L /\ i - 1 \in Nat /\ (i - 1) + 1 = i /\ i \in 1 .. i
      BY <1>1, <3>1
    <3>3. 1 .. i \in SUBSET (1 .. L)
      BY <1>1, <3>1
    <3>4. \A y : y \in 1 .. i /\ y # i <=> y \in 1 .. i - 1
      BY <3>1
    <3>. QED  BY <3>2, <3>3, <3>4
  <2>2. Max(1 .. i) = i
    <3>1. 1 .. i \in SUBSET (1 .. (i - 1) + 1) /\ (i - 1) + 1 \in 1 .. i
      BY <2>1
    <3>2. Max(1 .. i) = (i - 1) + 1
      BY <2>1, <3>1, MaxOfLast
    <3>. QED  BY <2>1, <3>2
  <2>3. iter[1 .. i] = KeepToken(iter[(1 .. i) \ {Max(1 .. i)}], q[Max(1 .. i)])
    BY <1>6, <2>1
  <2>4. K[i] = iter[1 .. i] /\ K[i-1] = iter[1 .. i - 1]
    BY <2>1
  <2>. HIDE DEF K
  <2>. QED  BY <2>1, <2>2, <2>3, <2>4
<1>. QED
  <2>. HIDE DEF K
  <2>. QED  BY <1>2, <1>7, <1>8 DEF L, Keeps


(* The buffer holds the tokens so far, and has room for them.              *)
Kept(q, k, i) ==
  /\ k.n = i /\ k.currMax \in Nat /\ 1 <= k.currMax /\ i <= k.currMax
  /\ k.buffer = [j \in 1 .. k.currMax |-> k.buffer[j]]
  /\ \A j \in 1 .. i : k.buffer[j] = q[j]

(* So it is before the first token.                                        *)
LEMMA KeptEmpty ==
  ASSUME NEW q
  PROVE  Kept(q, Empty, 0)
<1>1. TokenRoom \in Nat /\ 1 <= TokenRoom
  BY TransportAssumption
<1>2. /\ Empty.n = 0 /\ Empty.currMax = TokenRoom
      /\ Empty.buffer = [j \in 1 .. TokenRoom |-> <<>>]
  BY DEF Empty
<1>3. Empty.buffer = [j \in 1 .. Empty.currMax |-> Empty.buffer[j]]
  BY <1>2
<1>4. \A j \in 1 .. 0 : Empty.buffer[j] = q[j]
  OBVIOUS
<1>. QED  BY <1>1, <1>2, <1>3, <1>4 DEF Kept

(* One more token.                                                         *)
LEMMA KeptNext ==
  ASSUME NEW q, NEW k, NEW i \in Nat, Kept(q, k, i)
  PROVE  Kept(q, KeepToken(k, q[i+1]), i + 1)
<1>1. k.n = i /\ k.currMax \in Nat /\ 1 <= k.currMax /\ i <= k.currMax
  BY DEF Kept
<1>2. \A j \in 1 .. i : k.buffer[j] = q[j]
  BY DEF Kept
<1>. DEFINE room == IF k.n < k.currMax THEN k.currMax ELSE 2 * k.currMax
            grown == [j \in 1 .. room |-> IF j <= k.n THEN k.buffer[j] ELSE <<>>]
            put == [j \in 1 .. room |->
                      IF j \in k.n + 1 .. k.n + Len(<<q[i+1]>>) THEN <<q[i+1]>>[j - k.n]
                      ELSE grown[j]]
            next == KeepToken(k, q[i+1])
<1>3. room \in Nat /\ 1 <= room /\ i + 1 <= room
  BY <1>1
<1>4. put = Put(grown, k.n, <<q[i+1]>>)
  BY DEF Put
<1>5. next.n = k.n + 1 /\ next.currMax = room /\ next.buffer = put
  BY <1>4 DEF KeepToken
<1>6. \A j \in 1 .. i + 1 : put[j] = q[j]
  <2>. HIDE DEF room, next
  <2>. SUFFICES ASSUME NEW j \in 1 .. i + 1  PROVE put[j] = q[j]
    OBVIOUS
  <2>1. j \in 1 .. room
    BY <1>3
  <2>2. put[j] = IF j \in k.n + 1 .. k.n + Len(<<q[i+1]>>) THEN <<q[i+1]>>[j - k.n] ELSE grown[j]
    BY <2>1
  <2>3. grown[j] = IF j <= i THEN k.buffer[j] ELSE <<>>
    BY <1>1, <2>1
  <2>4. j \in k.n + 1 .. k.n + Len(<<q[i+1]>>) <=> j = i + 1
    BY <1>1
  <2>5. CASE j = i + 1
    <3>1. j - k.n = 1
      BY <1>1, <2>5
    <3>. QED  BY <2>2, <2>4, <2>5, <3>1
  <2>6. CASE j # i + 1
    <3>1. j \in 1 .. i
      BY <2>6
    <3>. HIDE DEF put, grown
    <3>. QED  BY <1>2, <2>2, <2>3, <2>4, <2>6, <3>1
  <2>. QED  BY <2>5, <2>6
<1>7. put = [j \in 1 .. room |-> put[j]]
  OBVIOUS
<1>. HIDE DEF put, room, next
<1>8. next.n = i + 1
  BY <1>1, <1>5
<1>9. Kept(q, next, i + 1)
  BY <1>3, <1>5, <1>6, <1>7, <1>8 DEF Kept
<1>. QED  BY <1>9 DEF next

(* The tokens of strtok are returned, all of them, whatever their number.  *)
LEMMA ParseIs ==
  ASSUME NEW S, NEW s \in Seq(S), NEW ends
  PROVE  parseTokens(s, ends) = strtok(s, ends)
<1>. DEFINE q == strtok(s, ends)
            kept == FoldLeft(KeepToken, Empty, q)
<1>1. q \in Seq(Seq(S))
  BY TokenAt
<1>2. parseTokens(s, ends) =
        IF kept.n < kept.currMax THEN [j \in 1 .. kept.n |-> kept.buffer[j]] ELSE kept.buffer
  BY DEF parseTokens, Empty
<1>. HIDE DEF q
<1>3. PICK K : Keeps(q, K)
  BY <1>1, KeepsAt
<1>. PICK L : L = Len(q)
  OBVIOUS
<1>4. L \in Nat /\ q = [j \in 1 .. L |-> q[j]]
  BY <1>1, LenProperties
<1>5. /\ K[0] = Empty /\ K[L] = kept
      /\ \A i \in 1 .. L : K[i] = KeepToken(K[i-1], q[i])
  BY <1>3 DEF Keeps
<1>. HIDE DEF kept
<1>. DEFINE Good == {i \in 0 .. L : Kept(q, K[i], i)}
<1>6. 0 \in Good
  <2>1. Kept(q, K[0], 0) /\ 0 \in 0 .. L
    BY <1>4, <1>5, KeptEmpty
  <2>. QED  BY <2>1
<1>7. \A i \in 0 .. L : i # L /\ i \in Good => i + 1 \in Good
  <2>. SUFFICES ASSUME NEW i \in 0 .. L, i # L, Kept(q, K[i], i)
                PROVE  i + 1 \in 0 .. L /\ Kept(q, K[i+1], i + 1)
    OBVIOUS
  <2>1. i \in Nat /\ i + 1 \in 1 .. L /\ i + 1 \in 0 .. L /\ (i + 1) - 1 = i
    BY <1>4
  <2>2. K[i+1] = KeepToken(K[i], q[i+1])
    BY <1>5, <2>1
  <2>3. Kept(q, KeepToken(K[i], q[i+1]), i + 1)
    BY <2>1, KeptNext
  <2>. QED  BY <2>1, <2>2, <2>3
<1>8. Kept(q, kept, L)
  <2>1. \A i \in 0 .. L : i \in Good
    <3>. HIDE DEF Good
    <3>. QED  BY <1>4, <1>6, <1>7, AllPlaces
  <2>2. L \in 0 .. L
    BY <1>4
  <2>. QED  BY <1>5, <2>1, <2>2
<1>. HIDE DEF Good
<1>9. /\ kept.n = L /\ kept.currMax \in Nat /\ L <= kept.currMax
      /\ kept.buffer = [j \in 1 .. kept.currMax |-> kept.buffer[j]]
      /\ \A j \in 1 .. L : kept.buffer[j] = q[j]
  BY <1>8 DEF Kept
<1>10. [j \in 1 .. L |-> kept.buffer[j]] = q
  BY <1>4, <1>9
<1>11. CASE L < kept.currMax
  BY <1>2, <1>9, <1>10, <1>11 DEF q
<1>12. CASE L = kept.currMax
  <2>1. kept.buffer = q
    BY <1>9, <1>10, <1>12
  <2>. QED  BY <1>2, <1>9, <1>12, <2>1 DEF q
<1>. QED  BY <1>4, <1>9, <1>11, <1>12

-----------------------------------------------------------------------------
(* The tokens of a command line.                                           *)
Blanks == {" ", "\n"}

(* The tokens are what parseTokens returned for the line, a command.       *)
LineInv == tokens # <<>> => line \in Lines /\ IsCommand(line) /\ tokens = parseTokens(line, Blanks)

(* It holds at first.                                                      *)
LEMMA LineInvInit == Init => LineInv
BY DEF Init, LineInv

(* Every action keeps it.                                                  *)
LEMMA LineInvNext == LineInv /\ [Next]_vars => LineInv'
<1>. SUFFICES ASSUME LineInv, [Next]_vars  PROVE LineInv'
  OBVIOUS
<1>1. ASSUME NEW l \in Lines, Enter(l)  PROVE LineInv'
  BY <1>1, Zenon DEF Enter, LineInv, IsCommand, Blanks
<1>2. CASE UNCHANGED <<line, tokens>>
  BY <1>2 DEF LineInv, IsCommand
<1>3. CASE Receive
  BY <1>2, <1>3 DEF Receive
<1>4. CASE Login
  BY <1>2, <1>4, Zenon DEF Login
<1>5. CASE Message
  BY <1>2, <1>5 DEF Message
<1>6. CASE Listen
  BY <1>2, <1>6, Zenon DEF Listen
<1>7. CASE UNCHANGED vars
  BY <1>2, <1>7 DEF vars
<1>. QED  BY <1>1, <1>3, <1>4, <1>5, <1>6, <1>7 DEF Next

(* A token is not empty.                                                   *)
LEMMA TokensFull ==
  ASSUME NEW S, NEW s \in Seq(S), NEW ends
  PROVE  \A i \in DOMAIN strtok(s, ends) : strtok(s, ends)[i] # <<>>
<1>. DEFINE q == strtok(s, ends)
<1>1. q \in Seq(Seq(S)) /\ Len(q) = Count(s, ends, Len(s))
  BY TokenAt
<1>2. \A a \in Starts(s, ends) : q[Count(s, ends, a)] = UpTo(SubSeq(s, a, Len(s)), ends)
  BY TokenAt
<1>. HIDE DEF q
<1>. SUFFICES ASSUME NEW i \in DOMAIN q  PROVE q[i] # <<>>
  BY DEF q
<1>3. i \in 1 .. Count(s, ends, Len(s))
  BY <1>1, LenProperties
<1>4. PICK a \in Starts(s, ends) : Count(s, ends, a) = i
  BY <1>3, CountOrder
<1>5. a \in 1 .. Len(s) /\ s[a] \notin ends
  BY <1>4, CountNext DEF Starts
<1>6. UpTo(SubSeq(s, a, Len(s)), ends) # <<>>
  BY <1>5, UpToType
<1>. QED  BY <1>2, <1>4, <1>6

(* A token begins at the first character, and behind every delimiter that  *)
(* none follows.                                                           *)
LEMMA TokensCounted ==
  ASSUME NEW S, NEW s \in Seq(S), NEW ends, s # <<>>, s[1] \notin ends
  PROVE  Len(strtok(s, ends)) =
           1 + Cardinality({i \in 2 .. Len(s) : s[i] \notin ends /\ s[i-1] \in ends})
<1>. PICK L : L = Len(s)
  OBVIOUS
<1>. DEFINE T == {i \in 2 .. L : s[i] \notin ends /\ s[i-1] \in ends}
<1>1. L \in Nat /\ 1 <= L /\ DOMAIN s = 1 .. L
  BY LenProperties, EmptySeq
<1>2. Starts(s, ends) = T \cup {1}
  <2>1. ASSUME NEW i \in Starts(s, ends)  PROVE i \in T \cup {1}
    <3>1. i \in 1 .. L /\ s[i] \notin ends /\ (i = 1 \/ s[i-1] \in ends)
      BY <1>1 DEF Starts
    <3>2. i # 1 => i \in 2 .. L
      BY <3>1
    <3>. QED  BY <3>1, <3>2
  <2>2. ASSUME NEW i \in T \cup {1}  PROVE i \in Starts(s, ends)
    <3>1. i \in 1 .. L /\ s[i] \notin ends /\ (i = 1 \/ s[i-1] \in ends)
      BY <1>1
    <3>. QED  BY <1>1, <3>1 DEF Starts
  <2>. HIDE DEF T
  <2>. QED  BY <2>1, <2>2
<1>3. IsFiniteSet(T) /\ 1 \notin T
  <2>1. IsFiniteSet(2 .. L)
    BY <1>1, FS_Interval
  <2>2. T \subseteq 2 .. L /\ 1 \notin T
    OBVIOUS
  <2>. HIDE DEF T
  <2>. QED  BY <2>1, <2>2, FS_Subset
<1>4. Cardinality(T \cup {1}) = Cardinality(T) + 1 /\ Cardinality(T) \in Nat
  <2>. HIDE DEF T
  <2>. QED  BY <1>3, FS_AddElement, FS_CardinalityType
<1>5. Len(strtok(s, ends)) = Cardinality(Starts(s, ends))
  BY TokenAt, CountNext
<1>6. Len(strtok(s, ends)) = 1 + Cardinality(T)
  <2>. HIDE DEF T
  <2>. QED  BY <1>2, <1>4, <1>5
<1>. QED  BY <1>6

(* What that says of the tokens.                                           *)
LEMMA LineInvTokens == LineInv => TokensWhole
<1>. SUFFICES ASSUME LineInv, tokens # <<>>
              PROVE  /\ FlattenSeq(tokens) = Without(line, Blanks)
                     /\ \A i \in DOMAIN tokens : tokens[i] # <<>>
                     /\ Len(tokens) =
                          1 + Cardinality({i \in 2 .. Len(line) :
                                             line[i] \notin Blanks /\ line[i-1] \in Blanks})
  BY Zenon DEF TokensWhole, Blanks
<1>. PICK S : S = STRING \ {NUL}
  OBVIOUS
<1>1. line \in Seq(S) /\ IsCommand(line) /\ tokens = parseTokens(line, Blanks)
  BY WireAssumption DEF LineInv
<1>2. tokens = strtok(line, Blanks)
  BY <1>1, ParseIs
<1>3. line # <<>> /\ line[1] \notin Blanks
  BY <1>1, Zenon DEF IsCommand, Blanks
<1>4. FlattenSeq(tokens) = Without(line, Blanks)
  BY <1>1, <1>2, TokensJoined
<1>5. \A i \in DOMAIN tokens : tokens[i] # <<>>
  BY <1>1, <1>2, TokensFull
<1>6. Len(tokens) =
        1 + Cardinality({i \in 2 .. Len(line) : line[i] \notin Blanks /\ line[i-1] \in Blanks})
  BY <1>1, <1>2, <1>3, TokensCounted
<1>. QED  BY <1>4, <1>5, <1>6

(* parseTokens returns all of a command line but its delimiters, cut where *)
(* they were, for every line and for every room the buffer begins with.    *)
THEOREM TokensCorrect == Spec => []TokensWhole
BY LineInvInit, LineInvNext, LineInvTokens, PTL DEF Spec

-----------------------------------------------------------------------------
(* The types of packets, which go out as one character.                    *)
Types == {"none", "LOGIN", "EXIT", "QUERY", "MESSAGE", "NEW_SESS", "JOIN", "LEAVE_SESS"}

(* The characters there are: any string; the provers do not know that what *)
(* is named here are strings.                                              *)
Char == STRING \cup Types \cup {NUL, Garbage, ":", ";", ",", " ", "\t", "\n"}

(* Strings and their lengths.                                              *)
Is(s, n) == n \in Nat /\ s \in Seq(Char) /\ Len(s) = n

(* The first n characters of both are the same.                            *)
Agree(s, t, n) == \A i \in 1 .. n : s[i] = t[i]

(* The n characters of t are those of s behind the first a.                *)
Behind(s, a, t, n) == \A i \in 1 .. n : s[a+i] = t[i]

(* t is the piece of n characters behind the first a.                      *)
Piece(s, L, a, t, n) ==
  Is(s, L) /\ a \in Nat /\ n \in Nat /\ a + n <= L /\ t = SubSeq(s, a + 1, a + n)

(* t is mem with n characters of s copied to offset `at'.                  *)
Copied(mem, L, at, s, n, t) == Is(mem, L) /\ at \in Nat /\ Is(s, n) /\ t = Put(mem, at, s)

(* A sequence of strings is one of its length.                             *)
LEMMA IsOne ==
  ASSUME NEW s \in Seq(Char)
  PROVE  Is(s, Len(s))
BY LenProperties DEF Is

(* What it is as a function.                                               *)
LEMMA IsAt ==
  ASSUME NEW s, NEW n, Is(s, n)
  PROVE  n \in Nat /\ DOMAIN s = 1 .. n /\ Len(s) = n /\ \A i \in 1 .. n : s[i] \in Char
<1>1. s \in Seq(Char) /\ Len(s) = n /\ n \in Nat
  BY DEF Is
<1>. QED  BY <1>1, LenProperties, ElementOfSeq

(* Two of them are equal if their characters are.                          *)
LEMMA Same ==
  ASSUME NEW s, NEW t, NEW n, Is(s, n), Is(t, n), Agree(s, t, n)
  PROVE  s = t
<1>1. s \in Seq(Char) /\ t \in Seq(Char) /\ Len(s) = n /\ Len(t) = n
  BY DEF Is
<1>2. \A i \in 1 .. n : s[i] = t[i]
  BY DEF Agree
<1>. QED  BY <1>1, <1>2, SeqEqual

(* One after the other.                                                    *)
LEMMA JoinIs ==
  ASSUME NEW s, NEW t, NEW m, NEW n, Is(s, m), Is(t, n)
  PROVE  Is(s \o t, m + n) /\ Agree(s \o t, s, m) /\ Behind(s \o t, m, t, n)
<1>1. s \in Seq(Char) /\ t \in Seq(Char) /\ Len(s) = m /\ Len(t) = n /\ m \in Nat /\ n \in Nat
  BY DEF Is
<1>. PICK u : u = s \o t
  OBVIOUS
<1>2. /\ u \in Seq(Char) /\ Len(u) = m + n
      /\ \A i \in 1 .. m + n : u[i] = IF i <= m THEN s[i] ELSE t[i-m]
  BY <1>1, ConcatProperties
<1>3. Is(u, m + n)
  BY <1>1, <1>2 DEF Is
<1>4. \A i \in 1 .. m : u[i] = s[i]
  <2>1. \A i \in 1 .. m : i \in 1 .. m + n /\ i <= m
    BY <1>1
  <2>. QED  BY <1>2, <2>1
<1>5. \A i \in 1 .. n : u[m+i] = t[i]
  <2>1. \A i \in 1 .. n : m + i \in 1 .. m + n /\ ~(m + i <= m) /\ (m + i) - m = i
    BY <1>1
  <2>. QED  BY <1>2, <2>1
<1>. QED  BY <1>3, <1>4, <1>5 DEF Agree, Behind

(* A piece.                                                                *)
LEMMA PieceIs ==
  ASSUME NEW s, NEW L, NEW a, NEW t, NEW n, Piece(s, L, a, t, n)
  PROVE  Is(t, n) /\ Behind(s, a, t, n)
<1>1. Is(s, L) /\ a \in Nat /\ n \in Nat /\ a + n <= L /\ t = SubSeq(s, a + 1, a + n)
  BY DEF Piece
<1>2. L \in Nat /\ \A i \in 1 .. L : s[i] \in Char
  BY <1>1, IsAt
<1>3. a + 1 \in Int /\ a + n \in Int /\ \A i \in a + 1 .. a + n : i \in 1 .. L
  BY <1>1, <1>2
<1>4. \A i \in a + 1 .. a + n : s[i] \in Char
  BY <1>2, <1>3
<1>5. /\ t \in Seq(Char) /\ Len(t) = IF a + 1 <= a + n THEN (a + n) - (a + 1) + 1 ELSE 0
      /\ \A i \in 1 .. (a + n) - (a + 1) + 1 : t[i] = s[(a + 1)+i-1]
  BY <1>1, <1>3, <1>4, SubSeqProperties
<1>6. Len(t) = n /\ (a + n) - (a + 1) + 1 = n /\ \A i \in 1 .. n : (a + 1) + i - 1 = a + i
  BY <1>1, <1>5
<1>7. \A i \in 1 .. n : s[a+i] = t[i]
  BY <1>5, <1>6
<1>8. Is(t, n)
  BY <1>1, <1>5, <1>6 DEF Is
<1>. QED  BY <1>7, <1>8 DEF Behind

(* A beginning.                                                            *)
LEMMA BeginIs ==
  ASSUME NEW s, NEW L, Is(s, L), NEW n \in 0 .. L, NEW t, t = SubSeq(s, 1, n)
  PROVE  Is(t, n) /\ Agree(t, s, n)
<1>1. L \in Nat
  BY IsAt
<1>2. 0 \in Nat /\ n \in Nat /\ 0 + n <= L /\ 0 + 1 = 1 /\ 0 + n = n
  BY <1>1
<1>3. Piece(s, L, 0, t, n)
  BY <1>2 DEF Piece
<1>4. Is(t, n) /\ \A i \in 1 .. n : s[0+i] = t[i]
  BY <1>3, PieceIs DEF Behind
<1>5. \A i \in 1 .. n : 0 + i = i
  OBVIOUS
<1>. QED  BY <1>4, <1>5 DEF Agree

(* All of it.                                                              *)
LEMMA WholeIs ==
  ASSUME NEW s, NEW L, Is(s, L)
  PROVE  SubSeq(s, 1, L) = s
<1>1. s \in Seq(Char) /\ Len(s) = L
  BY DEF Is
<1>. QED  BY <1>1, SubSeqFull

(* A function on an interval is one.                                       *)
LEMMA FunctionIs ==
  ASSUME NEW L \in Nat, NEW f, f = [i \in 1 .. L |-> f[i]], \A i \in 1 .. L : f[i] \in Char
  PROVE  Is(f, L)
<1>1. f \in [1 .. L -> Char]
  BY SMT
<1>2. f \in Seq(Char) /\ Len(f) = L
  BY <1>1
<1>. QED  BY <1>2 DEF Is

(* Up to the first end.                                                    *)
LEMMA UpToStops ==
  ASSUME NEW s, NEW L, Is(s, L), NEW ends, NEW n, Stops(s, L, ends, n)
  PROVE  /\ Is(UpTo(s, ends), n) /\ Agree(UpTo(s, ends), s, n)
<1>1. UpTo(s, ends) = SubSeq(s, 1, n)
  <2>1. s \in Seq(Char) /\ Len(s) = L
    BY DEF Is
  <2>. QED  BY <2>1, UpToIs
<1>2. n \in 0 .. L
  BY DEF Stops
<1>. QED  BY <1>1, <1>2, BeginIs

(* memcpy.                                                                 *)
LEMMA CopiedIs ==
  ASSUME NEW mem, NEW L, NEW at, NEW s, NEW n, NEW t, Copied(mem, L, at, s, n, t)
  PROVE  /\ Is(t, L)
         /\ \A i \in 1 .. L : t[i] = IF at < i /\ i <= at + n THEN s[i-at] ELSE mem[i]
<1>1. /\ L \in Nat /\ n \in Nat /\ DOMAIN mem = 1 .. L /\ Len(s) = n /\ at \in Nat
      /\ \A i \in 1 .. n : s[i] \in Char
      /\ \A i \in 1 .. L : mem[i] \in Char
  BY IsAt DEF Copied
<1>2. t = [i \in 1 .. L |-> IF i \in at + 1 .. at + n THEN s[i-at] ELSE mem[i]]
  BY <1>1 DEF Put, Copied
<1>3. \A i \in 1 .. L : t[i] = IF at < i /\ i <= at + n THEN s[i-at] ELSE mem[i]
  <2>1. \A i \in 1 .. L : i \in at + 1 .. at + n <=> at < i /\ i <= at + n
    BY <1>1
  <2>. QED  BY <1>2, <2>1
<1>4. \A i \in 1 .. L : t[i] \in Char
  <2>. SUFFICES ASSUME NEW i \in 1 .. L  PROVE t[i] \in Char
    OBVIOUS
  <2>1. at < i /\ i <= at + n => i - at \in 1 .. n
    BY <1>1
  <2>. QED  BY <1>1, <1>3, <2>1
<1>5. t = [i \in 1 .. L |-> t[i]]
  BY <1>2
<1>6. Is(t, L)
  BY <1>1, <1>4, <1>5, FunctionIs
<1>. QED  BY <1>3, <1>6

-----------------------------------------------------------------------------
(* Packets.                                                                *)
MemLen == MaxName + MaxData

(* Both are naturals.                                                      *)
LEMMA Rooms == MaxName \in Nat /\ MaxData \in Nat /\ 1 <= MaxName /\ 1 <= MaxData /\ MemLen \in Nat
BY TransportAssumption DEF MemLen

(* n is the length of the C string at the beginning of mem.                *)
StringLen(mem, L, n) == Is(mem, L) /\ Stops(mem, L, {NUL}, n)

(* That string.                                                            *)
LEMMA CStringIs ==
  ASSUME NEW mem, NEW L, NEW n, StringLen(mem, L, n)
  PROVE  Is(CString(mem, 0), n) /\ Agree(CString(mem, 0), mem, n)
<1>1. Len(mem) = L /\ Is(mem, L) /\ Stops(mem, L, {NUL}, n)
  BY IsAt DEF StringLen
<1>2. 0 + 1 = 1
  OBVIOUS
<1>3. CString(mem, 0) = UpTo(mem, {NUL})
  BY <1>1, <1>2, WholeIs DEF CString
<1>. QED  BY <1>1, <1>3, UpToStops

(* What NewPacket writes.                                                  *)
LEMMA NewPacketIs ==
  ASSUME NEW type, NEW source, NEW data, NEW m, NEW n, Is(source, m), Is(data, n), n <= MaxData,
         NEW p, p = NewPacket(type, source, data)
  PROVE  /\ p.type = type /\ p.size = n /\ Is(p.mem, MemLen)
         /\ \A i \in 1 .. MaxName : p.mem[i] = IF i <= m THEN source[i] ELSE NUL
         /\ \A i \in 1 .. n : p.mem[MaxName+i] = data[i]
         /\ m <= MaxName => \A i \in MaxName + n + 1 .. MemLen : p.mem[i] = NUL
<1>. PICK z : z = Zeroed(MemLen)
  OBVIOUS
<1>a. PICK y : y = Put(z, 0, source)
  OBVIOUS
<1>b. PICK x : x = Put(y, MaxName, data)
  OBVIOUS
<1>1. Is(z, MemLen) /\ \A i \in 1 .. MemLen : z[i] = NUL
  <2>1. z = [i \in 1 .. MemLen |-> NUL]
    BY DEF Zeroed
  <2>2. NUL \in Char
    BY DEF Char
  <2>. HIDE DEF NUL
  <2>3. \A i \in 1 .. MemLen : z[i] = NUL
    BY <2>1
  <2>4. z = [i \in 1 .. MemLen |-> z[i]]
    BY <2>1
  <2>. QED  BY <2>2, <2>3, <2>4, Rooms, FunctionIs
<1>2. /\ Is(y, MemLen)
      /\ \A i \in 1 .. MemLen : y[i] = IF 0 < i /\ i <= 0 + m THEN source[i-0] ELSE z[i]
  <2>1. 0 \in Nat
    OBVIOUS
  <2>2. Copied(z, MemLen, 0, source, m, y)
    BY <1>1, <1>a, <2>1 DEF Copied
  <2>. QED  BY <2>2, CopiedIs
<1>3. /\ Is(x, MemLen)
      /\ \A i \in 1 .. MemLen :
           x[i] = IF MaxName < i /\ i <= MaxName + n THEN data[i-MaxName] ELSE y[i]
  <2>1. Copied(y, MemLen, MaxName, data, n, x)
    BY <1>2, <1>b, Rooms DEF Copied
  <2>. QED  BY <2>1, CopiedIs
<1>4. Len(data) = n /\ n \in Nat /\ m \in Nat
  BY DEF Is
<1>5. p = [type |-> type, size |-> n, mem |-> x]
  BY <1>4, <1>a, <1>b DEF NewPacket, MemLen
<1>6. ASSUME NEW i \in 1 .. MaxName  PROVE x[i] = IF i <= m THEN source[i] ELSE NUL
  <2>1. i \in 1 .. MemLen /\ ~(MaxName < i) /\ 0 < i /\ i - 0 = i /\ 0 + m = m
    BY <1>4, Rooms DEF MemLen
  <2>2. x[i] = y[i] /\ y[i] = IF i <= m THEN source[i] ELSE z[i]
    BY <1>2, <1>3, <2>1
  <2>. QED  BY <1>1, <2>1, <2>2
<1>7. ASSUME NEW i \in 1 .. n  PROVE x[MaxName+i] = data[i]
  <2>1. /\ MaxName + i \in 1 .. MemLen /\ MaxName < MaxName + i /\ MaxName + i <= MaxName + n
        /\ (MaxName + i) - MaxName = i
    BY <1>4, Rooms DEF MemLen
  <2>. QED  BY <1>3, <2>1
<1>8. ASSUME m <= MaxName, NEW i \in MaxName + n + 1 .. MemLen  PROVE x[i] = NUL
  <2>1. i \in 1 .. MemLen /\ ~(i <= MaxName + n) /\ ~(i <= 0 + m)
    BY <1>4, <1>8, Rooms DEF MemLen
  <2>2. x[i] = y[i] /\ y[i] = z[i]
    BY <1>2, <1>3, <2>1
  <2>. QED  BY <1>1, <2>1, <2>2
<1>. QED  BY <1>3, <1>5, <1>6, <1>7, <1>8

Colon == ":"

(* What can be said of every packet.                                       *)
IsPacket(p) ==
  p.type \in Char \ {Colon} /\ p.size \in 0 .. MaxData /\ Is(p.mem, MemLen)

(* Its data are a piece of its memory.                                     *)
LEMMA DataIs ==
  ASSUME NEW p, IsPacket(p)
  PROVE  Is(Data(p), p.size) /\ Behind(p.mem, MaxName, Data(p), p.size)
<1>. PICK k : k = p.size
  OBVIOUS
<1>1. k \in 0 .. MaxData /\ Is(p.mem, MemLen)
  BY DEF IsPacket
<1>2. MaxName \in Nat /\ k \in Nat /\ MaxName + k <= MemLen
  BY <1>1, Rooms DEF MemLen
<1>3. Piece(p.mem, MemLen, MaxName, Data(p), k)
  BY <1>1, <1>2 DEF Piece, Data
<1>. QED  BY <1>3, PieceIs

(* The data of a new packet are those that were written.                   *)
LEMMA NewData ==
  ASSUME NEW type, NEW source, NEW data, NEW m, NEW n, Is(source, m), Is(data, n), n <= MaxData,
         NEW p, p = NewPacket(type, source, data)
  PROVE  Data(p) = data
<1>1. p.size = n /\ Is(p.mem, MemLen) /\ \A i \in 1 .. n : p.mem[MaxName+i] = data[i]
  BY NewPacketIs
<1>2. n \in Nat
  BY IsAt
<1>3. MaxName \in Nat /\ MaxName + n <= MemLen
  BY <1>2, Rooms DEF MemLen
<1>4. Piece(p.mem, MemLen, MaxName, Data(p), n)
  BY <1>1, <1>2, <1>3 DEF Piece, Data
<1>5. Is(Data(p), n) /\ \A i \in 1 .. n : p.mem[MaxName+i] = Data(p)[i]
  BY <1>4, PieceIs DEF Behind
<1>6. Agree(Data(p), data, n)
  BY <1>1, <1>5 DEF Agree
<1>. QED  BY <1>5, <1>6, Same

(* A source is the same in two packets if it reads the same from the       *)
(* beginning of the one as was written in the other.                       *)
LEMMA SourceKept ==
  ASSUME NEW p, NEW q, Is(q.mem, MemLen), NEW n, StringLen(p.mem, MemLen, n),
         \A i \in 1 .. MaxName : q.mem[i] = IF i <= n THEN p.mem[i] ELSE NUL
  PROVE  Source(q) = Source(p)
<1>. PICK k : k = IF n <= MaxName THEN n ELSE MaxName
  OBVIOUS
<1>. PICK s : s = SubSeq(p.mem, 1, MaxName)
  OBVIOUS
<1>. PICK t : t = SubSeq(q.mem, 1, MaxName)
  OBVIOUS
<1>1. MaxName \in 0 .. MemLen
  BY Rooms DEF MemLen
<1>2. Is(s, MaxName) /\ \A i \in 1 .. MaxName : s[i] = p.mem[i]
  <2>1. Is(p.mem, MemLen)
    BY DEF StringLen
  <2>2. Is(s, MaxName) /\ Agree(s, p.mem, MaxName)
    BY <1>1, <2>1, BeginIs
  <2>. QED  BY <2>2 DEF Agree
<1>3. Is(t, MaxName) /\ \A i \in 1 .. MaxName : t[i] = q.mem[i]
  <2>1. Is(t, MaxName) /\ Agree(t, q.mem, MaxName)
    BY <1>1, BeginIs
  <2>. QED  BY <2>1 DEF Agree
<1>4. n \in 0 .. MemLen /\ (\A i \in 1 .. n : p.mem[i] # NUL) /\ (n = MemLen \/ p.mem[n+1] = NUL)
  BY DEF Stops, StringLen
<1>5. /\ k \in 0 .. MaxName /\ \A i \in 1 .. k : i \in 1 .. n /\ i \in 1 .. MaxName /\ i <= n
      /\ k # MaxName => k = n /\ n + 1 \in 1 .. MaxName /\ n # MemLen /\ ~(n + 1 <= n)
  BY <1>4, Rooms DEF MemLen
<1>6. StringLen(s, MaxName, k)
  BY <1>2, <1>4, <1>5 DEF Stops, StringLen
<1>7. StringLen(t, MaxName, k)
  <2>1. \A i \in 1 .. k : t[i] # NUL
    BY <1>3, <1>4, <1>5
  <2>2. k # MaxName => t[k+1] = NUL
    BY <1>3, <1>5
  <2>. QED  BY <1>3, <1>5, <2>1, <2>2 DEF Stops, StringLen
<1>8. Is(CString(s, 0), k) /\ Agree(CString(s, 0), s, k)
  BY <1>6, CStringIs
<1>9. Is(CString(t, 0), k) /\ Agree(CString(t, 0), t, k)
  BY <1>7, CStringIs
<1>10. \A i \in 1 .. k : s[i] = t[i]
  BY <1>2, <1>3, <1>5
<1>11. Agree(CString(s, 0), CString(t, 0), k)
  BY <1>8, <1>9, <1>10 DEF Agree
<1>12. CString(s, 0) = CString(t, 0)
  BY <1>8, <1>9, <1>11, Same
<1>. QED  BY <1>12 DEF Source

-----------------------------------------------------------------------------
(* What a packet is on its way, and what is read from it.                  *)

(* The header of a packet with a source of n characters, index by index.   *)
LEMMA HeaderIs ==
  ASSUME NEW p, IsPacket(p), NEW c, NEW n, c = CString(p.mem, 0), Is(c, n)
  PROVE  /\ Is(Header(p), n + 5) /\ Behind(Header(p), 4, c, n)
         /\ Header(p)[1] = p.type /\ Header(p)[2] = Colon /\ Header(p)[3] = Decimal(p.size)
         /\ Header(p)[4] = Colon /\ Header(p)[n+5] = Colon
<1>. PICK x : x = <<p.type, Colon, Decimal(p.size), Colon>>
  OBVIOUS
<1>. PICK y : y = <<Colon>>
  OBVIOUS
<1>1. Header(p) = (x \o c) \o y
  BY Zenon DEF Header, Colon
<1>2. Colon \in Char
  BY Zenon DEF Colon, Char
<1>3. Decimal(p.size) \in Char
  <2>1. p.size \in 0 .. MaxData
    BY DEF IsPacket
  <2>2. Decimal(p.size) \in STRING
    BY <2>1, DecimalAssumption, Zenon
  <2>. QED  BY <2>2, Zenon DEF Char
<1>4. Is(x, 4) /\ x[1] = p.type /\ x[2] = Colon /\ x[3] = Decimal(p.size) /\ x[4] = Colon
  <2>1. p.type \in Char
    BY DEF IsPacket
  <2>. QED  BY <1>2, <1>3, <2>1 DEF Is
<1>5. Is(y, 1) /\ y[1] = Colon
  BY <1>2 DEF Is
<1>6. Is(x \o c, 4 + n) /\ Agree(x \o c, x, 4) /\ Behind(x \o c, 4, c, n)
  BY <1>4, JoinIs
<1>. PICK xc : xc = x \o c
  OBVIOUS
<1>. PICK h : h = xc \o y
  OBVIOUS
<1>7. Is(h, (4 + n) + 1) /\ Agree(h, xc, 4 + n) /\ Behind(h, 4 + n, y, 1)
  BY <1>5, <1>6, JoinIs
<1>8. n \in Nat
  BY IsAt
<1>9. (4 + n) + 1 = n + 5 /\ 1 \in 1 .. 1 /\ \A i \in 1 .. n : 4 + i \in 1 .. 4 + n
  BY <1>8
<1>10. h[n+5] = Colon
  BY <1>5, <1>7, <1>9 DEF Behind
<1>11. \A i \in 1 .. n : h[4+i] = c[i]
  BY <1>6, <1>7, <1>9 DEF Behind, Agree
<1>12. h[1] = x[1] /\ h[2] = x[2] /\ h[3] = x[3] /\ h[4] = x[4]
  <2>1. \A i \in 1 .. 4 : i \in 1 .. 4 + n
    BY <1>8
  <2>2. \A i \in 1 .. 4 : h[i] = x[i]
    BY <1>6, <1>7, <2>1 DEF Agree
  <2>. QED  BY <2>2
<1>13. Header(p) = h
  BY <1>1
<1>. QED  BY <1>4, <1>7, <1>9, <1>10, <1>11, <1>12, <1>13 DEF Behind

(* A product of two positive numbers is no less than they are.             *)
LEMMA ProductLarge ==
  ASSUME NEW k \in Nat, NEW h \in Nat, k >= 1
  PROVE  h + k <= k * (1 + h)
BY SMT

(* The buffer is large enough if there are data.                           *)
LEMMA CapacitySuffices ==
  ASSUME NEW p, IsPacket(p), p.size > 0
  PROVE  Len(packetToByteArray(p)) <= Capacity(p)
<1>1. PICK n : StringLen(p.mem, MemLen, n)
  <2>1. Is(p.mem, MemLen)
    BY DEF IsPacket
  <2>. QED  BY <2>1, Rooms, EndsSomewhere DEF StringLen
<1>2. Is(CString(p.mem, 0), n)
  BY <1>1, CStringIs
<1>3. Is(Header(p), n + 5) /\ Is(Data(p), p.size)
  BY <1>2, HeaderIs, DataIs
<1>4. Is(packetToByteArray(p), (n + 5) + p.size)
  BY <1>3, JoinIs DEF packetToByteArray
<1>5. Len(packetToByteArray(p)) = (n + 5) + p.size /\ Len(Header(p)) = n + 5
  BY <1>3, <1>4, IsAt
<1>. PICK k : k = p.size
  OBVIOUS
<1>. PICK h : h = n + 5
  OBVIOUS
<1>6. k \in Nat /\ k >= 1 /\ h \in Nat
  <2>1. n \in Nat
    BY <1>2, IsAt
  <2>2. k \in 0 .. MaxData
    BY DEF IsPacket
  <2>. QED  BY <2>1, <2>2
<1>7. h + k <= k * (1 + h)
  BY <1>6, ProductLarge
<1>. QED  BY <1>5, <1>7 DEF Capacity

(* A beginning with three colons, the last of them at place e.             *)
ThirdColon(bytes, L, e) ==
  /\ Is(bytes, L) /\ e \in 5 .. L
  /\ bytes[2] = Colon /\ bytes[4] = Colon /\ bytes[e] = Colon
  /\ \A i \in 1 .. e : bytes[i] = Colon => i \in {2, 4, e}

(* That is where the header ends.                                          *)
LEMMA HeaderEndIs ==
  ASSUME NEW bytes, NEW L, NEW e, ThirdColon(bytes, L, e)
  PROVE  HeaderEnd(bytes) = e
<1>. DEFINE At(i) == {j \in 1 .. i : bytes[j] = Colon}
            E == {i \in DOMAIN bytes : Cardinality(At(i)) = 3}
<1>1. /\ Is(bytes, L) /\ e \in 5 .. L
      /\ bytes[2] = Colon /\ bytes[4] = Colon /\ bytes[e] = Colon
      /\ \A i \in 1 .. e : bytes[i] = Colon => i \in {2, 4, e}
  BY DEF ThirdColon
<1>2. L \in Nat /\ DOMAIN bytes = 1 .. L
  BY <1>1, IsAt
<1>3. HeaderEnd(bytes) = Min(E)
  BY Zenon DEF HeaderEnd, Colon
<1>4. Cardinality({2, 4}) = 2 /\ IsFiniteSet({2, 4})
  <2>1. Cardinality({2}) = 1 /\ IsFiniteSet({2})
    BY FS_Singleton
  <2>2. {2, 4} = {2} \cup {4} /\ 4 \notin {2}
    OBVIOUS
  <2>. QED  BY <2>1, <2>2, FS_AddElement
<1>5. Cardinality({2, 4} \cup {e}) = 3
  <2>. PICK pair : pair = {2, 4}
    OBVIOUS
  <2>1. e \notin pair
    BY <1>1, <1>2
  <2>2. Cardinality(pair \cup {e}) = Cardinality(pair) + 1 /\ Cardinality(pair) = 2
    <3>. HIDE DEF At, E
    <3>. QED  BY <1>4, <2>1, FS_AddElement
  <2>. QED  BY <2>2
<1>6. e \in E
  <2>1. At(e) = {2, 4} \cup {e}
    BY <1>1, <1>2
  <2>2. e \in 1 .. L
    BY <1>1, <1>2
  <2>. HIDE DEF At
  <2>. QED  BY <1>2, <1>5, <2>1, <2>2
<1>7. ASSUME NEW i \in E  PROVE e <= i
  <2>. SUFFICES ASSUME i < e  PROVE FALSE
    BY <1>1, <1>2
  <2>1. i \in 1 .. L /\ Cardinality(At(i)) = 3
    BY <1>2
  <2>2. At(i) \subseteq {2, 4}
    <3>1. \A j \in 1 .. i : j \in 1 .. e /\ j # e
      BY <1>1, <1>2, <2>1
    <3>. QED  BY <1>1, <3>1
  <2>3. Cardinality(At(i)) <= 2
    <3>. HIDE DEF At
    <3>. QED  BY <1>4, <2>2, FS_Subset
  <2>. QED  BY <2>1, <2>3
<1>8. E \in SUBSET Nat /\ E # {}
  <2>1. E \subseteq 1 .. L
    BY <1>2
  <2>2. 1 .. L \subseteq Nat
    BY <1>2
  <2>. HIDE DEF E
  <2>. QED  BY <1>6, <2>1, <2>2
<1>9. Min(E) = e
  <2>. HIDE DEF E
  <2>1. Min(E) \in E /\ Min(E) <= e /\ Min(E) \in Nat
    BY <1>6, <1>8, MinOfNats
  <2>2. e <= Min(E)
    BY <1>7, <2>1
  <2>. QED  BY <1>1, <1>2, <2>1, <2>2
<1>. QED  BY <1>3, <1>9

(* The header reads up to white space; there is none in a plain source.    *)
Spaces == {" ", "\n", NUL}

(* A source the server can read: not empty, without `:' and white space.   *)
LEMMA PlainIs ==
  ASSUME NEW p, NEW n, StringLen(p.mem, MemLen, n), NEW c, c = CString(p.mem, 0), PlainSource(p)
  PROVE  n # 0 /\ \A i \in 1 .. n : c[i] # Colon /\ c[i] \notin Spaces
<1>1. Is(c, n) /\ \A i \in 1 .. n : c[i] = p.mem[i]
  BY CStringIs DEF Agree
<1>2. DOMAIN c = 1 .. n /\ n \in Nat
  BY <1>1, IsAt
<1>3. c # <<>> /\ Colon \notin ToSet(c) /\ " " \notin ToSet(c) /\ "\n" \notin ToSet(c)
  BY Zenon DEF PlainSource, Colon
<1>4. \A i \in 1 .. n : c[i] \in ToSet(c)
  BY <1>2 DEF ToSet
<1>5. \A i \in 1 .. n : c[i] # NUL
  <2>1. \A i \in 1 .. n : p.mem[i] \notin {NUL}
    BY DEF StringLen, Stops
  <2>. QED  BY <1>1, <2>1
<1>6. n # 0
  <2>1. c \in Seq(Char) /\ Len(c) = n
    BY <1>1 DEF Is
  <2>. QED  BY <1>3, <2>1, EmptySeq
<1>. QED  BY <1>3, <1>4, <1>5, <1>6, Zenon DEF Spaces

(* What recv returns when rest comes behind the packet.                    *)
Sent(p, n, rest, r, bytes) ==
  /\ IsPacket(p) /\ StringLen(p.mem, MemLen, n) /\ Is(rest, r)
  /\ bytes = packetToByteArray(p) \o rest

(* These bytes, index by index.                                            *)
LEMMA SentIs ==
  ASSUME NEW p, NEW n, NEW rest, NEW r, NEW bytes, Sent(p, n, rest, r, bytes)
  PROVE  /\ Is(bytes, (n + 5 + p.size) + r)
         /\ Behind(bytes, 4, CString(p.mem, 0), n) /\ Behind(bytes, n + 5, Data(p), p.size)
         /\ bytes[1] = p.type /\ bytes[2] = Colon /\ bytes[3] = Decimal(p.size)
         /\ bytes[4] = Colon /\ bytes[n+5] = Colon
<1>. PICK c : c = CString(p.mem, 0)
  OBVIOUS
<1>. PICK h : h = Header(p)
  OBVIOUS
<1>. PICK d : d = Data(p)
  OBVIOUS
<1>. PICK k : k = p.size
  OBVIOUS
<1>. PICK b : b = h \o d
  OBVIOUS
<1>1. IsPacket(p) /\ Is(rest, r) /\ Is(c, n)
  BY CStringIs DEF Sent
<1>2. bytes = b \o rest
  BY DEF Sent, packetToByteArray
<1>3. /\ Is(h, n + 5) /\ Behind(h, 4, c, n)
      /\ h[1] = p.type /\ h[2] = Colon /\ h[3] = Decimal(p.size) /\ h[4] = Colon /\ h[n+5] = Colon
  BY <1>1, HeaderIs
<1>4. Is(d, k)
  BY <1>1, DataIs
<1>5. Is(b, n + 5 + k) /\ Agree(b, h, n + 5) /\ Behind(b, n + 5, d, k)
  BY <1>3, <1>4, JoinIs
<1>6. Is(bytes, (n + 5 + k) + r) /\ Agree(bytes, b, n + 5 + k)
  BY <1>1, <1>2, <1>5, JoinIs
<1>7. n \in Nat /\ k \in Nat
  BY <1>1, <1>4, IsAt
<1>8. \A i \in 1 .. n + 5 : bytes[i] = h[i]
  <2>1. \A i \in 1 .. n + 5 : i \in 1 .. n + 5 + k
    BY <1>7
  <2>. QED  BY <1>5, <1>6, <2>1 DEF Agree
<1>9. \A i \in 1 .. k : bytes[(n+5)+i] = d[i]
  <2>1. \A i \in 1 .. k : (n + 5) + i \in 1 .. n + 5 + k
    BY <1>7
  <2>. QED  BY <1>5, <1>6, <2>1 DEF Agree, Behind
<1>10. \A i \in 1 .. n : bytes[4+i] = c[i]
  <2>1. \A i \in 1 .. n : 4 + i \in 1 .. n + 5
    BY <1>7
  <2>. QED  BY <1>3, <1>8, <2>1 DEF Behind
<1>11. {1, 2, 3, 4, n + 5} \subseteq 1 .. n + 5
  BY <1>7
<1>12. /\ bytes[1] = p.type /\ bytes[2] = Colon /\ bytes[3] = Decimal(p.size)
       /\ bytes[4] = Colon /\ bytes[n+5] = Colon
  BY <1>3, <1>8, <1>11
<1>. QED  BY <1>6, <1>9, <1>10, <1>12 DEF Behind

(* Their third colon is the first one behind the second.                   *)
LEMMA SentThird ==
  ASSUME NEW p, NEW n, NEW rest, NEW r, NEW bytes, Sent(p, n, rest, r, bytes),
         NEW c, c = CString(p.mem, 0), NEW m, Stops(c, n, {Colon}, m)
  PROVE  \E L : ThirdColon(bytes, L, m + 5)
<1>. PICK L : L = (n + 5 + p.size) + r
  OBVIOUS
<1>1. /\ Is(bytes, L) /\ Behind(bytes, 4, c, n)
      /\ bytes[1] = p.type /\ bytes[2] = Colon /\ bytes[3] = Decimal(p.size)
      /\ bytes[4] = Colon /\ bytes[n+5] = Colon
  BY SentIs
<1>2. IsPacket(p) /\ StringLen(p.mem, MemLen, n) /\ Is(rest, r)
  BY DEF Sent
<1>3. n \in Nat /\ r \in Nat /\ p.size \in Nat /\ p.size \in 0 .. MaxData /\ p.type # Colon
  <2>1. Is(CString(p.mem, 0), n)
    BY <1>2, CStringIs
  <2>2. n \in Nat /\ r \in Nat
    BY <1>2, <2>1, IsAt
  <2>3. p.size \in 0 .. MaxData /\ p.type # Colon
    BY <1>2 DEF IsPacket
  <2>. QED  BY <2>2, <2>3
<1>4. Decimal(p.size) # Colon
  BY <1>3, DecimalAssumption, Zenon DEF Colon
<1>5. m \in 0 .. n /\ (\A i \in 1 .. m : c[i] # Colon) /\ (m = n \/ c[m+1] = Colon)
  BY DEF Stops
<1>6. m + 5 \in 5 .. L /\ m \in Nat
  BY <1>3, <1>5
<1>7. bytes[m+5] = Colon
  <2>1. ASSUME m # n  PROVE bytes[m+5] = Colon
    <3>1. m + 1 \in 1 .. n /\ 4 + (m + 1) = m + 5
      BY <1>3, <1>5, <2>1
    <3>2. bytes[4+(m+1)] = c[m+1]
      BY <1>1, <3>1 DEF Behind
    <3>. QED  BY <1>5, <2>1, <3>1, <3>2
  <2>. QED  BY <1>1, <2>1
<1>8. ASSUME NEW i \in 1 .. m + 5, bytes[i] = Colon  PROVE i \in {2, 4, m + 5}
  <2>1. i # 1 /\ i # 3
    BY <1>1, <1>3, <1>4, <1>8
  <2>2. ASSUME i > 4, i # m + 5  PROVE FALSE
    <3>1. i - 4 \in 1 .. m /\ i - 4 \in 1 .. n /\ 4 + (i - 4) = i
      BY <1>3, <1>5, <2>2
    <3>2. bytes[4+(i-4)] = c[i-4]
      BY <1>1, <3>1 DEF Behind
    <3>. QED  BY <1>5, <1>8, <3>1, <3>2
  <2>3. i \in {1, 2, 3, 4} \/ i > 4
    BY <1>6
  <2>. QED  BY <2>1, <2>2, <2>3
<1>9. ThirdColon(bytes, L, m + 5)
  BY <1>1, <1>6, <1>7, <1>8 DEF ThirdColon
<1>. QED  BY <1>9

(* There their header ends.                                                *)
LEMMA SentColon ==
  ASSUME NEW p, NEW n, NEW rest, NEW r, NEW bytes, Sent(p, n, rest, r, bytes),
         NEW c, c = CString(p.mem, 0), NEW m, Stops(c, n, {Colon}, m)
  PROVE  HeaderEnd(bytes) = m + 5
BY SentThird, HeaderEndIs

(* For a plain source it is behind the source, which leaves room in its    *)
(* array.                                                                  *)
LEMMA PlainColon ==
  ASSUME NEW p, NEW n, NEW rest, NEW r, NEW bytes, Sent(p, n, rest, r, bytes), PlainSource(p)
  PROVE  n < MaxName /\ \E L : ThirdColon(bytes, L, n + 5)
<1>. PICK c : c = CString(p.mem, 0)
  OBVIOUS
<1>1. StringLen(p.mem, MemLen, n)
  BY DEF Sent
<1>2. Is(c, n) /\ \A i \in 1 .. n : c[i] # Colon
  BY <1>1, CStringIs, PlainIs
<1>3. Len(c) = n /\ n \in Nat
  BY <1>2, IsAt
<1>4. Len(c) < MaxName
  BY Zenon DEF PlainSource
<1>5. Stops(c, n, {Colon}, n)
  BY <1>2, <1>3 DEF Stops
<1>. QED  BY <1>3, <1>4, <1>5, SentThird

(* A recv that is cut behind the header has the same colons.               *)
LEMMA CutColon ==
  ASSUME NEW bytes, NEW L, NEW e, ThirdColon(bytes, L, e), NEW m \in e .. L,
         NEW s, s = SubSeq(bytes, 1, m)
  PROVE  ThirdColon(s, m, e)
<1>1. /\ Is(bytes, L) /\ e \in 5 .. L
      /\ bytes[2] = Colon /\ bytes[4] = Colon /\ bytes[e] = Colon
      /\ \A i \in 1 .. e : bytes[i] = Colon => i \in {2, 4, e}
  BY DEF ThirdColon
<1>2. L \in Nat
  BY <1>1, IsAt
<1>3. m \in 0 .. L /\ e \in 5 .. m /\ {2, 4, e} \subseteq 1 .. m /\ 1 .. e \subseteq 1 .. m
  BY <1>1, <1>2
<1>4. Is(s, m) /\ Agree(s, bytes, m)
  BY <1>1, <1>3, BeginIs
<1>5. \A i \in 1 .. m : s[i] = bytes[i]
  BY <1>4 DEF Agree
<1>6. s[2] = Colon /\ s[4] = Colon /\ s[e] = Colon
  BY <1>1, <1>3, <1>5
<1>7. \A i \in 1 .. e : s[i] = Colon => i \in {2, 4, e}
  BY <1>1, <1>3, <1>5
<1>. QED  BY <1>3, <1>4, <1>6, <1>7 DEF ThirdColon

(* What is read of a source that leaves room in its array leaves room too. *)
LEMMA RoomFor ==
  ASSUME NEW bytes, NEW L, NEW e, ThirdColon(bytes, L, e), e - 5 < MaxName
  PROVE  Len(ClientIdIn(bytes)) < MaxName
<1>1. Is(bytes, L) /\ e \in 5 .. L
  BY DEF ThirdColon
<1>2. HeaderEnd(bytes) = e
  BY HeaderEndIs
<1>3. L \in Nat
  BY <1>1, IsAt
<1>. PICK k : k = e - 5
  OBVIOUS
<1>4. /\ k \in Nat /\ k < MaxName /\ 4 + 1 = 5 /\ 4 + k = e - 1 /\ 4 \in Nat /\ 4 + k <= L
  BY <1>1, <1>3
<1>. PICK t : t = SubSeq(bytes, 5, e - 1)
  OBVIOUS
<1>5. Piece(bytes, L, 4, t, k)
  BY <1>1, <1>4 DEF Piece
<1>6. Is(t, k)
  BY <1>5, PieceIs
<1>7. PICK m : Stops(t, k, Spaces, m)
  BY <1>4, EndsSomewhere
<1>8. Is(UpTo(t, Spaces), m)
  BY <1>6, <1>7, UpToStops
<1>9. m \in 0 .. k
  BY <1>7 DEF Stops
<1>10. ClientIdIn(bytes) = UpTo(t, Spaces)
  BY <1>2, Zenon DEF ClientIdIn, Spaces
<1>. QED  BY <1>4, <1>8, <1>9, <1>10, IsAt, Rooms

(* So only what comes behind the header overruns an array.                 *)
LEMMA OverrunBehind ==
  ASSUME NEW bytes, NEW L, NEW e, ThirdColon(bytes, L, e), e - 5 < MaxName, Overrun(bytes)
  PROVE  Len(bytes) - HeaderEnd(bytes) > MaxData
<1>1. Len(ClientIdIn(bytes)) < MaxName
  BY RoomFor
<1>2. Len(ClientIdIn(bytes)) \in Nat \/ ~(Len(ClientIdIn(bytes)) >= MaxName)
  BY <1>1, Rooms
<1>. QED  BY <1>1, Rooms DEF Overrun

(* The size is read back.                                                  *)
LEMMA NumberIs ==
  ASSUME NEW k \in 0 .. MaxData
  PROVE  Number(Decimal(k)) = k
<1>1. \A m \in 0 .. MaxData : Decimal(m) = Decimal(k) => m = k
  BY DecimalAssumption, Zenon
<1>. QED  BY <1>1, Zenon DEF Number

(* And so are type, source and data, whatever comes behind them.           *)
LEMMA Decodes ==
  ASSUME NEW p, NEW n, NEW rest, NEW r, NEW bytes, Sent(p, n, rest, r, bytes), PlainSource(p),
         NEW got, got = bytesToPacket(bytes)
  PROVE  got.type = p.type /\ Source(got) = Source(p) /\ Data(got) = Data(p)
<1>. PICK c : c = CString(p.mem, 0)
  OBVIOUS
<1>. PICK d : d = Data(p)
  OBVIOUS
<1>. PICK k : k = p.size
  OBVIOUS
<1>. PICK L : L = (n + 5 + p.size) + r
  OBVIOUS
<1>1. /\ Is(bytes, L) /\ Behind(bytes, 4, c, n) /\ Behind(bytes, n + 5, d, k)
      /\ bytes[1] = p.type /\ bytes[3] = Decimal(k)
  BY SentIs
<1>2. IsPacket(p) /\ StringLen(p.mem, MemLen, n) /\ Is(rest, r)
  BY DEF Sent
<1>3. Is(c, n) /\ Agree(c, p.mem, n) /\ Is(d, k)
  BY <1>2, CStringIs, DataIs
<1>4. n \in Nat /\ r \in Nat /\ k \in Nat /\ k \in 0 .. MaxData
  <2>1. n \in Nat /\ r \in Nat /\ k \in Nat
    BY <1>2, <1>3, IsAt
  <2>2. k \in 0 .. MaxData
    BY <1>2 DEF IsPacket
  <2>. QED  BY <2>1, <2>2
<1>5. HeaderEnd(bytes) = n + 5 /\ Number(bytes[3]) = k
  <2>1. \A i \in 1 .. n : c[i] # Colon
    BY <1>2, PlainIs
  <2>2. Stops(c, n, {Colon}, n)
    BY <1>4, <2>1 DEF Stops
  <2>. QED  BY <1>1, <1>4, <2>2, SentColon, NumberIs
<1>. DEFINE name == UpTo(SubSeq(bytes, 5, (n + 5) - 1), Spaces)
            source == IF name = <<>> THEN <<Garbage>> ELSE name
            data == [i \in 1 .. k |->
                       IF (n + 5) + i \in DOMAIN bytes THEN bytes[(n+5)+i] ELSE Garbage]
            q == NewPacket(p.type, source, data)
<1>6. got = [q EXCEPT !.size = k]
  <2>1. bytesToPacket(bytes) =
          [NewPacket(bytes[1],
                     IF UpTo(SubSeq(bytes, 5, HeaderEnd(bytes) - 1), Spaces) = <<>>
                     THEN <<Garbage>>
                     ELSE UpTo(SubSeq(bytes, 5, HeaderEnd(bytes) - 1), Spaces),
                     [i \in 1 .. Number(bytes[3]) |->
                        IF HeaderEnd(bytes) + i \in DOMAIN bytes
                        THEN bytes[HeaderEnd(bytes)+i] ELSE Garbage])
             EXCEPT !.size = Number(bytes[3])]
    BY Zenon DEF bytesToPacket, ClientIdIn, Spaces
  <2>. QED  BY <1>1, <1>5, <2>1
<1>7. name = c /\ c # <<>>
  <2>. PICK t : t = SubSeq(bytes, 5, (n + 5) - 1)
    OBVIOUS
  <2>1. 4 + 1 = 5 /\ 4 + n = (n + 5) - 1 /\ 4 \in Nat /\ 4 + n <= L
    BY <1>4
  <2>2. Piece(bytes, L, 4, t, n)
    BY <1>1, <1>4, <2>1 DEF Piece
  <2>3. Is(t, n) /\ Behind(bytes, 4, t, n)
    BY <2>2, PieceIs
  <2>4. Agree(t, c, n)
    BY <1>1, <2>3 DEF Agree, Behind
  <2>5. t = c
    BY <1>3, <2>3, <2>4, Same
  <2>6. n # 0 /\ \A i \in 1 .. n : c[i] \notin Spaces
    BY <1>2, PlainIs
  <2>7. Stops(c, n, Spaces, n)
    BY <1>4, <2>6 DEF Stops
  <2>8. UpTo(c, Spaces) = c
    BY <1>3, <2>7, UpToStops, Same
  <2>9. c # <<>>
    BY <1>3, <2>6, EmptySeq DEF Is
  <2>. QED  BY <2>5, <2>8, <2>9
<1>8. data = d
  <2>1. d = [i \in 1 .. k |-> d[i]]
    BY <1>3, LenProperties DEF Is
  <2>2. \A i \in 1 .. k : (n + 5) + i \in DOMAIN bytes /\ bytes[(n+5)+i] = d[i]
    <3>1. \A i \in 1 .. k : bytes[(n+5)+i] = d[i]
      BY <1>1 DEF Behind
    <3>2. DOMAIN bytes = 1 .. L
      BY <1>1, IsAt
    <3>3. \A i \in 1 .. k : (n + 5) + i \in 1 .. L
      BY <1>4
    <3>. QED  BY <3>1, <3>2, <3>3
  <2>3. data = [i \in 1 .. k |-> d[i]]
    BY <2>2
  <2>. QED  BY <2>1, <2>3
<1>. HIDE DEF name, data
<1>9. q = NewPacket(p.type, c, d)
  BY <1>7, <1>8
<1>. HIDE DEF q
<1>10. /\ q.type = p.type /\ q.size = k /\ Is(q.mem, MemLen)
       /\ \A i \in 1 .. MaxName : q.mem[i] = IF i <= n THEN c[i] ELSE NUL
  <2>1. k <= MaxData
    BY <1>4
  <2>. QED  BY <1>3, <1>9, <2>1, NewPacketIs
<1>11. got.type = p.type /\ got.size = k /\ got.mem = q.mem
  <2>1. got = [NewPacket(p.type, c, d) EXCEPT !.size = k]
    BY <1>6, <1>9
  <2>. QED  BY <1>9, <2>1 DEF NewPacket
<1>12. Data(got) = d
  <2>1. Data(q) = d
    BY <1>3, <1>4, <1>9, NewData
  <2>. QED  BY <1>10, <1>11, <2>1 DEF Data
<1>13. Source(got) = Source(p)
  <2>1. \A i \in 1 .. MaxName : q.mem[i] = IF i <= n THEN p.mem[i] ELSE NUL
    <3>1. \A i \in 1 .. MaxName : i <= n => c[i] = p.mem[i]
      BY <1>3 DEF Agree
    <3>. QED  BY <1>10, <3>1
  <2>2. Source(q) = Source(p)
    BY <1>2, <1>10, <2>1, SourceKept
  <2>. QED  BY <1>11, <2>2 DEF Source
<1>. QED  BY <1>11, <1>12, <1>13

-----------------------------------------------------------------------------
(* Requests.                                                               *)

(* A C string: what it holds is not NUL.                                   *)
Str(s, n) == Is(s, n) /\ \A i \in 1 .. n : s[i] # NUL

(* The strings a client may have in its tab.                               *)
Tabs == UNION {TabStrings(s) : s \in SessionNames}

(* Sequences of characters other than NUL are C strings.                   *)
LEMMA StrIs ==
  ASSUME NEW s \in Seq(STRING \ {NUL})
  PROVE  Str(s, Len(s)) /\ Len(s) \in Nat
<1>1. STRING \ {NUL} \subseteq Char
  BY Zenon DEF Char
<1>2. s \in Seq(Char)
  BY <1>1, SeqMonotonic
<1>3. \A i \in 1 .. Len(s) : s[i] \in STRING \ {NUL}
  BY ElementOfSeq
<1>4. Is(s, Len(s)) /\ Len(s) \in Nat
  BY <1>2, IsOne, LenProperties
<1>. QED  BY <1>3, <1>4 DEF Str

(* clientIDs of clients that are logged in.                                *)
LEMMA NameIs ==
  ASSUME NEW n \in Names
  PROVE  Str(n, Len(n)) /\ Len(n) \in Nat /\ Len(n) <= MaxName /\ Len(n) <= MaxData
<1>1. n \in Seq(STRING \ {NUL}) /\ Len(n) <= MaxName /\ Len(n) <= MaxData
  BY WireAssumption
<1>. QED  BY <1>1, StrIs

(* Lines.                                                                  *)
LEMMA LineIs ==
  ASSUME NEW l \in Lines
  PROVE  Str(l, Len(l)) /\ Len(l) \in Nat /\ 2 * Len(l) + 1 <= MaxData
<1>1. l \in Seq(STRING \ {NUL}) /\ 2 * Len(l) + 1 <= MaxData
  BY WireAssumption
<1>. QED  BY <1>1, StrIs

(* What the tab of the sender holds fits with any line.                    *)
LEMMA TabIs ==
  ASSUME NEW t \in Tabs, NEW l \in Lines
  PROVE  Is(t, Len(t)) /\ Len(t) \in Nat /\ Len(t) + 1 + Len(l) <= MaxData
<1>1. PICK s \in SessionNames : t \in TabStrings(s)
  BY DEF Tabs
<1>2. t = s \/ t = Append(s, Garbage)
  BY <1>1 DEF TabStrings
<1>3. Is(s, Len(s)) /\ Len(s) \in Nat /\ Len(l) + Len(s) + 2 <= MaxData
  <2>1. s \in Seq(STRING \ {NUL}) /\ Len(l) + Len(s) + 2 <= MaxData
    BY WireAssumption
  <2>. QED  BY <2>1, StrIs DEF Str
<1>4. Len(l) \in Nat /\ MaxData \in Nat
  BY LineIs, Rooms
<1>5. CASE t = s
  BY <1>3, <1>4, <1>5
<1>6. CASE t = Append(s, Garbage)
  <2>1. Garbage \in Char
    BY Zenon DEF Char
  <2>2. s \in Seq(Char)
    BY <1>3 DEF Is
  <2>3. t \in Seq(Char) /\ Len(t) = Len(s) + 1
    BY <1>6, <2>1, <2>2, AppendProperties
  <2>4. Is(t, Len(t))
    BY <2>3, IsOne
  <2>. QED  BY <1>3, <1>4, <2>3, <2>4
<1>. QED  BY <1>2, <1>5, <1>6

(* A piece of a string up to an end is one, and holds no end.              *)
LEMMA RunIs ==
  ASSUME NEW s, NEW L, Str(s, L), NEW ends, NEW a \in 1 .. L, s[a] \notin ends
  PROVE  \E m \in 1 .. L : /\ Str(UpTo(SubSeq(s, a, L), ends), m)
                           /\ \A i \in 1 .. m : UpTo(SubSeq(s, a, L), ends)[i] \notin ends
<1>1. Is(s, L) /\ L \in Nat /\ \A i \in 1 .. L : s[i] # NUL
  BY IsAt DEF Str
<1>. PICK b : b = a - 1
  OBVIOUS
<1>. PICK k : k = L - b
  OBVIOUS
<1>. PICK t : t = SubSeq(s, a, L)
  OBVIOUS
<1>2. /\ b \in Nat /\ k \in Nat /\ k # 0 /\ b + k <= L /\ b + 1 = a /\ b + k = L
      /\ \A i \in 1 .. k : b + i \in 1 .. L
      /\ 1 \in 1 .. k
  BY <1>1
<1>3. Piece(s, L, b, t, k)
  BY <1>1, <1>2 DEF Piece
<1>4. Is(t, k) /\ \A i \in 1 .. k : s[b+i] = t[i]
  <2>1. Is(t, k) /\ Behind(s, b, t, k)
    BY <1>3, PieceIs
  <2>. QED  BY <2>1 DEF Behind
<1>5. PICK m : Stops(t, k, ends, m)
  BY <1>2, EndsSomewhere
<1>6. /\ m \in 0 .. k /\ (\A i \in 1 .. m : t[i] \notin ends)
      /\ (m = k \/ t[m+1] \in ends)
  BY <1>5 DEF Stops
<1>7. m \in 1 .. L /\ \A i \in 1 .. m : i \in 1 .. k
  <2>1. m # 0
    <3>1. t[1] = s[a]
      BY <1>2, <1>4
    <3>2. 0 + 1 = 1
      OBVIOUS
    <3>. QED  BY <1>2, <1>6, <3>1, <3>2
  <2>2. k <= L
    BY <1>1, <1>2
  <2>. QED  BY <1>1, <1>2, <1>6, <2>1, <2>2
<1>8. Is(UpTo(t, ends), m) /\ Agree(UpTo(t, ends), t, m)
  BY <1>4, <1>5, UpToStops
<1>9. \A i \in 1 .. m : UpTo(t, ends)[i] \notin ends /\ UpTo(t, ends)[i] # NUL
  <2>. SUFFICES ASSUME NEW i \in 1 .. m
                PROVE  UpTo(t, ends)[i] \notin ends /\ UpTo(t, ends)[i] # NUL
    OBVIOUS
  <2>1. UpTo(t, ends)[i] = t[i]
    BY <1>8 DEF Agree
  <2>2. t[i] = s[b+i] /\ b + i \in 1 .. L
    BY <1>2, <1>4, <1>7
  <2>. QED  BY <1>1, <1>6, <2>1, <2>2
<1>. QED  BY <1>7, <1>8, <1>9 DEF Str

(* So is a token.                                                          *)
LEMMA TokenIs ==
  ASSUME NEW s, NEW L, Str(s, L), NEW ends, NEW k \in DOMAIN strtok(s, ends)
  PROVE  \E m \in 1 .. L : /\ Str(strtok(s, ends)[k], m)
                           /\ \A i \in 1 .. m : strtok(s, ends)[k][i] \notin ends
<1>. PICK q : q = strtok(s, ends)
  OBVIOUS
<1>1. s \in Seq(Char) /\ Len(s) = L
  BY DEF Str, Is
<1>2. /\ q \in Seq(Seq(Char)) /\ Len(q) = Count(s, ends, Len(s))
      /\ \A a \in Starts(s, ends) : q[Count(s, ends, a)] = UpTo(SubSeq(s, a, Len(s)), ends)
  BY <1>1, TokenAt
<1>3. k \in 1 .. Count(s, ends, Len(s))
  BY <1>2, LenProperties
<1>4. PICK a \in Starts(s, ends) : Count(s, ends, a) = k
  BY <1>1, <1>3, CountOrder
<1>5. a \in 1 .. L /\ s[a] \notin ends
  BY <1>1, <1>4, CountNext DEF Starts
<1>6. q[k] = UpTo(SubSeq(s, a, L), ends)
  BY <1>1, <1>2, <1>4
<1>. QED  BY <1>5, <1>6, RunIs

-----------------------------------------------------------------------------
(* The packets the client builds.                                          *)

(* A packet made of strings that fit.                                      *)
LEMMA NewIs ==
  ASSUME NEW type \in Types, NEW source, NEW data, NEW m, NEW n, Is(source, m), Is(data, n),
         n <= MaxData, NEW p, p = NewPacket(type, source, data)
  PROVE  IsPacket(p) /\ p.type = type /\ Data(p) = data
<1>1. type \in Char \ {Colon}
  BY Zenon DEF Types, Char, Colon
<1>2. p.type = type /\ p.size = n /\ Is(p.mem, MemLen)
  BY NewPacketIs
<1>3. n \in Nat /\ MaxData \in Nat
  BY IsAt, Rooms
<1>4. p.size \in 0 .. MaxData
  BY <1>2, <1>3
<1>. QED  BY <1>1, <1>2, <1>4, NewData DEF IsPacket

(* Nothing.                                                                *)
LEMMA EmptyIs == Is(<<>>, 0)
BY EmptySeq DEF Is

(* At first there is none.                                                 *)
LEMMA NoPacketIs == IsPacket(NoPacket) /\ NoPacket.type = "none"
<1>1. "none" \in Types
  BY DEF Types
<1>2. NoPacket = NewPacket("none", <<>>, <<>>)
  BY DEF NoPacket
<1>. QED  BY <1>1, <1>2, EmptyIs, Rooms, NewIs

(* What is known of the packet r of a command with tokens t.               *)
RequestOK(r, t) ==
  /\ IsPacket(r)
  /\ r.type = "LOGIN" => Len(t) = 5 /\ r = getLoginPacket(t[2], t[3])
  /\ r.type # "MESSAGE"

(* A packet of another type.                                               *)
LEMMA OtherIs ==
  ASSUME NEW r, NEW t, NEW type \in Types \ {"LOGIN", "MESSAGE"},
         NEW source, NEW data, NEW m, NEW n,
         Is(source, m), Is(data, n), n <= MaxData, r = NewPacket(type, source, data)
  PROVE  RequestOK(r, t)
<1>1. IsPacket(r) /\ r.type = type
  BY NewIs
<1>. QED  BY <1>1 DEF RequestOK

(* One string, a delimiter and another one.                                *)
Pair(z, x, c, y) == z = x \o <<c>> \o y

(* Where the three of them are.                                            *)
LEMMA PairIs ==
  ASSUME NEW x, NEW m, NEW y, NEW n, Is(x, m), Is(y, n), NEW c \in Char, NEW z, Pair(z, x, c, y)
  PROVE  /\ Is(z, m + 1 + n) /\ Agree(z, x, m) /\ z[m+1] = c /\ Behind(z, m + 1, y, n)
         /\ m \in Nat /\ n \in Nat
<1>. PICK d : d = <<c>>
  OBVIOUS
<1>. PICK w : w = x \o d
  OBVIOUS
<1>1. Is(d, 1) /\ d[1] = c
  BY DEF Is
<1>2. Is(w, m + 1) /\ Agree(w, x, m) /\ Behind(w, m, d, 1)
  BY <1>1, JoinIs
<1>3. z = w \o y
  BY Zenon DEF Pair
<1>4. Is(z, (m + 1) + n) /\ Agree(z, w, m + 1) /\ Behind(z, m + 1, y, n)
  BY <1>2, <1>3, JoinIs
<1>5. m \in Nat /\ n \in Nat
  BY IsAt
<1>6. \A i \in 1 .. m : z[i] = x[i]
  <2>1. \A i \in 1 .. m : i \in 1 .. m + 1
    BY <1>5
  <2>. QED  BY <1>2, <1>4, <2>1 DEF Agree
<1>7. z[m+1] = c
  <2>1. m + 1 \in 1 .. m + 1 /\ 1 \in 1 .. 1
    BY <1>5
  <2>. QED  BY <1>1, <1>2, <1>4, <2>1 DEF Agree, Behind
<1>. QED  BY <1>4, <1>5, <1>6, <1>7 DEF Agree

(* Which packet RequestOf builds, for six command words.                   *)
Choice(w, n, c1, c2, c3, c4, c5, c6, r1, r2, r3, r4, r5, r6, r7) ==
  CASE w = c1 /\ n = 5 -> r1
    [] w = c2 /\ n = 1 -> r2
    [] w = c3 /\ n = 2 -> r3
    [] w = c4 /\ n = 1 -> r4
    [] w = c5 /\ n = 2 -> r5
    [] w = c6 /\ n = 1 -> r6
    [] OTHER -> r7

(* One of these.                                                           *)
LEMMA ChoiceIs ==
  ASSUME NEW w, NEW n, NEW c1, NEW c2, NEW c3, NEW c4, NEW c5, NEW c6,
         NEW r1, NEW r2, NEW r3, NEW r4, NEW r5, NEW r6, NEW r7,
         NEW r, r = Choice(w, n, c1, c2, c3, c4, c5, c6, r1, r2, r3, r4, r5, r6, r7)
  PROVE  \/ n = 5 /\ r = r1
         \/ r = r2
         \/ n = 2 /\ r = r3
         \/ r = r4
         \/ n = 2 /\ r = r5
         \/ r = r6
         \/ r = r7
BY SMT DEF Choice

Comma == ","
Semi == ";"

(* The packet of a login.                                                  *)
LEMMA LoginPacketIs ==
  \A x, y : getLoginPacket(x, y) = NewPacket("LOGIN", x, x \o <<Comma>> \o y)
BY Zenon DEF getLoginPacket, Comma

(* The packet of a text.                                                   *)
LEMMA MessagePacketIs ==
  \A x, y, z : getMessagePacket(x, y, z) = NewPacket("MESSAGE", x, y \o <<Semi>> \o z)
BY Zenon DEF getMessagePacket, Semi

(* The ways of RequestOf.                                                  *)
LEMMA RequestCases ==
  ASSUME NEW t
  PROVE  \/ Len(t) = 5 /\ RequestOf(t) = getLoginPacket(t[2], t[3])
         \/ RequestOf(t) = getLogoutPacket(clientID)
         \/ Len(t) = 2 /\ RequestOf(t) = getJoinSessionPacket(clientID, t[2])
         \/ RequestOf(t) = getLeaveSessionPacket(clientID, tab)
         \/ Len(t) = 2 /\ RequestOf(t) = getNewSessionPacket(clientID, t[2])
         \/ RequestOf(t) = getListPacket(clientID)
         \/ RequestOf(t) = NoPacket
<1>. PICK n, r1, r3, r5, r2, r4, r6 :
          /\ n = Len(t) /\ r1 = getLoginPacket(t[2], t[3])
          /\ r3 = getJoinSessionPacket(clientID, t[2]) /\ r5 = getNewSessionPacket(clientID, t[2])
          /\ r2 = getLogoutPacket(clientID) /\ r4 = getLeaveSessionPacket(clientID, tab)
          /\ r6 = getListPacket(clientID)
  OBVIOUS
<1>. PICK r : r = RequestOf(t)
  OBVIOUS
<1>1. \E c1, c2, c3, c4, c5, c6 :
        r = Choice(t[1], n, c1, c2, c3, c4, c5, c6, r1, r2, r3, r4, r5, r6, NoPacket)
  <2>1. r = Choice(t[1], n, <<"/", "login">>, <<"/", "logout">>, <<"/", "joinsession">>,
                   <<"/", "leavesession">>, <<"/", "createsession">>, <<"/", "list">>,
                   r1, r2, r3, r4, r5, r6, NoPacket)
    BY Zenon DEF RequestOf, Choice
  <2>. QED  BY <2>1, Zenon
<1>2. \/ n = 5 /\ r = r1
      \/ r = r2
      \/ n = 2 /\ r = r3
      \/ r = r4
      \/ n = 2 /\ r = r5
      \/ r = r6
      \/ r = NoPacket
  BY <1>1, ChoiceIs
<1>. QED  BY <1>2

(* The packet of a command.                                                *)
LEMMA RequestIs ==
  ASSUME clientID \in Names, tab \in Tabs, NEW l \in Lines, NEW t, t = parseTokens(l, Blanks)
  PROVE  RequestOK(RequestOf(t), t)
<1>. PICK L : L = Len(l)
  OBVIOUS
<1>. PICK r : r = RequestOf(t)
  OBVIOUS
<1>1. Str(l, L) /\ L \in Nat /\ 2 * L + 1 <= MaxData /\ MaxData \in Nat
  BY LineIs, Rooms
<1>2. t = strtok(l, Blanks) /\ DOMAIN t = 1 .. Len(t)
  <2>1. l \in Seq(Char)
    BY <1>1 DEF Str, Is
  <2>. QED  BY <2>1, ParseIs, TokenAt, LenProperties
<1>3. ASSUME NEW i \in DOMAIN t  PROVE \E m \in 1 .. L : Is(t[i], m)
  BY <1>1, <1>2, <1>3, TokenIs DEF Str
<1>4. Is(clientID, Len(clientID)) /\ Len(clientID) <= MaxData
  BY NameIs DEF Str
<1>5. Is(tab, Len(tab)) /\ Len(tab) <= MaxData
  <2>1. Is(tab, Len(tab)) /\ Len(tab) \in Nat /\ Len(tab) + 1 + L <= MaxData
    BY TabIs
  <2>. QED  BY <1>1, <2>1
<1>6. /\ "EXIT" \in Types \ {"LOGIN", "MESSAGE"} /\ "QUERY" \in Types \ {"LOGIN", "MESSAGE"}
      /\ "NEW_SESS" \in Types \ {"LOGIN", "MESSAGE"} /\ "JOIN" \in Types \ {"LOGIN", "MESSAGE"}
      /\ "LEAVE_SESS" \in Types \ {"LOGIN", "MESSAGE"} /\ "none" \in Types \ {"LOGIN", "MESSAGE"}
      /\ "LOGIN" \in Types /\ "LOGIN" # "MESSAGE"
  BY DEF Types
<1>7. CASE Len(t) = 5 /\ r = getLoginPacket(t[2], t[3])
  <2>1. 2 \in DOMAIN t /\ 3 \in DOMAIN t
    BY <1>2, <1>7
  <2>2. PICK m \in 1 .. L : Is(t[2], m)
    BY <1>3, <2>1
  <2>3. PICK n \in 1 .. L : Is(t[3], n)
    BY <1>3, <2>1
  <2>. PICK d : d = t[2] \o <<Comma>> \o t[3]
    OBVIOUS
  <2>4. Comma \in Char
    BY Zenon DEF Char, Comma
  <2>5. Is(d, m + 1 + n) /\ m + 1 + n <= MaxData
    <3>1. Pair(d, t[2], Comma, t[3])
      BY DEF Pair
    <3>2. Is(d, m + 1 + n)
      BY <2>2, <2>3, <2>4, <3>1, PairIs
    <3>. QED  BY <1>1, <3>2
  <2>6. r = NewPacket("LOGIN", t[2], d)
    BY <1>7, LoginPacketIs
  <2>7. IsPacket(r) /\ r.type = "LOGIN"
    BY <1>6, <2>2, <2>5, <2>6, NewIs
  <2>. QED  BY <1>6, <1>7, <2>7 DEF RequestOK
<1>8. CASE r = getLogoutPacket(clientID)
  <2>1. r = NewPacket("EXIT", clientID, <<>>) /\ Is(<<>>, 0) /\ 0 <= MaxData
    BY <1>1, <1>8, EmptyIs DEF getLogoutPacket
  <2>. QED  BY <1>4, <1>6, <2>1, OtherIs
<1>9. CASE Len(t) = 2 /\ r = getJoinSessionPacket(clientID, t[2])
  <2>1. PICK m \in 1 .. L : Is(t[2], m)
    BY <1>2, <1>3, <1>9
  <2>2. r = NewPacket("JOIN", clientID, t[2]) /\ m <= MaxData
    BY <1>1, <1>9 DEF getJoinSessionPacket
  <2>. QED  BY <1>4, <1>6, <2>1, <2>2, OtherIs
<1>10. CASE r = getLeaveSessionPacket(clientID, tab)
  <2>1. r = NewPacket("LEAVE_SESS", clientID, tab)
    BY <1>10 DEF getLeaveSessionPacket
  <2>. QED  BY <1>4, <1>5, <1>6, <2>1, OtherIs
<1>11. CASE Len(t) = 2 /\ r = getNewSessionPacket(clientID, t[2])
  <2>1. PICK m \in 1 .. L : Is(t[2], m)
    BY <1>2, <1>3, <1>11
  <2>2. r = NewPacket("NEW_SESS", clientID, t[2]) /\ m <= MaxData
    BY <1>1, <1>11 DEF getNewSessionPacket
  <2>. QED  BY <1>4, <1>6, <2>1, <2>2, OtherIs
<1>12. CASE r = getListPacket(clientID)
  <2>1. r = NewPacket("QUERY", clientID, clientID)
    BY <1>12 DEF getListPacket
  <2>. QED  BY <1>4, <1>6, <2>1, OtherIs
<1>13. CASE r = NoPacket
  <2>1. r = NewPacket("none", <<>>, <<>>) /\ Is(<<>>, 0) /\ 0 <= MaxData
    BY <1>1, <1>13, EmptyIs DEF NoPacket
  <2>. QED  BY <1>6, <2>1, OtherIs
<1>. QED  BY <1>7, <1>8, <1>9, <1>10, <1>11, <1>12, <1>13, RequestCases

(* The packet of a text.                                                   *)
LEMMA TextPacketIs ==
  ASSUME NEW n \in Names, NEW t \in Tabs, NEW l \in Lines, NEW r, r = getMessagePacket(n, t, l)
  PROVE  /\ IsPacket(r) /\ r.type = "MESSAGE"
         /\ \E d : /\ Pair(d, t, Semi, l) /\ Is(d, Len(t) + 1 + Len(l))
                   /\ Data(r) = d /\ r = NewPacket("MESSAGE", n, d)
<1>. PICK d : d = t \o <<Semi>> \o l
  OBVIOUS
<1>1. Is(t, Len(t)) /\ Len(t) + 1 + Len(l) <= MaxData
  BY TabIs
<1>2. Is(l, Len(l))
  BY LineIs DEF Str
<1>3. Is(n, Len(n))
  BY NameIs DEF Str
<1>4. Semi \in Char
  BY Zenon DEF Char, Semi
<1>5. Pair(d, t, Semi, l)
  BY DEF Pair
<1>6. Is(d, Len(t) + 1 + Len(l))
  BY <1>1, <1>2, <1>4, <1>5, PairIs
<1>7. r = NewPacket("MESSAGE", n, d)
  BY MessagePacketIs
<1>8. "MESSAGE" \in Types
  BY DEF Types
<1>9. IsPacket(r) /\ r.type = "MESSAGE" /\ Data(r) = d
  BY <1>1, <1>3, <1>6, <1>7, <1>8, NewIs
<1>. QED  BY <1>5, <1>6, <1>7, <1>9

-----------------------------------------------------------------------------
(* What is known of the request and the bytes received.                    *)

(* At first there is none of either.                                       *)
AtPrompt == stage = "prompt" => clientID \in Names /\ request = NoPacket /\ received = <<>>

(* A LOGIN has the tokens of the line.                                     *)
LoginRequest ==
  request.type = "LOGIN" => Len(tokens) = 5 /\ request = getLoginPacket(tokens[2], tokens[3])

(* A MESSAGE has the line, with what is in the tab, until a recv is cut.   *)
MessageRequest ==
  request.type = "MESSAGE" /\ (stage = "sent" \/ Whole) =>
    line \in Lines /\ clientID \in Names /\ request = getMessagePacket(clientID, tab, line)

(* What is received begins with all of the request, or is cut.             *)
ReceivedAll ==
  /\ stage = "sent" => received = <<>>
  /\ stage \notin {"prompt", "local", "sent", "overrun"} /\ Whole =>
       \E rest \in Following \cup {<<>>} : received = packetToByteArray(request) \o rest

(* What a plain source overruns.                                           *)
OverrunInv ==
  stage = "overrun" /\ PlainSource(request) => Len(received) - HeaderEnd(received) > MaxData

(* The inductive invariant.                                                *)
RequestInv ==
  tab \in Tabs /\ IsPacket(request) /\ AtPrompt /\ LoginRequest /\ MessageRequest /\ ReceivedAll

(* What may come behind a request is characters.                           *)
LEMMA FollowingIs ==
  ASSUME NEW rest \in Following \cup {<<>>}
  PROVE  Is(rest, Len(rest))
<1>1. STRING \subseteq Char
  BY Zenon DEF Char
<1>2. rest \in Following => rest \in Seq(STRING)
  BY WireAssumption
<1>3. rest \in Seq(Char)
  BY <1>1, <1>2, SeqMonotonic, EmptySeq
<1>. QED  BY <1>3, IsOne

(* All packets are sent as something.                                      *)
LEMMA SentAll ==
  ASSUME NEW p, IsPacket(p), NEW rest, NEW r, Is(rest, r)
  PROVE  \E n : /\ Sent(p, n, rest, r, packetToByteArray(p) \o rest)
                /\ StringLen(p.mem, MemLen, n) /\ n \in Nat
                /\ Is(packetToByteArray(p), n + 5 + p.size) /\ p.size \in Nat
<1>1. PICK n : StringLen(p.mem, MemLen, n)
  <2>1. Is(p.mem, MemLen)
    BY DEF IsPacket
  <2>. QED  BY <2>1, Rooms, EndsSomewhere DEF StringLen
<1>2. Is(CString(p.mem, 0), n)
  BY <1>1, CStringIs
<1>3. Is(Header(p), n + 5) /\ Is(Data(p), p.size)
  BY <1>2, HeaderIs, DataIs
<1>4. Is(packetToByteArray(p), (n + 5) + p.size)
  BY <1>3, JoinIs DEF packetToByteArray
<1>5. n \in Nat /\ p.size \in Nat
  BY <1>2, <1>3, IsAt
<1>. QED  BY <1>1, <1>4, <1>5 DEF Sent

(* All of the request is received.                                         *)
LEMMA ReceivedIs ==
  ASSUME RequestInv, stage \notin {"prompt", "local", "sent", "overrun"}, Whole
  PROVE  \E n, rest, r : Sent(request, n, rest, r, received) /\ received[1] = request.type
<1>1. PICK rest \in Following \cup {<<>>} : received = packetToByteArray(request) \o rest
  BY DEF RequestInv, ReceivedAll
<1>2. IsPacket(request) /\ Is(rest, Len(rest))
  BY FollowingIs DEF RequestInv
<1>3. PICK n : Sent(request, n, rest, Len(rest), received)
  BY <1>1, <1>2, SentAll
<1>4. received[1] = request.type
  BY <1>3, SentIs
<1>. QED  BY <1>3, <1>4

(* Then the server knows its type.                                         *)
LEMMA TypeIs ==
  ASSUME RequestInv, stage \notin {"prompt", "local", "sent", "overrun"}, Whole
  PROVE  bytesToPacket(received).type = request.type
<1>1. received[1] = request.type
  BY ReceivedIs
<1>2. \A b : bytesToPacket(b).type = b[1]
  BY DEF bytesToPacket, NewPacket
<1>. QED  BY <1>1, <1>2

(* It holds at first.                                                      *)
LEMMA RequestInvInit == Init => RequestInv
<1>. SUFFICES ASSUME Init  PROVE RequestInv
  OBVIOUS
<1>1. tab \in Tabs /\ AtPrompt /\ request = NoPacket /\ stage = "prompt"
  BY DEF Init, Tabs, AtPrompt
<1>2. IsPacket(request) /\ request.type = "none"
  BY <1>1, NoPacketIs
<1>3. ReceivedAll
  BY <1>1 DEF ReceivedAll
<1>. QED  BY <1>1, <1>2, <1>3 DEF RequestInv, LoginRequest, MessageRequest

(* A line is entered.                                                      *)
LEMMA EnterKeeps ==
  ASSUME RequestInv, NEW l \in Lines, Enter(l)
  PROVE  RequestInv'
<1>. PICK t : t = parseTokens(l, Blanks)
  OBVIOUS
<1>1. /\ stage = "prompt" /\ line' = l /\ tab' = tab /\ clientID' = clientID /\ received' = received
      /\ stage' \in {"local", "sent", "overrun"}
  <2>1. stage' = IF request' = NoPacket THEN "local"
                 ELSE IF HeaderOverrun(request') THEN "overrun" ELSE "sent"
    BY Zenon DEF Enter
  <2>2. stage' \in {"local", "sent", "overrun"}
    BY <2>1
  <2>. QED  BY <2>2, Zenon DEF Enter
<1>2. clientID \in Names /\ tab \in Tabs /\ received = <<>>
  BY <1>1 DEF RequestInv, AtPrompt
<1>3. AtPrompt' /\ ReceivedAll' /\ tab' \in Tabs
  BY <1>1, <1>2 DEF AtPrompt, ReceivedAll
<1>4. CASE IsCommand(l)
  <2>1. tokens' = t /\ request' = RequestOf(t)
    BY <1>4, Zenon DEF Enter, Blanks
  <2>2. RequestOK(request', tokens')
    BY <1>2, <2>1, RequestIs
  <2>3. LoginRequest' /\ MessageRequest' /\ IsPacket(request')
    BY <2>2 DEF RequestOK, LoginRequest, MessageRequest
  <2>. QED  BY <1>3, <2>3 DEF RequestInv
<1>5. CASE ~IsCommand(l)
  <2>1. request' = getMessagePacket(clientID, tab, l)
    BY <1>5, Zenon DEF Enter
  <2>2. IsPacket(request') /\ request'.type = "MESSAGE"
    BY <1>2, <2>1, TextPacketIs
  <2>3. LoginRequest' /\ MessageRequest'
    BY <1>1, <1>2, <2>1, <2>2 DEF LoginRequest, MessageRequest
  <2>. QED  BY <1>3, <2>2, <2>3 DEF RequestInv
<1>. QED  BY <1>4, <1>5

(* The server receives.                                                    *)
LEMMA ReceiveKeeps ==
  ASSUME RequestInv, Receive
  PROVE  RequestInv'
<1>. PICK b : b = packetToByteArray(request)
  OBVIOUS
<1>1. /\ stage = "sent" /\ stage' \in {"received", "overrun"}
      /\ UNCHANGED <<clientID, tab, line, tokens, request>>
      /\ \/ \E next \in Following : received' = b \o next
         \/ \E n \in HeaderEnd(b) .. Len(b) : received' = SubSeq(b, 1, n)
  BY DEF Receive
<1>2. tab' \in Tabs /\ IsPacket(request') /\ AtPrompt' /\ LoginRequest' /\ MessageRequest'
  BY <1>1 DEF RequestInv, AtPrompt, LoginRequest, MessageRequest
<1>3. PICK L : Is(b, L) /\ L \in Nat
  <2>1. IsPacket(request) /\ Is(<<>>, 0)
    BY EmptyIs DEF RequestInv
  <2>2. \E n : Is(b, n + 5 + request.size)
    BY <2>1, SentAll
  <2>. QED  BY <2>2, IsAt
<1>4. HeaderEnd(b) \in Nat
  <2>1. IsPacket(request) /\ Is(<<>>, 0)
    BY EmptyIs DEF RequestInv
  <2>2. PICK n : Sent(request, n, <<>>, 0, b \o <<>>) /\ n \in Nat
    BY <2>1, SentAll
  <2>3. b \o <<>> = b
    <3>1. b \in Seq(Char)
      BY <1>3 DEF Is
    <3>. QED  BY <3>1, ConcatEmptySeq
  <2>4. PICK m : Stops(CString(request.mem, 0), n, {Colon}, m)
    BY <2>2, EndsSomewhere
  <2>5. HeaderEnd(b) = m + 5
    BY <2>2, <2>3, <2>4, SentColon
  <2>6. m \in 0 .. n
    BY <2>4 DEF Stops
  <2>. QED  BY <2>2, <2>5, <2>6
<1>5. ASSUME Whole'  PROVE \E rest \in Following \cup {<<>>} : received' = b \o rest
  <2>1. CASE \E next \in Following : received' = b \o next
    BY <2>1
  <2>2. ASSUME NEW n \in HeaderEnd(b) .. Len(b), received' = SubSeq(b, 1, n)
        PROVE  received' = b \o <<>>
    <3>1. Len(b) = L /\ b \in Seq(Char)
      BY <1>3 DEF Is
    <3>2. n \in 0 .. L
      BY <1>3, <1>4, <2>2, <3>1
    <3>3. Is(received', n)
      BY <1>3, <2>2, <3>2, BeginIs
    <3>4. Len(received') = n /\ Len(received') >= Len(b)
      BY <1>1, <1>5, <3>3, IsAt DEF Whole
    <3>5. n = L
      BY <1>3, <3>1, <3>2, <3>4
    <3>6. received' = b
      BY <1>3, <2>2, <3>5, WholeIs
    <3>. QED  BY <3>1, <3>6, ConcatEmptySeq
  <2>. QED  BY <1>1, <2>1, <2>2
<1>6. ReceivedAll'
  BY <1>1, <1>5 DEF ReceivedAll
<1>. QED  BY <1>2, <1>6 DEF RequestInv

(* What the server and the listener do changes none of it.                 *)
LEMMA OthersKeep ==
  ASSUME RequestInv, UNCHANGED <<clientID, tab, line, tokens, request, received>>,
         stage' # "prompt", stage' = "sent" => stage = "sent",
         stage \in {"prompt", "local", "sent", "overrun"} => stage' = stage
  PROVE  RequestInv'
<1>1. Whole' <=> Whole
  BY DEF Whole
<1>2. tab' \in Tabs /\ IsPacket(request') /\ AtPrompt' /\ LoginRequest'
  BY DEF RequestInv, AtPrompt, LoginRequest
<1>3. MessageRequest'
  BY <1>1 DEF RequestInv, MessageRequest
<1>4. ReceivedAll'
  BY <1>1 DEF RequestInv, ReceivedAll
<1>. QED  BY <1>2, <1>3, <1>4 DEF RequestInv

(* Every action keeps it.                                                  *)
LEMMA RequestInvNext == RequestInv /\ [Next]_vars => RequestInv'
<1>. SUFFICES ASSUME RequestInv, [Next]_vars  PROVE RequestInv'
  OBVIOUS
<1>1. CASE \E l \in Lines : Enter(l)
  BY <1>1, EnterKeeps
<1>2. CASE Receive
  BY <1>2, ReceiveKeeps
<1>3. CASE Login
  <2>1. /\ stage = "received" /\ bytesToPacket(received).type = "LOGIN"
        /\ stage' \in {"fault", "refused", "login"}
        /\ UNCHANGED <<tab, line, tokens, request, received>>
    BY <1>3, Zenon DEF Login
  <2>2. Whole' <=> Whole
    BY <2>1 DEF Whole
  <2>3. tab' \in Tabs /\ IsPacket(request') /\ AtPrompt' /\ LoginRequest'
    BY <2>1 DEF RequestInv, AtPrompt, LoginRequest
  <2>4. ReceivedAll'
    BY <2>1, <2>2 DEF RequestInv, ReceivedAll
  <2>5. Whole => request.type = "LOGIN"
    BY <2>1, TypeIs
  <2>6. MessageRequest'
    BY <2>1, <2>2, <2>5 DEF MessageRequest
  <2>. QED  BY <2>3, <2>4, <2>6 DEF RequestInv
<1>4. CASE Message
  <2>1. /\ stage = "received" /\ stage' \in {"refused", "forward"}
        /\ UNCHANGED <<clientID, tab, line, tokens, request, received>>
    BY <1>4, Zenon DEF Message
  <2>. QED  BY <2>1, OthersKeep
<1>5. CASE Listen
  <2>1. /\ stage = "forward" /\ stage' = "shown"
        /\ UNCHANGED <<clientID, tab, line, tokens, request, received>>
    BY <1>5, Zenon DEF Listen
  <2>. QED  BY <2>1, OthersKeep
<1>6. CASE UNCHANGED vars
  BY <1>6 DEF vars, RequestInv, AtPrompt, LoginRequest, MessageRequest, ReceivedAll, Whole
<1>. QED  BY <1>1, <1>2, <1>3, <1>4, <1>5, <1>6 DEF Next

(* The header of a packet with a plain source fits its buffer.             *)
LEMMA HeaderFits ==
  ASSUME NEW p, IsPacket(p), PlainSource(p)
  PROVE  ~HeaderOverrun(p)
<1>. PICK c : c = CString(p.mem, 0)
  OBVIOUS
<1>1. Len(c) < MaxName
  BY Zenon DEF PlainSource
<1>2. PICK n : StringLen(p.mem, MemLen, n)
  <2>1. Is(p.mem, MemLen)
    BY DEF IsPacket
  <2>. QED  BY <2>1, Rooms, EndsSomewhere DEF StringLen
<1>3. Len(c) \in Nat
  BY <1>2, CStringIs, IsAt
<1>4. ~(Len(c) > HeaderRoom)
  BY <1>1, <1>3, TransportAssumption
<1>. QED  BY <1>4 DEF HeaderOverrun

(* A line is entered: no array is overrun.                                 *)
LEMMA EnterFits ==
  ASSUME RequestInv, NEW l \in Lines, Enter(l)
  PROVE  OverrunInv'
<1>1. stage' = IF request' = NoPacket THEN "local"
               ELSE IF HeaderOverrun(request') THEN "overrun" ELSE "sent"
  BY Zenon DEF Enter
<1>2. IsPacket(request')
  BY EnterKeeps DEF RequestInv
<1>3. PlainSource(request)' <=> PlainSource(request')
  BY DEF PlainSource
<1>. QED  BY <1>1, <1>2, <1>3, HeaderFits DEF OverrunInv

(* The server receives: what comes behind the header may overrun one.      *)
LEMMA ReceiveFits ==
  ASSUME RequestInv, Receive
  PROVE  OverrunInv'
<1>. SUFFICES ASSUME stage' = "overrun", PlainSource(request)'
              PROVE  Len(received') - HeaderEnd(received') > MaxData
  BY DEF OverrunInv
<1>. PICK b : b = packetToByteArray(request)
  OBVIOUS
<1>1. /\ request' = request
      /\ \/ \E next \in Following : received' = b \o next
         \/ \E n \in HeaderEnd(b) .. Len(b) : received' = SubSeq(b, 1, n)
      /\ stage' = IF Overrun(received') THEN "overrun" ELSE "received"
  BY Zenon DEF Receive
<1>2. PlainSource(request) /\ IsPacket(request)
  BY <1>1 DEF PlainSource, RequestInv
<1>3. Overrun(received')
  BY <1>1
<1>4. ASSUME NEW next \in Following \cup {<<>>}
      PROVE  \E L, e : ThirdColon(b \o next, L, e) /\ e - 5 < MaxName
  <2>1. PICK n : Sent(request, n, next, Len(next), b \o next) /\ n \in Nat
    BY <1>2, FollowingIs, SentAll
  <2>2. n < MaxName /\ \E L : ThirdColon(b \o next, L, n + 5)
    BY <1>2, <2>1, PlainColon
  <2>3. (n + 5) - 5 = n
    BY <2>1
  <2>. QED  BY <2>2, <2>3
<1>5. \E L, e : ThirdColon(received', L, e) /\ e - 5 < MaxName
  <2>1. CASE \E next \in Following : received' = b \o next
    BY <1>4, <2>1
  <2>2. ASSUME NEW m \in HeaderEnd(b) .. Len(b), received' = SubSeq(b, 1, m)
        PROVE  \E L, e : ThirdColon(received', L, e) /\ e - 5 < MaxName
    <3>1. PICK k : Is(b, k)
      <4>1. Is(<<>>, 0)
        BY EmptyIs
      <4>2. \E n : Is(b, n + 5 + request.size)
        BY <1>2, <4>1, SentAll
      <4>. QED  BY <4>2
    <3>2. b \o <<>> = b
      <4>1. b \in Seq(Char)
        BY <3>1 DEF Is
      <4>. QED  BY <4>1, ConcatEmptySeq
    <3>3. PICK L, e : ThirdColon(b, L, e) /\ e - 5 < MaxName
      BY <1>4, <3>2
    <3>4. HeaderEnd(b) = e
      BY <3>3, HeaderEndIs
    <3>5. Len(b) = L
      <4>1. Is(b, L)
        BY <3>3 DEF ThirdColon
      <4>. QED  BY <4>1, IsAt
    <3>6. m \in e .. L
      BY <2>2, <3>4, <3>5
    <3>. QED  BY <2>2, <3>3, <3>6, CutColon
  <2>. QED  BY <1>1, <2>1, <2>2
<1>. QED  BY <1>3, <1>5, OverrunBehind

(* No other step overruns an array.                                        *)
LEMMA OverrunInvNext == RequestInv /\ OverrunInv /\ [Next]_vars => OverrunInv'
<1>. SUFFICES ASSUME RequestInv, OverrunInv, [Next]_vars  PROVE OverrunInv'
  OBVIOUS
<1>1. CASE \E l \in Lines : Enter(l)
  BY <1>1, EnterFits
<1>2. CASE Receive
  BY <1>2, ReceiveFits
<1>3. CASE Login
  <2>1. stage' = "fault" \/ stage' = "refused" \/ stage' = "login"
    BY <1>3, Zenon DEF Login
  <2>. QED  BY <2>1 DEF OverrunInv
<1>4. CASE Message
  <2>1. stage' = "refused" \/ stage' = "forward"
    BY <1>4, Zenon DEF Message
  <2>. QED  BY <2>1 DEF OverrunInv
<1>5. CASE Listen
  <2>1. stage' = "shown"
    BY <1>5, Zenon DEF Listen
  <2>. QED  BY <2>1 DEF OverrunInv
<1>6. CASE UNCHANGED vars
  BY <1>6 DEF vars, OverrunInv, PlainSource
<1>. QED  BY <1>1, <1>2, <1>3, <1>4, <1>5, <1>6 DEF Next

(* They say that the packet fits and that it is decoded as it was built.   *)
LEMMA RequestInvArrives == RequestInv /\ OverrunInv => RequestArrives
<1>. SUFFICES ASSUME RequestInv, OverrunInv  PROVE RequestArrives
  OBVIOUS
<1>1. ASSUME request.size > 0
      PROVE  Len(packetToByteArray(request)) <= Capacity(request)
  BY <1>1, CapacitySuffices DEF RequestInv
<1>2. ASSUME stage = "received", Whole, PlainSource(request)
      PROVE  LET got == bytesToPacket(received)
             IN  /\ got.type = request.type
                 /\ Source(got) = Source(request) /\ Data(got) = Data(request)
  <2>1. PICK n, rest, r : Sent(request, n, rest, r, received)
    BY <1>2, ReceivedIs
  <2>. QED  BY <1>2, <2>1, Decodes
<1>. QED  BY <1>1, <1>2 DEF RequestArrives, OverrunInv

(* Every packet built from a line fits its buffer.  If no `:' and no blank *)
(* is in what is printed for the source, and that leaves room in its array,*)
(* then nothing is written beyond an array of the encoder or the decoder   *)
(* unless more than MAX_DATA bytes come behind the header in one recv, and *)
(* without that the server decodes what was built, whatever else is in the *)
(* recv.                                                                   *)
THEOREM RequestsArrive == Spec => []RequestArrives
<1>1. Init => OverrunInv
  BY DEF Init, OverrunInv
<1>. QED  BY <1>1, RequestInvInit, RequestInvNext, OverrunInvNext, RequestInvArrives, PTL
          DEF Spec

-----------------------------------------------------------------------------
(* A text is shown as it was typed.                                        *)

(* A source that is a string and fits is read back.                        *)
LEMMA SourceIs ==
  ASSUME NEW type, NEW source, NEW data, NEW m, NEW n, Str(source, m), m <= MaxName,
         Is(data, n), n <= MaxData, NEW p, p = NewPacket(type, source, data)
  PROVE  Source(p) = source
<1>. PICK s : s = SubSeq(p.mem, 1, MaxName)
  OBVIOUS
<1>1. Is(source, m) /\ m \in Nat /\ \A i \in 1 .. m : source[i] # NUL
  BY IsAt DEF Str
<1>2. Is(p.mem, MemLen) /\ \A i \in 1 .. MaxName : p.mem[i] = IF i <= m THEN source[i] ELSE NUL
  BY <1>1, NewPacketIs
<1>3. Is(s, MaxName) /\ \A i \in 1 .. MaxName : s[i] = p.mem[i]
  <2>1. MaxName \in 0 .. MemLen
    BY Rooms DEF MemLen
  <2>2. Is(s, MaxName) /\ Agree(s, p.mem, MaxName)
    BY <1>2, <2>1, BeginIs
  <2>. QED  BY <2>2 DEF Agree
<1>4. /\ m \in 0 .. MaxName /\ \A i \in 1 .. m : i \in 1 .. MaxName /\ i <= m
      /\ m # MaxName => m + 1 \in 1 .. MaxName /\ ~(m + 1 <= m)
  BY <1>1, Rooms
<1>5. \A i \in 1 .. m : s[i] = source[i]
  BY <1>2, <1>3, <1>4
<1>6. StringLen(s, MaxName, m)
  <2>1. m # MaxName => s[m+1] = NUL
    BY <1>2, <1>3, <1>4
  <2>. QED  BY <1>1, <1>3, <1>4, <1>5, <2>1 DEF Stops, StringLen
<1>7. Is(CString(s, 0), m) /\ \A i \in 1 .. m : CString(s, 0)[i] = s[i]
  BY <1>6, CStringIs DEF Agree
<1>8. Agree(CString(s, 0), source, m)
  BY <1>5, <1>7 DEF Agree
<1>9. CString(s, 0) = source
  BY <1>1, <1>7, <1>8, Same
<1>. QED  BY <1>9 DEF Source

(* Up to the delimiter of a pair.                                          *)
LEMMA FirstPart ==
  ASSUME NEW x, NEW m, NEW y, NEW n, Is(x, m), Is(y, n), NEW c \in Char, NEW z, Pair(z, x, c, y),
         NEW ends, c \in ends, \A i \in 1 .. m : x[i] \notin ends
  PROVE  UpTo(z, ends) = x
<1>1. /\ Is(z, m + 1 + n) /\ Agree(z, x, m) /\ z[m+1] = c /\ m \in Nat /\ n \in Nat
  BY PairIs
<1>2. m \in 0 .. m + 1 + n
  BY <1>1
<1>3. \A i \in 1 .. m : z[i] = x[i]
  BY <1>1 DEF Agree
<1>4. Stops(z, m + 1 + n, ends, m)
  BY <1>1, <1>2, <1>3 DEF Stops
<1>5. Is(UpTo(z, ends), m) /\ \A i \in 1 .. m : UpTo(z, ends)[i] = z[i]
  BY <1>1, <1>4, UpToStops DEF Agree
<1>6. Agree(UpTo(z, ends), x, m)
  BY <1>3, <1>5 DEF Agree
<1>. QED  BY <1>5, <1>6, Same

(* Behind it, without the last character.                                  *)
LEMMA LastPart ==
  ASSUME NEW x, NEW m, NEW y, NEW n, Is(x, m), Is(y, n), NEW c \in Char, NEW z, Pair(z, x, c, y)
  PROVE  SubSeq(z, m + 2, Len(z) - 1) = Front(y)
<1>1. /\ Is(z, m + 1 + n) /\ Behind(z, m + 1, y, n) /\ m \in Nat /\ n \in Nat
  BY PairIs
<1>2. Len(z) = m + 1 + n /\ Len(y) = n
  BY <1>1, IsAt
<1>. PICK k : k = n - 1
  OBVIOUS
<1>. PICK a : a = m + 1
  OBVIOUS
<1>. PICK s : s = SubSeq(z, a + 1, a + k)
  OBVIOUS
<1>. PICK t : t = SubSeq(y, 1, k)
  OBVIOUS
<1>3. a + 1 = m + 2 /\ a + k = (m + 1 + n) - 1 /\ a \in Nat
  BY <1>1
<1>4. CASE n = 0
  <2>1. /\ a + 1 \in Int /\ a + k \in Int /\ 1 \in Int /\ k \in Int
        /\ ~(a + 1 <= a + k) /\ ~(1 <= k)
        /\ (\A i \in a + 1 .. a + k : z[i] \in Char) /\ (\A i \in 1 .. k : y[i] \in Char)
    BY <1>1, <1>3, <1>4
  <2>2. s \in Seq(Char) /\ Len(s) = 0
    BY <2>1, SubSeqProperties
  <2>3. t \in Seq(Char) /\ Len(t) = 0
    BY <2>1, SubSeqProperties
  <2>. QED  BY <1>2, <1>3, <2>2, <2>3, EmptySeq DEF Front
<1>5. CASE n # 0
  <2>1. k \in Nat /\ a + k <= m + 1 + n /\ k \in 0 .. n /\ \A i \in 1 .. k : i \in 1 .. n
    BY <1>1, <1>3, <1>5
  <2>2. Piece(z, m + 1 + n, a, s, k)
    BY <1>1, <1>3, <2>1 DEF Piece
  <2>3. Is(s, k) /\ Behind(z, a, s, k)
    BY <2>2, PieceIs
  <2>4. Is(t, k) /\ Agree(t, y, k)
    BY <2>1, BeginIs
  <2>5. \A i \in 1 .. k : z[a+i] = y[i]
    BY <1>1, <2>1 DEF Behind
  <2>6. Agree(s, t, k)
    BY <2>3, <2>4, <2>5 DEF Agree, Behind
  <2>7. s = t
    BY <2>3, <2>4, <2>6, Same
  <2>. QED  BY <1>2, <1>3, <2>7 DEF Front
<1>. QED  BY <1>4, <1>5

(* A text that can be taken apart.                                         *)
PlainMessage ==
  /\ request.type = "MESSAGE" /\ Whole /\ PlainSource(request)
  /\ tab \in SessionNames /\ Semi \notin ToSet(tab)

(* What the server and the listener read.                                  *)
LEMMA PlainMessageIs ==
  ASSUME RequestInv, PlainMessage, stage \notin {"prompt", "local", "sent", "overrun"},
         NEW got, got = bytesToPacket(received)
  PROVE  /\ Source(got) = clientID /\ UpTo(Data(got), {Semi}) = tab
         /\ UpTo(Data(got), {Semi, NUL}) = tab /\ TextIn(Data(got)) = Front(line)
<1>1. /\ tab \in Tabs /\ line \in Lines /\ clientID \in Names
      /\ request = getMessagePacket(clientID, tab, line)
  BY DEF RequestInv, MessageRequest, PlainMessage
<1>2. PICK n, rest, r : Sent(request, n, rest, r, received)
  BY ReceivedIs DEF PlainMessage
<1>3. Source(got) = Source(request) /\ Data(got) = Data(request)
  BY <1>2, Decodes DEF PlainMessage
<1>. PICK T : T = Len(tab)
  OBVIOUS
<1>. PICK N : N = Len(line)
  OBVIOUS
<1>4. PICK d : /\ Pair(d, tab, Semi, line) /\ Is(d, T + 1 + N) /\ Data(request) = d
               /\ request = NewPacket("MESSAGE", clientID, d)
  BY <1>1, TextPacketIs
<1>5. Str(tab, T) /\ Is(tab, T) /\ T \in Nat
  <2>1. tab \in Seq(STRING \ {NUL})
    BY WireAssumption DEF PlainMessage
  <2>. QED  BY <2>1, StrIs DEF Str
<1>6. Is(line, N)
  BY <1>1, LineIs DEF Str
<1>7. Source(request) = clientID
  <2>1. Str(clientID, Len(clientID)) /\ Len(clientID) <= MaxName
    BY <1>1, NameIs
  <2>2. T + 1 + N <= MaxData
    BY <1>1, TabIs
  <2>. QED  BY <1>4, <2>1, <2>2, SourceIs
<1>8. \A i \in 1 .. T : tab[i] # Semi /\ tab[i] # NUL
  <2>1. \A i \in 1 .. T : tab[i] \in ToSet(tab)
    BY <1>5, IsAt DEF ToSet
  <2>. QED  BY <1>5, <2>1 DEF PlainMessage, Str
<1>9. Semi \in Char
  BY Zenon DEF Char, Semi
<1>10. UpTo(d, {Semi}) = tab
  BY <1>4, <1>5, <1>6, <1>8, <1>9, FirstPart
<1>11. UpTo(d, {Semi, NUL}) = tab
  BY <1>4, <1>5, <1>6, <1>8, <1>9, FirstPart
<1>12. TextIn(d) = Front(line)
  <2>1. TextIn(d) = SubSeq(d, T + 2, Len(d) - 1)
    BY <1>10, Zenon DEF TextIn, Semi
  <2>. QED  BY <1>4, <1>5, <1>6, <1>9, <2>1, LastPart
<1>. QED  BY <1>3, <1>4, <1>7, <1>10, <1>11, <1>12

(* Two tabs are known of a member the message is passed on to.             *)
TwoTabs == stage = "forward" => DOMAIN tabs = 1 .. 2

(* ShownAsTyped for a text that can be taken apart.                        *)
PlainShown ==
  PlainMessage =>
    /\ stage # "refused"
    /\ stage = "shown" =>
         /\ shown.source = clientID /\ shown.text = Front(line)
         /\ (\E j \in DOMAIN tabs : tabs[j] = tab) => shown.session = tab

(* What is invariant with RequestInv.                                      *)
ShownInv == TwoTabs /\ PlainShown

(* That is ShownAsTyped.                                                   *)
LEMMA PlainShownIs == PlainShown => ShownAsTyped
BY Zenon DEF PlainShown, PlainMessage, ShownAsTyped, Semi

(* It holds at first.                                                      *)
LEMMA ShownInvInit == Init => ShownInv
BY DEF Init, ShownInv, TwoTabs, PlainShown

(* While nothing changes that PlainMessage is about.                       *)
LEMMA PlainSame ==
  ASSUME UNCHANGED <<request, received, tab>>
  PROVE  PlainMessage' <=> PlainMessage
BY DEF PlainMessage, Whole, PlainSource

(* The server looks at a MESSAGE.                                          *)
LEMMA MessageKeeps ==
  ASSUME RequestInv, Message
  PROVE  ShownInv'
<1>. PICK got : got = bytesToPacket(received)
  OBVIOUS
<1>1. /\ stage = "received" /\ UNCHANGED <<request, received, tab>>
      /\ stage' = "refused" \/ stage' = "forward"
      /\ stage' = "refused" => Source(got) # clientID \/ SessionIn(Data(got)) \notin SessionNames
      /\ stage' = "forward" => \E own, other : tabs' = <<own, other>>
  BY Zenon DEF Message
<1>2. TwoTabs'
  BY <1>1 DEF TwoTabs
<1>3. ASSUME PlainMessage  PROVE stage' # "refused"
  <2>1. Source(got) = clientID /\ UpTo(Data(got), {Semi, NUL}) = tab
    BY <1>1, <1>3, PlainMessageIs
  <2>2. SessionIn(Data(got)) = UpTo(Data(got), {Semi, NUL})
    BY Zenon DEF SessionIn, Semi
  <2>. QED  BY <1>1, <1>3, <2>1, <2>2 DEF PlainMessage
<1>4. PlainShown'
  BY <1>1, <1>3, PlainSame DEF PlainShown
<1>. QED  BY <1>2, <1>4 DEF ShownInv

(* The listener of a member prints.                                        *)
LEMMA ListenKeeps ==
  ASSUME RequestInv, ShownInv, Listen
  PROVE  ShownInv'
<1>. PICK got : got = bytesToPacket(received)
  OBVIOUS
<1>. PICK session : session = UpTo(Data(got), {Semi})
  OBVIOUS
<1>. PICK M : M = {j \in DOMAIN tabs : tabs[j] = session}
  OBVIOUS
<1>. PICK k : k = IF M = {} THEN 1 ELSE Max(M)
  OBVIOUS
<1>1. /\ stage = "forward" /\ stage' = "shown"
      /\ UNCHANGED <<request, received, tab, tabs, clientID, line>>
  BY Zenon DEF Listen
<1>2. shown' = [tab |-> k, session |-> tabs[k], source |-> Source(got), text |-> TextIn(Data(got))]
  BY Zenon DEF Listen, Semi
<1>3. ASSUME PlainMessage
      PROVE  /\ shown'.source = clientID /\ shown'.text = Front(line)
             /\ (\E j \in DOMAIN tabs : tabs[j] = tab) => shown'.session = tab
  <2>1. Source(got) = clientID /\ session = tab /\ TextIn(Data(got)) = Front(line)
    BY <1>1, <1>3, PlainMessageIs
  <2>2. ASSUME NEW j \in DOMAIN tabs, tabs[j] = tab  PROVE tabs[k] = tab
    <3>1. M \in SUBSET (1 .. 2) /\ M # {}
      BY <1>1, <2>1, <2>2 DEF ShownInv, TwoTabs
    <3>2. Max(M) \in M
      BY <3>1, MaxOfSome
    <3>. QED  BY <2>1, <3>1, <3>2
  <2>3. shown'.source = Source(got) /\ shown'.text = TextIn(Data(got)) /\ shown'.session = tabs[k]
    BY <1>2
  <2>. QED  BY <2>1, <2>2, <2>3
<1>4. PlainShown'
  BY <1>1, <1>3, PlainSame DEF PlainShown
<1>5. TwoTabs'
  BY <1>1 DEF TwoTabs
<1>. QED  BY <1>4, <1>5 DEF ShownInv

(* Every action keeps it.                                                  *)
LEMMA ShownInvNext == RequestInv /\ ShownInv /\ [Next]_vars => ShownInv'
<1>. SUFFICES ASSUME RequestInv, ShownInv, [Next]_vars  PROVE ShownInv'
  OBVIOUS
<1>1. CASE stage' \in {"local", "sent", "received", "overrun", "fault", "login"}
  BY <1>1 DEF ShownInv, TwoTabs, PlainShown
<1>2. CASE \E l \in Lines : Enter(l)
  <2>1. \E l \in Lines : stage' = IF request' = NoPacket THEN "local"
                                  ELSE IF HeaderOverrun(request') THEN "overrun" ELSE "sent"
    BY <1>2, Zenon DEF Enter
  <2>. QED  BY <1>1, <2>1
<1>3. CASE Receive
  BY <1>1, <1>3 DEF Receive
<1>4. CASE Login
  <2>1. /\ stage = "received" /\ bytesToPacket(received).type = "LOGIN"
        /\ stage' = "fault" \/ stage' = "refused" \/ stage' = "login"
        /\ UNCHANGED <<request, received, tab>>
    BY <1>4, Zenon DEF Login
  <2>2. Whole => request.type = "LOGIN"
    BY <2>1, TypeIs
  <2>3. ~PlainMessage'
    <3>1. ~PlainMessage
      BY <2>2 DEF PlainMessage
    <3>. QED  BY <2>1, <3>1, PlainSame
  <2>. QED  BY <2>1, <2>3 DEF ShownInv, TwoTabs, PlainShown
<1>5. CASE Message
  BY <1>5, MessageKeeps
<1>6. CASE Listen
  BY <1>6, ListenKeeps
<1>7. CASE UNCHANGED vars
  <2>1. PlainMessage' <=> PlainMessage
    BY <1>7, PlainSame DEF vars
  <2>. QED  BY <1>7, <2>1 DEF vars, ShownInv, TwoTabs, PlainShown
<1>. QED  BY <1>2, <1>3, <1>4, <1>5, <1>6, <1>7 DEF Next

(* A member sees who wrote and what was typed in the tab of the session    *)
(* the sender had in front, for every text that ends in a newline, if      *)
(* neither name has a delimiter in it, the source leaves room in its array *)
(* and recv returned all of the request.                                   *)
THEOREM ShownCorrect == Spec => []ShownAsTyped
BY RequestInvInit, RequestInvNext, ShownInvInit, ShownInvNext, PlainShownIs, PTL
   DEF Spec, ShownInv

-----------------------------------------------------------------------------
(* A login.                                                                *)

(* Two strings with a delimiter between them are the two tokens.           *)
LEMMA PartsIs ==
  ASSUME NEW x, NEW m, NEW y, NEW n, Is(x, m), Is(y, n), m # 0, n # 0, NEW c \in Char,
         NEW z, Pair(z, x, c, y), \A i \in 1 .. m : x[i] # c, \A i \in 1 .. n : y[i] # c
  PROVE  parseTokens(z, {c}) = <<x, y>>
<1>. PICK L : L = m + 1 + n
  OBVIOUS
<1>. PICK q : q = strtok(z, {c})
  OBVIOUS
<1>1. /\ Is(z, L) /\ Agree(z, x, m) /\ z[m+1] = c /\ Behind(z, m + 1, y, n)
      /\ m \in Nat /\ n \in Nat
  BY PairIs
<1>2. z \in Seq(Char) /\ Len(z) = L /\ DOMAIN z = 1 .. L
  BY <1>1, IsAt DEF Is
<1>3. \A i \in 1 .. m : z[i] # c
  BY <1>1 DEF Agree
<1>4. \A i \in m + 2 .. L : z[i] # c
  <2>. SUFFICES ASSUME NEW i \in m + 2 .. L  PROVE z[i] # c
    OBVIOUS
  <2>1. i - (m + 1) \in 1 .. n /\ (m + 1) + (i - (m + 1)) = i
    BY <1>1
  <2>2. z[(m+1)+(i-(m+1))] = y[i-(m+1)]
    BY <1>1, <2>1 DEF Behind
  <2>. QED  BY <2>1, <2>2
<1>5. Starts(z, {c}) = {1, m + 2}
  <2>1. ASSUME NEW i \in Starts(z, {c})  PROVE i \in {1, m + 2}
    <3>1. i \in 1 .. L /\ z[i] # c /\ (i = 1 \/ z[i-1] = c)
      BY <1>2 DEF Starts
    <3>2. i # 1 => i - 1 = m + 1
      <4>1. i # 1 /\ i - 1 # m + 1 => i - 1 \in 1 .. m \/ i - 1 \in m + 2 .. L
        BY <1>1, <3>1
      <4>. QED  BY <1>3, <1>4, <3>1, <4>1
    <3>. QED  BY <1>1, <3>1, <3>2
  <2>2. 1 \in 1 .. L /\ z[1] # c
    BY <1>1, <1>3
  <2>3. m + 2 \in 1 .. L /\ z[m+2] # c /\ (m + 2) - 1 = m + 1
    BY <1>1, <1>4
  <2>4. 1 \in Starts(z, {c}) /\ m + 2 \in Starts(z, {c})
    BY <1>1, <1>2, <2>2, <2>3 DEF Starts
  <2>. QED  BY <2>1, <2>4
<1>6. Count(z, {c}, 1) = 1 /\ Count(z, {c}, m + 2) = 2 /\ Cardinality({1, m + 2}) = 2
  <2>1. {j \in {1, m + 2} : j <= 1} = {1}
    BY <1>1
  <2>2. {j \in {1, m + 2} : j <= m + 2} = {1} \cup {m + 2} /\ {1, m + 2} = {1} \cup {m + 2}
    BY <1>1
  <2>3. Cardinality({1}) = 1 /\ IsFiniteSet({1}) /\ m + 2 \notin {1}
    BY <1>1, FS_Singleton
  <2>4. Cardinality({1} \cup {m + 2}) = 2
    BY <2>3, FS_AddElement
  <2>. QED  BY <1>5, <2>1, <2>2, <2>3, <2>4 DEF Count
<1>7. /\ q \in Seq(Seq(Char)) /\ Len(q) = 2
      /\ q[1] = UpTo(SubSeq(z, 1, L), {c}) /\ q[2] = UpTo(SubSeq(z, m + 2, L), {c})
  <2>1. q \in Seq(Seq(Char)) /\ Len(q) = Count(z, {c}, L)
    BY <1>2, TokenAt
  <2>2. Count(z, {c}, L) = 2
    BY <1>2, <1>5, <1>6, CountNext
  <2>3. \A a \in {1, m + 2} : q[Count(z, {c}, a)] = UpTo(SubSeq(z, a, L), {c})
    BY <1>2, <1>5, TokenAt
  <2>. QED  BY <1>6, <2>1, <2>2, <2>3
<1>8. q[1] = x
  <2>1. SubSeq(z, 1, L) = z
    BY <1>1, WholeIs
  <2>2. c \in {c} /\ \A i \in 1 .. m : x[i] \notin {c}
    OBVIOUS
  <2>3. UpTo(z, {c}) = x
    BY <2>2, FirstPart
  <2>. QED  BY <1>7, <2>1, <2>3
<1>9. q[2] = y
  <2>. PICK s : s = SubSeq(z, m + 2, L)
    OBVIOUS
  <2>1. m + 1 \in Nat /\ (m + 1) + n <= L /\ (m + 1) + 1 = m + 2 /\ (m + 1) + n = L
    BY <1>1
  <2>2. Piece(z, L, m + 1, s, n)
    BY <1>1, <2>1 DEF Piece
  <2>3. Is(s, n) /\ Behind(z, m + 1, s, n)
    BY <2>2, PieceIs
  <2>4. Agree(s, y, n)
    BY <1>1, <2>3 DEF Agree, Behind
  <2>5. s = y
    BY <2>3, <2>4, Same
  <2>6. Stops(y, n, {c}, n)
    BY <1>1 DEF Stops
  <2>7. UpTo(y, {c}) = y
    BY <2>6, UpToStops, Same
  <2>. QED  BY <1>7, <2>5, <2>7
<1>10. q = <<x, y>>
  BY <1>7, <1>8, <1>9
<1>. QED  BY <1>2, <1>10, ParseIs

(* The string that LOGIN inserts, if the data begin with the first token.  *)
LEMMA ListedIs ==
  ASSUME NEW got, NEW d, d = CString(Data(got), 0), NEW L, Is(d, L), NEW x, NEW m, Is(x, m),
         m <= L, 1 <= m, Agree(d, x, m), x[1] # Comma, strtok(d, {Comma})[1] = x
  PROVE  ListedString(got) = x
<1>. DEFINE OK(i) == SubSeq(d, i + 1, i + Len(x)) = x /\ \A j \in 1 .. i : d[j] = Comma
            lead == CHOOSE i \in 0 .. Len(d) : OK(i)
<1>1. ListedString(got) = SubSeq(d, 1, lead) \o x
  BY Zenon DEF ListedString, Comma
<1>2. L \in Nat /\ m \in Nat /\ Len(d) = L /\ Len(x) = m /\ d \in Seq(Char) /\ x \in Seq(Char)
  BY IsAt DEF Is
<1>3. OK(0) /\ 0 \in 0 .. Len(d)
  <2>1. m \in 0 .. L
    BY <1>2
  <2>. PICK s : s = SubSeq(d, 1, m)
    OBVIOUS
  <2>2. Is(s, m) /\ Agree(s, d, m)
    BY <2>1, BeginIs
  <2>3. Agree(s, x, m)
    BY <2>2 DEF Agree
  <2>4. s = x
    BY <2>2, <2>3, Same
  <2>. QED  BY <1>2, <2>4
<1>4. lead \in 0 .. Len(d) /\ OK(lead)
  <2>. HIDE DEF OK
  <2>. QED  BY <1>3
<1>5. lead = 0
  <2>1. lead \in 0 .. L /\ \A j \in 1 .. lead : d[j] = Comma
    BY <1>2, <1>4
  <2>2. d[1] = x[1]
    BY <1>2 DEF Agree
  <2>. HIDE DEF lead
  <2>. SUFFICES ASSUME lead # 0  PROVE FALSE
    OBVIOUS
  <2>3. 1 \in 1 .. lead
    BY <1>2, <2>1
  <2>. QED  BY <2>1, <2>2, <2>3
<1>. HIDE DEF lead
<1>6. SubSeq(d, 1, 0) = <<>>
  <2>1. 0 \in 0 .. L
    BY <1>2
  <2>2. Is(SubSeq(d, 1, 0), 0)
    BY <2>1, BeginIs
  <2>. QED  BY <2>2, EmptySeq DEF Is
<1>. QED  BY <1>1, <1>2, <1>5, <1>6, ConcatEmptySeq

(* The file's delimiters.                                                  *)
HTab == "\t"
NewLine == "\n"

(* The user of the first line of the file has the password there.          *)
LEMMA FirstUser ==
  ASSUME NEW u, NEW w, PasswordFile # <<>>, parseTokens(PasswordFile[1], {HTab}) = <<u, w>>
  PROVE  u \in DOMAIN users /\ users[u] = Front(w)
<1>. DEFINE NameOf(l) == parseTokens(l, {HTab})[1]
            I == {i \in DOMAIN PasswordFile : NameOf(PasswordFile[i]) = u}
<1>1. users = [v \in {NameOf(l) : l \in ToSet(PasswordFile)} |->
                 PasswordIn(PasswordFile[Min({i \in DOMAIN PasswordFile :
                                                NameOf(PasswordFile[i]) = v})])]
  BY Zenon DEF users, HTab
<1>2. 1 \in DOMAIN PasswordFile /\ DOMAIN PasswordFile \subseteq Nat \ {0}
  <2>. PICK f : f = PasswordFile
    OBVIOUS
  <2>1. f \in Seq(Seq(STRING \ {NUL})) /\ f # <<>>
    BY WireAssumption
  <2>2. Len(f) \in Nat /\ DOMAIN f = 1 .. Len(f) /\ Len(f) # 0
    BY <2>1, LenProperties, EmptySeq
  <2>. QED  BY <2>2
<1>3. NameOf(PasswordFile[1]) = u
  BY SMT
<1>4. u \in {NameOf(l) : l \in ToSet(PasswordFile)}
  <2>1. PasswordFile[1] \in ToSet(PasswordFile)
    BY <1>2 DEF ToSet
  <2>. HIDE DEF NameOf
  <2>. QED  BY <1>3, <2>1
<1>5. 1 \in I /\ I \in SUBSET (Nat \ {0})
  <2>. HIDE DEF NameOf
  <2>. QED  BY <1>2, <1>3
<1>6. Min(I) = 1
  <2>. HIDE DEF I
  <2>1. I \in SUBSET Nat /\ I # {}
    BY <1>5
  <2>2. Min(I) \in I /\ \A y \in I : Min(I) <= y
    BY <2>1, MinOfNats
  <2>3. Min(I) <= 1 /\ Min(I) \in Nat \ {0}
    BY <1>5, <2>2
  <2>. QED  BY <2>3
<1>7. users[u] = PasswordIn(PasswordFile[1])
  <2>1. users[u] = PasswordIn(PasswordFile[Min(I)])
    <3>. HIDE DEF NameOf
    <3>. QED  BY <1>1, <1>4, Zenon
  <2>. QED  BY <1>6, <2>1
<1>8. PasswordIn(PasswordFile[1]) = Front(parseTokens(PasswordFile[1], {HTab})[2])
  BY Zenon DEF PasswordIn, HTab
<1>9. parseTokens(PasswordFile[1], {HTab})[2] = w
  BY SMT
<1>10. u \in DOMAIN users
  <2>. HIDE DEF NameOf
  <2>. QED  BY <1>1, <1>4, Zenon
<1>. QED  BY <1>7, <1>8, <1>9, <1>10

(* The characters with a meaning are different ones.                       *)
LEMMA Different ==
  /\ {Comma, HTab, NewLine} \subseteq Char
  /\ Comma # NUL /\ Comma # Colon /\ Comma \notin Blanks /\ HTab # NewLine /\ NewLine \in Blanks
BY Zenon DEF Char, Comma, HTab, NewLine, Colon, Blanks, NUL

(* What is known of a name and a password that can be taken apart.         *)
NameAndPassword(x, m, y, n) ==
  /\ Str(x, m) /\ Str(y, n) /\ 1 <= m /\ 1 <= n /\ m < MaxName /\ m + 1 + n <= MaxData
  /\ \A i \in 1 .. m : x[i] \notin Blanks \cup {Comma, Colon, HTab}
  /\ \A i \in 1 .. n : y[i] \notin Blanks \cup {Comma, Colon, HTab}

(* The packet of a login with them.                                        *)
LEMMA LoginIs ==
  ASSUME NEW x, NEW m, NEW y, NEW n, NameAndPassword(x, m, y, n), NEW p, p = getLoginPacket(x, y)
  PROVE  /\ \E d : /\ Pair(d, x, Comma, y) /\ Is(d, m + 1 + n) /\ Data(p) = d /\ CString(d, 0) = d
                   /\ Agree(d, x, m)
         /\ Source(p) = x /\ PlainSource(p)
<1>. PICK d : Pair(d, x, Comma, y)
  BY Zenon DEF Pair
<1>. PICK L : L = m + 1 + n
  OBVIOUS
<1>1. /\ Str(x, m) /\ Str(y, n) /\ Is(x, m) /\ Is(y, n) /\ m \in Nat /\ n \in Nat
      /\ m < MaxName /\ m <= MaxName /\ L <= MaxData /\ 1 <= m
  <2>1. /\ Str(x, m) /\ Str(y, n) /\ Is(x, m) /\ Is(y, n) /\ m \in Nat /\ n \in Nat
        /\ m < MaxName /\ L <= MaxData /\ 1 <= m
    BY IsAt DEF NameAndPassword, Str
  <2>. QED  BY <2>1, Rooms
<1>2. Comma \in Char
  BY Different
<1>3. Is(d, L) /\ Agree(d, x, m) /\ d[m+1] = Comma /\ Behind(d, m + 1, y, n)
  BY <1>1, <1>2, PairIs
<1>4. \A i \in 1 .. L : d[i] # NUL /\ d[i] # Colon /\ d[i] \notin Blanks
  <2>. SUFFICES ASSUME NEW i \in 1 .. L  PROVE d[i] # NUL /\ d[i] # Colon /\ d[i] \notin Blanks
    OBVIOUS
  <2>1. CASE i \in 1 .. m
    BY <1>1, <1>3, <2>1 DEF Agree, NameAndPassword, Str
  <2>2. CASE i = m + 1
    BY <1>3, <2>2, Different
  <2>3. CASE i \notin 1 .. m /\ i # m + 1
    <3>1. i - (m + 1) \in 1 .. n /\ (m + 1) + (i - (m + 1)) = i
      BY <1>1, <2>3
    <3>2. d[i] = y[i-(m+1)]
      <4>1. d[(m+1)+(i-(m+1))] = y[i-(m+1)]
        BY <1>3, <3>1 DEF Behind
      <4>. QED  BY <3>1, <4>1
    <3>. QED  BY <1>1, <3>1, <3>2 DEF NameAndPassword, Str
  <2>. QED  BY <2>1, <2>2, <2>3
<1>5. p = NewPacket("LOGIN", x, d)
  BY LoginPacketIs, Zenon DEF Pair
<1>6. Data(p) = d
  BY <1>1, <1>3, <1>5, NewData
<1>7. Source(p) = x
  BY <1>1, <1>3, <1>5, SourceIs
<1>8. CString(d, 0) = d
  <2>1. L \in Nat
    BY <1>1
  <2>2. StringLen(d, L, L)
    BY <1>3, <1>4, <2>1 DEF Stops, StringLen
  <2>3. Is(CString(d, 0), L) /\ Agree(CString(d, 0), d, L)
    BY <2>2, CStringIs
  <2>. QED  BY <1>3, <2>3, Same
<1>9. PlainSource(p)
  <2>1. /\ Is(p.mem, MemLen)
        /\ \A i \in 1 .. MaxName : p.mem[i] = IF i <= m THEN x[i] ELSE NUL
        /\ \A i \in 1 .. L : p.mem[MaxName+i] = d[i]
        /\ \A i \in MaxName + L + 1 .. MemLen : p.mem[i] = NUL
    BY <1>1, <1>3, <1>5, NewPacketIs
  <2>2. PICK k : StringLen(p.mem, MemLen, k)
    BY <2>1, Rooms, EndsSomewhere DEF StringLen
  <2>. PICK c : c = CString(p.mem, 0)
    OBVIOUS
  <2>3. Is(c, k) /\ \A i \in 1 .. k : c[i] = p.mem[i]
    <3>1. Is(c, k) /\ Agree(c, p.mem, k)
      BY <2>2, CStringIs
    <3>. QED  BY <3>1 DEF Agree
  <2>4. k \in 0 .. MemLen /\ (\A i \in 1 .. k : p.mem[i] # NUL) /\ (k = MemLen \/ p.mem[k+1] = NUL)
    BY <2>2 DEF StringLen, Stops
  <2>5. \A i \in 1 .. k : p.mem[i] # Colon /\ p.mem[i] \notin Blanks
    <3>. SUFFICES ASSUME NEW i \in 1 .. k  PROVE p.mem[i] # Colon /\ p.mem[i] \notin Blanks
      OBVIOUS
    <3>1. CASE i \in 1 .. MaxName
      <4>1. i <= m /\ p.mem[i] = x[i]
        BY <2>1, <2>4, <3>1
      <4>2. i \in 1 .. m
        BY <1>1, <3>1, <4>1
      <4>. QED  BY <4>1, <4>2 DEF NameAndPassword
    <3>2. CASE i \notin 1 .. MaxName
      <4>1. i \in MaxName + 1 .. MemLen
        BY <2>4, <3>2, Rooms
      <4>2. ~(i \in MaxName + L + 1 .. MemLen)
        BY <2>1, <2>4
      <4>3. i - MaxName \in 1 .. L /\ MaxName + (i - MaxName) = i
        BY <1>1, <4>1, <4>2, Rooms
      <4>4. p.mem[MaxName+(i-MaxName)] = d[i-MaxName]
        BY <2>1, <4>3
      <4>. QED  BY <1>4, <4>3, <4>4
    <3>. QED  BY <3>1, <3>2
  <2>6. k # 0
    <3>1. 1 \in 1 .. MaxName /\ 1 \in 1 .. m
      BY <1>1, Rooms
    <3>2. p.mem[1] # NUL
      BY <1>1, <2>1, <3>1 DEF Str
    <3>3. k = 0 => k # MemLen /\ k + 1 = 1
      BY Rooms DEF MemLen
    <3>. QED  BY <2>4, <3>2, <3>3
  <2>7. DOMAIN c = 1 .. k /\ c # <<>>
    <3>1. DOMAIN c = 1 .. k /\ c \in Seq(Char) /\ Len(c) = k
      BY <2>3, IsAt DEF Is
    <3>. QED  BY <2>6, <3>1, EmptySeq
  <2>8. Colon \notin ToSet(c) /\ \A b \in Blanks : b \notin ToSet(c)
    BY <2>3, <2>5, <2>7 DEF ToSet
  <2>9. Len(c) < MaxName
    <3>1. m + 1 \in 1 .. MaxName /\ ~(m + 1 <= m)
      BY <1>1, Rooms
    <3>2. p.mem[m+1] = NUL
      BY <2>1, <3>1
    <3>3. ~(m + 1 \in 1 .. k)
      BY <2>4, <3>2
    <3>4. k <= m
      BY <1>1, <2>4, <3>3, Rooms
    <3>5. Len(c) = k /\ k \in Nat
      BY <2>3, IsAt
    <3>. QED  BY <1>1, <3>4, <3>5, Rooms
  <2>. QED  BY <2>7, <2>8, <2>9, Zenon DEF PlainSource, Colon, Blanks
<1>. QED  BY <1>3, <1>6, <1>7, <1>8, <1>9

(* A login that can be taken apart.                                        *)
PlainLogin ==
  /\ request.type = "LOGIN" /\ Whole /\ Len(tokens[2]) < MaxName
  /\ \A i \in 2 .. 3 : {Comma, Colon, HTab} \cap ToSet(tokens[i]) = {}

(* Its user and password are the first line of the file.                   *)
InFile ==
  /\ PasswordFile # <<>>
  /\ tokens[2] \o <<HTab>> \o tokens[3] \o <<NewLine>> = PasswordFile[1]

(* LoginAgrees for such a login.                                           *)
PlainAgrees ==
  PlainLogin =>
    /\ stage = "login" => loginString = clientID /\ clientID = tokens[2]
    /\ InFile => stage \notin {"refused", "fault"}

(* That is LoginAgrees.                                                    *)
LEMMA PlainAgreesIs == PlainAgrees => LoginAgrees
BY Zenon DEF PlainAgrees, PlainLogin, InFile, LoginAgrees, Comma, Colon, HTab, NewLine

(* The name and the password typed.                                        *)
LEMMA PlainLoginIs ==
  ASSUME LineInv, RequestInv, PlainLogin
  PROVE  /\ request = getLoginPacket(tokens[2], tokens[3])
         /\ \E m, n : NameAndPassword(tokens[2], m, tokens[3], n)
<1>1. request = getLoginPacket(tokens[2], tokens[3]) /\ Len(tokens) = 5
  BY DEF RequestInv, LoginRequest, PlainLogin
<1>2. tokens # <<>>
  BY <1>1
<1>. PICK L : L = Len(line)
  OBVIOUS
<1>3. line \in Lines /\ tokens = parseTokens(line, Blanks)
  BY <1>2 DEF LineInv
<1>4. Str(line, L) /\ L \in Nat /\ 2 * L + 1 <= MaxData /\ MaxData \in Nat
  BY <1>3, LineIs, Rooms
<1>5. tokens = strtok(line, Blanks) /\ DOMAIN tokens = 1 .. Len(tokens)
  <2>1. line \in Seq(Char)
    BY <1>4 DEF Str, Is
  <2>. QED  BY <1>3, <2>1, ParseIs, TokenAt, LenProperties
<1>6. ASSUME NEW k \in 2 .. 3
      PROVE  \E m \in 1 .. L :
               /\ Str(tokens[k], m)
               /\ \A i \in 1 .. m : tokens[k][i] \notin Blanks \cup {Comma, Colon, HTab}
  <2>1. k \in DOMAIN tokens
    BY <1>1, <1>5
  <2>2. PICK m \in 1 .. L : /\ Str(tokens[k], m)
                            /\ \A i \in 1 .. m : tokens[k][i] \notin Blanks
    <3>1. k \in DOMAIN strtok(line, Blanks)
      BY <1>5, <2>1, Zenon
    <3>2. PICK m \in 1 .. L : /\ Str(strtok(line, Blanks)[k], m)
                              /\ \A i \in 1 .. m : strtok(line, Blanks)[k][i] \notin Blanks
      BY <1>4, <3>1, TokenIs
    <3>. QED  BY <1>5, <3>2, Zenon
  <2>3. \A i \in 1 .. m : tokens[k][i] \in ToSet(tokens[k])
    <3>1. DOMAIN tokens[k] = 1 .. m
      BY <2>2, IsAt DEF Str
    <3>. QED  BY <3>1 DEF ToSet
  <2>4. {Comma, Colon, HTab} \cap ToSet(tokens[k]) = {}
    BY DEF PlainLogin
  <2>. QED  BY <2>2, <2>3, <2>4
<1>7. PICK m \in 1 .. L : /\ Str(tokens[2], m)
                          /\ \A i \in 1 .. m : tokens[2][i] \notin Blanks \cup {Comma, Colon, HTab}
  BY <1>6
<1>8. PICK n \in 1 .. L : /\ Str(tokens[3], n)
                          /\ \A i \in 1 .. n : tokens[3][i] \notin Blanks \cup {Comma, Colon, HTab}
  BY <1>6
<1>9. m < MaxName
  <2>1. Len(tokens[2]) = m
    BY <1>7, IsAt DEF Str
  <2>. QED  BY <2>1 DEF PlainLogin
<1>10. 1 <= m /\ 1 <= n /\ m + 1 + n <= MaxData
  BY <1>4
<1>11. NameAndPassword(tokens[2], m, tokens[3], n)
  BY <1>7, <1>8, <1>9, <1>10 DEF NameAndPassword
<1>. QED  BY <1>1, <1>11

(* What the server reads of it.                                            *)
LEMMA LoginRead ==
  ASSUME LineInv, RequestInv, PlainLogin, stage \notin {"prompt", "local", "sent", "overrun"},
         NEW got, got = bytesToPacket(received)
  PROVE  /\ parseTokens(CString(Data(got), 0), {Comma}) = <<tokens[2], tokens[3]>>
         /\ Source(got) = tokens[2] /\ ListedString(got) = tokens[2]
<1>. PICK x : x = tokens[2]
  OBVIOUS
<1>. PICK y : y = tokens[3]
  OBVIOUS
<1>1. request = getLoginPacket(x, y) /\ \E m, n : NameAndPassword(x, m, y, n)
  BY PlainLoginIs
<1>2. PICK m, n : NameAndPassword(x, m, y, n)
  BY <1>1
<1>3. PICK d : /\ Pair(d, x, Comma, y) /\ Is(d, m + 1 + n) /\ Data(request) = d
               /\ CString(d, 0) = d /\ Agree(d, x, m)
  BY <1>1, <1>2, LoginIs
<1>4. Source(request) = x /\ PlainSource(request)
  BY <1>1, <1>2, LoginIs
<1>5. Source(got) = x /\ Data(got) = d
  <2>1. PICK k, rest, r : Sent(request, k, rest, r, received)
    BY ReceivedIs DEF PlainLogin
  <2>. QED  BY <1>3, <1>4, <2>1, Decodes
<1>6. /\ Is(x, m) /\ Is(y, n) /\ m \in Nat /\ n \in Nat /\ 1 <= m /\ 1 <= n
      /\ (\A i \in 1 .. m : x[i] # Comma) /\ (\A i \in 1 .. n : y[i] # Comma)
  BY <1>2, IsAt DEF NameAndPassword, Str
<1>7. parseTokens(d, {Comma}) = <<x, y>>
  <2>1. m # 0 /\ n # 0 /\ Comma \in Char
    BY <1>6, Different
  <2>. QED  BY <1>3, <1>6, <2>1, PartsIs
<1>8. strtok(d, {Comma}) = <<x, y>>
  <2>1. d \in Seq(Char)
    BY <1>3 DEF Is
  <2>. QED  BY <1>7, <2>1, ParseIs
<1>9. ListedString(got) = x
  <2>1. strtok(d, {Comma})[1] = x
    BY <1>8
  <2>2. m <= m + 1 + n /\ x[1] # Comma
    BY <1>6
  <2>3. d = CString(Data(got), 0)
    BY <1>3, <1>5
  <2>. QED  BY <1>3, <1>6, <2>1, <2>2, <2>3, ListedIs
<1>. QED  BY <1>3, <1>5, <1>7, <1>9

(* Who is in the file is known, with that password.                        *)
LEMMA InFileIs ==
  ASSUME LineInv, RequestInv, PlainLogin, InFile
  PROVE  tokens[2] \in DOMAIN users /\ users[tokens[2]] = tokens[3]
<1>. PICK x : x = tokens[2]
  OBVIOUS
<1>. PICK y : y = tokens[3]
  OBVIOUS
<1>1. PICK m, n : NameAndPassword(x, m, y, n)
  BY PlainLoginIs
<1>2. /\ Is(x, m) /\ Is(y, n) /\ m \in Nat /\ n \in Nat /\ 1 <= m /\ 1 <= n
      /\ (\A i \in 1 .. m : x[i] # HTab) /\ (\A i \in 1 .. n : y[i] # HTab)
  BY <1>1, IsAt DEF NameAndPassword, Str
<1>. PICK e : e = <<NewLine>>
  OBVIOUS
<1>. PICK ys : Joins(y, e, ys)
  BY DEF Joins
<1>. PICK z : z = PasswordFile[1]
  OBVIOUS
<1>3. PasswordFile # <<>> /\ z = ((x \o <<HTab>>) \o y) \o e
  BY Zenon DEF InFile
<1>4. Is(e, 1) /\ e[1] = NewLine
  BY Different DEF Is
<1>5. Is(ys, n + 1) /\ Agree(ys, y, n) /\ Behind(ys, n, e, 1)
  BY <1>2, <1>4, JoinIs DEF Joins
<1>6. Pair(z, x, HTab, ys)
  <2>. PICK xt : xt = x \o <<HTab>>
    OBVIOUS
  <2>1. Is(<<HTab>>, 1)
    BY Different DEF Is
  <2>2. Is(xt, m + 1)
    BY <1>2, <2>1, JoinIs
  <2>3. xt \in Seq(Char) /\ y \in Seq(Char) /\ e \in Seq(Char)
    BY <1>2, <1>4, <2>2 DEF Is
  <2>. PICK xy : xy = xt \o y
    OBVIOUS
  <2>4. Glued(Char, xt, y, e, xy, ys, z)
    BY <1>3, <2>3, Zenon DEF Glued, Joins
  <2>5. Joins(xt, ys, z)
    BY <2>4, Regrouped
  <2>6. z = xt \o ys
    BY <2>5, Zenon DEF Joins
  <2>. QED  BY <2>6, Zenon DEF Pair
<1>7. parseTokens(z, {HTab}) = <<x, ys>>
  <2>1. \A i \in 1 .. n + 1 : ys[i] # HTab
    <3>. SUFFICES ASSUME NEW i \in 1 .. n + 1  PROVE ys[i] # HTab
      OBVIOUS
    <3>1. CASE i \in 1 .. n
      BY <1>2, <1>5, <3>1 DEF Agree
    <3>2. CASE i \notin 1 .. n
      <4>1. i = n + 1 /\ 1 \in 1 .. 1
        BY <1>2, <3>2
      <4>2. ys[n+1] = NewLine
        BY <1>4, <1>5, <4>1 DEF Behind
      <4>. QED  BY <4>1, <4>2, Different
    <3>. QED  BY <3>1, <3>2
  <2>2. HTab \in Char /\ m # 0 /\ n + 1 # 0
    BY <1>2, Different
  <2>. QED  BY <1>2, <1>5, <1>6, <2>1, <2>2, PartsIs
<1>8. Front(ys) = y
  <2>1. Len(ys) = n + 1 /\ n \in 0 .. n + 1 /\ (n + 1) - 1 = n
    BY <1>2, <1>5, IsAt
  <2>. PICK f : f = SubSeq(ys, 1, n)
    OBVIOUS
  <2>2. Is(f, n) /\ Agree(f, ys, n)
    BY <1>5, <2>1, BeginIs
  <2>3. Agree(f, y, n)
    BY <1>5, <2>2 DEF Agree
  <2>4. f = y
    BY <1>2, <2>2, <2>3, Same
  <2>. QED  BY <2>1, <2>4 DEF Front
<1>9. x \in DOMAIN users /\ users[x] = Front(ys)
  BY <1>3, <1>7, FirstUser
<1>. QED  BY <1>8, <1>9

(* It holds at first.                                                      *)
LEMMA PlainAgreesInit == Init => PlainAgrees
BY DEF Init, PlainAgrees

(* While nothing changes that PlainLogin is about.                         *)
LEMMA PlainLoginSame ==
  ASSUME UNCHANGED <<request, received, tokens>>
  PROVE  (PlainLogin' <=> PlainLogin) /\ (InFile' <=> InFile)
BY DEF PlainLogin, InFile, Whole

(* The server looks at a LOGIN.                                            *)
LEMMA LoginKeeps ==
  ASSUME LineInv, RequestInv, Login
  PROVE  PlainAgrees'
<1>. PICK got : got = bytesToPacket(received)
  OBVIOUS
<1>. PICK parts : parts = parseTokens(CString(Data(got), 0), {Comma})
  OBVIOUS
<1>. PICK known : known = (parts # <<>> /\ parts[1] \in DOMAIN users)
  OBVIOUS
<1>1. stage = "received" /\ UNCHANGED <<request, received, tokens>>
  BY Zenon DEF Login
<1>2. \/ known /\ Len(parts) = 1 /\ stage' = "fault"
      \/ /\ ~known \/ (known /\ Len(parts) > 1 /\ parts[2] # users[parts[1]])
         /\ stage' = "refused"
      \/ stage' = "login" /\ clientID' = Source(got) /\ loginString' = ListedString(got)
  BY Zenon DEF Login, Comma
<1>3. ASSUME PlainLogin
      PROVE  /\ stage' = "login" => loginString' = clientID' /\ clientID' = tokens[2]
             /\ InFile => stage' \notin {"refused", "fault"}
  <2>1. parts = <<tokens[2], tokens[3]>> /\ Source(got) = tokens[2] /\ ListedString(got) = tokens[2]
    BY <1>1, <1>3, LoginRead
  <2>2. stage' = "login" => loginString' = clientID' /\ clientID' = tokens[2]
    BY <1>2, <2>1
  <2>3. InFile => stage' \notin {"refused", "fault"}
    <3>. SUFFICES ASSUME InFile  PROVE stage' \notin {"refused", "fault"}
      OBVIOUS
    <3>1. tokens[2] \in DOMAIN users /\ users[tokens[2]] = tokens[3]
      BY <1>3, InFileIs
    <3>2. parts # <<>> /\ Len(parts) = 2 /\ parts[1] = tokens[2] /\ parts[2] = tokens[3]
      BY <2>1
    <3>3. known /\ parts[2] = users[parts[1]]
      BY <3>1, <3>2
    <3>. QED  BY <1>2, <3>2, <3>3
  <2>. QED  BY <2>2, <2>3
<1>. QED  BY <1>1, <1>3, PlainLoginSame DEF PlainAgrees

(* Every action keeps it.                                                  *)
LEMMA PlainAgreesNext == LineInv /\ RequestInv /\ PlainAgrees /\ [Next]_vars => PlainAgrees'
<1>. SUFFICES ASSUME LineInv, RequestInv, PlainAgrees, [Next]_vars  PROVE PlainAgrees'
  OBVIOUS
<1>1. CASE stage' \in {"local", "sent", "received", "overrun", "forward", "shown"}
  BY <1>1 DEF PlainAgrees
<1>2. CASE \E l \in Lines : Enter(l)
  <2>1. \E l \in Lines : stage' = IF request' = NoPacket THEN "local"
                                  ELSE IF HeaderOverrun(request') THEN "overrun" ELSE "sent"
    BY <1>2, Zenon DEF Enter
  <2>. QED  BY <1>1, <2>1
<1>3. CASE Receive
  BY <1>1, <1>3 DEF Receive
<1>4. CASE Login
  BY <1>4, LoginKeeps
<1>5. CASE Message
  <2>1. /\ stage = "received" /\ bytesToPacket(received).type = "MESSAGE"
        /\ UNCHANGED <<request, received, tokens>>
    BY <1>5, Zenon DEF Message
  <2>2. Whole => request.type = "MESSAGE"
    BY <2>1, TypeIs
  <2>3. ~PlainLogin'
    <3>1. ~PlainLogin
      BY <2>2 DEF PlainLogin
    <3>. QED  BY <2>1, <3>1, PlainLoginSame
  <2>. QED  BY <2>3 DEF PlainAgrees
<1>6. CASE Listen
  BY <1>1, <1>6, Zenon DEF Listen
<1>7. CASE UNCHANGED vars
  <2>1. (PlainLogin' <=> PlainLogin) /\ (InFile' <=> InFile)
    BY <1>7, PlainLoginSame DEF vars
  <2>. QED  BY <1>7, <2>1 DEF vars, PlainAgrees
<1>. QED  BY <1>2, <1>3, <1>4, <1>5, <1>6, <1>7 DEF Next

(* The string that marks a user as logged in is the clientID of the        *)
(* connection, and who types the password of the file's first line gets    *)
(* in, for every file and every name and password without delimiters, the  *)
(* name shorter than MAX_NAME, unless the recv overran an array.           *)
THEOREM LoginsAgree == Spec => []LoginAgrees
BY LineInvInit, LineInvNext, RequestInvInit, RequestInvNext, PlainAgreesInit, PlainAgreesNext,
   PlainAgreesIs, PTL DEF Spec
=============================================================================
