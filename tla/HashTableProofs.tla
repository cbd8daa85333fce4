-------------------------- MODULE HashTableProofs ---------------------------
(***************************************************************************)
(* Theorems about HashTable, for any keys, buckets and entries.            *)
(***************************************************************************)
EXTENDS HashTable, ListFacts

(* A walk over linked entries meets them in order.  `at' is the recursive  *)
(* function of Walk: `met' satisfies its equation, so it does too, and it  *)
(* is `met': they do not differ at a least place.                          *)
LEMMA WalkLinked ==
  ASSUME NEW q \in Seq(Entry), Once(q, Entry), NEW first, NEW link, Linked(q, first, link, NULL)
  PROVE  Walk(first, link) = q
<1>. DEFINE Step(e) == IF e = NULL THEN NULL ELSE link[e]
            at == CHOOSE g : g = [i \in Nat |-> IF i = 0 THEN first
                                 ELSE LET e == g[i-1] IN IF e = NULL THEN NULL ELSE link[e]]
            length == Cardinality({i \in 0 .. Cardinality(Entry) : at[i] # NULL})
            met == [i \in Nat |-> IF i < Len(q) THEN q[i+1] ELSE NULL]
<1>1. Walk(first, link) = [i \in 1 .. length |-> at[i-1]]
  BY DEF Walk
<1>2. Len(q) \in Nat /\ DOMAIN q = 1 .. Len(q) /\ \A i \in 1 .. Len(q) : q[i] \in Entry /\ q[i] # NULL
  BY LenProperties, ElementOfSeq, HashAssumption
<1>3. \A i \in Nat : met[i] = IF i < Len(q) THEN q[i+1] ELSE NULL
  OBVIOUS
<1>. HIDE DEF met, at, length
<1>4. Len(q) \in Nat
  BY <1>2
<1>5. met[0] = first
  <2>1. 0 < Len(q) <=> Len(q) # 0
    BY <1>2
  <2>. QED  BY <1>3, <2>1 DEF Linked
<1>6. ASSUME NEW i \in Nat, i # 0  PROVE met[i] = Step(met[i-1])
  <2>0. i # 0
    BY <1>6
  <2>1. CASE i < Len(q)
    <3>1. i \in 1 .. Len(q) /\ i # Len(q) /\ i - 1 \in Nat /\ i - 1 < Len(q) /\ (i-1) + 1 = i
      BY <1>4, <2>0, <2>1
    <3>2. met[i-1] = q[i] /\ met[i] = q[i+1]
      BY <1>3, <2>1, <3>1
    <3>3. link[q[i]] = q[i+1]
      BY <3>1 DEF Linked
    <3>. QED  BY <1>2, <3>1, <3>2, <3>3
  <2>2. CASE i = Len(q)
    <3>1. i \in 1 .. Len(q) /\ i - 1 \in Nat /\ i - 1 < Len(q) /\ (i-1) + 1 = i /\ ~(i < Len(q))
      BY <1>4, <2>0, <2>2
    <3>2. met[i-1] = q[i] /\ met[i] = NULL
      BY <1>3, <3>1
    <3>3. link[q[i]] = NULL
      BY <2>2, <3>1 DEF Linked
    <3>. QED  BY <1>2, <3>1, <3>2, <3>3
  <2>3. CASE i > Len(q)
    <3>1. i - 1 \in Nat /\ ~(i - 1 < Len(q)) /\ ~(i < Len(q))
      BY <1>4, <2>0, <2>3
    <3>. QED  BY <1>3, <3>1
  <2>. QED  BY <1>4, <2>1, <2>2, <2>3
<1>7. met = [i \in Nat |-> IF i = 0 THEN first
             ELSE LET e == met[i-1] IN IF e = NULL THEN NULL ELSE link[e]]
  <2>. DEFINE rhs == [i \in Nat |-> IF i = 0 THEN first ELSE Step(met[i-1])]
  <2>1. \A i \in Nat : met[i] = rhs[i]
    <3>. HIDE DEF Step
    <3>. QED  BY <1>5, <1>6
  <2>2. met = [i \in Nat |-> met[i]]
    BY DEF met
  <2>3. rhs = [i \in Nat |-> rhs[i]]
    OBVIOUS
  <2>. HIDE DEF rhs
  <2>4. met = rhs
    BY <2>1, <2>2, <2>3
  <2>. QED  BY <2>4 DEF rhs
<1>8. at = [i \in Nat |-> IF i = 0 THEN first
            ELSE LET e == at[i-1] IN IF e = NULL THEN NULL ELSE link[e]]
  BY <1>7 DEF at
<1>9. at[0] = first /\ \A i \in Nat : i # 0 => at[i] = Step(at[i-1])
  BY <1>8
<1>10. \A i \in Nat : at[i] = met[i]
  <2>. DEFINE Differ == {i \in Nat : at[i] # met[i]}
  <2>. SUFFICES ASSUME Differ # {}  PROVE FALSE
    OBVIOUS
  <2>. HIDE DEF Step
  <2>. DEFINE i == Min(Differ)
  <2>1. i \in Differ /\ \A j \in Differ : i <= j
    <3>1. Differ \in SUBSET Nat
      OBVIOUS
    <3>. HIDE DEF Differ
    <3>. QED  BY <3>1, MinOfNats
  <2>. HIDE DEF i
  <2>2. i \in Nat /\ i # 0
    BY <1>5, <1>9, <2>1
  <2>3. i - 1 \in Nat /\ i - 1 \notin Differ
    BY <2>1, <2>2
  <2>. QED  BY <1>6, <1>9, <2>1, <2>2, <2>3
<1>11. length = Len(q)
  <2>1. Cardinality(Entry) \in Nat /\ Len(q) <= Cardinality(Entry)
    BY OnceLength, FS_CardinalityType, HashAssumption
  <2>2. {i \in 0 .. Cardinality(Entry) : at[i] # NULL} = 0 .. Len(q) - 1
    <3>1. \A i \in Nat : at[i] # NULL <=> i < Len(q)
      BY <1>3, <1>2, <1>10
    <3>. QED  BY <1>2, <2>1, <3>1
  <2>3. Cardinality(0 .. Len(q) - 1) = Len(q)
    <3>1. ASSUME NEW n \in Nat  PROVE Cardinality(0 .. n - 1) = n
      <4>1. Cardinality(0 .. n - 1) = IF 0 > n - 1 THEN 0 ELSE (n - 1) - 0 + 1
        BY FS_Interval
      <4>. QED  BY <4>1
    <3>. QED  BY <1>2, <3>1
  <2>. QED  BY <2>2, <2>3 DEF length
<1>12. \A i \in 1 .. Len(q) : at[i-1] = q[i]
  <2>1. \A i \in 1 .. Len(q) : i - 1 \in Nat /\ i - 1 < Len(q) /\ (i-1) + 1 = i
    BY <1>2
  <2>. QED  BY <1>3, <1>10, <2>1
<1>13. q = [i \in 1 .. Len(q) |-> q[i]]
  BY <1>2
<1>. QED  BY <1>1, <1>11, <1>12, <1>13

-----------------------------------------------------------------------------
(* The entries that are not freed are linked both ways.                    *)
ListInv ==
  /\ List \in Seq(Entry) /\ Once(List, Entry) /\ ToSet(List) = live
  /\ Linked(List, head, next, NULL) /\ Backed(List, tail, prev, NULL)

(* q is the chain of bucket b when its pointers are t and link: every entry*)
(* in it has a key of the bucket, and a bucket_prev that nobody has written.*)
Chained(q, b, t, link, back, keys, alive) ==
  /\ q \in Seq(Entry) /\ Once(q, Entry) /\ Linked(q, t, link, NULL)
  /\ \A i \in 1 .. Len(q) :
       q[i] \in alive /\ keys[q[i]] \in Key /\ BucketOf[keys[q[i]]] = b /\ back[q[i]] = NULL

ChainsInv ==
  \A b \in Bucket : Chained(Chain(b), b, table[b], bucket_next, bucket_prev, key, live)

Typed ==
  /\ live \subseteq Entry /\ elements \in Nat
  /\ table \in [Bucket -> Entry \cup {NULL}]
  /\ key \in [Entry -> Key \cup {NULL}]
  /\ next \in [Entry -> Entry \cup {NULL}] /\ prev \in [Entry -> Entry \cup {NULL}]
  /\ bucket_next \in [Entry -> Entry \cup {NULL}]
  /\ bucket_prev \in [Entry -> Entry \cup {NULL}]

TableInv == Typed /\ ListInv /\ ChainsInv

(* A walk from NULL meets nothing.                                         *)
LEMMA EmptyWalk ==
  ASSUME NEW link
  PROVE  /\ Walk(NULL, link) = <<>> /\ <<>> \in Seq(Entry) /\ Once(<<>>, Entry) /\ Len(<<>>) = 0
         /\ Linked(<<>>, NULL, link, NULL) /\ Backed(<<>>, NULL, link, NULL)
<1>1. <<>> \in Seq(Entry) /\ Len(<<>>) = 0 /\ DOMAIN <<>> = 1 .. 0
  BY EmptySeq, LenProperties
<1>2. Once(<<>>, Entry) /\ Linked(<<>>, NULL, link, NULL) /\ Backed(<<>>, NULL, link, NULL)
  BY <1>1 DEF Once, Linked, Backed
<1>. QED  BY <1>1, <1>2, WalkLinked

(* ht_init makes an empty list and empty chains.                           *)
LEMMA TableInit == ht_init => TableInv
<1>. SUFFICES ASSUME ht_init  PROVE TableInv
  OBVIOUS
<1>1. Typed
  BY DEF ht_init, Typed
<1>2. ListInv
  <2>1. List = <<>>
    BY EmptyWalk DEF ht_init, List
  <2>2. ToSet(<<>>) = {}
    BY EmptySeq DEF ToSet
  <2>. QED  BY <2>1, <2>2, EmptyWalk DEF ht_init, ListInv
<1>3. ASSUME NEW b \in Bucket
      PROVE  Chained(Chain(b), b, table[b], bucket_next, bucket_prev, key, live)
  <2>1. table[b] = NULL
    BY DEF ht_init
  <2>2. Chain(b) = <<>>
    BY <2>1, EmptyWalk DEF Chain
  <2>. QED  BY <2>1, <2>2, EmptyWalk DEF Chained
<1>. QED  BY <1>1, <1>2, <1>3 DEF TableInv, ChainsInv

(* ht_insert appends to the list.                                          *)
LEMMA LinkList ==
  ASSUME TableInv, NEW e \in Entry \ live, Link(e), live' = live \cup {e}
  PROVE  ListInv' /\ List' = Append(List, e)
<1>. DEFINE q == List
            r == Append(q, e)
<1>1. /\ q \in Seq(Entry) /\ Once(q, Entry) /\ ToSet(q) = live /\ Len(q) \in Nat
      /\ Linked(q, head, next, NULL) /\ Backed(q, tail, prev, NULL)
  BY LenProperties DEF TableInv, ListInv
<1>. HIDE DEF q
<1>2. /\ \A i \in 1 .. Len(q) : q[i] \in Entry /\ q[i] # NULL /\ q[i] # e
      /\ \A i, j \in 1 .. Len(q) : q[i] = q[j] => i = j
      /\ \A x \in live : \E i \in 1 .. Len(q) : q[i] = x
  BY <1>1, LenProperties, ElementOfSeq, HashAssumption DEF ToSet, Once
<1>3. /\ next \in [Entry -> Entry \cup {NULL}] /\ prev \in [Entry -> Entry \cup {NULL}]
  BY DEF TableInv, Typed
<1>4. r \in Seq(Entry) /\ Once(r, Entry) /\ ToSet(r) = live'
  BY <1>1, AppendElements, AppendOnce
<1>5. head = NULL <=> Len(q) = 0
  <2>1. Len(q) # 0 => 1 \in 1 .. Len(q)
    BY <1>1
  <2>. QED  BY <1>1, <1>2, <2>1 DEF Linked
<1>6. head' = (IF Len(q) = 0 THEN e ELSE head) /\ tail' = e
  BY <1>5 DEF Link
<1>7. Len(q) # 0 => tail = q[Len(q)] /\ Len(q) \in 1 .. Len(q)
  BY <1>1 DEF Backed
<1>8. Len(q) = 0 => tail = NULL
  BY <1>1 DEF Backed
<1>9. /\ \A i \in 1 .. Len(q) : next'[q[i]] = IF i = Len(q) THEN e ELSE next[q[i]]
      /\ next'[e] = NULL
  <2>1. CASE Len(q) = 0
    BY <1>1, <1>3, <1>5, <2>1 DEF Link
  <2>2. CASE Len(q) # 0
    <3>1. next' = [next EXCEPT ![e] = NULL, ![tail] = e]
      BY <1>5, <2>2 DEF Link
    <3>2. tail \in Entry /\ tail # e
      BY <1>2, <1>7, <2>2
    <3>3. next'[tail] = e /\ next'[e] = NULL /\ \A x \in Entry : x # e /\ x # tail => next'[x] = next[x]
      BY <1>3, <3>1, <3>2
    <3>. QED  BY <1>2, <1>7, <2>2, <3>3
  <2>. QED  BY <2>1, <2>2
<1>10. /\ \A i \in 1 .. Len(q) : prev'[q[i]] = prev[q[i]]
       /\ prev'[e] = tail
  <2>1. prev' = [prev EXCEPT ![e] = tail]
    BY <1>5, <1>8 DEF Link
  <2>. QED  BY <1>2, <1>3, <2>1
<1>11. Linked(r, head', next', NULL)
  BY <1>1, <1>6, <1>9, AppendLinked
<1>12. Backed(r, tail', prev', NULL)
  BY <1>1, <1>6, <1>10, AppendBacked
<1>13. Walk(head', next') = r
  BY <1>4, <1>11, WalkLinked
<1>14. List' = r
  BY <1>13 DEF List
<1>. QED  BY <1>4, <1>11, <1>12, <1>14 DEF ListInv, q

(* It appends to the chain of its bucket, and leaves the others alone: no  *)
(* entry is in two chains.                                                 *)
LEMMA EnterChains ==
  ASSUME TableInv, NEW k \in Key, NEW e \in Entry \ live,
         NewEntry(e, k), EnterBucket(e, BucketOf[k])
  PROVE  /\ ChainsInv' /\ Chain(BucketOf[k])' = Append(Chain(BucketOf[k]), e)
         /\ \A c \in Bucket \ {BucketOf[k]} : Chain(c)' = Chain(c)
<1>. DEFINE b == BucketOf[k]
            q == Chain(b)
            r == Append(q, e)
<1>0. b \in Bucket /\ k # NULL
  BY HashAssumption DEF Bucket
<1>1. /\ table \in [Bucket -> Entry \cup {NULL}]
      /\ key \in [Entry -> Key \cup {NULL}]
      /\ bucket_next \in [Entry -> Entry \cup {NULL}]
      /\ bucket_prev \in [Entry -> Entry \cup {NULL}]
  BY DEF TableInv, Typed
<1>2. /\ live' = live \cup {e}
      /\ key'[e] = k /\ \A x \in Entry : x # e => key'[x] = key[x]
      /\ bucket_prev'[e] = NULL /\ \A x \in Entry : x # e => bucket_prev'[x] = bucket_prev[x]
  BY <1>1 DEF NewEntry
<1>3. ASSUME NEW c \in Bucket
      PROVE  /\ Chain(c) \in Seq(Entry) /\ Once(Chain(c), Entry) /\ Len(Chain(c)) \in Nat
             /\ Linked(Chain(c), table[c], bucket_next, NULL)
             /\ \A i \in 1 .. Len(Chain(c)) :
                  /\ Chain(c)[i] \in Entry /\ Chain(c)[i] # NULL /\ Chain(c)[i] # e
                  /\ Chain(c)[i] \in live
                  /\ key[Chain(c)[i]] \in Key /\ BucketOf[key[Chain(c)[i]]] = c
                  /\ bucket_prev[Chain(c)[i]] = NULL
             /\ \A i, j \in 1 .. Len(Chain(c)) : Chain(c)[i] = Chain(c)[j] => i = j
  <2>. DEFINE p == Chain(c)
  <2>1. Chained(p, c, table[c], bucket_next, bucket_prev, key, live)
    BY DEF TableInv, ChainsInv
  <2>. HIDE DEF p
  <2>2. p \in Seq(Entry) /\ Once(p, Entry) /\ Len(p) \in Nat /\ DOMAIN p = 1 .. Len(p)
    BY <2>1, LenProperties DEF Chained
  <2>3. \A i \in 1 .. Len(p) : p[i] \in Entry
    BY <2>2, ElementOfSeq
  <2>. QED  BY <2>1, <2>2, <2>3, HashAssumption DEF Chained, Once, p
<1>4. table[b] = NULL <=> Len(q) = 0
  <2>1. Len(q) # 0 => 1 \in 1 .. Len(q)
    BY <1>0, <1>3
  <2>. QED  BY <1>0, <1>3, <2>1 DEF Linked
<1>5. /\ table'[b] = (IF Len(q) = 0 THEN e ELSE table[b])
      /\ \A c \in Bucket : c # b => table'[c] = table[c]
  BY <1>0, <1>1, <1>4 DEF EnterBucket
<1>6. /\ bucket_next'[e] = NULL
      /\ Len(q) # 0 => bucket_next'[q[Len(q)]] = e
      /\ \A x \in Entry : x # e /\ (Len(q) # 0 => x # q[Len(q)]) => bucket_next'[x] = bucket_next[x]
  <2>1. CASE Len(q) = 0
    BY <1>1, <1>4, <2>1 DEF EnterBucket
  <2>2. CASE Len(q) # 0
    <3>1. bucket_next' = [bucket_next EXCEPT ![e] = NULL, ![q[Len(q)]] = e]
      BY <1>4, <2>2 DEF EnterBucket, Last
    <3>2. q[Len(q)] \in Entry /\ q[Len(q)] # e
      BY <1>0, <1>3, <2>2
    <3>. HIDE DEF q
    <3>. QED  BY <1>1, <2>2, <3>1, <3>2
  <2>. QED  BY <2>1, <2>2
<1>7. Chained(r, b, table'[b], bucket_next', bucket_prev', key', live') /\ Walk(table'[b], bucket_next') = r
  <2>1. \A i \in 1 .. Len(q) : bucket_next'[q[i]] = IF i = Len(q) THEN e ELSE bucket_next[q[i]]
    BY <1>0, <1>3, <1>6
  <2>2. e \notin ToSet(q)
    BY <1>0, <1>3, LenProperties DEF ToSet
  <2>3. Linked(r, table'[b], bucket_next', NULL)
    <3>1. q \in Seq(Entry) /\ Once(q, Entry) /\ Linked(q, table[b], bucket_next, NULL)
      BY <1>0, <1>3
    <3>. HIDE DEF q
    <3>2. Linked(r, IF Len(q) = 0 THEN e ELSE table[b], bucket_next', NULL)
      BY <1>6, <2>1, <2>2, <3>1, AppendLinked
    <3>. QED  BY <1>5, <3>2
  <2>4. r \in Seq(Entry) /\ Once(r, Entry)
    BY <1>0, <1>3, <2>2, AppendElements, AppendOnce
  <2>5. Len(r) = Len(q) + 1 /\ r[Len(q) + 1] = e /\ \A i \in 1 .. Len(q) : r[i] = q[i]
    BY <1>0, <1>3, AppendProperties
  <2>6. ASSUME NEW i \in 1 .. Len(r)
        PROVE  r[i] \in live' /\ key'[r[i]] \in Key /\ BucketOf[key'[r[i]]] = b /\ bucket_prev'[r[i]] = NULL
    <3>1. CASE i = Len(q) + 1
      BY <1>2, <2>5, <3>1
    <3>2. CASE i # Len(q) + 1
      <4>1. i \in 1 .. Len(q) /\ r[i] = q[i]
        BY <1>0, <1>3, <2>5, <3>2
      <4>. QED  BY <1>0, <1>2, <1>3, <4>1
    <3>. QED  BY <3>1, <3>2
  <2>. HIDE DEF r, b
  <2>. QED  BY <2>3, <2>4, <2>6, WalkLinked DEF Chained
<1>8. ASSUME NEW c \in Bucket, c # b
      PROVE  /\ Chained(Chain(c), c, table'[c], bucket_next', bucket_prev', key', live')
             /\ Walk(table'[c], bucket_next') = Chain(c)
  <2>. DEFINE p == Chain(c)
  <2>1. Len(q) # 0 => Len(q) \in 1 .. Len(q)
    BY <1>0, <1>3
  <2>2. \A i \in 1 .. Len(p) : Len(q) # 0 => p[i] # q[Len(q)]
    BY <1>0, <1>3, <1>8, <2>1
  <2>3. \A i \in 1 .. Len(p) : bucket_next'[p[i]] = bucket_next[p[i]]
    BY <1>3, <1>6, <2>2
  <2>4. Linked(p, table'[c], bucket_next', NULL)
    BY <1>3, <1>5, <1>8, <2>3 DEF Linked
  <2>5. \A i \in 1 .. Len(p) :
          p[i] \in live' /\ key'[p[i]] \in Key /\ BucketOf[key'[p[i]]] = c /\ bucket_prev'[p[i]] = NULL
    BY <1>2, <1>3
  <2>. QED  BY <1>3, <2>4, <2>5, WalkLinked DEF Chained
<1>9. Chain(b)' = r /\ \A c \in Bucket \ {b} : Chain(c)' = Chain(c)
  <2>1. \A c \in Bucket : Chain(c)' = Walk(table'[c], bucket_next')
    BY DEF Chain
  <2>. QED  BY <1>0, <1>7, <1>8, <2>1
<1>10. ASSUME NEW c \in Bucket
       PROVE  Chained(Chain(c)', c, table'[c], bucket_next', bucket_prev', key', live')
  BY <1>7, <1>8, <1>9
<1>. QED  BY <1>9, <1>10 DEF ChainsInv

(* What Find gives in the chain q.                                         *)
FindIn(q, keys, k) ==
  LET Found == {i \in DOMAIN q : keys[q[i]] = k /\ \A j \in 1 .. i-1 : keys[q[j]] # k}
  IN  IF Found = {} THEN NULL ELSE q[CHOOSE i \in Found : TRUE]

(* It is NULL or the first entry of q with key k.                          *)
LEMMA FindAt ==
  ASSUME NEW q \in Seq(Entry), NEW keys, NEW k
  PROVE  /\ FindIn(q, keys, k) # NULL =>
              \E i \in 1 .. Len(q) : /\ FindIn(q, keys, k) = q[i] /\ keys[q[i]] = k
                                    /\ \A j \in 1 .. i-1 : keys[q[j]] # k
         /\ \A i \in 1 .. Len(q) :
              keys[q[i]] = k /\ (\A j \in 1 .. i-1 : keys[q[j]] # k) => FindIn(q, keys, k) = q[i]
<1>. DEFINE Found == {i \in DOMAIN q : keys[q[i]] = k /\ \A j \in 1 .. i-1 : keys[q[j]] # k}
<1>1. DOMAIN q = 1 .. Len(q) /\ Len(q) \in Nat
  BY LenProperties
<1>2. FindIn(q, keys, k) = IF Found = {} THEN NULL ELSE q[CHOOSE i \in Found : TRUE]
  BY DEF FindIn
<1>3. ASSUME NEW i \in Found, NEW j \in Found  PROVE i = j
  <2>1. i \in Nat /\ j \in Nat /\ i # 0 /\ j # 0
    BY <1>1
  <2>2. ~(i < j) /\ ~(j < i)
    <3>1. i < j => i \in 1 .. j-1
      BY <2>1
    <3>2. j < i => j \in 1 .. i-1
      BY <2>1
    <3>. QED  BY <3>1, <3>2
  <2>. QED  BY <2>1, <2>2
<1>4. \A i \in Found : (CHOOSE h \in Found : TRUE) = i
  <2>. HIDE DEF Found
  <2>. QED  BY <1>3
<1>5. \A i \in Found : FindIn(q, keys, k) = q[i]
  <2>. HIDE DEF Found
  <2>. QED  BY <1>2, <1>4
<1>6. FindIn(q, keys, k) # NULL => \E i \in Found : TRUE
  <2>. HIDE DEF Found
  <2>. QED  BY <1>2
<1>. QED  BY <1>1, <1>5, <1>6

(* A look-up is such a search in the chain of the bucket.                  *)
LEMMA FindIs == \A k \in Key : Find(k) = FindIn(Chain(BucketOf[k]), key, k)
BY DEF Find, FindIn

(* ht_remove takes the entry it finds out of the list.                     *)
LEMMA UnlinkList ==
  ASSUME TableInv, NEW e \in live, Unlink(e), live' = live \ {e}
  PROVE  ListInv' /\ List' = RemoveFirst(List, e)
<1>. DEFINE q == List
<1>1. /\ q \in Seq(Entry) /\ Once(q, Entry) /\ ToSet(q) = live /\ Len(q) \in Nat /\ DOMAIN q = 1 .. Len(q)
      /\ Linked(q, head, next, NULL) /\ Backed(q, tail, prev, NULL)
  BY LenProperties DEF TableInv, ListInv
<1>. HIDE DEF q
<1>0. Len(q) \in Nat
  BY <1>1
<1>2. /\ \A i \in 1 .. Len(q) : q[i] \in Entry /\ q[i] # NULL
      /\ \A i, j \in 1 .. Len(q) : q[i] = q[j] => i = j
  BY <1>1, ElementOfSeq, HashAssumption DEF Once
<1>3. /\ next \in [Entry -> Entry \cup {NULL}] /\ prev \in [Entry -> Entry \cup {NULL}]
  BY DEF TableInv, Typed
<1>4. PICK k \in 1 .. Len(q) : q[k] = e
  BY <1>1 DEF ToSet
<1>. DEFINE r == RemoveAt(q, k)
<1>5. next[e] = (IF k = Len(q) THEN NULL ELSE q[k+1]) /\ prev[e] = (IF k = 1 THEN NULL ELSE q[k-1])
  BY <1>1, <1>4 DEF Linked, Backed
<1>6. \A i \in 1 .. Len(q) : i # k => next'[q[i]] = IF i = k-1 THEN next[q[k]] ELSE next[q[i]]
  <2>1. CASE k = 1
    BY <1>4, <1>5, <2>1 DEF Unlink
  <2>2. CASE k # 1
    <3>1. k-1 \in 1 .. Len(q)
      BY <1>0, <2>2
    <3>2. next' = [next EXCEPT ![q[k-1]] = next[e]]
      BY <1>2, <1>5, <2>2, <3>1 DEF Unlink
    <3>. QED  BY <1>2, <1>3, <1>4, <3>1, <3>2
  <2>. QED  BY <2>1, <2>2
<1>7. \A i \in 1 .. Len(q) : i # k => prev'[q[i]] = IF i = k+1 THEN prev[q[k]] ELSE prev[q[i]]
  <2>1. CASE k = Len(q)
    <3>1. \A i \in 1 .. Len(q) : i # k+1
      BY <1>0, <2>1
    <3>. QED  BY <1>4, <1>5, <2>1, <3>1 DEF Unlink
  <2>2. CASE k # Len(q)
    <3>1. k+1 \in 1 .. Len(q)
      BY <1>0, <2>2
    <3>2. prev' = [prev EXCEPT ![q[k+1]] = prev[e]]
      BY <1>2, <1>5, <2>2, <3>1 DEF Unlink
    <3>. QED  BY <1>2, <1>3, <1>4, <3>1, <3>2
  <2>. QED  BY <2>1, <2>2
<1>8. head' = IF k = 1 THEN next[q[k]] ELSE head
  <2>1. head = q[1] /\ 1 \in 1 .. Len(q)
    <3>1. 1 \in 1 .. Len(q) /\ Len(q) # 0
      BY <1>0
    <3>. QED  BY <1>1, <3>1 DEF Linked
  <2>2. head = e <=> k = 1
    BY <1>2, <1>4, <2>1
  <2>. QED  BY <1>4, <2>2 DEF Unlink
<1>9. tail' = IF k = Len(q) THEN prev[q[k]] ELSE tail
  <2>1. tail = q[Len(q)] /\ Len(q) \in 1 .. Len(q)
    <3>1. Len(q) \in 1 .. Len(q) /\ Len(q) # 0
      BY <1>0
    <3>. QED  BY <1>1, <3>1 DEF Backed
  <2>2. tail = e <=> k = Len(q)
    BY <1>2, <1>4, <2>1
  <2>. QED  BY <1>4, <2>2 DEF Unlink
<1>10. Linked(r, head', next', NULL)
  BY <1>1, <1>6, <1>8, RemoveLinked
<1>11. Backed(r, tail', prev', NULL)
  BY <1>1, <1>7, <1>9, RemoveBacked
<1>12. RemoveFirst(q, e) = r
  BY <1>1, <1>4, RemoveFirstAt
<1>13. r \in Seq(Entry) /\ Once(r, Entry) /\ ToSet(r) = live'
  <2>1. r \in Seq(Entry) /\ Once(r, Entry) /\ e \notin ToSet(r)
    <3>1. e \in Entry
      BY <1>2, <1>4
    <3>. QED  BY <1>1, <1>12, <3>1, RemoveFirstElements, RemoveFirstOnce
  <2>2. ToSet(r) \subseteq ToSet(q) /\ \A x \in ToSet(q) : x # e => x \in ToSet(r)
    BY <1>1, <1>12, RemoveFirstElements
  <2>. QED  BY <1>1, <2>1, <2>2
<1>14. Walk(head', next') = r
  BY <1>10, <1>13, WalkLinked
<1>15. List' = r
  BY <1>14 DEF List
<1>. QED  BY <1>10, <1>11, <1>12, <1>13, <1>15 DEF ListInv, q

(* The bucket is left without entries: bucket_prev is NULL in the entries  *)
(* of a chain, and only an entry that leaves its chain gets another.       *)
LEMMA LeaveChains ==
  ASSUME TableInv, NEW k \in Key, NEW e \in live, key[e] = k, bucket_prev[e] = NULL,
         NEW h \in 1 .. Len(Chain(BucketOf[k])), e = Chain(BucketOf[k])[h],
         LeaveBucket(e, BucketOf[k]), live' = live \ {e}, key' = key
  PROVE  /\ ChainsInv' /\ Chain(BucketOf[k])' = <<>>
         /\ \A c \in Bucket \ {BucketOf[k]} : Chain(c)' = Chain(c)
<1>. DEFINE b == BucketOf[k]
<1>0. b \in Bucket
  BY DEF Bucket
<1>1. ASSUME NEW c \in Bucket
      PROVE  /\ Chained(Chain(c), c, table[c], bucket_next, bucket_prev, key, live)
             /\ Len(Chain(c)) \in Nat
             /\ \A i \in 1 .. Len(Chain(c)) : Chain(c)[i] \in Entry /\ BucketOf[key[Chain(c)[i]]] = c
  <2>1. Chained(Chain(c), c, table[c], bucket_next, bucket_prev, key, live)
    BY DEF TableInv, ChainsInv
  <2>. QED  BY <2>1, LenProperties, ElementOfSeq DEF Chained
<1>2. /\ table'[b] = NULL /\ bucket_next' = bucket_next
      /\ \A c \in Bucket \ {b} : table'[c] = table[c]
  BY <1>0 DEF LeaveBucket, TableInv, Typed
<1>3. bucket_next[e] = NULL \/ \E i \in 1 .. Len(Chain(b)) : bucket_next[e] = Chain(b)[i]
  <2>1. Linked(Chain(b), table[b], bucket_next, NULL)
    BY <1>0, <1>1 DEF Chained
  <2>2. bucket_next[e] = IF h = Len(Chain(b)) THEN NULL ELSE Chain(b)[h+1]
    BY <2>1 DEF Linked
  <2>3. h # Len(Chain(b)) => h + 1 \in 1 .. Len(Chain(b))
    <3>1. Len(Chain(b)) \in Nat
      BY <1>0, <1>1
    <3>. QED  BY <3>1
  <2>. QED  BY <2>2, <2>3
<1>4. Chained(<<>>, b, table'[b], bucket_next', bucket_prev', key', live') /\ Walk(table'[b], bucket_next') = <<>>
  BY <1>2, EmptyWalk DEF Chained
<1>5. ASSUME NEW c \in Bucket \ {b}
      PROVE  /\ Chained(Chain(c), c, table'[c], bucket_next', bucket_prev', key', live')
             /\ Walk(table'[c], bucket_next') = Chain(c)
  <2>1. \A i \in 1 .. Len(Chain(c)) : Chain(c)[i] # e /\ Chain(c)[i] # bucket_next[e]
    BY <1>0, <1>1, <1>3, HashAssumption
  <2>2. \A x \in Entry : x # bucket_next[e] => bucket_prev'[x] = bucket_prev[x]
    BY DEF LeaveBucket, TableInv, Typed
  <2>3. Chained(Chain(c), c, table'[c], bucket_next', bucket_prev', key', live')
    BY <1>1, <1>2, <2>1, <2>2 DEF Chained
  <2>4. Walk(table'[c], bucket_next') = Chain(c)
    BY <2>3, WalkLinked DEF Chained
  <2>. QED  BY <2>3, <2>4
<1>6. Chain(b)' = <<>> /\ \A c \in Bucket \ {b} : Chain(c)' = Chain(c)
  <2>1. \A c \in Bucket : Chain(c)' = Walk(table'[c], bucket_next')
    BY DEF Chain
  <2>. QED  BY <1>0, <1>4, <1>5, <2>1
<1>7. ASSUME NEW c \in Bucket
      PROVE  Chained(Chain(c)', c, table'[c], bucket_next', bucket_prev', key', live')
  BY <1>4, <1>5, <1>6
<1>. QED  BY <1>6, <1>7 DEF ChainsInv

(* What a call does to the list and the chains.                            *)
LEMMA InsertStep ==
  ASSUME TableInv, NEW k \in Key, ht_insert(k)
  PROVE  /\ TableInv'
         /\ \E e \in Entry \ live :
              /\ live' = live \cup {e} /\ key' = [key EXCEPT ![e] = k]
              /\ List' = Append(List, e)
              /\ Chain(BucketOf[k])' = Append(Chain(BucketOf[k]), e)
              /\ \A c \in Bucket \ {BucketOf[k]} : Chain(c)' = Chain(c)
<1>1. PICK e \in Entry \ live :
        /\ NewEntry(e, k) /\ Link(e) /\ EnterBucket(e, BucketOf[k])
        /\ elements' = elements + 1
  BY DEF ht_insert
<1>2. live' = live \cup {e} /\ key' = [key EXCEPT ![e] = k]
  BY <1>1 DEF NewEntry
<1>3. ListInv' /\ List' = Append(List, e)
  BY <1>1, <1>2, LinkList
<1>4. /\ ChainsInv' /\ Chain(BucketOf[k])' = Append(Chain(BucketOf[k]), e)
      /\ \A c \in Bucket \ {BucketOf[k]} : Chain(c)' = Chain(c)
  BY <1>1, EnterChains
<1>5. Typed'
  <2>1. Typed
    BY DEF TableInv
  <2>2. live' \subseteq Entry /\ elements' \in Nat /\ key' \in [Entry -> Key \cup {NULL}]
    BY <1>1, <1>2, <2>1 DEF Typed
  <2>3. prev' \in [Entry -> Entry \cup {NULL}] /\ next' \in [Entry -> Entry \cup {NULL}]
    <3>1. tail = NULL \/ tail \in Entry
      BY LenProperties, ElementOfSeq DEF TableInv, ListInv, Backed
    <3>2. head # NULL => tail \in Entry
      <4>1. head # NULL => Len(List) # 0
        BY DEF TableInv, ListInv, Linked
      <4>2. Len(List) \in Nat /\ \A i \in 1 .. Len(List) : List[i] \in Entry
        BY LenProperties, ElementOfSeq DEF TableInv, ListInv
      <4>3. Len(List) # 0 => tail = List[Len(List)] /\ Len(List) \in 1 .. Len(List)
        BY <4>2 DEF TableInv, ListInv, Backed
      <4>. QED  BY <4>1, <4>2, <4>3
    <3>. QED  BY <1>1, <2>1, <3>1, <3>2 DEF Typed, Link
  <2>4. table' \in [Bucket -> Entry \cup {NULL}] /\ bucket_next' \in [Entry -> Entry \cup {NULL}]
    BY <1>1, <2>1 DEF Typed, EnterBucket
  <2>5. bucket_prev' \in [Entry -> Entry \cup {NULL}]
    BY <1>1, <2>1 DEF Typed, NewEntry
  <2>. QED  BY <2>2, <2>3, <2>4, <2>5 DEF Typed
<1>. QED  BY <1>2, <1>3, <1>4, <1>5 DEF TableInv

(* ht_remove takes the first entry with the key out of the list, and all   *)
(* the entries of the bucket out of its chain.                             *)
LEMMA RemoveStep ==
  ASSUME TableInv, NEW k \in Key, ht_remove(k)
  PROVE  /\ TableInv'
         /\ \E h \in 1 .. Len(Chain(BucketOf[k])) :
              LET q == Chain(BucketOf[k])
              IN  /\ key[q[h]] = k /\ \A j \in 1 .. h-1 : key[q[j]] # k
                  /\ q[h] \in live /\ live' = live \ {q[h]} /\ key' = key
                  /\ List' = RemoveFirst(List, q[h])
                  /\ Chain(BucketOf[k])' = <<>>
                  /\ \A c \in Bucket \ {BucketOf[k]} : Chain(c)' = Chain(c)
<1>. DEFINE b == BucketOf[k]
            q == Chain(b)
            e == Find(k)
<1>0. b \in Bucket
  BY DEF Bucket
<1>1. Chained(q, b, table[b], bucket_next, bucket_prev, key, live)
  BY <1>0 DEF TableInv, ChainsInv
<1>2. /\ e # NULL /\ LeaveBucket(e, b) /\ Unlink(e) /\ live' = live \ {e}
      /\ key' = key /\ elements' = elements
  BY DEF ht_remove
<1>3. PICK h \in 1 .. Len(q) : e = q[h] /\ key[q[h]] = k /\ \A j \in 1 .. h-1 : key[q[j]] # k
  BY <1>1, <1>2, FindAt, FindIs DEF Chained
<1>4. e \in live /\ bucket_prev[e] = NULL
  BY <1>1, <1>3 DEF Chained
<1>5. ListInv' /\ List' = RemoveFirst(List, e)
  BY <1>2, <1>4, UnlinkList
<1>6. ChainsInv' /\ Chain(b)' = <<>> /\ \A c \in Bucket \ {b} : Chain(c)' = Chain(c)
  BY <1>2, <1>3, <1>4, LeaveChains
<1>7. Typed'
  <2>1. Typed /\ e \in Entry
    BY <1>4 DEF TableInv, Typed
  <2>. HIDE DEF e, b
  <2>2. table' \in [Bucket -> Entry \cup {NULL}] /\ bucket_next' \in [Entry -> Entry \cup {NULL}]
    BY <1>2, <1>4, <2>1 DEF Typed, LeaveBucket
  <2>3. bucket_prev' \in [Entry -> Entry \cup {NULL}]
    BY <1>2, <2>1 DEF Typed, LeaveBucket
  <2>4. prev' \in [Entry -> Entry \cup {NULL}] /\ next' \in [Entry -> Entry \cup {NULL}]
    BY <1>2, <2>1 DEF Typed, Unlink
  <2>. QED  BY <1>2, <2>1, <2>2, <2>3, <2>4 DEF Typed
<1>8. TableInv'
  BY <1>5, <1>6, <1>7 DEF TableInv
<1>. QED  BY <1>2, <1>3, <1>4, <1>5, <1>6, <1>8

(* The invariant holds after any calls.                                    *)
LEMMA TableCorrect == Spec => []TableInv
<1>1. TableInv /\ [Next]_vars => TableInv'
  <2>. SUFFICES ASSUME TableInv, [Next]_vars  PROVE TableInv'
    OBVIOUS
  <2>1. CASE UNCHANGED vars
    BY <2>1 DEF vars, TableInv, Typed, ListInv, ChainsInv, List, Chain
  <2>. QED  BY <2>1, InsertStep, RemoveStep DEF Next
<1>. QED  BY <1>1, TableInit, PTL DEF Spec

(* Whatever is inserted and removed, the list of entries is all that are   *)
(* not freed, and the way back over it is the way forth reversed: no walk  *)
(* of EXIT or QUERY loses an entry or runs into one that is freed.         *)
THEOREM ListCorrect == Spec => []ListWhole
<1>1. TableInv => ListWhole
  <2>. SUFFICES ASSUME TableInv  PROVE ListWhole
    OBVIOUS
  <2>1. Len(List) = Cardinality(live)
    BY OnceLength DEF TableInv, ListInv
  <2>2. Walk(tail, prev) = Reverse(List)
    BY ReverseLinked, WalkLinked DEF TableInv, ListInv
  <2>. QED  BY <2>1, <2>2 DEF ListWhole, TableInv, ListInv
<1>. QED  BY <1>1, TableCorrect, PTL
-----------------------------------------------------------------------------
(* ht_insert(k) is InsertKey(k, e), e the entry calloc returns.            *)
LEMMA InsertRefines ==
  ASSUME TableInv, NEW k \in Key, ht_insert(k)
  PROVE  Table!Next
<1>. DEFINE keyOf == [x \in Entry |-> IF x \in live THEN key[x] ELSE NULL]
            chain == [c \in Bucket |-> Chain(c)]
<1>1. PICK e \in Entry \ live :
        /\ live' = live \cup {e} /\ key' = [key EXCEPT ![e] = k]
        /\ List' = Append(List, e)
        /\ Chain(BucketOf[k])' = Append(Chain(BucketOf[k]), e)
        /\ \A c \in Bucket \ {BucketOf[k]} : Chain(c)' = Chain(c)
  BY InsertStep
<1>2. key \in [Entry -> Key \cup {NULL}] /\ BucketOf[k] \in Bucket
  BY DEF TableInv, Typed, Bucket
<1>3. keyOf[e] = NULL /\ keyOf' = [keyOf EXCEPT ![e] = k]
  BY <1>1, <1>2
<1>4. chain' = [chain EXCEPT ![BucketOf[k]] = Append(@, e)]
  BY <1>1, <1>2
<1>5. Table!InsertKey(k, e)
  BY <1>1, <1>3, <1>4 DEF Table!InsertKey
<1>. QED  BY <1>5 DEF Table!Next

(* ht_remove(k) is RemoveKey(k).                                           *)
LEMMA RemoveRefines ==
  ASSUME TableInv, NEW k \in Key, ht_remove(k)
  PROVE  Table!Next
<1>. DEFINE keyOf == [x \in Entry |-> IF x \in live THEN key[x] ELSE NULL]
            chain == [c \in Bucket |-> Chain(c)]
            b == BucketOf[k]
            q == Chain(b)
<1>1. PICK h \in 1 .. Len(q) :
        /\ key[q[h]] = k /\ \A j \in 1 .. h-1 : key[q[j]] # k
        /\ q[h] \in live /\ live' = live \ {q[h]} /\ key' = key
        /\ List' = RemoveFirst(List, q[h])
        /\ q' = <<>>
        /\ \A c \in Bucket \ {b} : Chain(c)' = Chain(c)
  BY RemoveStep
<1>2. key \in [Entry -> Key \cup {NULL}] /\ live \subseteq Entry /\ b \in Bucket
  BY DEF TableInv, Typed, Bucket
<1>3. DOMAIN q = 1 .. Len(q) /\ Len(q) \in Nat /\ \A i \in 1 .. Len(q) : q[i] \in live
  <2>1. Chained(q, b, table[b], bucket_next, bucket_prev, key, live)
    BY <1>2 DEF TableInv, ChainsInv
  <2>. QED  BY <2>1, LenProperties DEF Chained
<1>4. PICK e \in live : e = q[h]
  BY <1>1
<1>5. keyOf' = [keyOf EXCEPT ![e] = NULL]
  BY <1>1, <1>2, <1>4
<1>6. chain' = [chain EXCEPT ![b] = <<>>]
  BY <1>1, <1>2
<1>7. keyOf[q[h]] = k /\ \A j \in 1 .. h-1 : keyOf[q[j]] # k
  <2>1. \A i \in 1 .. Len(q) : keyOf[q[i]] = key[q[i]]
    BY <1>2, <1>3
  <2>2. \A j \in 1 .. h-1 : j \in 1 .. Len(q)
    BY <1>3
  <2>. QED  BY <1>1, <2>1, <2>2
<1>8. chain[b] = q
  BY <1>2
<1>9. List' = Table!RemoveFirst(List, q[h])
  BY <1>1
  DEF RemoveFirst, RemoveAt, SelectInSeq, Min,
      Table!RemoveFirst, Table!RemoveAt, Table!SelectInSeq, Table!Min
<1>10. Table!RemoveKey(k)
  <2>1. h \in DOMAIN chain[b] /\ chain[b][h] = e
    BY <1>3, <1>4, <1>8
  <2>2. keyOf[chain[b][h]] = k /\ \A j \in 1 .. h-1 : keyOf[chain[b][j]] # k
    <3>. HIDE DEF keyOf, chain, q
    <3>. QED  BY <1>7, <1>8
  <2>3. keyOf' = [keyOf EXCEPT ![chain[b][h]] = NULL]
    BY <1>5, <2>1
  <2>4. List' = Table!RemoveFirst(List, chain[b][h])
    BY <1>8, <1>9
  <2>. QED  BY <1>6, <2>1, <2>2, <2>3, <2>4, Zenon DEF Table!RemoveKey
<1>. QED  BY <1>10 DEF Table!Next

(* The hash table, pointer by pointer, implements SessionTable, the table  *)
(* ChatServer takes it for: the list of its entries and, per bucket, the   *)
(* entries a look-up goes through change as those sequences do.            *)
THEOREM TableImplemented == Spec => ImplementsTable
<1>1. ht_init => Table!Init
  <2>. SUFFICES ASSUME ht_init  PROVE Table!Init
    OBVIOUS
  <2>1. List = <<>> /\ \A b \in Bucket : Chain(b) = <<>>
    BY EmptyWalk DEF ht_init, List, Chain
  <2>. QED  BY <2>1 DEF ht_init, Table!Init, Table!Bucket, Bucket
<1>2. TableInv /\ [Next]_vars =>
        [Table!Next]_<<List, [b \in Bucket |-> Chain(b)],
                       [e \in Entry |-> IF e \in live THEN key[e] ELSE NULL]>>
  <2>1. ASSUME UNCHANGED vars
        PROVE  UNCHANGED <<List, [b \in Bucket |-> Chain(b)],
                           [e \in Entry |-> IF e \in live THEN key[e] ELSE NULL]>>
    BY <2>1 DEF vars, List, Chain
  <2>. QED  BY <2>1, InsertRefines, RemoveRefines DEF Next
<1>. QED  BY <1>1, <1>2, TableCorrect, PTL DEF Spec, ImplementsTable, Table!Spec

-----------------------------------------------------------------------------
(* No insertion and no removal in another bucket changes what a look-up    *)
(* gives: a caller that has found the entry of a user or of a session finds*)
(* it again as long as no key of its bucket was removed.                   *)
THEOREM LookUpsKept == Spec => FoundUntilRemoved
<1>. DEFINE Kept(k) == \/ Find(k)' = Find(k)
                       \/ \E e \in live \ live' : BucketOf[key[e]] = BucketOf[k]
<1>1. ASSUME TableInv, NEW j \in Key, ht_insert(j), NEW k \in Key, Find(k) # NULL
      PROVE  Find(k)' = Find(k)
  <2>. DEFINE b == BucketOf[k]
              q == Chain(b)
  <2>1. PICK e \in Entry \ live :
          /\ live' = live \cup {e} /\ key' = [key EXCEPT ![e] = j]
          /\ Chain(BucketOf[j])' = Append(Chain(BucketOf[j]), e)
          /\ \A c \in Bucket \ {BucketOf[j]} : Chain(c)' = Chain(c)
    BY <1>1, InsertStep
  <2>2. key \in [Entry -> Key \cup {NULL}] /\ live \subseteq Entry /\ b \in Bucket
    BY <1>1 DEF TableInv, Typed, Bucket
  <2>3. q \in Seq(Entry) /\ Len(q) \in Nat /\ \A i \in 1 .. Len(q) : q[i] \in live
    <3>1. Chained(q, b, table[b], bucket_next, bucket_prev, key, live)
      BY <1>1, <2>2 DEF TableInv, ChainsInv
    <3>. QED  BY <3>1, LenProperties DEF Chained
  <2>4. PICK i \in 1 .. Len(q) :
          /\ Find(k) = q[i] /\ key[q[i]] = k
          /\ \A h \in 1 .. i-1 : key[q[h]] # k
    BY <1>1, <2>3, FindAt, FindIs
  <2>5. PICK r : r = q' /\ r \in Seq(Entry) /\ i \in 1 .. Len(r) /\ \A h \in 1 .. Len(q) : r[h] = q[h]
    <3>1. CASE BucketOf[j] = b
      <4>1. /\ Append(q, e) \in Seq(Entry) /\ Len(Append(q, e)) = Len(q) + 1
            /\ \A h \in 1 .. Len(q) : Append(q, e)[h] = q[h]
        BY <2>3, AppendProperties
      <4>2. i \in 1 .. Len(Append(q, e))
        BY <2>3, <4>1
      <4>. QED  BY <2>1, <3>1, <4>1, <4>2
    <3>2. CASE BucketOf[j] # b
      BY <2>1, <2>2, <2>3, <3>2
    <3>. QED  BY <3>1, <3>2
  <2>6. \A h \in 1 .. Len(q) : key'[q[h]] = key[q[h]]
    BY <2>1, <2>2, <2>3
  <2>7. \A h \in 1 .. i-1 : h \in 1 .. Len(q)
    BY <2>3
  <2>8. FindIn(r, key', k) = r[i]
    BY <2>4, <2>5, <2>6, <2>7, FindAt
  <2>9. Find(k)' = FindIn(q', key', k)
    BY DEF Find, FindIn
  <2>. QED  BY <2>4, <2>5, <2>8, <2>9
<1>2. ASSUME TableInv, NEW j \in Key, ht_remove(j), NEW k \in Key
      PROVE  Kept(k)
  <2>1. PICK h \in 1 .. Len(Chain(BucketOf[j])) :
          LET q == Chain(BucketOf[j])
          IN  /\ key[q[h]] = j
              /\ q[h] \in live /\ live' = live \ {q[h]} /\ key' = key
              /\ \A c \in Bucket \ {BucketOf[j]} : Chain(c)' = Chain(c)
    BY <1>2, RemoveStep
  <2>2. CASE BucketOf[j] = BucketOf[k]
    <3>1. PICK e \in live : e = Chain(BucketOf[j])[h] /\ key[e] = j /\ live' = live \ {e}
      BY <2>1
    <3>. QED  BY <2>2, <3>1
  <2>3. CASE BucketOf[j] # BucketOf[k]
    <3>1. Chain(BucketOf[k])' = Chain(BucketOf[k]) /\ key' = key
      BY <2>1, <2>3 DEF Bucket
    <3>2. Find(k)' = Find(k)
      BY <3>1 DEF Find
    <3>. QED  BY <3>2
  <2>. QED  BY <2>2, <2>3
<1>3. ASSUME UNCHANGED vars, NEW k \in Key  PROVE Find(k)' = Find(k)
  BY <1>3 DEF vars, Find, Chain
<1>4. TableInv /\ [Next]_vars => [\A k \in Key : Find(k) # NULL => Kept(k)]_vars
  BY <1>1, <1>2, <1>3 DEF Next
<1>. QED  BY <1>4, TableCorrect, PTL DEF Spec, FoundUntilRemoved
=============================================================================
