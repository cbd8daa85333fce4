----------------------------- MODULE HashTable ------------------------------
(***************************************************************************)
(* The hash table of collections/hashTable.c, pointer by pointer.  Every   *)
(* entry is in a doubly linked list of all entries (next, prev) and, until *)
(* its bucket is cleared, in the chain of its bucket (bucket_next).  Only  *)
(* ht_remove ever writes bucket_prev, and it writes the list neighbour.    *)
(* A call is one step; free leaves the fields of the entry as they are and *)
(* calloc zeroes those of a block that is handed out again.                *)
(***************************************************************************)
EXTENDS Naturals, FiniteSets, SequencesExt

CONSTANTS
  Key,         \* keys
  Entry,       \* addresses of entries
  BucketOf,    \* BucketOf[k]: hash(k) % limit
  MaxInserts,  \* bound: calls of ht_insert
  NULL

ASSUME HashAssumption ==
  /\ IsFiniteSet(Entry) /\ NULL \notin Entry \cup Key
  /\ DOMAIN BucketOf = Key
  /\ MaxInserts \in Nat

Bucket == {BucketOf[k] : k \in Key}

VARIABLES head, tail, table, elements,           \* the HashTable
          key, next, prev, bucket_next, bucket_prev,  \* the entries
          live                                   \* entries not freed

vars == <<head, tail, table, elements, key, next, prev, bucket_next, bucket_prev, live>>

(* The blocks met from first on, along link: a walk `while (e != NULL)'.   *)
(* One that comes back to a block is cut after more blocks than there are. *)
Walk(first, link) ==
  LET at[i \in Nat] == IF i = 0 THEN first
                       ELSE LET e == at[i-1] IN IF e = NULL THEN NULL ELSE link[e]
      length == Cardinality({i \in 0 .. Cardinality(Entry) : at[i] # NULL})
  IN  [i \in 1 .. length |-> at[i-1]]

List == Walk(head, next)
Chain(b) == Walk(table[b], bucket_next)

(* The entry a search for k stops at; NULL if there is none.               *)
Find(k) ==
  LET q == Chain(BucketOf[k])
      Found == {i \in DOMAIN q : key[q[i]] = k /\ \A j \in 1 .. i-1 : key[q[j]] # k}
  IN  IF Found = {} THEN NULL ELSE q[CHOOSE i \in Found : TRUE]

-----------------------------------------------------------------------------
ht_init ==
  /\ head = NULL /\ tail = NULL
  /\ table = [b \in Bucket |-> NULL]
  /\ elements = 0
  /\ key = [e \in Entry |-> NULL]
  /\ next = [e \in Entry |-> NULL]
  /\ prev = [e \in Entry |-> NULL]
  /\ bucket_next = [e \in Entry |-> NULL]
  /\ bucket_prev = [e \in Entry |-> NULL]
  /\ live = {}

(* Mutant: the new entry becomes the first of its bucket.                  *)
EnterBucketFirst(e, b) ==
  /\ table' = [table EXCEPT ![b] = e]
  /\ bucket_next' = [bucket_next EXCEPT ![e] = table[b]]

(* Mutant: the last entry of the bucket does not get its bucket_next.      *)
EnterBucketUnlinked(e, b) ==
  /\ table' = [table EXCEPT ![b] = IF @ = NULL THEN e ELSE @]
  /\ bucket_next' = [bucket_next EXCEPT ![e] = NULL]

(* The end of the bucket b, for an entry fresh from calloc.                *)
EnterBucket(e, b) ==
  IF table[b] = NULL
    THEN /\ table' = [table EXCEPT ![b] = e]
         /\ bucket_next' = [bucket_next EXCEPT ![e] = NULL]
    ELSE /\ bucket_next' = [bucket_next EXCEPT ![e] = NULL, ![Last(Chain(b))] = e]
         /\ UNCHANGED table

NewEntry(e, k) ==
  /\ live' = live \cup {e}
  /\ key' = [key EXCEPT ![e] = k]
  /\ bucket_prev' = [bucket_prev EXCEPT ![e] = NULL]

(* The end of the list.                                                    *)
Link(e) ==
  /\ IF head = NULL
       THEN /\ head' = e
            /\ next' = [next EXCEPT ![e] = NULL]
            /\ prev' = [prev EXCEPT ![e] = NULL]
       ELSE /\ next' = [next EXCEPT ![e] = NULL, ![tail] = e]
            /\ prev' = [prev EXCEPT ![e] = tail]
            /\ UNCHANGED head
  /\ tail' = e

ht_insert(k) ==
  \E e \in Entry \ live :
    /\ elements < MaxInserts
    /\ NewEntry(e, k)
    /\ Link(e)
    /\ EnterBucket(e, BucketOf[k])
    /\ elements' = elements + 1

(* Mutant: the neighbour in the list behind e keeps its prev.              *)
UnlinkForward(e) ==
  /\ UNCHANGED prev
  /\ next' = IF prev[e] = NULL THEN next ELSE [next EXCEPT ![prev[e]] = next[e]]
  /\ head' = IF head = e THEN next[e] ELSE head
  /\ tail' = IF tail = e THEN prev[e] ELSE tail

(* The neighbours of e in the list are joined.                             *)
Unlink(e) ==
  /\ prev' = IF next[e] = NULL THEN prev ELSE [prev EXCEPT ![next[e]] = prev[e]]
  /\ next' = IF prev[e] = NULL THEN next ELSE [next EXCEPT ![prev[e]] = next[e]]
  /\ head' = IF head = e THEN next[e] ELSE head
  /\ tail' = IF tail = e THEN prev[e] ELSE tail

(* The writes of ht_remove to the bucket b of e: into bucket_next and      *)
(* bucket_prev go the neighbours in the list.                              *)
LeaveBucket(e, b) ==
  /\ IF bucket_prev[e] # NULL
       THEN /\ bucket_next' = [bucket_next EXCEPT ![bucket_prev[e]] = next[e]]
            /\ UNCHANGED table
       ELSE /\ table' = [table EXCEPT ![b] = NULL]
            /\ UNCHANGED bucket_next
  /\ bucket_prev' = IF bucket_next[e] = NULL THEN bucket_prev
                    ELSE [bucket_prev EXCEPT ![bucket_next[e]] = prev[e]]

ht_remove(k) ==
  LET e == Find(k)
  IN  /\ e # NULL
      /\ LeaveBucket(e, BucketOf[k])
      /\ Unlink(e)
      /\ live' = live \ {e}
      /\ UNCHANGED <<key, elements>>

-----------------------------------------------------------------------------
Next == \E k \in Key : ht_insert(k) \/ ht_remove(k)

Spec == ht_init /\ [][Next]_vars

-----------------------------------------------------------------------------
(* The list, followed either way, is all the entries that are not freed:   *)
(* a walk over it (EXIT, QUERY) ends, and no entry is lost to it.          *)
ListWhole ==
  /\ ToSet(List) = live /\ Len(List) = Cardinality(live)
  /\ Walk(tail, prev) = Reverse(List)

(* A look-up gives the same entry until a key of its bucket is removed,    *)
(* even when the key is inserted again.                                    *)
FoundUntilRemoved ==
  [][\A k \in Key :
       Find(k) # NULL =>
         \/ Find(k)' = Find(k)
         \/ \E e \in live \ live' : BucketOf[key[e]] = BucketOf[k]]_vars

(* The pointers implement the list and the chains ChatServer works with.   *)
Table == INSTANCE SessionTable WITH
  order <- List,
  chain <- [b \in Bucket |-> Chain(b)],
  keyOf <- [e \in Entry |-> IF e \in live THEN key[e] ELSE NULL]
ImplementsTable == Table!Spec
=============================================================================
