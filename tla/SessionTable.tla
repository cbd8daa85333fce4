---------------------------- MODULE SessionTable ----------------------------
(***************************************************************************)
(* What a hash table of the server is to its callers: a list of entries in *)
(* the order of insertion and, for each bucket, the entries a look-up goes *)
(* through.  Removing a key empties the bucket of the key for look-ups: the*)
(* other entries of the bucket stay in the list only.                      *)
(***************************************************************************)
EXTENDS SequencesExt

CONSTANTS Key, Entry, BucketOf, NULL

VARIABLES
  order,   \* the entries from head to tail
  chain,   \* chain[b]: the entries look-ups in bucket b visit
  keyOf    \* keyOf[e]: the key of entry e, NULL when it is not allocated

Bucket == {BucketOf[k] : k \in Key}

Init ==
  /\ order = <<>>
  /\ chain = [b \in Bucket |-> <<>>]
  /\ keyOf = [e \in Entry |-> NULL]

InsertKey(k, e) ==
  /\ keyOf[e] = NULL
  /\ keyOf' = [keyOf EXCEPT ![e] = k]
  /\ order' = Append(order, e)
  /\ chain' = [chain EXCEPT ![BucketOf[k]] = Append(@, e)]

(* The first entry of the bucket with key k goes.                          *)
RemoveKey(k) ==
  LET q == chain[BucketOf[k]]
  IN  \E i \in DOMAIN q :
        /\ keyOf[q[i]] = k
        /\ \A j \in 1 .. i-1 : keyOf[q[j]] # k
        /\ keyOf' = [keyOf EXCEPT ![q[i]] = NULL]
        /\ order' = RemoveFirst(order, q[i])
        /\ chain' = [chain EXCEPT ![BucketOf[k]] = <<>>]

Next == \E k \in Key : RemoveKey(k) \/ \E e \in Entry : InsertKey(k, e)

Spec == Init /\ [][Next]_<<order, chain, keyOf>>
=============================================================================
