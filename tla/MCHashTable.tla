---------------------------- MODULE MCHashTable -----------------------------
(***************************************************************************)
(* An instance of HashTable for TLC.  The keys stand for the names `ab',   *)
(* `cb' and `c' in a table of 64 buckets, as the server's table of sessions*)
(* has: two share a bucket, one is alone.                                  *)
(***************************************************************************)
EXTENDS HashTable, TLC
H == INSTANCE Hash

CONSTANTS k1, k2, k3, e1, e2, e3, e4

Keys    == {k1, k2, k3}
Entries == {e1, e2, e3, e4}
Chars   == k1 :> <<97, 98>> @@ k2 :> <<99, 98>> @@ k3 :> <<99>>
Shared  == k1 :> 37 @@ k2 :> 37 @@ k3 :> 18

Symmetry == Permutations(Entries) \cup Permutations({k1, k2})

ASSUME SharedAreIndices == \A k \in Keys : Shared[k] = H!BucketIndex(Chars[k], 64)

(* hash is FNV-1a for names of one character; of a longer name it sees the *)
(* last only, so that names which FNV-1a tells apart share a bucket.       *)
ASSUME HashOfLast ==
  LET letters == 97 .. 122
  IN  /\ \A a \in letters : H!hash(<<a>>) = H!FNV1a(<<a>>)
      /\ \A a, b \in letters :
           H!hash(<<a, b>>) = H!hash(<<b>>) /\ H!hash(<<a, b>>) # H!FNV1a(<<a, b>>)
=============================================================================
