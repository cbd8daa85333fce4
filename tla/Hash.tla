-------------------------------- MODULE Hash --------------------------------
(***************************************************************************)
(* hash of collections/hashTable.c.  An unsigned int is a pair of 16-bit   *)
(* halves, because the products exceed TLC's integers.  Each character     *)
(* starts again from the seed: what came before it is lost, so unlike the  *)
(* FNV-1a of its comment the hash is that of the last character.           *)
(***************************************************************************)
EXTENDS Integers, SequencesExt
LOCAL INSTANCE Bitwise

Half == 2^16

fnv_seed  == [high |-> 33052, low |-> 40389]   \* 0x811C, 0x9DC5
fnv_prime == [high |-> 256, low |-> 403]       \* 0x0100, 0x0193

Times(a, b) ==
  LET low == a.low * b.low
  IN  [low  |-> low % Half,
       high |-> (a.high * b.low + a.low * b.high + (low \div Half)) % Half]

(* For a character below 128; one above is negative as a char.             *)
XorChar(a, char) == [a EXCEPT !.low = @ ^^ char]

(* input: the characters of the string by their codes.                     *)
hash(input) == FoldLeft(LAMBDA h, char : Times(XorChar(fnv_seed, char), fnv_prime), fnv_seed, input)

BucketIndex(input, limit) ==
  LET h == hash(input)
  IN  ((h.high % limit) * (Half % limit) + (h.low % limit)) % limit

(* FNV-1a as its authors define it.                                        *)
FNV1a(input) == FoldLeft(LAMBDA h, char : Times(XorChar(h, char), fnv_prime), fnv_seed, input)
=============================================================================
