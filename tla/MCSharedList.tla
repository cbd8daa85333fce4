---------------------------- MODULE MCSharedList ----------------------------
(***************************************************************************)
(* An instance of SharedList for TLC.                                      *)
(***************************************************************************)
EXTENDS SharedList, TLC

CONSTANTS t1, t2, b1, s1, s2, n1, n2, n3

Threads == {t1, t2}
Blocks  == {b1}
Strings == {s1, s2}
Nodes   == {n1, n2, n3}

Symmetry == Permutations(Threads) \cup Permutations(Strings)
=============================================================================
