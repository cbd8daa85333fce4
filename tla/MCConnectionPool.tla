-------------------------- MODULE MCConnectionPool --------------------------
(***************************************************************************)
(* An instance of ConnectionPool for TLC: a block more than there are      *)
(* slots, since a block may be freed before its thread is done.            *)
(***************************************************************************)
EXTENDS ConnectionPool, TLC

CONSTANTS b1, b2, b3, u1

Blocks == {b1, b2, b3}
Users  == {u1}
Fds    == 3 .. 5
=============================================================================
