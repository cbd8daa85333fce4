-------------------------------- MODULE Lists -------------------------------
(***************************************************************************)
(* Sequences that stand for the linked lists of the server.                *)
(***************************************************************************)
EXTENDS Integers, Sequences

(* No element of T is twice in the list q.                                 *)
Once(q, T) == \A i, j \in DOMAIN q : q[i] = q[j] /\ q[i] \in T => i = j

(* q is what a walk from `first' meets along link before `end', and what   *)
(* one from `last' meets backwards.                                        *)
Linked(q, first, link, end) ==
  /\ first = IF Len(q) = 0 THEN end ELSE q[1]
  /\ \A i \in 1 .. Len(q) : link[q[i]] = IF i = Len(q) THEN end ELSE q[i+1]

Backed(q, last, link, end) ==
  /\ last = IF Len(q) = 0 THEN end ELSE q[Len(q)]
  /\ \A i \in 1 .. Len(q) : link[q[i]] = IF i = 1 THEN end ELSE q[i-1]
=============================================================================
