------------------------------ MODULE DataList ------------------------------
(***************************************************************************)
(* What a linked list of the server is to its callers: a sequence that     *)
(* elements are appended to and taken out of.  It promises nothing once two*)
(* calls that change it have overlapped, which is `damaged'.               *)
(***************************************************************************)
EXTENDS SequencesExt

CONSTANT Data

VARIABLES q, damaged

Init == q = <<>> /\ ~damaged

Enters(d) == q' = Append(q, d)

Leaves(d) == d \in ToSet(q) /\ q' = RemoveFirst(q, d)

Next == damaged' \/ \E d \in Data : Enters(d) \/ Leaves(d)

Spec == Init /\ [][Next]_q
=============================================================================
