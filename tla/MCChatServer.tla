---------------------------- MODULE MCChatServer ----------------------------
(***************************************************************************)
(* Instances of ChatServer for TLC: two placements of the session names in *)
(* the buckets, what the clients of a run do, and the symmetries.          *)
(***************************************************************************)
EXTENDS ChatServer, TLC

CONSTANTS c1, c2, u1, u2, n1, n2, f1, f2

TwoConns == {c1, c2}
TwoUsers == {u1, u2}
TwoNames == {n1, n2}
TwoSockets == {f1, f2}

(* hash depends on the last character of a name only, so names such as     *)
(* `ab' and `cb' always share a bucket.                                    *)
Colliding == [n \in Name |-> 0]
Distinct  == n1 :> 1 @@ n2 :> 2

AllActs     == {"LOGIN", "EXIT", "JOIN", "LEAVE_SESS", "NEW_SESS", "QUERY",
                "MESSAGE", "QUIT", "REJOIN"}
TableActs   == {"LOGIN", "EXIT", "JOIN", "LEAVE_SESS", "NEW_SESS", "QUIT"}
ThreadActs  == {"LOGIN", "EXIT", "JOIN", "NEW_SESS", "QUIT"}
NoLeaveActs == AllActs \ {"LEAVE_SESS"}
OrderlyActs == AllActs \ {"LEAVE_SESS", "QUIT", "REJOIN"}

ConnUserSymmetry ==
  Permutations(Conn) \cup Permutations(User) \cup Permutations(Socket)
Symmetry == ConnUserSymmetry \cup Permutations(Name)
=============================================================================
