---------------------------- MODULE MCConference ----------------------------
(***************************************************************************)
(* An instance of Conference for TLC: two members, one of whom is in the   *)
(* session twice, and a client that joins.                                 *)
(***************************************************************************)
EXTENDS Conference, TLC

CONSTANTS c1, c2, c3

Clients == {c1, c2, c3}
Members == <<c1, c2, c1>>
Talk == c1 :> <<"MESSAGE", "MESSAGE">> @@ c2 :> <<"MESSAGE">> @@ c3 :> <<"JOIN", "EXIT">>
=============================================================================
