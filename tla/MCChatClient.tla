---------------------------- MODULE MCChatClient ----------------------------
(***************************************************************************)
(* An instance of ChatClient for TLC.                                      *)
(***************************************************************************)
EXTENDS ChatClient, TLC

CONSTANTS n1, n2, l1, l2

Names     == {n1, n2}
Tabs      == 0 .. 1
Listeners == {l1, l2}
=============================================================================
