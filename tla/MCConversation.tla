---------------------------- MODULE MCConversation ----------------------------
(***************************************************************************)
(* Conversation on small instances: a socket that takes a line and a half, *)
(* an output buffer of two lines, and up to six commands, so that answers *)
(* are split, stored, and at the limit given up.  One client goes on after *)
(* its QUIT.                                                               *)
(***************************************************************************)
EXTENDS Conversation

Orders == {<<"order", "order">>, <<"order", "order", "order">>}
Quits == {<<"order", "order", "QUIT">>, <<"order", "QUIT", "order", "order", "order">>}
MCScripts == {<<"order", "order">>} \cup Quits
=============================================================================
