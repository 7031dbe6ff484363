---------------------------- MODULE MCNavMessage ----------------------------
(* Model-checking instance of NavMessage: the Message Assembler fed with   *)
(* every sequence of up to MaxSubframes subframes, across one reset.       *)
EXTENDS NavMessage

MCTowFields == {0, 1, 131071}
MCMsgIds == {0, 9, 11, 26}
=============================================================================
