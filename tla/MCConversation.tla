---------------------------- MODULE MCConversation ----------------------------
(***************************************************************************)
(* Small instances of Conversation.                                          *)
(***************************************************************************)
EXTENDS Conversation, TLC

CONSTANTS w1, w2, c1, c2

TwoThreads == {w1, w2}
TwoCalls   == {c1, c2}

OnlySecond == {2}

AllVerdicts == {"allow", "ask", "deny"}
=============================================================================
