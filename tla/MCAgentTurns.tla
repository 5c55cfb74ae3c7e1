----------------------------- MODULE MCAgentTurns -----------------------------
(***************************************************************************)
(* A small instance of AgentTurns: one turn with two calls.                 *)
(***************************************************************************)
EXTENDS AgentTurns, TLC

CONSTANTS t1, c1, c2, main

OneTurn    == {t1}
OneThread  == {main}
TurnThread == (t1 :> main)
TwoCalls   == {c1, c2}
=============================================================================
