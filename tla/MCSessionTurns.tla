--------------------------- MODULE MCSessionTurns ---------------------------
(* Small instances of SessionTurns. *)
EXTENDS SessionTurns, TLC

CONSTANTS a1, a2

MCAgents == {a1, a2}
MCBoth == BOOLEAN
MCInPlace == {FALSE}
MCRotation == {TRUE}
Symmetry == Permutations(MCAgents)
=============================================================================
