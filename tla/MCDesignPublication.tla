-------------------------- MODULE MCDesignPublication --------------------------
(***************************************************************************)
(* Small instances of DesignPublication.                                     *)
(***************************************************************************)
EXTENDS DesignPublication, TLC

CONSTANTS q1, q2, x1, x2

TwoRequests     == {q1, q2}
TwoTransactions == {x1, x2}

\* Requests and transaction ids are interchangeable.
Symmetry == Permutations(Requests) \cup Permutations(Transactions)
=============================================================================
