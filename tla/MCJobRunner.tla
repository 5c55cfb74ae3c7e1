----------------------------- MODULE MCJobRunner -----------------------------
(***************************************************************************)
(* Small instances of JobRunner.                                            *)
(***************************************************************************)
EXTENDS JobRunner, TLC

CONSTANTS r1, r2, j1, j2, j3, t1, t2, c1, c2, c3, c4

OneRunner  == {r1}
TwoRunners == {r1, r2}
TwoJobs    == {j1, j2}
ThreeJobs  == {j1, j2, j3}
OneTurn    == {t1}
OneCall    == {c1}
ThreeCalls == {c1, c2, c3}
FourCalls  == {c1, c2, c3, c4}
FourthCall == {c4}
OtherCall  == {c2}
ThirdCall  == {c3}
NoCalls    == {}

AllModes        == {"review", "workspace", "read_only"}
WorkspaceOnly   == {"workspace"}
ReviewOnly      == {"review"}

\* Turn ids and processes are interchangeable; job ids are given out in order.
Symmetry == Permutations(Turns) \cup Permutations(Runners)
=============================================================================
