------------------------ MODULE MCWorkspaceLifecycle ------------------------
(* Two owners' requests of each kind.                                      *)
EXTENDS WorkspaceLifecycle, TLC

CONSTANTS q1, q2, m1, m2

TwoDeletionRequests == {q1, q2}
TwoMarkRequests     == {m1, m2}

RequestSymmetry == Permutations({q1, q2}) \cup Permutations({m1, m2})
=============================================================================
