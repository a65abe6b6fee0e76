------------------------------ MODULE MCQuery ------------------------------
(* Interchangeable queries in one chat session, over one document. *)
EXTENDS Query, TLC

CONSTANTS q1, q2, q3, d1, s1

OneQuery     == {q1}
OtherQuery   == {q2}
TwoQueries   == {q1, q2}
ThreeQueries == {q1, q2, q3}
OneDocument  == {d1}
OneSession   == {s1}

Symmetry == Permutations({q1, q2, q3})
=============================================================================
