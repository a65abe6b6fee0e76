----------------------------- MODULE MCReviews -----------------------------
(* One item without an original value or one with it, three decision       *)
(* requests, two users.                                                    *)
EXTENDS Reviews, TLC

CONSTANTS i1, d1, d2, d3, alice, bob, v0, v1

OneItem       == {i1}
ThreeRequests == {d1, d2, d3}
TwoRequests   == {d1, d2}
TwoUsers      == {alice, bob}
OneUser       == {alice}
TwoValues     == {v0, v1}
OriginalNull  == i1 :> Null
OriginalV0    == i1 :> v0

RequestSymmetry == Permutations({d1, d2, d3})
=============================================================================
