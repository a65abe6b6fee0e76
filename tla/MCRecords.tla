----------------------------- MODULE MCRecords -----------------------------
(* Two workspaces, each with a document and an exchange of its own; the    *)
(* first also has a review item.                                           *)
EXTENDS Records

CONSTANTS w, v, d1, d2, x1, x2, i1, r1

Homes == [e \in Documents \cup Exchanges \cup Items |-> IF e \in {d2, x2} THEN v ELSE w]
SomeTexts == {<< >>, << 1 >>, << 2, 1 >>}

=============================================================================
