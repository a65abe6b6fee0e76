---------------------------- MODULE MCMigrations ----------------------------
(* Two replicas and two operators, who go to an older revision or to the latest. *)
EXTENDS Migrations

Symmetry == Permutations(Replicas) \cup Permutations(Operators)

=============================================================================
