------------------------- MODULE MCRepositoryWrite --------------------------
(* Instances of RepositoryWrite for TLC. *)
EXTENDS RepositoryWrite, TLC

Symmetry == Permutations(Txns) \cup Permutations(Rows)
=============================================================================
