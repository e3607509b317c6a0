-------------------------- MODULE MCEvidenceStore ---------------------------
(* Instances of EvidenceStore for TLC. *)
EXTENDS EvidenceStore, TLC

\* Calls of callers with the same role differ only in their identity.
Symmetry == Permutations(Calls \ Regulated)
=============================================================================
