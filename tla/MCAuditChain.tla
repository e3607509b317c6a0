---------------------------- MODULE MCAuditChain ----------------------------
(* Instances of AuditChain for TLC. *)
EXTENDS AuditChain, TLC

CONSTANTS t1, t2, t3, t4

ThreeTxns == {t1, t2, t3}
FourTxns == {t1, t2, t3, t4}

\* Transactions differ only in their identity.
Symmetry == Permutations(Txns)
=============================================================================
