------------------------- MODULE MCAuditVerification -------------------------
(* AuditVerification for TLC. *)
EXTENDS AuditVerification, TLC

CONSTANTS t1, t2, t3, a1, a2

ThreeTxns    == {t1, t2, t3}
TwoActors    == {a1, a2}
OnePerStream == (a1 :> 0) @@ (a2 :> 1)

Interchangeable == Permutations(Txns)
=============================================================================
