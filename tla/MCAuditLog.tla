----------------------------- MODULE MCAuditLog -----------------------------
(***************************************************************************)
(* AuditLog for TLC.  Two streams and two actors, one on each, are what it *)
(* takes for two parking decisions to want the same two locks in opposite  *)
(* orders.                                                                 *)
(***************************************************************************)
EXTENDS AuditLog, TLC

CONSTANTS t1, t2, t3, a1, a2

Txns3 == {t1, t2, t3}
TwoActors == {a1, a2}
OnePerStream == (a1 :> 0) @@ (a2 :> 1)
=============================================================================
