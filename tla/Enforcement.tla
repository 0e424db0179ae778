---------------------------- MODULE Enforcement ----------------------------
(***************************************************************************)
(* What an enforcement point makes of a decision it was given: Decision    *)
(* in sdk/python/control_plane_sdk/client.py, shared by the proxies.       *)
(***************************************************************************)
EXTENDS DecisionPoint, FiniteSetsExt, SequencesExt

SATISFIED_BY_CONTROL_PLANE == {"redact"}

(* The duties nobody in this exchange will carry out: an enforcement point *)
(* that finds one refuses what it was allowed (ObligationUnsatisfied).     *)
outstanding(decision, can_satisfy) ==
  Types(decision.obligations)
    \ ((SATISFIED_BY_CONTROL_PLANE \ decision.unsupported) \union can_satisfy)

Clean(text, decision) ==
  \A o \in Of("redact", decision.obligations) : Range(text) \intersect o.covers = {}
=============================================================================
