---------------------------- MODULE PolicyEngine ----------------------------
(***************************************************************************)
(* What the policy engine answers (control_plane/policy/engine.py): which  *)
(* policies match, how their effects combine and which obligations come    *)
(* with the outcome.  Evaluation is pure, so this module has no state.     *)
(*                                                                         *)
(* A policy is a record                                                    *)
(*   key, priority  numbers; keys stand for the order of the strings,      *)
(*   effect         an element of Effects,                                 *)
(*   match          the set of the questions its match tree accepts,       *)
(*   obligations    a set of obligations, empty for a deny.                *)
(* An obligation is a record whose field type is an element of             *)
(* KNOWN_OBLIGATIONS; the other fields are its parameters (Routing and     *)
(* DecisionPoint read them).                                               *)
(***************************************************************************)
EXTENDS Integers

CONSTANTS Algorithm,      \* how matching effects combine
          DefaultEffect   \* the effect when nothing matches

Effects == {"allow", "require_approval", "deny"}
EFFECT_RANK == [allow |-> 0, require_approval |-> 1, deny |-> 2]
KNOWN_OBLIGATIONS == {"redact", "limit", "watermark", "route", "require_purpose"}
CONTROL_PLANE_OBLIGATIONS == {"redact"}

ASSUME AlgorithmAssumption ==
  Algorithm \in {"deny_overrides", "priority_ordered", "permit_overrides"}
ASSUME DefaultAssumption == DefaultEffect \in Effects

----------------------------------------------------------------------------
Matched(policies, question) == {p \in policies : question \in p.match}

EffectsOf(policies) == {p.effect : p \in policies}

(* The order of max(..., key = (priority, key)).                           *)
Stronger(p, q) ==
  \/ p.priority > q.priority
  \/ p.priority = q.priority /\ p.key > q.key

Strongest(policies) ==
  CHOOSE p \in policies : \A q \in policies \ {p} : Stronger(p, q)

(* Priority first; among equals the safest effect, then the key.           *)
Outranks(p, q) ==
  \/ p.priority > q.priority
  \/ /\ p.priority = q.priority
     /\ \/ EFFECT_RANK[p.effect] > EFFECT_RANK[q.effect]
        \/ EFFECT_RANK[p.effect] = EFFECT_RANK[q.effect] /\ p.key > q.key

Overrides(e, f) ==
  CASE Algorithm = "permit_overrides" -> EFFECT_RANK[e] <= EFFECT_RANK[f]
    [] OTHER                          -> EFFECT_RANK[e] >= EFFECT_RANK[f]

(* Mutant: the highest priority decides under every algorithm. *)
BugPriorityDecides(matched) ==
  IF matched = {} THEN DefaultEffect ELSE Strongest(matched).effect

CombinedEffect(matched) ==
  CASE matched = {} -> DefaultEffect
    [] matched # {} /\ Algorithm = "priority_ordered" ->
         (CHOOSE p \in matched : \A q \in matched \ {p} : Outranks(p, q)).effect
    [] OTHER ->
         CHOOSE e \in EffectsOf(matched) : \A f \in EffectsOf(matched) : Overrides(e, f)

UnionObligations(policies) == UNION {p.obligations : p \in policies}

(* Mutant: the determining policy's obligations replace the others'. *)
BugDeterminingOnly(matched, effect) ==
  LET winners == {p \in matched : p.effect = effect}
  IN  IF effect = "deny" \/ winners = {} THEN {} ELSE Strongest(winners).obligations

CollectObligations(matched, effect) ==
  IF effect = "deny" THEN {}
  ELSE UnionObligations({p \in matched : p.effect = effect})

evaluate(policies, question) ==
  LET matched == Matched(policies, question)
      effect  == CombinedEffect(matched)
  IN  [effect      |-> effect,
       obligations |-> CollectObligations(matched, effect),
       matched     |-> {p.key : p \in matched}]

(* Mutant: only the policies that parked the request bind it. *)
BugParkersOnly(policies, keys) ==
  UnionObligations({p \in policies : p.key \in keys /\ p.effect = "require_approval"})

(* The obligations of a parked decision that a human has approved.         *)
obligations_for(policies, keys) ==
  UnionObligations({p \in policies : p.key \in keys /\ p.effect # "deny"})
=============================================================================
