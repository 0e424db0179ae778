------------------------------ MODULE Routing ------------------------------
(***************************************************************************)
(* The model router (control_plane/routing/router.py).  A model is a       *)
(* record                                                                  *)
(*   urn         a string,                                                 *)
(*   rank        its place in the order of (routing_priority, urn),        *)
(*   enabled     routing_enabled,                                          *)
(*   names       what it answers to: its URN, its name, its aliases,       *)
(*   attributes  the set of the <<attribute, value>> it declares,          *)
(* and a route obligation has the fields                                   *)
(*   to       the set of the names it asks for: one, or none,              *)
(*   require  the set of its <<attribute, set of acceptable values>>.      *)
(***************************************************************************)
EXTENDS Integers, FiniteSets

(* No model satisfies the obligations: RoutingUnsatisfiable, or a          *)
(* RoutingDecision without a target.                                       *)
Unsatisfiable == "unsatisfiable"

(* Mutant: what one obligation accepts is acceptable. *)
BugEitherWins(routes, attribute) ==
  UNION {r[2] : r \in {q \in UNION {o.require : o \in routes} : q[1] = attribute}}

(* The values acceptable to every obligation that constrains attribute:    *)
(* what _intersect leaves of them.                                         *)
Acceptable(routes, attribute) ==
  LET demands == {r[2] : r \in {q \in UNION {o.require : o \in routes} : q[1] = attribute}}
  IN  {v \in UNION demands : \A d \in demands : v \in d}

Constrained(routes) == {r[1] : r \in UNION {o.require : o \in routes}}

Satisfies(model, routes) ==
  \A a \in Constrained(routes) :
    \E v \in Acceptable(routes, a) : <<a, v>> \in model.attributes

resolve(routes, original, models) ==
  LET requested == UNION {o.to : o \in routes}
      viable    == {m \in models : m.enabled /\ requested \subseteq m.names /\ Satisfies(m, routes)}
      staying   == {m \in viable : m.urn = original}
  IN  IF Cardinality(requested) > 1 \/ viable = {} THEN Unsatisfiable
      ELSE IF staying # {} THEN original
      ELSE (CHOOSE m \in viable : \A n \in viable : m.rank <= n.rank).urn
=============================================================================
