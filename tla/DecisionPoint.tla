--------------------------- MODULE DecisionPoint ---------------------------
(***************************************************************************)
(* The contents of a decision: the stages of PolicyDecisionPoint.decide    *)
(* (control_plane/pdp.py) that turn a payload into a question, the         *)
(* engine's answer into a decision the plane can stand behind, and the     *)
(* decision into a response.  Approvals has the recording of decisions and *)
(* the tickets; here no ticket is presented.                               *)
(*                                                                         *)
(* A payload is a sequence of pieces of text, each of them "plain",        *)
(* "masked" or carrying one of the labels the detectors know.  Beyond the  *)
(* fields of Routing an obligation has                                     *)
(*   covers    the labels a redact rewrites,                               *)
(*   tokenize  whether its strategy is tokenize.                           *)
(***************************************************************************)
EXTENDS PolicyEngine, Routing, Sequences

CONSTANTS Actions,       \* what may be asked about
          Labels,        \* what the detectors can find
          ScanLimit,     \* CP_MAX_SCAN_CHARS, in pieces
          HasTokenizer,  \* CP_TOKENIZATION_KEY is set
          Models         \* the registered models

ASSUME ScanAssumption == ScanLimit \in Nat /\ HasTokenizer \in BOOLEAN

ASSUME LabelsAssumption == Labels \intersect {"plain", "masked"} = {}

Piece == {"plain", "masked"} \union Labels

(* What a policy can match on: the action and what the scan found.         *)
Question == [action : Actions, findings : SUBSET Labels, payload_truncated : BOOLEAN]

NoRoute == "none"

ASSUME ModelsAssumption ==
  \A m \in Models : m.rank \in Nat /\ m.urn \notin {NoRoute, Unsatisfiable}

----------------------------------------------------------------------------
Scanned(text) == {i \in DOMAIN text : i <= ScanLimit}

Truncated(text) == Len(text) > ScanLimit

Ask(action, text) ==
  [action            |-> action,
   findings          |-> {text[i] : i \in Scanned(text)} \intersect Labels,
   payload_truncated |-> Truncated(text)]

Of(type, obligations) == {o \in obligations : o.type = type}
Types(obligations)    == {o.type : o \in obligations}

Denied == [effect |-> "deny", obligations |-> {}]

guard_tokenization(decision) ==
  IF /\ ~HasTokenizer
     /\ \E o \in Of("redact", decision.obligations) : o.tokenize
  THEN Denied ELSE decision

(* The decision and the URN a route was resolved to.                       *)
resolve_routing(decision, original) ==
  LET routes == Of("route", decision.obligations)
      target == resolve(routes, original, Models)
  IN  IF routes = {} THEN <<decision, NoRoute>>
      ELSE IF target = Unsatisfiable THEN <<Denied, NoRoute>>
      ELSE <<decision, target>>

(* Only findings are rewritten, and only the scanned part has any.         *)
Redacted(text, obligations) ==
  [i \in DOMAIN text |->
     IF i \in Scanned(text) /\ \E o \in Of("redact", obligations) : text[i] \in o.covers
     THEN "masked" ELSE text[i]]

(* Mutant: the pass counts as run when only the head was read. *)
BugTruncatedCounts(decision, text) == decision.effect = "allow"

RanRedaction(decision, text) == decision.effect = "allow" /\ ~Truncated(text)

build_response(decision, target, text) ==
  LET discharged == IF RanRedaction(decision, text) THEN CONTROL_PLANE_OBLIGATIONS ELSE {}
  IN  [effect      |-> decision.effect,
       obligations |-> decision.obligations,
       unsupported |-> Types(decision.obligations) \ discharged,
       resolved    |-> target,
       payload     |-> IF decision.effect = "allow"
                       THEN Redacted(text, decision.obligations) ELSE <<>>]

(* One decision, end to end: evaluate, guard, route, respond.              *)
decide(policies, action, text, original) ==
  LET answer  == evaluate(policies, Ask(action, text))
      guarded == guard_tokenization([effect |-> answer.effect, obligations |-> answer.obligations])
      routed  == resolve_routing(guarded, original)
  IN  build_response(routed[1], routed[2], text)

(* What the enforcement point's client answers by itself when the control  *)
(* plane cannot be reached or rejects it.                                  *)
Denial == build_response(Denied, NoRoute, <<>>)
=============================================================================
