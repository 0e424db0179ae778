--------------------------- MODULE PayloadProofs ----------------------------
(***************************************************************************)
(* Proofs about what becomes of prompts and answers.  ChatProxy: for every *)
(* set of policies, models, prompts and answers, first what the policy     *)
(* engine promises, then what the proxy does with its decisions.           *)
(* StreamGovernor: for every answer, window and length of a value, first   *)
(* which part of a governed text no continuation changes, then what a      *)
(* stream lets out.  Redaction: for every payload, set of detectors and    *)
(* list of rules, first what arbitration, the editing of a text and the    *)
(* pointers of its leaves do, then what is left of a payload.              *)
(***************************************************************************)
EXTENDS ChatProxy, StreamGovernor, Redaction, EnforcementProofs

LEMMA Ranks ==
  /\ EFFECT_RANK["allow"] = 0 /\ EFFECT_RANK["require_approval"] = 1 /\ EFFECT_RANK["deny"] = 2
  /\ \A e \in Effects : EFFECT_RANK[e] \in 0 .. 2
BY DEF EFFECT_RANK, Effects

(* The policies in force are always some of the rules.                     *)
LEMMA StoredInv == Spec => [](stored \subseteq Rules)
<1>1. Init => stored \subseteq Rules
  BY DEF Init
<1>2. stored \subseteq Rules /\ [Next]_vars => (stored \subseteq Rules)'
  BY DEF Next, vars, DecideInbound, InboundUnavailable, RefuseInbound, Send, SendFails,
         DecideOutbound, OutboundUnavailable, RefuseOutbound, EnforceOutbound, Deliver, EditPolicies
<1> QED BY <1>1, <1>2, PTL DEF Spec

(* Under deny overrides the outcome is the strictest effect that matched.  *)
LEMMA StrictestWins ==
  ASSUME Algorithm = "deny_overrides",
         NEW M \in SUBSET Rules, M # {}
  PROVE  /\ CombinedEffect(M) \in EffectsOf(M)
         /\ \A e \in EffectsOf(M) : EFFECT_RANK[CombinedEffect(M)] >= EFFECT_RANK[e]
<1> DEFINE E == EffectsOf(M)
           Top(e) == \A f \in E : Overrides(e, f)
<1>1. E \subseteq Effects /\ E # {}
  BY RulesAssumption DEF EffectsOf
<1>2. CombinedEffect(M) = CHOOSE e \in E : Top(e)
  BY Zenon DEF CombinedEffect
<1>3. \A e, f \in E : Overrides(e, f) <=> EFFECT_RANK[e] >= EFFECT_RANK[f]
  BY DEF Overrides
<1>4. \E e \in E : Top(e)
  <2>1. CASE "deny" \in E
    BY <1>1, <1>3, <2>1, Ranks DEF Effects
  <2>2. CASE "deny" \notin E /\ "require_approval" \in E
    BY <1>1, <1>3, <2>2, Ranks DEF Effects
  <2>3. CASE "deny" \notin E /\ "require_approval" \notin E
    BY <1>1, <1>3, <2>3, Ranks DEF Effects
  <2> QED BY <2>1, <2>2, <2>3
<1>5. CombinedEffect(M) \in E /\ Top(CombinedEffect(M))
  <2> HIDE DEF Top, E
  <2> QED BY <1>2, <1>4
<1> QED BY <1>3, <1>5

(* A policy put in force makes no answer looser and drops no duty, under   *)
(* deny overrides, the algorithm every live decision is made with          *)
(* (PolicyStore.build_engine).                                             *)
THEOREM StricterOnly ==
  ASSUME Algorithm = "deny_overrides"
  PROVE  Spec => []MoreRulesNeverLoosen
<1>1. stored \subseteq Rules => MoreRulesNeverLoosen
  <2> SUFFICES ASSUME stored \subseteq Rules, NEW rule \in Rules, NEW question \in Question,
                      evaluate(stored, question).matched # {}
               PROVE  LET before == evaluate(stored, question)
                          after  == evaluate(stored \union {rule}, question)
                      IN  /\ EFFECT_RANK[after.effect] >= EFFECT_RANK[before.effect]
                          /\ after.effect = before.effect =>
                               before.obligations \subseteq after.obligations
    BY DEF MoreRulesNeverLoosen
  <2> DEFINE M == Matched(stored, question)
             N == Matched(stored \union {rule}, question)
  <2>1. M \in SUBSET Rules /\ N \in SUBSET Rules /\ M \subseteq N
    BY DEF Matched
  <2>2. M # {}
    BY DEF evaluate
  <2>3. CombinedEffect(M) \in EffectsOf(N)
    BY StrictestWins, <2>1, <2>2 DEF EffectsOf
  <2>4. EFFECT_RANK[CombinedEffect(N)] >= EFFECT_RANK[CombinedEffect(M)]
    <3> HIDE DEF M, N
    <3> QED BY StrictestWins, <2>1, <2>2, <2>3
  <2>5. \A e : CollectObligations(M, e) \subseteq CollectObligations(N, e)
    BY <2>1 DEF CollectObligations, UnionObligations
  <2>6. /\ evaluate(stored, question).effect = CombinedEffect(M)
        /\ evaluate(stored, question).obligations = CollectObligations(M, CombinedEffect(M))
        /\ evaluate(stored \union {rule}, question).effect = CombinedEffect(N)
        /\ evaluate(stored \union {rule}, question).obligations
             = CollectObligations(N, CombinedEffect(N))
    BY DEF evaluate
  <2> HIDE DEF M, N
  <2> QED BY <2>4, <2>5, <2>6
<1> QED BY <1>1, StoredInv, PTL

(* An approved request carries the duties of everything that matched, and  *)
(* nothing else, under every algorithm.                                    *)
THEOREM ApprovedRequestsKeepTheirDuties == Spec => []RedeemingShedsNothing
<1>1. stored \subseteq Rules => RedeemingShedsNothing
  <2> SUFFICES ASSUME stored \subseteq Rules, NEW question \in Question
               PROVE  obligations_for(stored, evaluate(stored, question).matched)
                        = UnionObligations(Matched(stored, question))
    BY DEF RedeemingShedsNothing
  <2> DEFINE keys == evaluate(stored, question).matched
  <2>1. keys = {p.key : p \in Matched(stored, question)}
    BY DEF evaluate
  <2>2. \A p \in stored : p.key \in keys <=> p \in Matched(stored, question)
    BY <2>1, RulesAssumption DEF Matched
  <2>3. \A p \in Matched(stored, question) : p.effect = "deny" => p.obligations = {}
    BY RulesAssumption DEF Matched
  <2>4. Matched(stored, question) \subseteq stored
    BY DEF Matched
  <2> DEFINE binding == {p \in stored : p.key \in keys /\ p.effect # "deny"}
  <2> HIDE DEF keys
  <2>5. \A o : (\E p \in binding : o \in p.obligations)
                <=> (\E p \in Matched(stored, question) : o \in p.obligations)
    BY <2>2, <2>3, <2>4
  <2>6. UnionObligations(binding) = UnionObligations(Matched(stored, question))
    <3> HIDE DEF binding
    <3> QED BY <2>5 DEF UnionObligations
  <2> QED BY <2>6 DEF obligations_for, keys, binding
<1> QED BY <1>1, StoredInv, PTL

----------------------------------------------------------------------------
(* What the record says.                                                   *)

(* Before Send nothing has gone out and no outcome but silence or a        *)
(* refusal is recorded; after it something has.                            *)
Progress ==
  /\ outcome = [inbound |-> outcome.inbound, outbound |-> outcome.outbound]
  /\ pc \in {"decide", "enforce"} => upstream = Nothing
  /\ pc \in {"return", "enforce answer", "deliver", "done"} => upstream # Nothing
  /\ outcome.inbound = "enforced" => upstream # Nothing
  /\ pc \in {"decide", "enforce", "return", "enforce answer"} => outcome.outbound = "none"
  /\ outcome.outbound = "enforced" => pc \in {"deliver", "done"}
  /\ outcome.outbound = "refused" => pc = "denied"
  /\ delivered # Nothing => pc = "done"

LEMMA ProgressInv == Spec => []Progress
<1>1. Init => Progress
  BY DEF Init, Progress, Nothing
<1>2. Progress /\ [Next]_vars => Progress'
  <2> SUFFICES ASSUME Progress, [Next]_vars PROVE Progress'
    OBVIOUS
  <2> USE DEF Progress, Nothing
  <2>1. CASE DecideInbound
    BY <2>1 DEF DecideInbound
  <2>2. CASE InboundUnavailable
    BY <2>2 DEF InboundUnavailable
  <2>3. CASE RefuseInbound
    BY <2>3 DEF RefuseInbound, Reported
  <2>4. CASE Send
    BY <2>4 DEF Send, Reported
  <2>5. CASE SendFails
    BY <2>5 DEF SendFails, Reported
  <2>6. CASE DecideOutbound
    BY <2>6 DEF DecideOutbound
  <2>7. CASE OutboundUnavailable
    BY <2>7 DEF OutboundUnavailable
  <2>8. CASE RefuseOutbound
    BY <2>8 DEF RefuseOutbound, Reported
  <2>9. CASE EnforceOutbound
    BY <2>9 DEF EnforceOutbound, Reported
  <2>10. CASE Deliver
    BY <2>10 DEF Deliver
  <2>11. CASE EditPolicies
    BY <2>11 DEF EditPolicies
  <2>12. CASE UNCHANGED vars
    BY <2>12 DEF vars
  <2> QED BY <2>1, <2>2, <2>3, <2>4, <2>5, <2>6, <2>7, <2>8, <2>9, <2>10, <2>11, <2>12 DEF Next
<1> QED BY <1>1, <1>2, PTL DEF Spec

(* An outcome recorded as enforced happened, and a refused answer was not  *)
(* delivered.                                                              *)
THEOREM RecordsAreTrue == Spec => []EnforcedIsTrue
<1>1. Progress => EnforcedIsTrue
  BY DEF Progress, EnforcedIsTrue
<1> QED BY <1>1, ProgressInv, PTL

----------------------------------------------------------------------------
(* Lemmas about caps and routes.                                           *)

(* The tightest of several caps is below each of them.                     *)
LEMMA TightestBelow ==
  ASSUME NEW caps \in SUBSET Nat, NEW n \in caps
  PROVE  \E c \in Nat : Tightest(caps) = {c} /\ c <= n
<1>1. PICK c \in caps : \A m \in caps : c <= m
  BY LeastOf
<1>2. Min(caps) \in caps /\ \A m \in caps : Min(caps) <= m
  BY <1>1 DEF Min
<1> QED BY <1>2 DEF Tightest

LEMMA TightestIsACap ==
  ASSUME NEW caps \in SUBSET Nat
  PROVE  Tightest(caps) \in SUBSET Nat
<1>1. CASE caps = {}
  BY <1>1 DEF Tightest
<1>2. CASE caps # {}
  <2>1. PICK n \in caps : TRUE
    BY <1>2
  <2>2. PICK c \in Nat : Tightest(caps) = {c}
    BY TightestBelow
  <2> QED BY <2>2
<1> QED BY <1>1, <1>2

Capped(obligations) ==
  \A o \in obligations : \A k \in LimitKeys : o.limits[k] \subseteq Nat

LEMMA CapBelow ==
  ASSUME NEW obligations, Capped(obligations), NEW key \in LimitKeys,
         NEW o \in obligations, o.type = "limit", NEW n \in o.limits[key]
  PROVE  \E c \in Nat : Cap(key, obligations) = {c} /\ c <= n
<1> DEFINE caps == UNION {p.limits[key] : p \in Of("limit", obligations)}
<1>1. caps \in SUBSET Nat /\ n \in caps
  BY DEF Capped, Of
<1> HIDE DEF caps
<1>2. \E c \in Nat : Tightest(caps) = {c} /\ c <= n
  BY <1>1, TightestBelow
<1> QED BY <1>2 DEF Cap, caps

LEMMA CapIsACap ==
  ASSUME NEW obligations, Capped(obligations), NEW key \in LimitKeys
  PROVE  Cap(key, obligations) \in SUBSET Nat
<1> DEFINE caps == UNION {p.limits[key] : p \in Of("limit", obligations)}
<1>1. caps \in SUBSET Nat
  BY DEF Capped, Of
<1> HIDE DEF caps
<1>2. Tightest(caps) \in SUBSET Nat
  BY <1>1, TightestIsACap
<1> QED BY <1>2 DEF Cap, caps

(* The router's target meets every route obligation taken by itself.       *)
LEMMA TargetServes ==
  ASSUME NEW routes, NEW original, resolve(routes, original, Models) # Unsatisfiable
  PROVE  \E m \in Models : m.urn = resolve(routes, original, Models)
                            /\ \A o \in routes : Serves(m, o)
<1> DEFINE requested == UNION {o.to : o \in routes}
           viable    == {m \in Models : m.enabled /\ requested \subseteq m.names
                                         /\ Satisfies(m, routes)}
           best      == CHOOSE m \in viable : \A n \in viable : m.rank <= n.rank
<1>1. viable # {} /\ ~ (Cardinality(requested) > 1)
  BY DEF resolve
<1>2. best \in viable
  <2>1. PICK r \in {m.rank : m \in viable} : \A q \in {m.rank : m \in viable} : r <= q
    <3> DEFINE ranks == {m.rank : m \in viable}
    <3>1. ranks \in SUBSET Nat /\ ranks # {}
      BY <1>1, ModelsAssumption
    <3> QED BY <3>1, LeastOf
  <2>2. \E m \in viable : \A n \in viable : m.rank <= n.rank
    BY <2>1
  <2> HIDE DEF viable
  <2> QED BY <2>2
<1>3. \E m \in viable : m.urn = resolve(routes, original, Models)
  <2> DEFINE staying == {m \in viable : m.urn = original}
  <2>1. resolve(routes, original, Models) = IF staying # {} THEN original ELSE best.urn
    BY <1>1 DEF resolve
  <2> HIDE DEF viable, best
  <2>2. CASE staying # {}
    BY <2>1, <2>2
  <2>3. CASE staying = {}
    BY <1>2, <2>1, <2>3
  <2> QED BY <2>2, <2>3
<1>4. ASSUME NEW m \in viable, NEW o \in routes
      PROVE  Serves(m, o)
  <2>1. o.to \subseteq m.names
    OBVIOUS
  <2>2. ASSUME NEW r \in o.require
        PROVE  \E v \in r[2] : <<r[1], v>> \in m.attributes
    <3>1. r[1] \in Constrained(routes)
      BY DEF Constrained
    <3>2. PICK v \in Acceptable(routes, r[1]) : <<r[1], v>> \in m.attributes
      BY <3>1 DEF Satisfies
    <3>3. v \in r[2]
      BY <3>2 DEF Acceptable
    <3> QED BY <3>2, <3>3
  <2> QED BY <2>1, <2>2 DEF Serves
<1> QED BY <1>3, <1>4

----------------------------------------------------------------------------
(* What a decision promises: its duties are duties of the rules, and a     *)
(* route among them was resolved to a model that serves all of them.       *)
Sound(d) ==
  /\ d.obligations \subseteq UNION {r.obligations : r \in Rules}
  /\ Of("route", d.obligations) # {} =>
       \E m \in Models : m.urn = d.resolved
                          /\ \A o \in Of("route", d.obligations) : Serves(m, o)

LEMMA SoundIsCapped ==
  ASSUME NEW d, Sound(d)
  PROVE  Capped(d.obligations)
BY LimitsAssumption DEF Sound, Capped

LEMMA DenialIsSound == Sound(Denial) /\ Denial.effect = "deny"
BY DEF Sound, Denial, Denied, build_response, Of

LEMMA DecisionsAreSound ==
  ASSUME NEW policies \in SUBSET Rules, NEW action, NEW text, NEW original
  PROVE  Sound(decide(policies, action, text, original))
<1> DEFINE judged  == evaluate(policies, Ask(action, text))
           bare    == [effect |-> judged.effect, obligations |-> judged.obligations]
           guarded == guard_tokenization(bare)
           routes  == Of("route", guarded.obligations)
           routed  == resolve_routing(guarded, original)
           duties  == UNION {r.obligations : r \in Rules}
<1>1. judged.obligations \subseteq duties
  BY DEF evaluate, CollectObligations, UnionObligations, Matched
<1>2. guarded.obligations \subseteq duties
  <2> HIDE DEF judged, duties
  <2> QED BY <1>1 DEF guard_tokenization, Denied
<1> HIDE DEF guarded
<1>3. routed[1].obligations \subseteq duties
      /\ (Of("route", routed[1].obligations) # {} =>
            \E m \in Models : m.urn = routed[2]
                               /\ \A o \in Of("route", routed[1].obligations) : Serves(m, o))
  <2>1. CASE routes = {}
    <3>1. routed = <<guarded, NoRoute>>
      BY <2>1 DEF resolve_routing
    <3> QED BY <1>2, <2>1, <3>1
  <2>2. CASE routes # {} /\ resolve(routes, original, Models) = Unsatisfiable
    <3>1. routed = <<Denied, NoRoute>>
      BY <2>2 DEF resolve_routing
    <3> QED BY <3>1 DEF Denied, Of
  <2>3. CASE routes # {} /\ resolve(routes, original, Models) # Unsatisfiable
    <3>1. routed = <<guarded, resolve(routes, original, Models)>>
      BY <2>3 DEF resolve_routing
    <3>2. \E m \in Models : m.urn = resolve(routes, original, Models)
                             /\ \A o \in routes : Serves(m, o)
      BY <2>3, TargetServes
    <3> QED BY <1>2, <3>1, <3>2
  <2> QED BY <2>1, <2>2, <2>3
<1> HIDE DEF routed, duties
<1>4. LET d == build_response(routed[1], routed[2], text)
      IN  d.obligations = routed[1].obligations /\ d.resolved = routed[2]
  BY DEF build_response
<1>5. decide(policies, action, text, original) = build_response(routed[1], routed[2], text)
  BY DEF decide, routed, guarded
<1> QED BY <1>3, <1>4, <1>5 DEF Sound, duties

(* What goes out obeys the decision it goes out under.                     *)
LEMMA OutgoingObeys ==
  ASSUME Sound(inbound), request.max_tokens \subseteq Nat, ~CannotDischarge,
         NEW o \in inbound.obligations
  PROVE  DutyOnRequest(o, Outgoing)
<1> DEFINE cap  == Cap("max_tokens", inbound.obligations)
           caps == request.max_tokens \union cap
<1>1. Outgoing.max_tokens = Tightest(caps) /\ Outgoing.to = inbound.resolved
  BY DEF Outgoing
<1>2. CASE o.type = "limit"
  <2> SUFFICES ASSUME NEW n \in o.limits.max_tokens
               PROVE  \E c \in Tightest(caps) : c <= n
    BY <1>1, <1>2 DEF DutyOnRequest, Meets
  <2>1. Capped(inbound.obligations) /\ "max_tokens" \in LimitKeys
    BY SoundIsCapped DEF LimitKeys
  <2>2. n \in o.limits["max_tokens"] /\ n \in Nat
    BY <2>1 DEF Capped
  <2>3. PICK c \in Nat : cap = {c} /\ c <= n
    BY <1>2, <2>1, <2>2, CapBelow
  <2>4. caps \in SUBSET Nat /\ c \in caps
    BY <2>3
  <2> HIDE DEF caps
  <2>5. PICK b \in Nat : Tightest(caps) = {b} /\ b <= c
    BY <2>4, TightestBelow
  <2> QED BY <2>2, <2>3, <2>5
<1>3. CASE o.type = "require_purpose"
  BY <1>3 DEF CannotDischarge, check_purpose, Of, DutyOnRequest
<1>4. CASE o.type = "route"
  <2>1. o \in Of("route", inbound.obligations)
    BY <1>4 DEF Of
  <2>2. \E m \in Models : m.urn = Outgoing.to /\ Serves(m, o)
    BY <1>1, <2>1 DEF Sound
  <2> QED BY <1>4, <2>2 DEF DutyOnRequest
<1>5. CASE o.type \notin {"limit", "require_purpose", "route"}
  BY <1>5 DEF DutyOnRequest
<1> QED BY <1>2, <1>3, <1>4, <1>5

(* The inductive invariant behind SentAsDecided: SentAsDecided speaks of   *)
(* what has been sent, Sound(inbound) of what may be.                      *)
RequestInv ==
  /\ stored \subseteq Rules
  /\ request.max_tokens \subseteq Nat
  /\ Sound(inbound)
  /\ pc = "decide" => upstream = Nothing
  /\ pc = "enforce" => inbound.effect = "allow"
  /\ SentAsDecided

LEMMA RequestInvInit == Init => RequestInv
<1> SUFFICES ASSUME Init PROVE RequestInv
  OBVIOUS
<1>1. request.max_tokens \subseteq Nat
  BY LimitsAssumption DEF Init
<1>2. SentAsDecided
  BY DEF Init, SentAsDecided, Nothing, Range
<1> QED BY <1>1, <1>2, DenialIsSound DEF Init, RequestInv

LEMMA RequestInvNext == RequestInv /\ [Next]_vars => RequestInv'
<1> SUFFICES ASSUME RequestInv, [Next]_vars PROVE RequestInv'
  OBVIOUS
<1> USE DEF RequestInv
<1>1. ASSUME UNCHANGED <<request, inbound, upstream>>
      PROVE  SentAsDecided'
  BY <1>1 DEF SentAsDecided, DutyOnRequest, Meets, Serves
<1>2. ASSUME UNCHANGED inbound
      PROVE  Sound(inbound)'
  BY <1>2 DEF Sound, Serves, Of
<1>3. ASSUME upstream' = Nothing
      PROVE  SentAsDecided'
  BY <1>3 DEF SentAsDecided, Nothing, Range
<1>4. ASSUME pc = "enforce", ~CannotDischarge, upstream' = <<Outgoing>>,
             UNCHANGED <<request, inbound>>
      PROVE  SentAsDecided'
  <2>1. Range(upstream)' = {Outgoing}
    BY <1>4 DEF Range
  <2>2. SUFFICES ASSUME NEW sent \in Range(upstream)', NEW o \in inbound.obligations
                 PROVE  DutyOnRequest(o, sent)'
    BY <1>4 DEF SentAsDecided
  <2>3. DutyOnRequest(o, Outgoing) /\ sent = Outgoing /\ request' = request
    BY <1>4, <2>1, OutgoingObeys
  <2>4. DutyOnRequest(o, sent)
    BY <2>3
  <2> QED
    BY <2>3, <2>4 DEF DutyOnRequest, Meets, Serves
<1>5. CASE DecideInbound
  <2>1. Sound(inbound)'
    BY <1>5, DecisionsAreSound DEF DecideInbound, Sound, Serves, Of
  <2> QED BY <1>3, <1>5, <2>1 DEF DecideInbound
<1>6. CASE InboundUnavailable
  <2>1. Sound(inbound)'
    BY <1>6, DenialIsSound DEF InboundUnavailable
  <2> QED BY <1>3, <1>6, <2>1 DEF InboundUnavailable
<1>7. CASE RefuseInbound
  BY <1>1, <1>2, <1>7 DEF RefuseInbound
<1>8. CASE Send
  BY <1>2, <1>4, <1>8 DEF Send
<1>9. CASE SendFails
  BY <1>2, <1>3, <1>4, <1>9 DEF SendFails
<1>10. CASE DecideOutbound
  BY <1>1, <1>2, <1>10 DEF DecideOutbound
<1>11. CASE OutboundUnavailable
  BY <1>1, <1>2, <1>11 DEF OutboundUnavailable
<1>12. CASE RefuseOutbound
  BY <1>1, <1>2, <1>12 DEF RefuseOutbound
<1>13. CASE EnforceOutbound
  BY <1>1, <1>2, <1>13 DEF EnforceOutbound
<1>14. CASE Deliver
  BY <1>1, <1>2, <1>14 DEF Deliver
<1>15. CASE EditPolicies
  BY <1>1, <1>2, <1>15 DEF EditPolicies
<1>16. CASE UNCHANGED vars
  BY <1>1, <1>2, <1>16 DEF vars
<1> QED BY <1>5, <1>6, <1>7, <1>8, <1>9, <1>10, <1>11, <1>12, <1>13, <1>14, <1>15, <1>16 DEF Next

LEMMA RequestInvariant == Spec => []RequestInv
BY RequestInvInit, RequestInvNext, PTL DEF Spec

(* No prompt reaches a model against the decision about it.                *)
THEOREM PromptsGoOutAsDecided == Spec => []SentAsDecided
<1>1. RequestInv => SentAsDecided
  BY DEF RequestInv
<1> QED BY <1>1, RequestInvariant, PTL

----------------------------------------------------------------------------
(* The answer: a sequence of choices, each a sequence of pieces.           *)
IsCompletion(c) == \E S : c \in Seq(Seq(S))

LEMMA NobodyThere == Range(Nothing) = {}
BY DEF Range, Nothing

LEMMA OneThere ==
  ASSUME NEW x
  PROVE  Range(<<x>>) = {x}
BY DEF Range

(* The rewritten answer has the shape of an answer, whatever the payload.  *)
LEMMA ChunksAreACompletion ==
  ASSUME NEW choices, IsCompletion(choices), NEW governed
  PROVE  IsCompletion(_replace_completion_text(choices, governed))
<1> DEFINE bits == {governed[i] : i \in DOMAIN choices}
<1>1. PICK T : choices \in Seq(Seq(T))
  BY DEF IsCompletion
<1>2. \A i \in DOMAIN choices : Chunk(governed, i) \in Seq(bits)
  <2> SUFFICES ASSUME NEW i \in DOMAIN choices PROVE Chunk(governed, i) \in Seq(bits)
    OBVIOUS
  <2>1. governed[i] \in bits
    OBVIOUS
  <2> HIDE DEF bits
  <2>2. <<governed[i]>> \in Seq(bits) /\ <<>> \in Seq(bits)
    BY <2>1
  <2> QED BY <2>2 DEF Chunk
<1> HIDE DEF bits
<1>3. _replace_completion_text(choices, governed)
        = [i \in 1 .. Len(choices) |-> Chunk(governed, i)]
  BY <1>1 DEF _replace_completion_text
<1>4. _replace_completion_text(choices, governed) \in Seq(Seq(bits))
  BY <1>1, <1>2, <1>3
<1> QED BY <1>4 DEF IsCompletion

LEMMA ShortenedIsShort ==
  ASSUME NEW S, NEW s \in Seq(S), NEW cap \in SUBSET Nat
  PROVE  Shortened(s, Tightest(cap)) \in Seq(S)
         /\ \A n \in cap : Len(Shortened(s, Tightest(cap))) <= n
<1>1. CASE cap = {}
  BY <1>1 DEF Shortened, Tightest
<1>2. CASE cap # {}
  <2>1. PICK n \in cap : TRUE
    BY <1>2
  <2>2. PICK c \in Nat : Tightest(cap) = {c}
    BY TightestBelow
  <2>3. \A m \in cap : c <= m
    <3> SUFFICES ASSUME NEW m \in cap PROVE c <= m
      OBVIOUS
    <3>1. PICK b \in Nat : Tightest(cap) = {b} /\ b <= m
      BY TightestBelow
    <3> QED BY <2>2, <3>1
  <2> DEFINE k == Min({c} \union {Len(s)})
  <2>4. k \in Nat /\ k <= c /\ k <= Len(s)
    <3>1. Len(s) \in Nat
      OBVIOUS
    <3>2. \E m \in {c, Len(s)} : \A j \in {c, Len(s)} : m <= j
      BY <3>1
    <3>3. {c} \union {Len(s)} = {c, Len(s)}
      OBVIOUS
    <3>4. k \in {c, Len(s)} /\ \A j \in {c, Len(s)} : k <= j
      BY <3>2, <3>3 DEF Min
    <3> QED BY <3>1, <3>4
  <2>5. Shortened(s, Tightest(cap)) = SubSeq(s, 1, k)
    BY <2>2 DEF Shortened
  <2> HIDE DEF k
  <2>6. SubSeq(s, 1, k) \in Seq(S) /\ Len(SubSeq(s, 1, k)) = k
    BY <2>4
  <2> QED BY <2>3, <2>4, <2>5, <2>6
<1> QED BY <1>1, <1>2

LEMMA CapIsTightest ==
  ASSUME NEW obligations, Capped(obligations), NEW key \in LimitKeys
  PROVE  \E caps \in SUBSET Nat :
           /\ Cap(key, obligations) = Tightest(caps)
           /\ \A o \in obligations : o.type = "limit" => o.limits[key] \subseteq caps
<1> DEFINE caps == UNION {p.limits[key] : p \in Of("limit", obligations)}
<1>1. caps \in SUBSET Nat
  BY DEF Capped, Of
<1>2. Cap(key, obligations) = Tightest(caps)
  BY DEF Cap
<1>3. \A o \in obligations : o.type = "limit" => o.limits[key] \subseteq caps
  BY DEF Of
<1> HIDE DEF caps
<1> QED BY <1>1, <1>2, <1>3

(* Every duty among some obligations is done by applying them.             *)
LEMMA AppliedDuties ==
  ASSUME NEW choices, IsCompletion(choices), NEW obligations, Capped(obligations),
         NEW o \in obligations
  PROVE  DutyOnAnswer(o, apply_response_obligations(choices, obligations))
<1> DEFINE shaped == apply_response_obligations(choices, obligations)
           kept   == Shortened(choices, Cap("max_results", obligations))
           short  == [i \in DOMAIN kept |-> Shortened(kept[i], Cap("max_bytes", obligations))]
<1>1. shaped.choices = short /\ shaped.marks = Of("watermark", obligations)
  BY DEF apply_response_obligations
<1>2. PICK S : choices \in Seq(Seq(S))
  BY DEF IsCompletion
<1>3. PICK results \in SUBSET Nat :
        /\ Cap("max_results", obligations) = Tightest(results)
        /\ \A p \in obligations : p.type = "limit" => p.limits["max_results"] \subseteq results
  BY CapIsTightest DEF LimitKeys
<1>4. PICK bytes \in SUBSET Nat :
        /\ Cap("max_bytes", obligations) = Tightest(bytes)
        /\ \A p \in obligations : p.type = "limit" => p.limits["max_bytes"] \subseteq bytes
  BY CapIsTightest DEF LimitKeys
<1>5. kept \in Seq(Seq(S)) /\ \A n \in results : Len(kept) <= n
  BY <1>2, <1>3, ShortenedIsShort
<1> HIDE DEF shaped, kept
<1>6. \A i \in DOMAIN kept : \A n \in bytes :
        Len(Shortened(kept[i], Cap("max_bytes", obligations))) <= n
  <2> SUFFICES ASSUME NEW i \in DOMAIN kept, NEW n \in bytes
               PROVE  Len(Shortened(kept[i], Cap("max_bytes", obligations))) <= n
    OBVIOUS
  <2>1. kept[i] \in Seq(S)
    BY <1>5
  <2> QED BY <1>4, <2>1, ShortenedIsShort
<1>7. DOMAIN short = DOMAIN kept /\ Len(short) = Len(kept)
      /\ \A i \in DOMAIN kept : short[i] = Shortened(kept[i], Cap("max_bytes", obligations))
  <2>1. DOMAIN kept = 1 .. Len(kept) /\ Len(kept) \in Nat
    BY <1>5
  <2> QED BY <2>1
<1> HIDE DEF short
<1>8. CASE o.type = "watermark"
  BY <1>1, <1>8 DEF DutyOnAnswer, Of, shaped
<1>9. CASE o.type = "limit"
  <2>1. Meets(o.limits.max_results, {Len(shaped.choices)})
    BY <1>1, <1>3, <1>5, <1>7, <1>9 DEF Meets
  <2>2. ASSUME NEW i \in DOMAIN shaped.choices
        PROVE  Meets(o.limits.max_bytes, {Len(shaped.choices[i])})
    BY <1>1, <1>4, <1>6, <1>7, <1>9 DEF Meets
  <2> QED BY <1>9, <2>1, <2>2 DEF DutyOnAnswer, shaped
<1>10. CASE o.type \notin {"watermark", "limit"}
  BY <1>10 DEF DutyOnAnswer
<1> QED BY <1>8, <1>9, <1>10

(* The inductive invariant behind DeliveredAsDecided: which decisions have *)
(* been taken, and obeyed, at which point of the handler.                  *)
AnswerInv ==
  /\ stored \subseteq Rules
  /\ Sound(inbound) /\ Sound(outbound)
  /\ IsCompletion(completion)
  /\ pc \in {"decide", "enforce"} => delivered = Nothing
  /\ pc \in {"enforce", "return", "enforce answer", "deliver"} => inbound.effect = "allow"
  /\ pc \in {"return", "enforce answer", "deliver"} => upstream # Nothing
  /\ pc \in {"enforce answer", "deliver"} => outbound.effect = "allow"
  /\ pc = "deliver" => OutstandingOnReturn(outbound) = {}
  /\ pc # "done" => delivered = Nothing
  /\ DeliveredAsDecided

LEMMA AnswerInvInit == Init => AnswerInv
<1> SUFFICES ASSUME Init PROVE AnswerInv
  OBVIOUS
<1>1. IsCompletion(completion)
  BY DEF Init, IsCompletion, Nothing
<1>2. DeliveredAsDecided
  BY DEF Init, DeliveredAsDecided, Nothing, Range
<1> QED BY <1>1, <1>2, DenialIsSound DEF Init, AnswerInv

LEMMA AnswerInvNext == AnswerInv /\ [Next]_vars => AnswerInv'
<1> SUFFICES ASSUME AnswerInv, [Next]_vars PROVE AnswerInv'
  OBVIOUS
<1> USE DEF AnswerInv
<1>1. ASSUME UNCHANGED <<inbound, outbound, upstream, delivered>>
      PROVE  DeliveredAsDecided'
  BY <1>1 DEF DeliveredAsDecided, DutyOnAnswer, Meets, Types
<1>2. ASSUME UNCHANGED inbound
      PROVE  Sound(inbound)'
  BY <1>2 DEF Sound, Serves, Of
<1>3. ASSUME UNCHANGED outbound
      PROVE  Sound(outbound)'
  BY <1>3 DEF Sound, Serves, Of
<1>4. ASSUME delivered' = Nothing
      PROVE  DeliveredAsDecided'
  <2>1. Range(delivered)' = {}
    BY <1>4, NobodyThere
  <2> QED BY <2>1 DEF DeliveredAsDecided
<1>5. ASSUME UNCHANGED completion
      PROVE  IsCompletion(completion)'
  BY <1>5 DEF IsCompletion
<1>6. ASSUME UNCHANGED outbound
      PROVE  OutstandingOnReturn(outbound)' = OutstandingOnReturn(outbound)
  BY <1>6 DEF OutstandingOnReturn, outstanding, Types
<1>7. CASE DecideInbound
  <2>1. Sound(inbound)'
    BY <1>7, DecisionsAreSound DEF DecideInbound, Sound, Serves, Of
  <2> QED BY <1>3, <1>4, <1>5, <1>7, <2>1 DEF DecideInbound
<1>8. CASE InboundUnavailable
  <2>1. Sound(inbound)'
    BY <1>8, DenialIsSound DEF InboundUnavailable
  <2> QED BY <1>3, <1>4, <1>5, <1>8, <2>1 DEF InboundUnavailable
<1>9. CASE RefuseInbound
  BY <1>1, <1>2, <1>3, <1>5, <1>9 DEF RefuseInbound
<1>10. CASE Send
  <2>1. IsCompletion(completion)'
    BY <1>10, AnswersAssumption DEF Send, IsCompletion
  <2> QED BY <1>2, <1>3, <1>4, <1>10, <2>1 DEF Send, Nothing
<1>11. CASE SendFails
  BY <1>2, <1>3, <1>4, <1>5, <1>11 DEF SendFails
<1>12. CASE DecideOutbound
  <2>1. Sound(outbound)'
    BY <1>12, DecisionsAreSound DEF DecideOutbound, Sound, Serves, Of
  <2> QED BY <1>2, <1>4, <1>5, <1>12, <2>1 DEF DecideOutbound
<1>13. CASE OutboundUnavailable
  <2>1. Sound(outbound)'
    BY <1>13, DenialIsSound DEF OutboundUnavailable
  <2> QED BY <1>2, <1>4, <1>5, <1>13, <2>1 DEF OutboundUnavailable
<1>14. CASE RefuseOutbound
  BY <1>1, <1>2, <1>3, <1>5, <1>14 DEF RefuseOutbound
<1>15. CASE EnforceOutbound
  <2>1. IsCompletion(completion)'
    <3>1. IsCompletion(_replace_completion_text(completion, outbound.payload))
      BY ChunksAreACompletion
    <3> QED BY <1>15, <3>1 DEF EnforceOutbound
  <2> QED BY <1>2, <1>3, <1>4, <1>6, <1>15, <2>1 DEF EnforceOutbound
<1>16. CASE Deliver
  <2> DEFINE duties == inbound.obligations \union outbound.obligations
             shaped == apply_response_obligations(completion, duties)
  <2>1. delivered' = <<shaped>> /\ UNCHANGED <<inbound, outbound, upstream, completion>>
    BY <1>16 DEF Deliver, _merge_obligations
  <2>2. Capped(duties)
    BY SoundIsCapped DEF Capped
  <2>3. \A o \in duties : DutyOnAnswer(o, shaped)
    BY <2>2, AppliedDuties
  <2>4. Types(outbound.obligations) \subseteq RESPONSE_SATISFIABLE \union SATISFIED_BY_CONTROL_PLANE
    BY <1>16 DEF Deliver, OutstandingOnReturn, outstanding
  <2> HIDE DEF shaped
  <2>5. Range(delivered)' = {shaped}
    BY <2>1, OneThere
  <2>6. DeliveredAsDecided'
    BY <1>16, <2>1, <2>3, <2>4, <2>5 DEF Deliver, DeliveredAsDecided, DutyOnAnswer, Meets, Types
  <2> QED BY <1>2, <1>3, <1>5, <1>16, <2>6 DEF Deliver
<1>17. CASE EditPolicies
  BY <1>1, <1>2, <1>3, <1>5, <1>6, <1>17 DEF EditPolicies
<1>18. CASE UNCHANGED vars
  BY <1>1, <1>2, <1>3, <1>5, <1>6, <1>18 DEF vars
<1> QED BY <1>7, <1>8, <1>9, <1>10, <1>11, <1>12, <1>13, <1>14, <1>15, <1>16, <1>17, <1>18 DEF Next

(* No answer reaches the caller against the two decisions about it.        *)
THEOREM AnswersComeBackAsDecided == Spec => []DeliveredAsDecided
<1>1. AnswerInv => DeliveredAsDecided
  BY DEF AnswerInv
<1> QED BY <1>1, AnswerInvInit, AnswerInvNext, PTL DEF Spec

----------------------------------------------------------------------------
(* The text of the prompt and of the answer.                               *)

(* An allow that some policies gave about a text.                          *)
Allowed(d, action, text) ==
  /\ d.effect = "allow"
  /\ \E p \in SUBSET Rules : d = decide(p, action, text, request.model)

(* What the proxy finds nothing outstanding in is clean, and its text is   *)
(* the decided one redacted from end to end.                               *)
LEMMA AllowedIsClean ==
  ASSUME NEW d, NEW action, NEW text \in Seq(Piece), Allowed(d, action, text),
         NEW can, "redact" \notin can, outstanding(d, can) = {}
  PROVE  /\ ComesBack(d, text) /\ Clean(d.payload, d)
         /\ \A o \in Of("redact", d.obligations) : o.tokenize => HasTokenizer
         /\ Of("redact", d.obligations) = {} \/ ~Truncated(text)
<1>1. PICK p \in SUBSET Rules : d = decide(p, action, text, request.model)
  BY DEF Allowed
<1>2. d.effect = "allow" /\ CoversLabels(p)
  BY RulesAssumption DEF Allowed, CoversLabels
<1>3. "redact" \notin Types(d.obligations) \intersect d.unsupported
  BY DEF outstanding, SATISFIED_BY_CONTROL_PLANE
<1>4. ComesBack(d, text) /\ Clean(d.payload, d)
  BY <1>1, <1>2, <1>3, AllowedTextIsClean
<1>5. \A o \in Of("redact", d.obligations) : o.tokenize => HasTokenizer
  BY <1>1, <1>2, AllowedTextIsClean
<1>6. Of("redact", d.obligations) = {} \/ ~Truncated(text)
  BY <1>1, <1>2, <1>3, AllowedTextIsClean
<1> QED
  BY <1>4, <1>5, <1>6

(* What is part of a clean text is clean.                                  *)
LEMMA PartOfClean ==
  ASSUME NEW text, NEW part, Range(part) \subseteq Range(text), NEW d, Clean(text, d)
  PROVE  Clean(part, d)
BY DEF Clean

LEMMA ChunkInside ==
  ASSUME NEW text, NEW i
  PROVE  Range(Chunk(text, i)) \subseteq Range(text)
<1>1. CASE i \in DOMAIN text
  BY <1>1 DEF Chunk, Range
<1>2. CASE i \notin DOMAIN text
  BY <1>2 DEF Chunk, Range
<1> QED
  BY <1>1, <1>2

TextsOf(messages) == [i \in DOMAIN messages |-> messages[i].text]

LEMMA TextsOfType ==
  ASSUME NEW messages \in Seq(Message)
  PROVE  /\ DOMAIN messages = 1 .. Len(messages) /\ Len(messages) \in Nat
         /\ \A i \in DOMAIN messages : messages[i] \in Message /\ messages[i].text \in Seq(Piece)
         /\ TextsOf(messages) \in Seq(Seq(Piece)) /\ Len(TextsOf(messages)) = Len(messages)
         /\ \A i \in DOMAIN messages : TextsOf(messages)[i] = messages[i].text
         /\ _messages_text(messages) = FlattenSeq(TextsOf(messages))
         /\ _messages_text(messages) \in Seq(Piece)
<1>1. DOMAIN messages = 1 .. Len(messages) /\ Len(messages) \in Nat
  OBVIOUS
<1>2. ASSUME NEW i \in DOMAIN messages PROVE messages[i] \in Message /\ messages[i].text \in Seq(Piece)
  <2>1. messages[i] \in Message
    OBVIOUS
  <2> QED
    BY <2>1 DEF Message
<1>3. /\ TextsOf(messages) \in Seq(Seq(Piece)) /\ Len(TextsOf(messages)) = Len(messages)
      /\ \A i \in DOMAIN messages : TextsOf(messages)[i] = messages[i].text
  BY <1>1, <1>2 DEF TextsOf
<1>4. _messages_text(messages) = FlattenSeq(TextsOf(messages))
  BY DEF _messages_text, TextsOf
<1> QED
  BY <1>1, <1>2, <1>3, <1>4, FlattenType

Gone(messages, d) == \A m \in Range(messages) : m.form = "string" => Clean(m.text, d)

(* The messages that go out say nothing a redact covers.                   *)
LEMMA SentIsClean ==
  ASSUME request.messages \in Seq(Message), Clean(inbound.payload, inbound)
  PROVE  Gone(Outgoing.messages, inbound)
<1> DEFINE messages == request.messages
           whole    == _messages_text(messages)
           redacted  == inbound.payload
<1>1. CASE redacted = whole
  <2>1. Outgoing.messages = messages
    BY <1>1 DEF Outgoing
  <2>2. ASSUME NEW i \in DOMAIN messages PROVE Clean(messages[i].text, inbound)
    <3>1. Range(TextsOf(messages)[i]) \subseteq Range(FlattenSeq(TextsOf(messages)))
      <4>1. TextsOf(messages) \in Seq(Seq(Piece)) /\ i \in DOMAIN TextsOf(messages)
        BY TextsOfType DEF TextsOf
      <4> QED
        BY <4>1, PartsInside
    <3>2. Range(messages[i].text) \subseteq Range(redacted)
      BY <1>1, <3>1, TextsOfType
    <3> QED
      BY <3>2, PartOfClean
  <2> QED
    BY <2>1, <2>2 DEF Gone, Range
<1>2. CASE redacted # whole
  <2> DEFINE new == _replace_messages_text(messages, redacted)
             count(i) == Cardinality({j \in 1 .. i : Rewritable(messages, j)})
  <2>1. Outgoing.messages = new
    BY <1>2 DEF Outgoing
  <2>2. DOMAIN new = DOMAIN messages
    BY DEF _replace_messages_text
  <2>3. ASSUME NEW i \in DOMAIN messages, new[i].form = "string" PROVE Clean(new[i].text, inbound)
    <3>1. messages[i] \in Message /\ messages[i].text \in Seq(Piece)
      BY TextsOfType
    <3>2. CASE Rewritable(messages, i)
      <4>1. new[i] = [messages[i] EXCEPT !.text = Chunk(redacted, count(i))]
        BY <3>2 DEF _replace_messages_text
      <4>2. new[i].text = Chunk(redacted, count(i))
        <5> HIDE DEF new, count, redacted, messages
        <5> QED
          BY <3>1, <4>1 DEF Message
      <4> QED
        BY <4>2, ChunkInside, PartOfClean
    <3>3. CASE ~Rewritable(messages, i)
      <4>1. new[i] = messages[i]
        BY <3>3 DEF _replace_messages_text
      <4>2. messages[i].text = <<>>
        BY <2>3, <3>3, <4>1 DEF Rewritable
      <4> QED
        BY <4>1, <4>2 DEF Clean, Range
    <3> QED
      BY <3>2, <3>3
  <2> HIDE DEF new
  <2> QED
    BY <2>1, <2>2, <2>3 DEF Gone, Range
<1> QED
  BY <1>1, <1>2

(* A piece as the redaction leaves it.                                     *)
Left(piece, obligations) ==
  IF \E o \in Of("redact", obligations) : piece \in o.covers THEN "masked" ELSE piece

(* In a text that is redacted from end to end, or not at all, every piece  *)
(* is left so.                                                             *)
LEMMA RedactedPieces ==
  ASSUME NEW text \in Seq(Piece), NEW obligations,
         Of("redact", obligations) = {} \/ ~Truncated(text)
  PROVE  /\ Redacted(text, obligations) \in Seq(Piece)
         /\ Len(Redacted(text, obligations)) = Len(text)
         /\ \A i \in DOMAIN text : Redacted(text, obligations)[i] = Left(text[i], obligations)
<1>1. DOMAIN text = 1 .. Len(text) /\ Len(text) \in Nat /\ \A i \in DOMAIN text : text[i] \in Piece
  OBVIOUS
<1>2. "masked" \in Piece
  BY DEF Piece
<1>3. Redacted(text, obligations) =
        [i \in 1 .. Len(text) |->
           IF i \in Scanned(text) /\ \E o \in Of("redact", obligations) : text[i] \in o.covers
           THEN "masked" ELSE text[i]]
  BY <1>1 DEF Redacted
<1>4. Redacted(text, obligations) \in Seq(Piece) /\ Len(Redacted(text, obligations)) = Len(text)
  BY <1>1, <1>2, <1>3
<1>5. ASSUME NEW i \in DOMAIN text
      PROVE  Redacted(text, obligations)[i] = Left(text[i], obligations)
  <2>1. Of("redact", obligations) = {} \/ i \in Scanned(text)
    BY <1>1, ScanAssumption DEF Truncated, Scanned
  <2> QED
    BY <1>1, <1>3, <2>1 DEF Left
<1> QED
  BY <1>4, <1>5

(* String messages without a blank line go out each redacted in place.     *)
LEMMA SentInPlace ==
  ASSUME request.messages \in Seq(Message),
         \A m \in Range(request.messages) : m.form = "string" /\ Len(m.text) <= 1,
         inbound.payload = Redacted(_messages_text(request.messages), inbound.obligations),
         Of("redact", inbound.obligations) = {} \/ ~Truncated(_messages_text(request.messages))
  PROVE  Outgoing.messages = InPlace(request.messages)
<1> DEFINE messages == request.messages
           parts    == TextsOf(messages)
           whole    == _messages_text(messages)
           redacted  == inbound.payload
           duties   == inbound.obligations
           K        == {i \in DOMAIN messages : Rewritable(messages, i)}
           count(i) == Cardinality({j \in 1 .. i : Rewritable(messages, j)})
<1>0. /\ DOMAIN messages = 1 .. Len(messages) /\ Len(messages) \in Nat
      /\ parts \in Seq(Seq(Piece)) /\ Len(parts) = Len(messages)
      /\ whole = FlattenSeq(parts) /\ whole \in Seq(Piece)
  BY TextsOfType
<1>1. ASSUME NEW i \in DOMAIN messages
      PROVE  /\ messages[i] \in Message /\ messages[i].text \in Seq(Piece) /\ parts[i] = messages[i].text
             /\ messages[i].form = "string" /\ Len(messages[i].text) <= 1
             /\ i \in K <=> parts[i] # <<>>
             /\ count(i) = Cardinality(K \intersect 1 .. i)
  <2>1. messages[i] \in Message /\ messages[i].text \in Seq(Piece) /\ parts[i] = messages[i].text
    BY TextsOfType
  <2>2. messages[i].form = "string" /\ Len(messages[i].text) <= 1
    BY DEF Range
  <2>3. i \in K <=> parts[i] # <<>>
    BY <2>1, <2>2 DEF Rewritable
  <2>4. {j \in 1 .. i : Rewritable(messages, j)} = K \intersect 1 .. i
    BY <1>0
  <2> QED
    BY <2>1, <2>2, <2>3, <2>4
<1>2. ASSUME NEW i \in K
      PROVE  /\ count(i) \in DOMAIN whole /\ messages[i].text = <<whole[count(i)]>>
             /\ whole[count(i)] \in Piece
  <2> HIDE DEF K, count, parts, messages, whole
  <2>1. Single(parts)
    BY <1>0, <1>1 DEF Single
  <2>2. \A j \in 1 .. Len(parts) : j \in K <=> parts[j] # <<>>
    BY <1>0, <1>1
  <2>3. i \in 1 .. Len(parts)
    BY <1>0 DEF K
  <2>4. Placed(parts, FlattenSeq(parts), K, Len(parts))
    BY <1>0, <2>1, <2>2, SinglesLieInOrder
  <2>5. Cardinality(K \intersect 1 .. i) \in DOMAIN FlattenSeq(parts)
    BY <1>0, <2>1, <2>2, <2>3, SinglesLieInOrder
  <2>6. parts[i] = <<whole[count(i)]>>
    BY <1>0, <1>1, <2>3, <2>4, <2>5 DEF Placed
  <2>7. count(i) \in DOMAIN whole
    BY <1>0, <1>1, <2>3, <2>5
  <2>8. whole[count(i)] \in Piece
    BY <1>0, <2>7
  <2>9. messages[i].text = parts[i]
    BY <1>0, <1>1, <2>3
  <2> QED
    BY <2>6, <2>7, <2>8, <2>9
<1>3. /\ redacted \in Seq(Piece) /\ DOMAIN redacted = DOMAIN whole
      /\ \A i \in DOMAIN whole : redacted[i] = Left(whole[i], duties)
  <2>1. redacted = Redacted(whole, duties) /\ (Of("redact", duties) = {} \/ ~Truncated(whole))
    OBVIOUS
  <2> HIDE DEF redacted, whole, duties
  <2>2. redacted \in Seq(Piece) /\ Len(redacted) = Len(whole)
    BY <1>0, <2>1, RedactedPieces
  <2>3. \A i \in DOMAIN whole : redacted[i] = Left(whole[i], duties)
    BY <1>0, <2>1, RedactedPieces
  <2>4. DOMAIN redacted = DOMAIN whole
    BY <1>0, <2>2
  <2> QED
    BY <2>2, <2>3, <2>4
<1>4. ASSUME NEW i \in DOMAIN messages
      PROVE  /\ i \in K => Redacted(messages[i].text, duties) = <<redacted[count(i)]>>
             /\ i \notin K => Redacted(messages[i].text, duties) = messages[i].text
  <2> DEFINE text == messages[i].text
  <2>1. text \in Seq(Piece) /\ Len(text) <= 1 /\ (i \in K => text = <<whole[count(i)]>>)
        /\ (i \notin K => text = <<>>)
    BY <1>1, <1>2
  <2>2. Of("redact", duties) = {} \/ ~Truncated(text)
    <3>1. CASE i \in K /\ ~Truncated(whole)
      <4>1. count(i) \in 1 .. Len(whole) /\ Len(whole) \in Nat
        <5> HIDE DEF K, count, whole, messages
        <5> QED
          BY <1>0, <1>2, <3>1
      <4> HIDE DEF K, count, whole, text
      <4>2. 1 <= Len(whole) /\ ~(Len(whole) > ScanLimit) /\ Len(text) = 1
        BY <2>1, <3>1, <4>1 DEF Truncated
      <4> QED
        BY <4>1, <4>2, ScanAssumption DEF Truncated
    <3>2. CASE i \notin K
      <4>1. Len(text) = 0
        BY <2>1, <3>2
      <4> HIDE DEF text
      <4> QED
        BY <4>1, ScanAssumption DEF Truncated
    <3>3. Of("redact", duties) = {} \/ ~Truncated(whole)
      OBVIOUS
    <3> QED
      BY <3>1, <3>2, <3>3
  <2> HIDE DEF text, duties
  <2> DEFINE red == Redacted(text, duties)
  <2>3. /\ red \in Seq(Piece) /\ Len(red) = Len(text)
        /\ \A j \in DOMAIN text : red[j] = Left(text[j], duties)
    BY <2>1, <2>2, RedactedPieces
  <2> HIDE DEF red
  <2>4. CASE i \in K
    <3>1. redacted[count(i)] = Left(whole[count(i)], duties) /\ text = <<whole[count(i)]>>
      BY <1>2, <1>3, <2>1, <2>4
    <3> HIDE DEF whole, redacted, count
    <3>2. red # <<>> /\ Len(red) <= 1 /\ 1 \in DOMAIN text /\ text[1] = whole[count(i)]
      <4>1. Len(text) = 1 /\ 1 \in DOMAIN text /\ text[1] = whole[count(i)]
        BY <3>1
      <4>2. Len(red) = 1
        BY <2>3, <4>1
      <4>3. red # <<>>
        BY <4>2
      <4> QED
        BY <4>1, <4>2, <4>3
    <3>3. red = <<red[1]>>
      <4>1. red \in Seq(Piece)
        BY <2>3
      <4> QED
        BY <3>2, <4>1, OneLong
    <3>4. red[1] = Left(text[1], duties)
      BY <2>3, <3>2
    <3>5. red[1] = redacted[count(i)]
      BY <3>1, <3>2, <3>4
    <3>6. red = <<redacted[count(i)]>>
      BY <3>3, <3>5
    <3> QED
      BY <2>4, <3>6 DEF red, text
  <2>5. CASE i \notin K
    <3>1. red = <<>>
      <4>1. Len(red) = 0
        BY <2>1, <2>3, <2>5
      <4> QED
        BY <2>3, <4>1
    <3> QED
      BY <2>1, <2>5, <3>1 DEF red, text
  <2> QED
    BY <2>4, <2>5
<1>5. InPlace(messages) = [i \in DOMAIN messages |->
                             [messages[i] EXCEPT !.text = Redacted(messages[i].text, duties)]]
  BY DEF InPlace
<1>6. ASSUME NEW i \in DOMAIN messages
      PROVE  [messages[i] EXCEPT !.text = messages[i].text] = messages[i]
  <2>1. messages[i] \in Message
    BY <1>1
  <2> DEFINE m == messages[i]
  <2>2. m \in Message
    BY <2>1
  <2> HIDE DEF m
  <2>3. [m EXCEPT !.text = m.text] = m
    BY <2>2 DEF Message
  <2> QED
    BY <2>3 DEF m
<1>7. CASE redacted = whole
  <2>0. messages \in Seq(Message)
    OBVIOUS
  <2>1. Outgoing.messages = messages
    BY <1>7 DEF Outgoing
  <2>2. ASSUME NEW i \in DOMAIN messages
        PROVE  [messages[i] EXCEPT !.text = Redacted(messages[i].text, duties)] = messages[i]
    <3>1. Redacted(messages[i].text, duties) = messages[i].text
      <4> HIDE DEF K, count, redacted, whole, messages, duties
      <4> QED
        BY <1>2, <1>4, <1>7
    <3> QED
      BY <1>6, <3>1
  <2>3. messages = [i \in DOMAIN messages |-> messages[i]]
    <3> HIDE DEF messages
    <3> QED
      BY <2>0
  <2> QED
    BY <1>5, <2>1, <2>2, <2>3
<1>8. CASE redacted # whole
  <2>1. Outgoing.messages
          = [i \in DOMAIN messages |->
               IF Rewritable(messages, i) THEN [messages[i] EXCEPT !.text = Chunk(redacted, count(i))]
               ELSE messages[i]]
    BY <1>8 DEF Outgoing, _replace_messages_text
  <2>2. ASSUME NEW i \in DOMAIN messages
        PROVE  [messages[i] EXCEPT !.text = Redacted(messages[i].text, duties)]
                 = IF Rewritable(messages, i) THEN [messages[i] EXCEPT !.text = Chunk(redacted, count(i))]
                   ELSE messages[i]
    <3>1. CASE Rewritable(messages, i)
      <4>1. i \in K
        BY <3>1
      <4>2. count(i) \in DOMAIN redacted
        BY <1>2, <1>3, <4>1
      <4>3. Redacted(messages[i].text, duties) = Chunk(redacted, count(i))
        <5> HIDE DEF K, count, redacted, whole, messages, duties
        <5> QED
          BY <1>4, <4>1, <4>2 DEF Chunk
      <4> QED
        BY <3>1, <4>3
    <3>2. CASE ~Rewritable(messages, i)
      <4>1. Redacted(messages[i].text, duties) = messages[i].text
        BY <1>4, <3>2
      <4> QED
        BY <1>6, <3>2, <4>1
    <3> QED
      BY <3>1, <3>2
  <2> QED
    BY <1>5, <2>1, <2>2
<1> QED
  BY <1>7, <1>8

(* A text cut short is part of what it was.                                *)
LEMMA ShortenedInside ==
  ASSUME NEW S, NEW s \in Seq(S), NEW caps \in SUBSET Nat
  PROVE  Range(Shortened(s, Tightest(caps))) \subseteq Range(s)
<1>1. CASE Tightest(caps) = {}
  BY <1>1 DEF Shortened
<1>2. CASE Tightest(caps) # {}
  <2> DEFINE k == Min(Tightest(caps) \union {Len(s)})
  <2>1. Tightest(caps) \union {Len(s)} \subseteq Nat
    BY TightestIsACap
  <2>2. PICK n \in Tightest(caps) \union {Len(s)} : \A m \in Tightest(caps) \union {Len(s)} : n <= m
    BY <2>1, LeastOf
  <2>3. k \in Nat /\ k <= Len(s)
    <3>1. k \in Tightest(caps) \union {Len(s)} /\ \A m \in Tightest(caps) \union {Len(s)} : k <= m
      BY <2>2 DEF Min
    <3> QED
      BY <2>1, <3>1
  <2>4. Shortened(s, Tightest(caps)) = SubSeq(s, 1, k)
    BY <1>2 DEF Shortened
  <2> HIDE DEF k
  <2>5. DOMAIN SubSeq(s, 1, k) = 1 .. k /\ \A i \in 1 .. k : SubSeq(s, 1, k)[i] = s[i] /\ i \in DOMAIN s
    BY <2>3
  <2> QED
    BY <2>4, <2>5 DEF Range
<1> QED
  BY <1>1, <1>2

(* The caps leave a clean answer clean.                                    *)
LEMMA DeliveredIsClean ==
  ASSUME NEW choices \in Seq(Seq(Piece)), NEW obligations, Capped(obligations),
         NEW d, \A c \in Range(choices) : Clean(c, d)
  PROVE  \A c \in Range(apply_response_obligations(choices, obligations).choices) : Clean(c, d)
<1> DEFINE kept  == Shortened(choices, Cap("max_results", obligations))
           short == [i \in DOMAIN kept |-> Shortened(kept[i], Cap("max_bytes", obligations))]
<1>1. apply_response_obligations(choices, obligations).choices = short
  BY DEF apply_response_obligations
<1>2. PICK results \in SUBSET Nat : Cap("max_results", obligations) = Tightest(results)
  BY CapIsTightest DEF LimitKeys
<1>3. PICK bytes \in SUBSET Nat : Cap("max_bytes", obligations) = Tightest(bytes)
  BY CapIsTightest DEF LimitKeys
<1>4. Range(kept) \subseteq Range(choices)
  BY <1>2, ShortenedInside
<1> HIDE DEF kept
<1>5. ASSUME NEW i \in DOMAIN short PROVE Clean(short[i], d)
  <2>1. kept[i] \in Range(choices) /\ short[i] = Shortened(kept[i], Cap("max_bytes", obligations))
    BY <1>4 DEF Range
  <2>2. kept[i] \in Seq(Piece) /\ Clean(kept[i], d)
    BY <2>1 DEF Range
  <2>3. Range(short[i]) \subseteq Range(kept[i])
    BY <1>3, <2>1, <2>2, ShortenedInside
  <2> HIDE DEF short
  <2> QED
    BY <2>2, <2>3, PartOfClean
<1> HIDE DEF short
<1> QED
  BY <1>1, <1>5 DEF Range

(* The answer is rewritten into choices that say nothing a redact covers.  *)
LEMMA AnswerIsClean ==
  ASSUME completion \in Seq(Seq(Piece)), Allowed(outbound, "return", _completion_text(completion)),
         EnforceOutbound
  PROVE  completion' \in Seq(Seq(Piece)) /\ \A c \in Range(completion') : Clean(c, outbound)
<1> DEFINE whole   == _completion_text(completion)
           redacted == outbound.payload
           new     == _replace_completion_text(completion, redacted)
<1>1. whole = FlattenSeq(completion) /\ whole \in Seq(Piece)
  BY FlattenType DEF _completion_text
<1>2. redacted \in Seq(Piece) /\ Clean(redacted, outbound)
  <2>1. OutstandingOnReturn(outbound) = {} /\ "redact" \notin RESPONSE_SATISFIABLE
    BY DEF EnforceOutbound, RESPONSE_SATISFIABLE
  <2>2. ComesBack(outbound, whole) /\ Clean(outbound.payload, outbound)
    <3> HIDE DEF whole
    <3> QED
      BY <1>1, <2>1, AllowedIsClean DEF OutstandingOnReturn, whole
  <2> QED
    BY <2>2 DEF ComesBack
<1> HIDE DEF redacted, whole
<1>3. CASE redacted = whole
  <2>1. completion' = completion
    BY <1>3 DEF EnforceOutbound, redacted, whole
  <2>2. ASSUME NEW i \in DOMAIN completion PROVE Clean(completion[i], outbound)
    <3>1. Range(completion[i]) \subseteq Range(redacted)
      BY <1>1, <1>3, PartsInside
    <3> QED
      BY <1>2, <3>1, PartOfClean
  <2> QED
    BY <2>1, <2>2 DEF Range
<1>4. CASE redacted # whole
  <2>1. completion' = new
    BY <1>4 DEF EnforceOutbound, redacted, whole
  <2>2. DOMAIN completion = 1 .. Len(completion) /\ Len(completion) \in Nat
    OBVIOUS
  <2>3. ASSUME NEW i \in DOMAIN completion
        PROVE  Chunk(redacted, i) \in Seq(Piece) /\ Clean(Chunk(redacted, i), outbound)
    <3>1. Chunk(redacted, i) \in Seq(Piece)
      BY <1>2 DEF Chunk
    <3> QED
      BY <1>2, <3>1, ChunkInside, PartOfClean
  <2>4. new = [i \in 1 .. Len(completion) |-> Chunk(redacted, i)]
    BY <2>2 DEF _replace_completion_text
  <2> HIDE DEF new
  <2>5. new \in Seq(Seq(Piece))
    <3>1. \A i \in 1 .. Len(completion) : Chunk(redacted, i) \in Seq(Piece)
      BY <2>2, <2>3
    <3> QED
      BY <2>2, <2>4, <3>1
  <2>6. \A c \in Range(new) : Clean(c, outbound)
    BY <2>2, <2>3, <2>4 DEF Range
  <2> QED
    BY <2>1, <2>5, <2>6
<1> QED
  BY <1>3, <1>4

(* The inductive invariant behind RedactedAsDecided: which text a decision *)
(* that is about to be enforced was asked about.                           *)
TextInv ==
  /\ request.messages \in Seq(Message)
  /\ completion \in Seq(Seq(Piece))
  /\ pc \in {"decide", "enforce"} => upstream = Nothing
  /\ pc = "enforce" => Allowed(inbound, "infer", _messages_text(request.messages))
  /\ pc = "enforce answer" => Allowed(outbound, "return", _completion_text(completion))
  /\ pc = "deliver" => \A c \in Range(completion) : Clean(c, outbound)
  /\ RedactedAsDecided

LEMMA TextInvInit == Init => TextInv
<1> SUFFICES ASSUME Init PROVE TextInv
  OBVIOUS
<1>1. request.messages \in Seq(Message)
  BY PromptsAssumption DEF Init
<1>2. completion \in Seq(Seq(Piece)) /\ Range(upstream) = {} /\ Range(delivered) = {}
  BY NobodyThere DEF Init, Nothing
<1>3. RedactedAsDecided
  BY <1>2 DEF RedactedAsDecided, CoveredIsGone, MessagesKeepTheirText
<1> QED
  BY <1>1, <1>2, <1>3 DEF Init, TextInv

LEMMA TextInvNext == AnswerInv /\ TextInv /\ [Next]_vars => TextInv'
<1> SUFFICES ASSUME AnswerInv, TextInv, [Next]_vars PROVE TextInv'
  OBVIOUS
<1> USE DEF TextInv
<1>0. stored \subseteq Rules /\ (pc # "done" => delivered = Nothing)
  BY DEF AnswerInv
<1>1. ASSUME UNCHANGED <<request, inbound, upstream, outbound, delivered>>
      PROVE  RedactedAsDecided'
  BY <1>1 DEF RedactedAsDecided, CoveredIsGone, MessagesKeepTheirText, InPlace, Clean
<1>2. ASSUME UNCHANGED <<request, inbound, upstream>>, delivered' = Nothing
      PROVE  RedactedAsDecided'
  <2>1. Range(delivered)' = {}
    BY <1>2, NobodyThere
  <2> QED
    BY <1>2, <2>1 DEF RedactedAsDecided, CoveredIsGone, MessagesKeepTheirText, InPlace, Clean
<1>3. ASSUME upstream' = Nothing, delivered' = Nothing
      PROVE  RedactedAsDecided'
  <2>1. Range(delivered)' = {} /\ Range(upstream)' = {}
    BY <1>3, NobodyThere
  <2> QED
    BY <2>1 DEF RedactedAsDecided, CoveredIsGone, MessagesKeepTheirText
<1>4. ASSUME pc = "enforce", ~CannotDischarge, upstream' = <<Outgoing>>, delivered' = Nothing,
             UNCHANGED <<request, inbound>>
      PROVE  RedactedAsDecided'
  <2> DEFINE whole == _messages_text(request.messages)
  <2>1. Range(upstream)' = {Outgoing} /\ Range(delivered)' = {}
    BY <1>4, NobodyThere, OneThere
  <2>2. outstanding(inbound, SATISFIABLE) = {} /\ "redact" \notin SATISFIABLE
    BY <1>4 DEF CannotDischarge, SATISFIABLE
  <2>3. whole \in Seq(Piece) /\ Allowed(inbound, "infer", whole)
    BY <1>4, TextsOfType
  <2> HIDE DEF whole
  <2>4. /\ ComesBack(inbound, whole) /\ Clean(inbound.payload, inbound)
        /\ \A o \in Of("redact", inbound.obligations) : o.tokenize => HasTokenizer
        /\ Of("redact", inbound.obligations) = {} \/ ~Truncated(whole)
    BY <2>2, <2>3, AllowedIsClean
  <2>5. Gone(Outgoing.messages, inbound)
    BY <2>4, SentIsClean
  <2>6. (\A m \in Range(request.messages) : m.form = "string" /\ Len(m.text) <= 1) =>
          Outgoing.messages = InPlace(request.messages)
    BY <2>4, SentInPlace DEF ComesBack, whole
  <2> DEFINE sent == Outgoing
             still == InPlace(request.messages)
  <2>7. upstream' = <<sent>> /\ Range(upstream)' = {sent}
    BY <1>4, <2>1
  <2> HIDE DEF sent
  <2>8. InPlace(request.messages)' = InPlace(request.messages)
    BY <1>4 DEF InPlace
  <2>9. CoveredIsGone'
    BY <1>4, <2>1, <2>4, <2>5, <2>7 DEF CoveredIsGone, Gone, Clean, sent
  <2>10. MessagesKeepTheirText'
    BY <1>4, <2>6, <2>7, <2>8 DEF MessagesKeepTheirText, sent
  <2> QED
    BY <2>9, <2>10 DEF RedactedAsDecided
<1>5. CASE DecideInbound
  <2>1. pc' = "enforce" => Allowed(inbound, "infer", _messages_text(request.messages))'
    BY <1>0, <1>5 DEF DecideInbound, Allowed
  <2> QED
    BY <1>0, <1>3, <1>5, <2>1 DEF DecideInbound
<1>6. CASE InboundUnavailable
  BY <1>0, <1>3, <1>6 DEF InboundUnavailable
<1>7. CASE RefuseInbound
  BY <1>1, <1>7 DEF RefuseInbound
<1>8. CASE Send
  <2>1. completion' \in Seq(Seq(Piece))
    BY <1>8, AnswersAssumption DEF Send
  <2> QED
    BY <1>0, <1>4, <1>8, <2>1 DEF Send
<1>9. CASE SendFails
  BY <1>0, <1>3, <1>4, <1>9 DEF SendFails
<1>10. CASE DecideOutbound
  <2>1. pc' = "enforce answer" => Allowed(outbound, "return", _completion_text(completion))'
    BY <1>0, <1>10 DEF DecideOutbound, Allowed
  <2> QED
    BY <1>0, <1>2, <1>10, <2>1 DEF DecideOutbound
<1>11. CASE OutboundUnavailable
  BY <1>0, <1>2, <1>11 DEF OutboundUnavailable
<1>12. CASE RefuseOutbound
  BY <1>1, <1>12 DEF RefuseOutbound
<1>13. CASE EnforceOutbound
  <2>1. completion' \in Seq(Seq(Piece)) /\ \A c \in Range(completion') : Clean(c, outbound)
    BY <1>13, AnswerIsClean DEF EnforceOutbound
  <2>2. outbound' = outbound
    BY <1>13 DEF EnforceOutbound
  <2>3. (\A c \in Range(completion) : Clean(c, outbound))'
    BY <2>1, <2>2 DEF Clean
  <2> QED
    BY <1>1, <1>13, <2>1, <2>3 DEF EnforceOutbound
<1>14. CASE Deliver
  <2> DEFINE duties == inbound.obligations \union outbound.obligations
             shaped == apply_response_obligations(completion, duties)
  <2>1. delivered' = <<shaped>> /\ UNCHANGED <<request, inbound, outbound, upstream, completion>>
    BY <1>14 DEF Deliver, _merge_obligations
  <2>2. Capped(duties)
    BY SoundIsCapped DEF Capped, AnswerInv
  <2>3. \A c \in Range(shaped.choices) : Clean(c, outbound)
    <3> HIDE DEF duties
    <3> QED
      BY <1>14, <2>2, DeliveredIsClean DEF Deliver
  <2> HIDE DEF shaped
  <2>4. Range(delivered)' = {shaped}
    BY <2>1, OneThere
  <2>5. CoveredIsGone'
    BY <2>1, <2>3, <2>4 DEF RedactedAsDecided, CoveredIsGone, Clean
  <2>6. MessagesKeepTheirText'
    BY <2>1 DEF RedactedAsDecided, MessagesKeepTheirText, InPlace
  <2> QED
    BY <1>14, <2>5, <2>6 DEF Deliver, RedactedAsDecided
<1>15. CASE EditPolicies
  <2>1. pc' = pc /\ pc' \in {"decide", "return"}
    BY <1>15 DEF EditPolicies
  <2> QED
    BY <1>1, <1>15, <2>1 DEF EditPolicies
<1>16. CASE UNCHANGED vars
  BY <1>1, <1>16 DEF vars, Allowed, Clean
<1> QED
  BY <1>5, <1>6, <1>7, <1>8, <1>9, <1>10, <1>11, <1>12, <1>13, <1>14, <1>15, <1>16 DEF Next

(* What a decision covers has gone from what a model and the caller are    *)
(* sent, and nothing else in a prompt moved.                               *)
THEOREM AlwaysRedactedAsDecided == Spec => []RedactedAsDecided
<1>1. TextInv => RedactedAsDecided
  BY DEF TextInv
<1>2. Spec => []AnswerInv
  BY AnswerInvInit, AnswerInvNext, PTL DEF Spec
<1> QED
  BY <1>1, <1>2, TextInvInit, TextInvNext, PTL DEF Spec
----------------------------------------------------------------------------
(* StreamGovernor: runs of x's, and the whole values in them.              *)

Chars    == {"a", "x"}
Governed == {"a", "x", "#"}

(* Where the run of x's around i begins and ends.                          *)
IsStart(s, i, j) ==
  j \in 1 .. i /\ (\A k \in j .. i : s[k] = "x") /\ (j = 1 \/ s[j - 1] # "x")

IsEnd(s, i, j) ==
  j \in i .. Len(s) /\ (\A k \in i .. j : s[k] = "x") /\ (j = Len(s) \/ s[j + 1] # "x")

LEMMA OneStart ==
  ASSUME NEW s, NEW i \in Nat, NEW j, NEW m, IsStart(s, i, j), IsStart(s, i, m)
  PROVE  j = m
<1>1. \A a, b : IsStart(s, i, a) /\ IsStart(s, i, b) => ~(a < b)
  <2> SUFFICES ASSUME NEW a, NEW b, IsStart(s, i, a), IsStart(s, i, b), a < b PROVE FALSE
    OBVIOUS
  <2>1. a \in 1 .. i /\ b \in 1 .. i
    BY DEF IsStart
  <2>2. b # 1 /\ b - 1 \in a .. i
    BY <2>1
  <2> QED
    BY <2>2 DEF IsStart
<1>2. j \in 1 .. i /\ m \in 1 .. i
  BY DEF IsStart
<1>3. ~(j < m) /\ ~(m < j)
  BY <1>1
<1> QED
  BY <1>2, <1>3

LEMMA OneEnd ==
  ASSUME NEW s, Len(s) \in Nat, NEW i \in Nat, NEW j, NEW m, IsEnd(s, i, j), IsEnd(s, i, m)
  PROVE  j = m
<1>1. \A a, b : IsEnd(s, i, a) /\ IsEnd(s, i, b) => ~(a < b)
  <2> SUFFICES ASSUME NEW a, NEW b, IsEnd(s, i, a), IsEnd(s, i, b), a < b PROVE FALSE
    OBVIOUS
  <2>1. a \in i .. Len(s) /\ b \in i .. Len(s)
    BY DEF IsEnd
  <2>2. a # Len(s) /\ a + 1 \in i .. b
    BY <2>1
  <2> QED
    BY <2>2 DEF IsEnd
<1>2. j \in i .. Len(s) /\ m \in i .. Len(s)
  BY DEF IsEnd
<1>3. ~(j < m) /\ ~(m < j)
  BY <1>1
<1> QED
  BY <1>2, <1>3

LEMMA StartOfRun ==
  ASSUME NEW s \in Seq(Chars), NEW i \in 1 .. Len(s), s[i] = "x"
  PROVE  IsStart(s, i, RunStart(s, i))
<1> DEFINE T == {j \in 1 .. i : \A k \in j .. i : s[k] = "x"}
<1>0. i \in Nat /\ i >= 1
  OBVIOUS
<1>1. i \in T /\ T \in SUBSET Nat
  BY <1>0
<1>2. PICK j \in T : \A m \in T : j <= m
  BY <1>1, LeastOf
<1>3. j = 1 \/ s[j - 1] # "x"
  <2> SUFFICES ASSUME j # 1, s[j - 1] = "x" PROVE FALSE
    OBVIOUS
  <2>1. j \in 1 .. i /\ j - 1 \in 1 .. i
    BY <1>0, <1>2
  <2>2. \A k \in (j - 1) .. i : k = j - 1 \/ k \in j .. i
    BY <2>1
  <2>3. j - 1 \in T
    BY <1>2, <2>1, <2>2
  <2> QED
    BY <1>2, <2>1, <2>3
<1>4. IsStart(s, i, j)
  BY <1>2, <1>3 DEF IsStart
<1> QED
  BY <1>4 DEF IsStart, RunStart

LEMMA EndOfRun ==
  ASSUME NEW s \in Seq(Chars), NEW i \in 1 .. Len(s), s[i] = "x"
  PROVE  IsEnd(s, i, RunEnd(s, i))
<1> DEFINE T == {k \in i .. Len(s) : s[k] # "x"}
<1>0. i \in Nat /\ i >= 1 /\ Len(s) \in Nat /\ i <= Len(s)
  OBVIOUS
<1>1. \E j : IsEnd(s, i, j)
  <2>1. CASE T = {}
    <3>1. IsEnd(s, i, Len(s))
      BY <1>0, <2>1 DEF IsEnd
    <3> QED
      BY <3>1
  <2>2. CASE T # {}
    <3>1. T \in SUBSET Nat
      BY <1>0
    <3>2. PICK k \in T : \A m \in T : k <= m
      BY <2>2, <3>1, LeastOf
    <3>3. k \in i .. Len(s) /\ s[k] # "x" /\ k # i
      BY <3>2
    <3>4. k - 1 \in i .. Len(s) /\ (k - 1) + 1 = k
      BY <1>0, <3>3
    <3>5. ASSUME NEW h \in i .. (k - 1) PROVE s[h] = "x"
      <4>1. h \in i .. Len(s) /\ ~(k <= h)
        BY <1>0, <3>3
      <4> QED
        BY <3>2, <4>1
    <3>6. IsEnd(s, i, k - 1)
      BY <3>3, <3>4, <3>5 DEF IsEnd
    <3> QED
      BY <3>6
  <2> QED
    BY <2>1, <2>2
<1> QED
  BY <1>1 DEF IsEnd, RunEnd

(* The characters of a run of n x's that its whole values take up.         *)
Whole(n) == (n \div SecretLen) * SecretLen

LEMMA WholeFacts ==
  ASSUME NEW n \in Nat
  PROVE  /\ n \div SecretLen \in Nat /\ Whole(n) \in Nat
         /\ Whole(n) <= n /\ n - Whole(n) <= SecretLen - 1
  BY SizeAssumption, Z3 DEF Whole

LEMMA WholeGrows ==
  ASSUME NEW n \in Nat, NEW m \in Nat, n <= m
  PROVE  Whole(n) <= Whole(m)
<1>1. n \div SecretLen \in Nat /\ m \div SecretLen \in Nat /\ n \div SecretLen <= m \div SecretLen
  BY SizeAssumption, Z3
<1>2. \A a, b, c \in Nat : a <= b => a * c <= b * c
  BY Z3
<1> QED
  BY <1>1, <1>2, SizeAssumption DEF Whole

----------------------------------------------------------------------------
LEMMA SecretBetween ==
  ASSUME NEW s \in Seq(Chars), NEW i \in 1 .. Len(s), NEW j, NEW m,
         IsStart(s, i, j), IsEnd(s, i, m)
  PROVE  /\ RunStart(s, i) = j /\ RunEnd(s, i) = m
         /\ InSecret(s, i) <=> i - j < Whole(m - j + 1)
<1>0. i \in Nat /\ Len(s) \in Nat
  OBVIOUS
<1>1. s[i] = "x"
  BY <1>0 DEF IsStart
<1>2. RunStart(s, i) = j
  BY <1>0, <1>1, StartOfRun, OneStart
<1>3. RunEnd(s, i) = m
  BY <1>0, <1>1, EndOfRun, OneEnd
<1> QED
  BY <1>1, <1>2, <1>3 DEF InSecret, Whole

(* What has been read of a character once it lies before the last run, or  *)
(* in a whole value, is not read otherwise later.                          *)
LEMMA Settled ==
  ASSUME NEW s \in Seq(Chars), NEW t \in Seq(Chars), Begins(s, t), NEW i \in 1 .. Len(s),
         s[i] = "x" => RunEnd(s, i) < Len(s) \/ InSecret(s, i)
  PROVE  Render(t, i) = Render(s, i)
<1>0. /\ i \in Nat /\ Len(s) \in Nat /\ Len(t) \in Nat /\ i \in 1 .. Len(t) /\ t[i] = s[i]
      /\ Len(s) <= Len(t) /\ i <= Len(s)
  BY DEF Begins
<1>1. CASE s[i] # "x"
  BY <1>0, <1>1 DEF Render, InSecret
<1>2. CASE s[i] = "x"
  <2> DEFINE j == RunStart(s, i)
             m == RunEnd(s, i)
             f == RunEnd(t, i)
  <2>1. IsStart(s, i, j) /\ IsEnd(s, i, m) /\ IsEnd(t, i, f)
    BY <1>0, <1>2, StartOfRun, EndOfRun
  <2>2. j \in 1 .. i /\ m \in i .. Len(s) /\ f \in i .. Len(t)
    BY <2>1 DEF IsStart, IsEnd
  <2> HIDE DEF j, m, f
  <2>3. IsStart(t, i, j)
    <3>1. ASSUME NEW k \in j .. i PROVE t[k] = "x"
      BY <1>0, <2>1, <2>2 DEF IsStart, Begins
    <3>2. j = 1 \/ t[j - 1] # "x"
      <4> SUFFICES ASSUME j # 1 PROVE t[j - 1] # "x"
        OBVIOUS
      <4>1. j - 1 \in 1 .. Len(s)
        BY <1>0, <2>2
      <4> QED
        BY <2>1, <4>1 DEF IsStart, Begins
    <3> QED
      BY <2>2, <3>1, <3>2 DEF IsStart
  <2>4. InSecret(s, i) <=> i - j < Whole(m - j + 1)
    BY <2>1, SecretBetween
  <2>5. RunStart(t, i) = j /\ (InSecret(t, i) <=> i - j < Whole(f - j + 1))
    BY <1>0, <2>1, <2>3, SecretBetween
  <2>6. CASE m < Len(s)
    <3>1. ASSUME NEW k \in i .. m PROVE t[k] = "x"
      BY <1>0, <2>1, <2>2 DEF IsEnd, Begins
    <3>2. m + 1 \in 1 .. Len(s) /\ m \in i .. Len(t)
      BY <1>0, <2>2, <2>6
    <3>3. t[m + 1] # "x"
      BY <2>1, <2>2, <2>6, <3>2 DEF IsEnd, Begins
    <3>4. IsEnd(t, i, m)
      BY <3>1, <3>2, <3>3 DEF IsEnd
    <3>5. f = m
      BY <1>0, <2>1, <3>4, OneEnd
    <3> QED
      BY <1>0, <2>4, <2>5, <3>5 DEF Render, j
  <2>7. CASE ~(m < Len(s))
    <3>1. InSecret(s, i) /\ m = Len(s)
      BY <1>0, <1>2, <2>2, <2>7 DEF m
    <3>2. f >= m
      <4> SUFFICES ASSUME f < m PROVE FALSE
        BY <2>2, <1>0
      <4>1. f # Len(t) /\ f + 1 \in i .. m /\ f + 1 \in 1 .. Len(s)
        BY <1>0, <2>2, <3>1
      <4>2. t[f + 1] # "x"
        BY <2>1, <4>1 DEF IsEnd
      <4> QED
        BY <2>1, <4>1, <4>2 DEF IsEnd, Begins
    <3>3. m - j + 1 \in Nat /\ f - j + 1 \in Nat /\ m - j + 1 <= f - j + 1 /\ i - j \in Nat
      BY <1>0, <2>2, <3>2
    <3>4. /\ Whole(m - j + 1) <= Whole(f - j + 1)
          /\ Whole(m - j + 1) \in Nat /\ Whole(f - j + 1) \in Nat
      BY <3>3, WholeGrows, WholeFacts
    <3>5. InSecret(t, i)
      BY <2>4, <2>5, <3>1, <3>3, <3>4
    <3> QED
      BY <1>0, <2>5, <3>1, <3>5 DEF Render, j
  <2> QED
    BY <2>6, <2>7
<1> QED
  BY <1>1, <1>2

(* Only the end of a text, shorter than a value, can be read otherwise.    *)
LEMMA CutExists ==
  ASSUME NEW s \in Seq(Chars)
  PROVE  \E c \in 0 .. Len(s) :
           /\ Len(s) - c <= SecretLen - 1
           /\ \A i \in c + 1 .. Len(s) : Render(s, i) = <<s[i]>>
           /\ \A t \in Seq(Chars) : Begins(s, t) => \A i \in 1 .. c : Render(t, i) = Render(s, i)
<1> DEFINE n == Len(s)
<1>0. n \in Nat /\ SecretLen \in Nat /\ SecretLen >= 1
  BY SizeAssumption
<1>1. CASE n = 0 \/ s[n] # "x"
  <2>1. ASSUME NEW i \in 1 .. n, s[i] = "x" PROVE RunEnd(s, i) < n
    <3>1. IsEnd(s, i, RunEnd(s, i))
      BY <2>1, EndOfRun
    <3>2. RunEnd(s, i) \in i .. n /\ (\A k \in i .. RunEnd(s, i) : s[k] = "x") /\ i \in Nat
      BY <3>1 DEF IsEnd
    <3>3. n # 0 /\ s[n] # "x"
      BY <1>1, <1>0
    <3>4. RunEnd(s, i) # n
      <4> SUFFICES ASSUME RunEnd(s, i) = n PROVE FALSE
        OBVIOUS
      <4>1. n \in i .. RunEnd(s, i)
        BY <1>0, <3>2
      <4> QED
        BY <3>2, <3>3, <4>1
    <3> QED
      BY <1>0, <3>2, <3>4
  <2>2. ASSUME NEW t \in Seq(Chars), Begins(s, t), NEW i \in 1 .. n
        PROVE  Render(t, i) = Render(s, i)
    BY <2>1, <2>2, Settled
  <2>3. n \in 0 .. n /\ n - n <= SecretLen - 1 /\ n + 1 .. n = {}
    BY <1>0
  <2> QED
    BY <2>2, <2>3
<1>2. CASE n # 0 /\ s[n] = "x"
  <2> DEFINE from == RunStart(s, n)
             w == Whole(n - from + 1)
             c == from + w - 1
  <2>0. n \in 1 .. n
    BY <1>0, <1>2
  <2>1. IsStart(s, n, from)
    BY <1>2, <2>0, StartOfRun
  <2>2. from \in 1 .. n
    BY <2>1 DEF IsStart
  <2> HIDE DEF from
  <2>3. n - from + 1 \in Nat
    BY <1>0, <2>2
  <2>4. w \in Nat /\ w <= n - from + 1 /\ (n - from + 1) - w <= SecretLen - 1
    <3> DEFINE len == n - from + 1
    <3> HIDE DEF len
    <3>1. Whole(len) \in Nat /\ Whole(len) <= len /\ len - Whole(len) <= SecretLen - 1
      BY <2>3, WholeFacts DEF len
    <3> QED
      BY <3>1 DEF len
  <2> HIDE DEF w
  <2>5. c \in 0 .. n /\ n - c <= SecretLen - 1
    BY <1>0, <2>2, <2>4
  <2>6. ASSUME NEW i \in from .. n
        PROVE  /\ s[i] = "x" /\ RunStart(s, i) = from /\ RunEnd(s, i) = n
               /\ InSecret(s, i) <=> i - from < w
    <3>1. i \in 1 .. n /\ from .. i \subseteq from .. n /\ i .. n \subseteq from .. n
      BY <1>0, <2>2
    <3>2. IsStart(s, i, from)
      BY <2>1, <2>2, <3>1 DEF IsStart
    <3>3. IsEnd(s, i, n)
      BY <2>1, <2>2, <3>1 DEF IsStart, IsEnd
    <3> QED
      <4>1. /\ RunStart(s, i) = from /\ RunEnd(s, i) = n
            /\ InSecret(s, i) <=> i - from < Whole(n - from + 1)
        BY <3>1, <3>2, <3>3, SecretBetween
      <4>2. s[i] = "x"
        BY <2>1 DEF IsStart
      <4> QED
        BY <4>1, <4>2 DEF w
  <2>7. ASSUME NEW i \in c + 1 .. n PROVE Render(s, i) = <<s[i]>>
    <3>1. i \in from .. n /\ ~(i - from < w)
      BY <1>0, <2>2, <2>4
    <3> QED
      BY <2>6, <3>1 DEF Render
  <2>8. ASSUME NEW t \in Seq(Chars), Begins(s, t), NEW i \in 1 .. c
        PROVE  Render(t, i) = Render(s, i)
    <3>0. i \in 1 .. n
      BY <1>0, <2>5
    <3>1. ASSUME s[i] = "x", ~(RunEnd(s, i) < n) PROVE InSecret(s, i)
      <4>1. IsEnd(s, i, RunEnd(s, i))
        BY <3>0, <3>1, EndOfRun
      <4>2. RunEnd(s, i) = n /\ \A k \in i .. n : s[k] = "x"
        BY <1>0, <3>0, <3>1, <4>1 DEF IsEnd
      <4>3. i \in from .. n
        <5> SUFFICES ASSUME i < from PROVE FALSE
          BY <1>0, <2>2, <3>0
        <5>1. from # 1 /\ from - 1 \in i .. n
          BY <1>0, <2>2, <3>0
        <5> QED
          BY <2>1, <4>2, <5>1 DEF IsStart
      <4>4. i - from < w
        BY <1>0, <2>2, <2>4
      <4> QED
        BY <2>6, <4>3, <4>4
    <3> QED
      BY <2>8, <3>0, <3>1, Settled
  <2> HIDE DEF c
  <2> QED
    BY <2>5, <2>7, <2>8
<1> QED
  BY <1>1, <1>2

----------------------------------------------------------------------------
(* The governed text.                                                      *)
Rendered(s) == [i \in 1 .. Len(s) |-> Render(s, i)]

LEMMA RenderedType ==
  ASSUME NEW s \in Seq(Chars)
  PROVE  /\ Rendered(s) \in Seq(Seq(Governed)) /\ Len(Rendered(s)) = Len(s)
         /\ \A i \in 1 .. Len(s) : Rendered(s)[i] = Render(s, i)
<1>1. ASSUME NEW i \in 1 .. Len(s) PROVE Render(s, i) \in Seq(Governed)
  <2>1. s[i] \in Governed
    BY DEF Chars, Governed
  <2>2. Render(s, i) = <<s[i]>> \/ Render(s, i) = <<"#">> \/ Render(s, i) = <<>>
    BY DEF Render
  <2>3. "#" \in Governed
    BY DEF Governed
  <2> QED
    <3>1. <<s[i]>> \in Seq(Governed) /\ <<"#">> \in Seq(Governed) /\ <<>> \in Seq(Governed)
      BY <2>1, <2>3
    <3> QED
      BY <2>2, <3>1
<1> QED
  BY <1>1 DEF Rendered

LEMMA RedactIs ==
  ASSUME NEW s \in Seq(Chars)
  PROVE  \E F \in [0 .. Len(s) -> Seq(Governed)] :
           IsPrefixOf(F, Rendered(s)) /\ Redact(s) = F[Len(s)]
<1> DEFINE n == Len(s)
           Is(f) == f = [i \in 0 .. n |-> IF i = 0 THEN <<>> ELSE f[i - 1] \o Render(s, i)]
           g == CHOOSE f : Is(f)
<1>0. n \in Nat
  OBVIOUS
<1>1. PICK F \in [0 .. n -> Seq(Governed)] : IsPrefixOf(F, Rendered(s))
  BY RenderedType, PrefixesExist
<1>2. F[0] = <<>> /\ \A i \in 1 .. n : F[i] = F[i - 1] \o Render(s, i)
  BY <1>1, RenderedType DEF IsPrefixOf
<1>3. Is(F)
  <2>1. ASSUME NEW i \in 0 .. n PROVE F[i] = IF i = 0 THEN <<>> ELSE F[i - 1] \o Render(s, i)
    <3>1. i = 0 \/ i \in 1 .. n
      BY <1>0
    <3> QED
      BY <1>2, <3>1
  <2> QED
    BY <1>1, <2>1
<1>4. Is(g)
  <2> HIDE DEF Is
  <2> QED
    BY <1>3
<1>5. Redact(s) = g[n]
  BY DEF Redact
<1> HIDE DEF g
<1> DEFINE T == {i \in Nat : i \in 0 .. n => g[i] = F[i]}
<1>6. 0 \in T
  BY <1>0, <1>2, <1>4
<1>7. ASSUME NEW i \in T PROVE i + 1 \in T
  <2> SUFFICES ASSUME i + 1 \in 0 .. n PROVE g[i + 1] = F[i + 1]
    OBVIOUS
  <2>1. i \in 0 .. n /\ i + 1 \in 1 .. n /\ (i + 1) - 1 = i /\ i + 1 # 0
    BY <1>0
  <2>2. g[i + 1] = g[(i + 1) - 1] \o Render(s, i + 1)
    BY <1>4, <2>1
  <2>3. F[i + 1] = F[(i + 1) - 1] \o Render(s, i + 1)
    BY <1>2, <2>1
  <2>4. g[i] = F[i]
    BY <2>1
  <2> QED
    BY <2>1, <2>2, <2>3, <2>4
<1>8. T = Nat
  <2>1. T \in SUBSET Nat
    OBVIOUS
  <2> HIDE DEF T
  <2> QED
    BY <1>6, <1>7, <2>1, ReachesAll
<1>9. n \in T
  <2> HIDE DEF T
  <2> QED
    BY <1>0, <1>8
<1>10. g[n] = F[n]
  BY <1>0, <1>9
<1> QED
  BY <1>1, <1>5, <1>10

LEMMA RedactType == ASSUME NEW s \in Seq(Chars) PROVE Redact(s) \in Seq(Governed)
<1>1. PICK F \in [0 .. Len(s) -> Seq(Governed)] : Redact(s) = F[Len(s)]
  BY RedactIs
<1> QED
  BY <1>1

(* However a text goes on, all of its governed form but an end shorter     *)
(* than a value stays as it is.                                            *)
LEMMA Stable ==
  ASSUME NEW s \in Seq(Chars)
  PROVE  \E p \in Seq(Governed) :
           /\ Begins(p, Redact(s)) /\ Len(Redact(s)) - Len(p) <= SecretLen - 1
           /\ \A t \in Seq(Chars) : Begins(s, t) => Begins(p, Redact(t))
<1> DEFINE n == Len(s)
<1>1. PICK c \in 0 .. n :
        /\ n - c <= SecretLen - 1
        /\ \A i \in c + 1 .. n : Render(s, i) = <<s[i]>>
        /\ \A t \in Seq(Chars) : Begins(s, t) => \A i \in 1 .. c : Render(t, i) = Render(s, i)
  BY CutExists
<1>2. PICK F \in [0 .. n -> Seq(Governed)] : IsPrefixOf(F, Rendered(s)) /\ Redact(s) = F[n]
  BY RedactIs
<1>3. n \in Nat /\ c \in Nat /\ c <= n
  OBVIOUS
<1>4. F[c] \in Seq(Governed) /\ Begins(F[c], Redact(s))
  BY <1>2, RenderedType, PrefixesBegin
<1>5. Len(Redact(s)) = Len(F[c]) + (n - c)
  <2> DEFINE T == {i \in Nat : c + i <= n => Len(F[c + i]) = Len(F[c]) + i}
  <2>0. Len(F[c]) \in Nat
    BY <1>4
  <2>1. 0 \in T
    BY <1>3, <2>0
  <2>2. ASSUME NEW i \in T PROVE i + 1 \in T
    <3> SUFFICES ASSUME c + (i + 1) <= n PROVE Len(F[c + (i + 1)]) = Len(F[c]) + (i + 1)
      OBVIOUS
    <3> DEFINE k == c + (i + 1)
    <3>1. k \in c + 1 .. n /\ k \in 1 .. n /\ k - 1 = c + i /\ c + i <= n /\ c + i \in 0 .. n
      BY <1>3
    <3>2. F[k] = F[k - 1] \o Render(s, k)
      BY <1>2, <3>1, RenderedType DEF IsPrefixOf
    <3>3. Render(s, k) = <<s[k]>> /\ s[k] \in Governed
      BY <1>1, <3>1 DEF Chars, Governed
    <3>4. F[c + i] \in Seq(Governed) /\ Len(F[c + i]) = Len(F[c]) + i
      BY <3>1
    <3> HIDE DEF k
    <3>5. F[k] = F[c + i] \o <<s[k]>>
      BY <3>1, <3>2, <3>3
    <3>6. Len(F[k]) = Len(F[c + i]) + 1
      BY <3>3, <3>4, <3>5
    <3> QED
      BY <2>0, <3>4, <3>6 DEF k
  <2>3. T = Nat
    <3>1. T \in SUBSET Nat
      OBVIOUS
    <3> HIDE DEF T
    <3> QED
      BY <2>1, <2>2, <3>1, ReachesAll
  <2>4. n - c \in T
    <3>1. n - c \in Nat
      BY <1>3
    <3> HIDE DEF T
    <3> QED
      BY <2>3, <3>1
  <2>5. c + (n - c) = n
    BY <1>3
  <2> QED
    BY <1>2, <1>3, <2>4, <2>5
<1>6. ASSUME NEW t \in Seq(Chars), Begins(s, t) PROVE Begins(F[c], Redact(t))
  <2>1. PICK G \in [0 .. Len(t) -> Seq(Governed)] :
          IsPrefixOf(G, Rendered(t)) /\ Redact(t) = G[Len(t)]
    BY RedactIs
  <2>2. Len(t) \in Nat /\ c <= Len(t)
    BY <1>3, <1>6 DEF Begins
  <2> DEFINE T == {i \in Nat : i <= c => G[i] = F[i]}
  <2>3. 0 \in T
    BY <1>2, <2>1 DEF IsPrefixOf
  <2>4. ASSUME NEW i \in T PROVE i + 1 \in T
    <3> SUFFICES ASSUME i + 1 <= c PROVE G[i + 1] = F[i + 1]
      OBVIOUS
    <3>1. /\ i + 1 \in 1 .. c /\ i + 1 \in 1 .. n /\ i + 1 \in 1 .. Len(t) /\ i <= c
          /\ (i + 1) - 1 = i
      BY <1>3, <2>2
    <3>2. F[i + 1] = F[i] \o Render(s, i + 1)
      BY <1>2, <3>1, RenderedType DEF IsPrefixOf
    <3>3. G[i + 1] = G[i] \o Render(t, i + 1)
      BY <2>1, <3>1, RenderedType DEF IsPrefixOf
    <3>4. Render(t, i + 1) = Render(s, i + 1)
      BY <1>1, <1>6, <3>1
    <3>5. G[i] = F[i]
      BY <3>1
    <3> QED
      BY <3>2, <3>3, <3>4, <3>5
  <2>5. T = Nat
    <3>1. T \in SUBSET Nat
      OBVIOUS
    <3> HIDE DEF T
    <3> QED
      BY <2>3, <2>4, <3>1, ReachesAll
  <2>6. c \in T
    <3> HIDE DEF T
    <3> QED
      BY <1>3, <2>5
  <2>7. G[c] = F[c]
    BY <1>3, <2>6
  <2>8. Begins(G[c], G[Len(t)])
    <3>1. Rendered(t) \in Seq(Seq(Governed)) /\ Len(Rendered(t)) = Len(t)
      BY RenderedType
    <3>2. c \in 0 .. Len(Rendered(t)) /\ G \in [0 .. Len(Rendered(t)) -> Seq(Governed)]
      BY <1>3, <2>1, <2>2, <3>1
    <3> QED
      BY <2>1, <3>1, <3>2, PrefixesBegin
  <2> QED
    BY <2>1, <2>7, <2>8
<1>7. Len(Redact(s)) - Len(F[c]) <= SecretLen - 1
  <2>1. Len(F[c]) \in Nat /\ SecretLen \in Nat
    BY <1>4, SizeAssumption
  <2> QED
    BY <1>1, <1>3, <1>5, <2>1
<1> QED
  BY <1>4, <1>6, <1>7

----------------------------------------------------------------------------
(* What a drain lets out.                                                  *)

LEMMA StartsIs ==
  ASSUME NEW S, NEW p \in Seq(S), NEW q \in Seq(S)
  PROVE  StartsWith(q, p) <=> Begins(p, q)
<1>0. Len(p) \in Nat /\ Len(q) \in Nat
  OBVIOUS
<1>1. ASSUME StartsWith(q, p) PROVE Begins(p, q)
  BY <1>0, <1>1 DEF StartsWith, Begins
<1>2. ASSUME Begins(p, q) PROVE StartsWith(q, p)
  <2>1. Len(p) <= Len(q) /\ \A k \in 1 .. Len(p) : q[k] = p[k]
    BY <1>2 DEF Begins
  <2>2. SubSeq(q, 1, Len(p)) = p
    BY <1>0, <2>1
  <2> QED
    BY <2>1, <2>2 DEF StartsWith
<1> QED
  BY <1>1, <1>2

(* The next part of a text, behind a part of it.                           *)
LEMMA NextPart ==
  ASSUME NEW S, NEW p \in Seq(S), NEW q \in Seq(S), Begins(p, q), NEW m \in 0 .. Len(q)
  PROVE  LET r == p \o SubSeq(q, Len(p) + 1, m)
         IN  /\ r \in Seq(S) /\ Begins(p, r) /\ Begins(r, q)
             /\ Len(r) = IF m > Len(p) THEN m ELSE Len(p)
             /\ m <= Len(p) => r = p
             /\ m = Len(q) => r = q
<1>0. Len(p) \in Nat /\ Len(q) \in Nat /\ m \in Nat /\ m <= Len(q) /\ Len(p) <= Len(q)
  BY DEF Begins
<1>1. \A k \in 1 .. Len(p) : q[k] = p[k]
  BY DEF Begins
<1>2. CASE m <= Len(p)
  <2>1. p \o SubSeq(q, Len(p) + 1, m) = p
    BY <1>0, <1>2
  <2>2. Begins(p, p)
    BY <1>0 DEF Begins
  <2>3. m = Len(q) => p = q
    BY <1>0, <1>1, <1>2
  <2> DEFINE r == p \o SubSeq(q, Len(p) + 1, m)
  <2>4. r = p
    BY <2>1
  <2> HIDE DEF r
  <2>5. /\ r \in Seq(S) /\ Begins(p, r) /\ Begins(r, q)
        /\ Len(r) = IF m > Len(p) THEN m ELSE Len(p)
        /\ m <= Len(p) => r = p
        /\ m = Len(q) => r = q
    BY <1>0, <1>2, <2>2, <2>3, <2>4
  <2> QED
    BY <2>5 DEF r
<1>3. CASE m > Len(p)
  <2> DEFINE u == SubSeq(q, Len(p) + 1, m)
             r == p \o u
  <2>1. u \in Seq(S) /\ Len(u) = m - Len(p) /\ \A k \in 1 .. Len(u) : u[k] = q[Len(p) + k]
    BY <1>0, <1>3
  <2> HIDE DEF u
  <2>2. r \in Seq(S) /\ Len(r) = m /\ Begins(p, r)
    <3>1. r \in Seq(S) /\ Len(r) = Len(p) + Len(u) /\ Begins(p, r)
      BY <2>1, ConcatBegins, Appended
    <3> HIDE DEF r
    <3> QED
      BY <1>0, <1>3, <2>1, <3>1
  <2>3. ASSUME NEW k \in 1 .. m PROVE q[k] = r[k]
    <3>1. CASE k <= Len(p)
      <4>1. k \in 1 .. Len(p)
        BY <1>0, <3>1
      <4> QED
        BY <1>1, <2>1, <4>1, Appended
    <3>2. CASE k > Len(p)
      <4>1. k - Len(p) \in 1 .. Len(u) /\ Len(p) + (k - Len(p)) = k
        BY <1>0, <2>1, <3>2
      <4>2. r[Len(p) + (k - Len(p))] = u[k - Len(p)]
        BY <2>1, <4>1, Appended
      <4> QED
        BY <2>1, <4>1, <4>2
    <3>3. k \in Nat
      BY <1>0
    <3> HIDE DEF r
    <3> QED
      BY <1>0, <3>1, <3>2, <3>3
  <2> HIDE DEF r
  <2>4. Begins(r, q)
    BY <1>0, <2>2, <2>3 DEF Begins
  <2>5. m = Len(q) => r = q
    BY <1>0, <2>2, <2>3
  <2> QED
    BY <1>0, <1>3, <2>2, <2>4, <2>5 DEF r, u
<1> QED
  BY <1>0, <1>2, <1>3

Wide == Window >= SecretLen - 1

(* Text that the governed form of everything a stream can become starts    *)
(* with.                                                                   *)
Lasting(start, text) == \A t \in Seq(Chars) : Begins(text, t) => Begins(start, Redact(t))

LEMMA LastingNow ==
  ASSUME NEW start, NEW text \in Seq(Chars), Lasting(start, text)
  PROVE  Begins(start, Redact(text))
  BY DEF Lasting, Begins

LEMMA LastingOn ==
  ASSUME NEW start, NEW s \in Seq(Chars), NEW t \in Seq(Chars), Begins(s, t), Lasting(start, s)
  PROVE  Lasting(start, t)
  BY BeginsTrans DEF Lasting

(* What a drain does, of a text that continues what is out for good.       *)
LEMMA Drained ==
  ASSUME NEW text \in Seq(Chars), NEW final \in BOOLEAN, emitted \in Seq(Governed),
         Wide => Lasting(emitted, text), Drain(text, final)
  PROVE  /\ emitted' \in Seq(Governed) /\ Begins(emitted, emitted')
         /\ refused' \in {refused, "policy", "overran"}
         /\ Wide => /\ refused' \in {refused, "policy"}
                    /\ Begins(emitted', Redact(text))
                    /\ ~final => Lasting(emitted', text)
         /\ refused' = "no" => refused = "no" /\ Begins(emitted, Redact(text))
         /\ refused' = "no" /\ final => emitted' = Redact(text)
         /\ refused' # "no" => refused # "no" \/ emitted' = emitted
<1> DEFINE R == Redact(text)
<1>1. R \in Seq(Governed) /\ Len(R) \in Nat
  BY RedactType
<1>2. StartsWith(R, emitted) <=> Begins(emitted, R)
  BY <1>1, StartsIs
<1>3. Wide => Begins(emitted, R)
  BY LastingNow
<1>4. Begins(emitted, emitted)
  BY DEF Begins
<1>5. CASE refused' = "policy" /\ UNCHANGED emitted
  BY <1>3, <1>4, <1>5
<1>6. CASE ~StartsWith(R, emitted) /\ refused' = "overran" /\ UNCHANGED emitted
  BY <1>2, <1>3, <1>4, <1>6
<1>7. CASE /\ StartsWith(R, emitted) /\ emitted' = emitted \o Fresh(text, final)
           /\ UNCHANGED refused
  <2> DEFINE m == SafeEnd(text, final)
  <2>0. Window \in Nat /\ SecretLen \in Nat
    BY SizeAssumption
  <2>1. m \in 0 .. Len(R) /\ (final => m = Len(R)) /\ (~final => m = 0 \/ m = Len(R) - Window)
    BY <1>1, <2>0 DEF SafeEnd, Largest
  <2>2. emitted' = emitted \o SubSeq(R, Len(emitted) + 1, m)
    BY <1>7 DEF Fresh
  <2> HIDE DEF m, R
  <2>3. /\ emitted' \in Seq(Governed) /\ Begins(emitted, emitted') /\ Begins(emitted', R)
        /\ Len(emitted') = (IF m > Len(emitted) THEN m ELSE Len(emitted))
        /\ m <= Len(emitted) => emitted' = emitted
        /\ m = Len(R) => emitted' = R
    BY <1>1, <1>2, <1>7, <2>1, <2>2, NextPart
  <2>4. ASSUME Wide, ~final PROVE Lasting(emitted', text)
    <3>1. CASE m <= Len(emitted)
      BY <2>3, <2>4, <3>1
    <3>2. CASE ~(m <= Len(emitted))
      <4>1. PICK p \in Seq(Governed) :
              /\ Begins(p, R) /\ Len(R) - Len(p) <= SecretLen - 1
              /\ \A t \in Seq(Chars) : Begins(text, t) => Begins(p, Redact(t))
        BY Stable DEF R
      <4>2. /\ Len(emitted) \in Nat /\ Len(p) \in Nat /\ Len(emitted') \in Nat
            /\ Len(p) <= Len(R) /\ Len(emitted') <= Len(R)
        BY <1>1, <2>3, <4>1 DEF Begins
      <4>3. m = Len(R) - Window /\ Len(emitted') = m
        BY <2>1, <2>3, <2>4, <3>2, <4>2
      <4>4. Len(emitted') <= Len(p)
        BY <1>1, <2>0, <2>4, <4>1, <4>2, <4>3 DEF Wide
      <4>5. Begins(emitted', p)
        BY <2>3, <4>1, <4>2, <4>4 DEF Begins
      <4> QED
        BY <2>3, <4>1, <4>5, BeginsTrans, RedactType DEF Lasting
    <3> QED
      BY <3>1, <3>2
  <2> QED
    BY <1>2, <1>7, <2>1, <2>3, <2>4 DEF R
<1> QED
  BY <1>5, <1>6, <1>7 DEF Drain

----------------------------------------------------------------------------
(* The invariant.                                                          *)

StreamTypes ==
  /\ mode \in {"window", "buffer"} /\ answer \in Seq(Chars) /\ pos \in 0 .. Len(answer)
  /\ seen \in Seq(Chars) /\ emitted \in Seq(Governed) /\ streamed \in Seq(Governed)
  /\ refused \in {"no", "policy", "overran"} /\ sawError \in BOOLEAN
  /\ phase \in {"open", "flush", "report", "closed"}
  /\ report \in {"none", "enforced", "refused"}

(* What a sliding window has let out is what the client has. *)
Together == mode = "window" => streamed = emitted

Steady ==
  Wide => /\ refused # "overran" /\ Begins(emitted, Redact(seen))
          /\ phase \in {"open", "flush"} => Lasting(emitted, seen)

Started ==
  /\ seen = <<>> => emitted = <<>>
  /\ mode = "buffer" /\ phase = "open" => seen = <<>>

Told ==
  mode = "window" =>
    /\ refused # "no" => sawError
    /\ refused = "no" /\ phase # "closed" => ~sawError

Flushed == phase = "report" /\ refused = "no" => emitted = Redact(seen)

(* A buffered answer leaves at once, from where its only feed stopped. *)
AtOnce ==
  mode = "buffer" /\ streamed # <<>> =>
    /\ phase \notin {"open", "flush"}
    /\ \E i \in 1 .. Len(Redact(seen)) : streamed = SubSeq(Redact(seen), i, Len(Redact(seen)))

Said ==
  /\ report # "none" => phase = "closed"
  /\ RefusalIsSeen
  /\ EnforcedMeansDelivered

StreamInv ==
  StreamTypes /\ Together /\ Steady /\ Started /\ Told /\ Flushed /\ AtOnce /\ Said

LEMMA StreamStarts == StreamInit => StreamInv
<1> SUFFICES ASSUME StreamInit PROVE StreamInv
  OBVIOUS
<1>1. answer \in Seq(Chars)
  <2>1. PICK n \in 0 .. MaxAnswer : answer \in [1 .. n -> {"a", "x"}]
    BY DEF StreamInit
  <2>2. n \in Nat
    OBVIOUS
  <2> QED
    BY <2>1, <2>2 DEF Chars
<1>2. StreamTypes
  <2>1. <<>> \in Seq(Chars) /\ <<>> \in Seq(Governed) /\ 0 \in 0 .. Len(answer)
    BY <1>1
  <2>2. mode \in {"window", "buffer"}
    BY ModesAssumption DEF StreamInit
  <2> QED
    BY <1>1, <2>1, <2>2 DEF StreamInit, StreamTypes
<1>3. Steady
  <2>1. \A t \in Seq(Chars) : Begins(<<>>, Redact(t))
    BY RedactType DEF Begins
  <2>2. emitted = <<>> /\ seen = <<>> /\ refused = "no" /\ <<>> \in Seq(Chars)
    BY DEF StreamInit
  <2> QED
    BY <2>1, <2>2 DEF Steady, Lasting
<1> QED
  BY <1>2, <1>3 DEF StreamInit, StreamInv, Together, Started, Told, Flushed, AtOnce, Said,
     RefusalIsSeen, EnforcedMeansDelivered

(* A drain whose text is sent on. *)
LEMMA DrainedAndSent ==
  ASSUME StreamInv, mode = "window", phase \in {"open", "flush"}, refused = "no",
         NEW text \in Seq(Chars), Begins(seen, text), NEW final \in BOOLEAN,
         Drain(text, final), Forward
  PROVE  /\ emitted' \in Seq(Governed) /\ streamed' = emitted'
         /\ refused' \in {"no", "policy", "overran"}
         /\ sawError' = (refused' # "no")
         /\ Wide => /\ refused' # "overran" /\ Begins(emitted', Redact(text))
                    /\ ~final => Lasting(emitted', text)
         /\ refused' = "no" /\ final => emitted' = Redact(text)
<1>1. emitted \in Seq(Governed) /\ streamed = emitted /\ ~sawError /\ seen \in Seq(Chars)
  BY DEF StreamInv, StreamTypes, Together, Told
<1>2. Wide => Lasting(emitted, text)
  BY <1>1, LastingOn DEF StreamInv, Steady
<1>3. /\ emitted' \in Seq(Governed) /\ Begins(emitted, emitted')
      /\ refused' \in {"no", "policy", "overran"}
      /\ Wide => /\ refused' # "overran" /\ Begins(emitted', Redact(text))
                 /\ ~final => Lasting(emitted', text)
      /\ refused' = "no" /\ final => emitted' = Redact(text)
  BY <1>1, <1>2, Drained
<1>4. streamed' = emitted'
  <2>1. Len(emitted') \in 0 .. Len(emitted')
    BY <1>3
  <2>2. emitted \o SubSeq(emitted', Len(emitted) + 1, Len(emitted')) = emitted'
    BY <1>1, <1>3, <2>1, NextPart
  <2> QED
    BY <1>1, <2>2 DEF Forward
<1>5. sawError' = (refused' # "no")
  BY <1>1 DEF Forward
<1> QED
  BY <1>3, <1>4, <1>5

LEMMA FeedKeeps ==
  ASSUME StreamInv, NEW k \in 1 .. MaxPiece, Feed(k)
  PROVE  StreamInv'
<1> DEFINE piece == SubSeq(answer, pos + 1, pos + k)
           text == seen \o piece
<1>0. /\ k \in Nat /\ k >= 1 /\ pos \in Nat /\ pos + k <= Len(answer) /\ Len(answer) \in Nat
      /\ answer \in Seq(Chars) /\ seen \in Seq(Chars) /\ pos' = pos + k /\ answer' = answer
  BY SizeAssumption DEF StreamInv, StreamTypes, Feed
<1>1. piece \in Seq(Chars) /\ Len(piece) = k
  BY <1>0
<1> HIDE DEF piece
<1>2. text \in Seq(Chars) /\ Begins(seen, text) /\ Len(text) = Len(seen) + k
  BY <1>0, <1>1, ConcatBegins, Appended
<1> HIDE DEF text
<1>3. /\ mode = "window" /\ phase = "open" /\ refused = "no" /\ seen' = text
      /\ mode' = mode /\ phase' = phase /\ report' = report /\ report = "none"
  BY DEF Feed, piece, text, StreamInv, Said
<1>4. /\ emitted' \in Seq(Governed) /\ streamed' = emitted'
      /\ refused' \in {"no", "policy", "overran"}
      /\ sawError' = (refused' # "no")
      /\ Wide => /\ refused' # "overran" /\ Begins(emitted', Redact(text))
                 /\ Lasting(emitted', text)
  <2>1. CASE UNCHANGED <<governedAt, emitted, refused, streamed, sawError>>
    BY <1>0, <1>2, <1>3, <2>1, LastingOn, LastingNow
       DEF StreamInv, StreamTypes, Together, Steady, Told
  <2>2. CASE Drain(text, FALSE) /\ Forward
    BY <1>2, <1>3, <2>2, DrainedAndSent
  <2> QED
    BY <2>1, <2>2 DEF Feed, text, piece
<1>5. StreamTypes'
  BY <1>0, <1>2, <1>3, <1>4 DEF StreamInv, StreamTypes
<1>6. Started'
  <2>1. Len(text) # 0
    BY <1>0, <1>2
  <2>2. text # <<>>
    BY <2>1
  <2> QED
    BY <1>3, <2>2 DEF Started
<1>7. Steady'
  BY <1>3, <1>4 DEF Steady, Wide
<1> QED
  BY <1>3, <1>4, <1>5, <1>6, <1>7 DEF StreamInv, Together, Told, Flushed, AtOnce, Said,
     RefusalIsSeen, EnforcedMeansDelivered

LEMMA FeedBufferedKeeps ==
  ASSUME StreamInv, FeedBuffered
  PROVE  StreamInv'
<1>1. /\ mode = "buffer" /\ phase = "open" /\ pos' = Len(answer) /\ seen' = answer
      /\ phase' = "flush" /\ answer' = answer /\ streamed' = streamed /\ sawError' = sawError
      /\ report' = report /\ mode' = mode
  BY DEF FeedBuffered
<1>2. /\ seen = <<>> /\ emitted = <<>> /\ streamed = <<>> /\ report = "none"
      /\ answer \in Seq(Chars) /\ seen \in Seq(Chars) /\ emitted \in Seq(Governed)
  BY <1>1 DEF StreamInv, StreamTypes, Started, AtOnce, Said
<1>3. Begins(seen, answer) /\ Len(answer) \in Nat
  BY <1>2 DEF Begins
<1>4. Wide => Lasting(emitted, answer)
  BY <1>1, <1>2, <1>3, LastingOn DEF StreamInv, Steady
<1>5. /\ emitted' \in Seq(Governed) /\ refused' \in {"no", "policy", "overran"}
      /\ answer = <<>> => emitted' = <<>>
      /\ Wide => /\ refused' # "overran" /\ Begins(emitted', Redact(answer))
                 /\ Lasting(emitted', answer)
  <2>1. CASE UNCHANGED <<governedAt, emitted, refused>>
    BY <1>2, <1>4, <2>1, LastingNow DEF StreamInv, StreamTypes, Steady
  <2>2. CASE Len(answer) # 0 /\ Drain(answer, FALSE)
    <3>1. answer # <<>>
      BY <2>2
    <3>2. refused \in {"no", "policy", "overran"} /\ (Wide => refused # "overran")
      BY DEF StreamInv, StreamTypes, Steady
    <3>3. /\ emitted' \in Seq(Governed) /\ refused' \in {refused, "policy", "overran"}
          /\ Wide => /\ refused' \in {refused, "policy"} /\ Begins(emitted', Redact(answer))
                     /\ Lasting(emitted', answer)
      BY <1>2, <1>4, <2>2, Drained
    <3> QED
      BY <3>1, <3>2, <3>3
  <2> QED
    BY <2>1, <2>2 DEF FeedBuffered
<1>6. StreamTypes'
  BY <1>1, <1>3, <1>5 DEF StreamInv, StreamTypes
<1>7. Steady'
  BY <1>1, <1>5 DEF Steady, Wide
<1> QED
  BY <1>1, <1>2, <1>5, <1>6, <1>7 DEF StreamInv, Together, Started, Told, Flushed, AtOnce, Said,
     RefusalIsSeen, EnforcedMeansDelivered

LEMMA RedactEmpty == Redact(<<>>) = <<>>
<1>1. <<>> \in Seq(Chars) /\ Len(<<>>) = 0
  OBVIOUS
<1>2. PICK F \in [0 .. Len(<<>>) -> Seq(Governed)] :
        IsPrefixOf(F, Rendered(<<>>)) /\ Redact(<<>>) = F[Len(<<>>)]
  BY <1>1, RedactIs
<1> QED
  BY <1>1, <1>2 DEF IsPrefixOf

LEMMA FinishKeeps ==
  ASSUME StreamInv, Finish
  PROVE  StreamInv'
<1>1. /\ phase = "flush" /\ phase' = "report" /\ mode' = mode /\ answer' = answer /\ pos' = pos
      /\ seen' = seen /\ report' = report /\ report = "none"
  BY DEF Finish, StreamInv, Said
<1>2. /\ seen \in Seq(Chars) /\ emitted \in Seq(Governed) /\ streamed \in Seq(Governed)
      /\ mode \in {"window", "buffer"} /\ sawError \in BOOLEAN
      /\ refused \in {"no", "policy", "overran"}
  BY DEF StreamInv, StreamTypes
<1>3. CASE /\ refused # "no" \/ seen = <<>>
           /\ UNCHANGED <<governedAt, emitted, refused, streamed, sawError>>
  <2>1. refused = "no" => emitted = Redact(seen)
    BY <1>3, RedactEmpty DEF StreamInv, Started
  <2> QED
    BY <1>1, <1>3, <2>1 DEF StreamInv, StreamTypes, Together, Steady, Started, Told, Flushed, AtOnce,
       Said, RefusalIsSeen, EnforcedMeansDelivered, Wide
<1>4. CASE refused = "no" /\ seen # <<>> /\ Drain(seen, TRUE) /\ Forward
  <2>0. Begins(seen, seen)
    BY DEF Begins
  <2>1. Wide => Lasting(emitted, seen)
    BY <1>1 DEF StreamInv, Steady
  <2>2. /\ emitted' \in Seq(Governed) /\ Begins(emitted, emitted')
        /\ refused' \in {"no", "policy", "overran"}
        /\ Wide => refused' # "overran" /\ Begins(emitted', Redact(seen))
        /\ refused' = "no" => emitted' = Redact(seen) /\ Begins(emitted, Redact(seen))
        /\ refused' # "no" => emitted' = emitted
    BY <1>2, <1>4, <2>1, Drained
  <2>3. sawError' \in BOOLEAN
    BY <1>2, <1>4 DEF Forward
  <2>4. Steady' /\ Started' /\ Flushed'
    BY <1>1, <1>4, <2>2 DEF Steady, Wide, Started, Flushed
  <2>5. CASE mode = "window"
    <3>1. streamed' = emitted' /\ sawError' = (refused' # "no")
      BY <1>1, <1>2, <1>4, <2>0, <2>5, DrainedAndSent
    <3> QED
      BY <1>1, <1>4, <2>2, <2>4, <2>5, <3>1 DEF StreamInv, StreamTypes, Together, Told, AtOnce,
         Said, RefusalIsSeen, EnforcedMeansDelivered
  <2>6. CASE mode = "buffer"
    <3> DEFINE R == Redact(seen)
               n == Len(emitted)
    <3>1. streamed = <<>> /\ streamed' = streamed \o SubSeq(emitted', n + 1, Len(emitted'))
      BY <1>1, <1>4, <2>6 DEF StreamInv, AtOnce, Forward
    <3>2. R \in Seq(Governed) /\ Len(R) \in Nat /\ n \in Nat
      BY <1>2, RedactType
    <3>3. streamed' \in Seq(Governed) /\ streamed' = SubSeq(emitted', n + 1, Len(emitted'))
      BY <2>2, <3>1, <3>2
    <3>4. ASSUME streamed' # <<>>
          PROVE  \E i \in 1 .. Len(R) : streamed' = SubSeq(R, i, Len(R))
      <4>1. refused' = "no"
        <5> SUFFICES ASSUME refused' # "no" PROVE FALSE
          OBVIOUS
        <5>1. emitted' = emitted
          BY <2>2
        <5> QED
          BY <1>2, <3>2, <3>3, <3>4, <5>1
      <4>2. streamed' = SubSeq(R, n + 1, Len(R))
        BY <2>2, <3>3, <4>1
      <4>3. n + 1 \in 1 .. Len(R)
        <5> HIDE DEF R, n
        <5> QED
          BY <3>2, <3>4, <4>2
      <4> QED
        BY <4>2, <4>3
    <3>5. AtOnce'
      BY <1>1, <3>4 DEF AtOnce
    <3> QED
      BY <1>1, <2>2, <2>3, <2>4, <2>6, <3>3, <3>5 DEF StreamInv, StreamTypes, Together, Told,
         Said, RefusalIsSeen, EnforcedMeansDelivered
  <2> QED
    BY <1>2, <2>5, <2>6
<1> QED
  BY <1>3, <1>4 DEF Finish

LEMMA StreamKeeps == StreamInv /\ [StreamNext]_streamVars => StreamInv'
<1> SUFFICES ASSUME StreamInv, [StreamNext]_streamVars PROVE StreamInv'
  OBVIOUS
<1> USE DEF StreamInv
<1>1. CASE \E k \in 1 .. MaxPiece : Feed(k)
  BY <1>1, FeedKeeps
<1>2. CASE \E k \in 1 .. MaxPiece : LoseEvent(k)
  BY <1>2, SizeAssumption DEF LoseEvent, StreamTypes, Together, Steady, Started, Told, Flushed,
     AtOnce, Said, RefusalIsSeen, EnforcedMeansDelivered, Wide
<1>3. CASE EndOfInput
  BY <1>3 DEF EndOfInput, StreamTypes, Together, Steady, Started, Told, Flushed, AtOnce, Said,
     RefusalIsSeen, EnforcedMeansDelivered, Wide
<1>4. CASE UpstreamFails
  BY <1>4 DEF UpstreamFails, StreamTypes, Together, Steady, Started, Told, Flushed, AtOnce, Said,
     RefusalIsSeen, EnforcedMeansDelivered, Wide
<1>5. CASE FeedBuffered
  BY <1>5, FeedBufferedKeeps
<1>6. CASE Finish
  BY <1>6, FinishKeeps
<1>7. CASE ReportOutcome
  BY <1>7 DEF ReportOutcome, StreamTypes, Together, Steady, Started, Told, Flushed, AtOnce, Said,
     RefusalIsSeen, EnforcedMeansDelivered, Wide
<1>8. CASE UNCHANGED streamVars
  BY <1>8 DEF streamVars, StreamTypes, Together, Steady, Started, Told, Flushed, AtOnce, Said,
     RefusalIsSeen, EnforcedMeansDelivered, Wide
<1> QED
  BY <1>1, <1>2, <1>3, <1>4, <1>5, <1>6, <1>7, <1>8 DEF StreamNext

LEMMA StreamInvHolds == StreamSpec => []StreamInv
  BY StreamStarts, StreamKeeps, PTL DEF StreamSpec

(* Whatever the window, the provider, the pieces and the policies, the     *)
(* client of a stream that ends refused in window mode was sent an error   *)
(* event, "enforced" was reported only of one that has the whole governed  *)
(* text, and a window no shorter than a value never overruns               *)
(* (StreamGovernor._drain and finish, _stream in main.py).                 *)
THEOREM StreamsEndAsReported == StreamSpec => []StreamEndsAsReported
<1>1. StreamInv => StreamEndsAsReported
  BY DEF StreamInv, Steady, Wide, Said, StreamEndsAsReported, WindowNeverOverrun
<1> QED
  BY <1>1, StreamInvHolds, PTL

(* A window no shorter than the longest value, which is what streaming.py  *)
(* asks of it, lets out nothing that is recognised later: what the client  *)
(* has always begins the governed form of everything that has arrived.     *)
THEOREM NothingLeavesEarly ==
  ASSUME Window >= SecretLen - 1
  PROVE  StreamSpec => []NothingSensitiveDelivered
<1>1. StreamInv => NothingSensitiveDelivered
  <2> SUFFICES ASSUME StreamInv, streamed # <<>>
               PROVE  \E i \in 1 .. Len(Redact(seen)) :
                        /\ mode = "window" => i = 1
                        /\ StartsWith(SubSeq(Redact(seen), i, Len(Redact(seen))), streamed)
    BY DEF NothingSensitiveDelivered
  <2> DEFINE R == Redact(seen)
  <2>1. /\ seen \in Seq(Chars) /\ streamed \in Seq(Governed) /\ emitted \in Seq(Governed)
        /\ mode \in {"window", "buffer"}
    BY DEF StreamInv, StreamTypes
  <2>2. R \in Seq(Governed) /\ Len(R) \in Nat
    BY <2>1, RedactType
  <2>3. CASE mode = "window"
    <3>1. Begins(streamed, R)
      BY <2>3 DEF StreamInv, Together, Steady, Wide
    <3>2. Len(streamed) \in Nat /\ Len(streamed) # 0
      BY <2>1
    <3>3. 1 \in 1 .. Len(R)
      BY <2>2, <3>1, <3>2 DEF Begins
    <3>4. SubSeq(R, 1, Len(R)) = R
      <4> HIDE DEF R
      <4> QED
        BY <2>2
    <3>5. StartsWith(R, streamed)
      BY <2>1, <2>2, <3>1, StartsIs
    <3> QED
      BY <3>3, <3>4, <3>5
  <2>4. CASE mode = "buffer"
    <3>1. PICK i \in 1 .. Len(R) : streamed = SubSeq(R, i, Len(R))
      BY <2>4 DEF StreamInv, AtOnce
    <3>2. Begins(streamed, streamed)
      BY DEF Begins
    <3>3. StartsWith(SubSeq(R, i, Len(R)), streamed)
      BY <2>1, <3>1, <3>2, StartsIs
    <3> QED
      BY <2>4, <3>3
  <2> QED
    BY <2>1, <2>3, <2>4
<1> QED
  BY <1>1, StreamInvHolds, PTL

----------------------------------------------------------------------------
(* Redaction: folds over finite sets.                                      *)

(* A set of subsets that holds every subset whose own parts, one element   *)
(* smaller, it holds, holds all of them.                                   *)
LEMMA AllSubsets ==
  ASSUME NEW S, IsFiniteSet(S), NEW G,
         \A T \in SUBSET S : (\A x \in T : T \ {x} \in G) => T \in G
  PROVE  SUBSET S \subseteq G
<1> DEFINE N == {n \in Nat : \A T \in SUBSET S : Cardinality(T) = n => T \in G}
<1>0. \A T \in SUBSET S : IsFiniteSet(T) /\ Cardinality(T) \in Nat
  BY FS_Subset, FS_CardinalityType
<1>1. 0 \in N
  <2> SUFFICES ASSUME NEW T \in SUBSET S, Cardinality(T) = 0 PROVE T \in G
    OBVIOUS
  <2>1. T = {}
    BY <1>0, FS_EmptySet
  <2> QED
    BY <2>1
<1>2. ASSUME NEW n \in N PROVE n + 1 \in N
  <2> SUFFICES ASSUME NEW T \in SUBSET S, Cardinality(T) = n + 1 PROVE T \in G
    OBVIOUS
  <2>1. ASSUME NEW x \in T PROVE T \ {x} \in G
    <3>1. Cardinality(T \ {x}) = Cardinality(T) - 1
      BY <1>0, FS_RemoveElement
    <3>2. Cardinality(T \ {x}) = n
      BY <3>1
    <3> QED
      BY <3>2
  <2> QED
    BY <2>1
<1>3. N = Nat
  <2>1. N \in SUBSET Nat
    OBVIOUS
  <2> HIDE DEF N
  <2> QED
    BY <1>1, <1>2, <2>1, ReachesAll
<1> QED
  BY <1>0, <1>3

(* A fold, built up one element at a time. *)
IsFold(F, S, base, pick, step) ==
  \A T \in SUBSET S : F[T] = IF T = {} THEN base ELSE step[pick[T]][F[T \ {pick[T]}]]

LEMMA FoldExists ==
  ASSUME NEW S, IsFiniteSet(S), NEW V, NEW base \in V,
         NEW pick \in [(SUBSET S) \ {{}} -> S], \A T \in SUBSET S : T # {} => pick[T] \in T,
         NEW step \in [S -> [V -> V]]
  PROVE  \E F \in [SUBSET S -> V] : IsFold(F, S, base, pick, step)
<1> DEFINE Right(F, T) == F[T] = IF T = {} THEN base ELSE step[pick[T]][F[T \ {pick[T]}]]
           Good(n) == \E F \in [SUBSET S -> V] : \A T \in SUBSET S : Cardinality(T) <= n => Right(F, T)
           N == {n \in Nat : Good(n)}
<1>0. \A T \in SUBSET S : IsFiniteSet(T) /\ Cardinality(T) \in Nat /\ Cardinality(T) <= Cardinality(S)
  BY FS_Subset, FS_CardinalityType
<1>1. ASSUME NEW F \in [SUBSET S -> V]
      PROVE  \E G \in [SUBSET S -> V] : \A T \in SUBSET S :
               G[T] = IF T = {} THEN base ELSE step[pick[T]][F[T \ {pick[T]}]]
  <2> DEFINE next(T) == IF T = {} THEN base ELSE step[pick[T]][F[T \ {pick[T]}]]
             G == [T \in SUBSET S |-> next(T)]
  <2>1. ASSUME NEW T \in SUBSET S PROVE next(T) \in V
    <3>1. CASE T = {}
      BY <3>1
    <3>2. CASE T # {}
      <4>1. pick[T] \in S /\ F[T \ {pick[T]}] \in V
        BY <3>2
      <4>2. step[pick[T]] \in [V -> V]
        BY <4>1
      <4> QED
        BY <3>2, <4>1, <4>2
    <3> QED
      BY <3>1, <3>2
  <2> HIDE DEF next
  <2>2. G \in [SUBSET S -> V] /\ \A T \in SUBSET S : G[T] = next(T)
    BY <2>1
  <2> QED
    BY <2>2 DEF next
<1>2. Good(0)
  <2> DEFINE F == [T \in SUBSET S |-> base]
  <2>1. F \in [SUBSET S -> V]
    OBVIOUS
  <2>2. PICK G \in [SUBSET S -> V] : \A T \in SUBSET S :
               G[T] = IF T = {} THEN base ELSE step[pick[T]][F[T \ {pick[T]}]]
    BY <1>1, <2>1
  <2>3. ASSUME NEW T \in SUBSET S, Cardinality(T) <= 0 PROVE T = {}
    BY <1>0, <2>3, FS_EmptySet
  <2> HIDE DEF F
  <2> QED
    BY <2>2, <2>3
<1>3. ASSUME NEW n \in Nat, Good(n) PROVE Good(n + 1)
  <2>1. PICK F \in [SUBSET S -> V] : \A T \in SUBSET S : Cardinality(T) <= n => Right(F, T)
    BY <1>3
  <2>2. PICK G \in [SUBSET S -> V] : \A T \in SUBSET S :
               G[T] = IF T = {} THEN base ELSE step[pick[T]][F[T \ {pick[T]}]]
    BY <1>1
  <2>3. ASSUME NEW T \in SUBSET S, Cardinality(T) <= n PROVE G[T] = F[T]
    BY <2>1, <2>2, <2>3
  <2>4. ASSUME NEW T \in SUBSET S, Cardinality(T) <= n + 1 PROVE Right(G, T)
    <3>1. CASE T = {}
      BY <2>2, <3>1
    <3>2. CASE T # {}
      <4>1. pick[T] \in T /\ T \ {pick[T]} \in SUBSET S
        BY <3>2
      <4>2. Cardinality(T \ {pick[T]}) = Cardinality(T) - 1
        BY <1>0, <4>1, FS_RemoveElement
      <4>3. Cardinality(T \ {pick[T]}) <= n
        BY <1>0, <2>4, <4>2
      <4> QED
        BY <2>2, <2>3, <3>2, <4>1, <4>3
    <3> QED
      BY <3>1, <3>2
  <2> QED
    BY <2>4
<1> HIDE DEF Good
<1>4. N = Nat
  <2>1. N \in SUBSET Nat /\ 0 \in N /\ \A n \in N : n + 1 \in N
    BY <1>2, <1>3
  <2> HIDE DEF N
  <2> QED
    BY <2>1, ReachesAll
<1>5. Good(Cardinality(S))
  <2>1. Cardinality(S) \in Nat
    BY FS_CardinalityType
  <2>2. Cardinality(S) \in N
    BY <1>4, <2>1
  <2> QED
    BY <2>2
<1> QED
  BY <1>0, <1>5 DEF Good, IsFold

----------------------------------------------------------------------------
(* The order of matches.                                                   *)

LEMMA AboveIsStrict ==
  ASSUME NEW r \in Seq(Int)
  PROVE  ~Above(r, r)
<1>1. \A i \in DOMAIN r : r[i] \in Int
  OBVIOUS
<1> QED
  BY <1>1 DEF Above

LEMMA AboveTrans ==
  ASSUME NEW n \in Nat, NEW r \in Seq(Int), NEW s \in Seq(Int), NEW t \in Seq(Int),
         Len(r) = n, Len(s) = n, Len(t) = n, Above(r, s), Above(s, t)
  PROVE  Above(r, t)
<1>0. DOMAIN r = 1 .. n /\ DOMAIN s = 1 .. n /\ \A i \in 1 .. n : r[i] \in Int /\ s[i] \in Int /\ t[i] \in Int
  OBVIOUS
<1>1. PICK i \in 1 .. n : r[i] > s[i] /\ \A j \in 1 .. i - 1 : r[j] = s[j]
  BY <1>0 DEF Above
<1>2. PICK k \in 1 .. n : s[k] > t[k] /\ \A j \in 1 .. k - 1 : s[j] = t[j]
  BY <1>0 DEF Above
<1>3. CASE i < k
  <2>1. i \in 1 .. k - 1 /\ r[i] \in Int /\ s[i] \in Int /\ \A j \in 1 .. i - 1 : j \in 1 .. k - 1
    BY <1>0, <1>3
  <2>2. r[i] > t[i] /\ \A j \in 1 .. i - 1 : r[j] = t[j]
    BY <1>1, <1>2, <2>1
  <2> QED
    BY <1>0, <2>2 DEF Above
<1>4. CASE ~(i < k)
  <2>1. /\ r[k] \in Int /\ s[k] \in Int /\ t[k] \in Int
        /\ \A j \in 1 .. k - 1 : j \in 1 .. i - 1 /\ (k = i \/ k \in 1 .. i - 1)
    BY <1>0, <1>4
  <2>2. r[k] > t[k]
    BY <1>1, <1>2, <1>4, <2>1
  <2>3. \A j \in 1 .. k - 1 : r[j] = t[j]
    BY <1>1, <1>2, <2>1
  <2> QED
    BY <1>0, <2>2, <2>3 DEF Above
<1> QED
  BY <1>3, <1>4

LEMMA AboveIsTotal ==
  ASSUME NEW n \in Nat, NEW r \in Seq(Int), NEW s \in Seq(Int), Len(r) = n, Len(s) = n, r # s
  PROVE  Above(r, s) \/ Above(s, r)
<1> DEFINE D == {i \in 1 .. n : r[i] # s[i]}
<1>0. DOMAIN r = 1 .. n /\ DOMAIN s = 1 .. n /\ \A i \in 1 .. n : r[i] \in Int /\ s[i] \in Int
  OBVIOUS
<1>1. D # {} /\ D \in SUBSET Nat
  BY SameSequence, SMTT(40)
<1>2. PICK i \in D : \A m \in D : i <= m
  BY <1>1, LeastOf
<1>3. \A j \in 1 .. i - 1 : r[j] = s[j] /\ s[j] = r[j]
  <2> SUFFICES ASSUME NEW j \in 1 .. i - 1, r[j] # s[j] PROVE FALSE
    OBVIOUS
  <2>1. j \in 1 .. n /\ ~(i <= j)
    BY <1>2
  <2> QED
    BY <1>2, <2>1
<1>4. i \in 1 .. n /\ r[i] \in Int /\ s[i] \in Int /\ r[i] # s[i]
  BY <1>0, <1>2
<1>5. CASE r[i] > s[i]
  BY <1>0, <1>3, <1>4, <1>5 DEF Above
<1>6. CASE s[i] > r[i]
  BY <1>0, <1>3, <1>4, <1>6 DEF Above
<1> QED
  BY <1>4, <1>5, <1>6

(* Of some keys one is above no other.                                     *)
LEMMA LowestOf ==
  ASSUME NEW n \in Nat, NEW S, IsFiniteSet(S), S # {}, NEW key \in [S -> Seq(Int)],
         \A m \in S : Len(key[m]) = n
  PROVE  \E m \in S : \A h \in S : ~Above(key[m], key[h])
<1> DEFINE Good(T) == T = {} \/ \E m \in T : \A h \in T : ~Above(key[m], key[h])
           G == {T \in SUBSET S : Good(T)}
<1>0. \A m \in S : key[m] \in Seq(Int) /\ Len(key[m]) = n
  OBVIOUS
<1>1. ASSUME NEW T \in SUBSET S, \A x \in T : T \ {x} \in G PROVE Good(T)
  <2> SUFFICES ASSUME T # {} PROVE \E m \in T : \A h \in T : ~Above(key[m], key[h])
    OBVIOUS
  <2>1. PICK x \in T : TRUE
    OBVIOUS
  <2>2. Good(T \ {x})
    BY <1>1, <2>1
  <2>3. ~Above(key[x], key[x])
    BY <1>0, <2>1, AboveIsStrict
  <2>4. CASE T \ {x} = {}
    <3>1. \A h \in T : h = x
      BY <2>4
    <3> QED
      BY <2>3, <3>1
  <2>5. CASE T \ {x} # {}
    <3>1. PICK m \in T \ {x} : \A h \in T \ {x} : ~Above(key[m], key[h])
      BY <2>2, <2>5
    <3>2. CASE Above(key[m], key[x])
      <4>1. ASSUME NEW h \in T, Above(key[x], key[h]) PROVE FALSE
        <5>1. h # x
          BY <2>3, <4>1
        <5>2. Above(key[m], key[h])
          BY <1>0, <2>1, <3>1, <3>2, <4>1, AboveTrans
        <5> QED
          BY <3>1, <5>1, <5>2
      <4> QED
        BY <4>1
    <3>3. CASE ~Above(key[m], key[x])
      BY <3>1, <3>3
    <3> QED
      BY <3>2, <3>3
  <2> QED
    BY <2>4, <2>5
<1> HIDE DEF Good
<1>2. \A T \in SUBSET S : (\A x \in T : T \ {x} \in G) => T \in G
  BY <1>1
<1>3. SUBSET S \subseteq G
  <2> HIDE DEF G
  <2> QED
    BY <1>2, AllSubsets
<1> QED
  BY <1>3 DEF Good

----------------------------------------------------------------------------
(* Arbitration.                                                            *)

IsMatch(m) ==
  /\ m.label \in DOMAIN Severity /\ m.detector \in Nat /\ m.confidence \in Int
  /\ m.start \in Nat /\ m.end \in Nat /\ m.start < m.end

LEMMA RankType ==
  ASSUME NEW m, IsMatch(m)
  PROVE  _rank(m) \in Seq(Int) /\ Len(_rank(m)) = 4 /\ _rank(m)[4] = m.detector
<1>1. Severity[m.label] \in Int /\ m.end - m.start \in Int /\ m.confidence \in Int /\ m.detector \in Int
  BY DetectorsAssumption DEF IsMatch
<1> QED
  BY <1>1 DEF _rank

LEMMA WeakestOf ==
  ASSUME NEW S, IsFiniteSet(S), S # {}, \A m \in S : IsMatch(m)
  PROVE  Weakest(S) \in S /\ \A n \in S : ~Above(_rank(Weakest(S)), _rank(n))
<1> DEFINE key == [m \in S |-> _rank(m)]
<1>1. key \in [S -> Seq(Int)] /\ \A m \in S : Len(key[m]) = 4
  BY RankType
<1>2. PICK m \in S : \A h \in S : ~Above(key[m], key[h])
  <2> HIDE DEF key
  <2> QED
    BY <1>1, LowestOf
<1>3. \A n \in S : key[n] = _rank(n)
  OBVIOUS
<1>4. \A n \in S : ~Above(_rank(m), _rank(n))
  <2> HIDE DEF key
  <2> QED
    BY <1>2, <1>3
<1> QED
  BY <1>4 DEF Weakest

(* What arbitration keeps does not overlap, and what it drops overlaps     *)
(* something kept that it is not above.                                    *)
LEMMA Arbitrated ==
  ASSUME NEW found, IsFiniteSet(found), \A m \in found : IsMatch(m)
  PROVE  LET kept == _resolve_overlaps(found)
         IN  /\ kept \subseteq found
             /\ \A m, n \in kept : m # n => ~Overlap(m, n)
             /\ \A m \in found \ kept :
                  \E k \in kept : Overlap(k, m) /\ ~Above(_rank(m), _rank(k))
<1> DEFINE add(m, kept) == IF \E k \in kept : Overlap(k, m) THEN kept ELSE kept \union {m}
           Is(f) == f = [S \in SUBSET found |->
                           IF S = {} THEN {} ELSE add(Weakest(S), f[S \ {Weakest(S)}])]
           g == CHOOSE f : Is(f)
<1>0. \A S \in SUBSET found :
        /\ IsFiniteSet(S)
        /\ S # {} => Weakest(S) \in S /\ \A n \in S : ~Above(_rank(Weakest(S)), _rank(n))
  BY FS_Subset, WeakestOf
<1>1. _resolve_overlaps(found) = g[found]
  BY DEF _resolve_overlaps, MapThenFoldSet
<1>2. Is(g)
  <2> DEFINE V == SUBSET found
             pick == [T \in (SUBSET found) \ {{}} |-> Weakest(T)]
             step == [m \in found |-> [kept \in V |-> add(m, kept)]]
  <2>1. ASSUME NEW m \in found, NEW kept \in V
        PROVE  step[m][kept] = add(m, kept) /\ add(m, kept) \in V
    OBVIOUS
  <2>2. step \in [found -> [V -> V]]
    OBVIOUS
  <2>3. /\ pick \in [(SUBSET found) \ {{}} -> found]
        /\ \A T \in SUBSET found : T # {} => pick[T] \in T
    BY <1>0
  <2>4. PICK F \in [SUBSET found -> V] : IsFold(F, found, {}, pick, step)
    <3> HIDE DEF step, pick
    <3>1. {} \in V
      OBVIOUS
    <3> HIDE DEF V
    <3> QED
      BY <2>2, <2>3, <3>1, FoldExists
  <2>5. ASSUME NEW T \in SUBSET found
        PROVE  F[T] = IF T = {} THEN {} ELSE add(Weakest(T), F[T \ {Weakest(T)}])
    <3>1. CASE T = {}
      BY <2>4, <3>1 DEF IsFold
    <3>2. CASE T # {}
      <4>1. pick[T] = Weakest(T) /\ Weakest(T) \in found /\ F[T \ {Weakest(T)}] \in V
        BY <1>0, <2>4, <3>2
      <4>2. F[T] = step[Weakest(T)][F[T \ {Weakest(T)}]]
        BY <2>4, <3>2, <4>1 DEF IsFold
      <4> HIDE DEF step, add
      <4> QED
        BY <2>1, <3>2, <4>1, <4>2
    <3> QED
      BY <3>1, <3>2
  <2>6. Is(F)
    <3> HIDE DEF add
    <3> QED
      BY <2>4, <2>5
  <2> HIDE DEF Is
  <2> QED
    BY <2>6
<1>3. \A S \in SUBSET found :
        g[S] = IF S = {} THEN {} ELSE add(Weakest(S), g[S \ {Weakest(S)}])
  <2> HIDE DEF g, add
  <2> QED
    BY <1>2
<1> HIDE DEF g
<1> DEFINE Good(S) ==
             /\ g[S] \subseteq S
             /\ \A m, n \in g[S] : m # n => ~Overlap(m, n)
             /\ \A m \in S \ g[S] :
                  \E k \in g[S] : Overlap(k, m) /\ ~Above(_rank(m), _rank(k))
           G == {S \in SUBSET found : Good(S)}
<1>4. ASSUME NEW S \in SUBSET found, \A x \in S : S \ {x} \in G PROVE Good(S)
  <2>1. CASE S = {}
    BY <1>3, <2>1
  <2>2. CASE S # {}
    <3> DEFINE w == Weakest(S)
               T == S \ {w}
    <3>1. w \in S /\ \A n \in S : ~Above(_rank(w), _rank(n))
      BY <1>0, <2>2
    <3>2. Good(T)
      BY <1>4, <3>1
    <3>3. g[S] = add(w, g[T])
      BY <1>3, <2>2
    <3> HIDE DEF w
    <3>4. CASE \E k \in g[T] : Overlap(k, w)
      <4>1. g[S] = g[T]
        BY <3>3, <3>4
      <4> QED
        BY <3>1, <3>2, <3>4, <4>1
    <3>5. CASE ~\E k \in g[T] : Overlap(k, w)
      <4>1. g[S] = g[T] \union {w}
        BY <3>3, <3>5
      <4>2. \A k \in g[T] : ~Overlap(k, w) /\ ~Overlap(w, k)
        BY <3>5 DEF Overlap
      <4>3. g[S] \subseteq S
        BY <3>1, <3>2, <4>1
      <4>4. \A m, n \in g[S] : m # n => ~Overlap(m, n)
        BY <3>2, <4>1, <4>2
      <4>5. ASSUME NEW m \in S \ g[S]
            PROVE  \E k \in g[S] : Overlap(k, m) /\ ~Above(_rank(m), _rank(k))
        <5>1. m \in T \ g[T]
          BY <4>1, <4>5
        <5> QED
          BY <3>2, <4>1, <5>1
      <4> QED
        BY <4>3, <4>4, <4>5
    <3> QED
      BY <3>4, <3>5
  <2> QED
    BY <2>1, <2>2
<1> HIDE DEF Good
<1>5. \A S \in SUBSET found : (\A x \in S : S \ {x} \in G) => S \in G
  BY <1>4
<1>6. SUBSET found \subseteq G
  <2> HIDE DEF G
  <2> QED
    BY <1>5, AllSubsets
<1>7. Good(found)
  BY <1>6
<1> QED
  BY <1>1, <1>7 DEF Good

----------------------------------------------------------------------------
(* What replaces a finding.                                                *)

Letters == {"c", "-"}

Made(g) ==
  {Kept(i) : i \in Nat} \union {New(kind) : kind \in Strategy \union {"*"}}
    \union {Token(tokenize(g, label, value)) : label \in DOMAIN Severity, value \in Seq(Letters)}

LEMMA MadeKinds ==
  ASSUME NEW g
  PROVE  /\ \A i \in Nat : Kept(i) \in Made(g) /\ Kept(i).kind = "kept" /\ Kept(i).at = i
         /\ \A kind \in Strategy \union {"*"} : New(kind) \in Made(g) /\ New(kind).kind # "kept"
         /\ \A label \in DOMAIN Severity, value \in Seq(Letters) :
              LET p == Token(tokenize(g, label, value))
              IN  /\ p \in Made(g) /\ p.kind = "token"
                  /\ p.box.key = g /\ p.box.value = value
         /\ \A p \in Made(g) : p.kind = "kept" => p = Kept(p.at) /\ p.at \in Nat
<1>1. \A i \in Nat : Kept(i) \in Made(g) /\ Kept(i).kind = "kept" /\ Kept(i).at = i
  BY DEF Made, Kept
<1>2. \A kind \in Strategy \union {"*"} : New(kind) \in Made(g) /\ New(kind).kind # "kept"
  BY DEF Made, New, Strategy
<1>3. ASSUME NEW label \in DOMAIN Severity, NEW value \in Seq(Letters)
      PROVE  LET p == Token(tokenize(g, label, value))
             IN  /\ p \in Made(g) /\ p.kind = "token"
                 /\ p.box.key = g /\ p.box.value = value
  <2>1. Token(tokenize(g, label, value)) \in Made(g)
    BY DEF Made
  <2>2. /\ Token(tokenize(g, label, value)).kind = "token"
        /\ Token(tokenize(g, label, value)).box = tokenize(g, label, value)
    BY DEF Token
  <2>3. tokenize(g, label, value).key = g /\ tokenize(g, label, value).value = value
    BY DEF tokenize
  <2> QED
    BY <2>1, <2>2, <2>3
<1>4. ASSUME NEW p \in Made(g), p.kind = "kept" PROVE p = Kept(p.at) /\ p.at \in Nat
  <2>1. CASE \E i \in Nat : p = Kept(i)
    BY <2>1 DEF Kept
  <2>2. CASE \E kind \in Strategy \union {"*"} : p = New(kind)
    BY <1>2, <1>4, <2>2
  <2>3. CASE \E label \in DOMAIN Severity, value \in Seq(Letters) : p = Token(tokenize(g, label, value))
    BY <1>4, <2>3 DEF Token
  <2> QED
    BY <2>1, <2>2, <2>3 DEF Made
<1> QED
  BY <1>1, <1>2, <1>3, <1>4

LEMMA RuleFor ==
  ASSUME NEW list \in RuleLists, NEW label, Ruled(list, label)
  PROVE  rule_for(list, label).strategy \in Strategy /\ rule_for(list, label).keep_last \in Int
<1> DEFINE I == Covering(list, label)
           c == CHOOSE i \in I : \A j \in I : i <= j
<1>1. list \in Seq(Range(list))
  BY ObligationsAssumption
<1>2. DOMAIN list \in SUBSET Nat
  BY <1>1
<1>3. I \in SUBSET Nat /\ I # {} /\ I \subseteq DOMAIN list
  BY <1>2 DEF Ruled, Covering
<1> HIDE DEF I
<1>4. PICK i \in I : \A j \in I : i <= j
  BY <1>3, LeastOf
<1>5. c \in I
  BY <1>4
<1>6. rule_for(list, label) = list[c]
  BY DEF rule_for, I
<1> HIDE DEF c
<1> QED
  BY <1>3, <1>5, <1>6, ObligationsAssumption

(* What a replacement keeps stands where it stood in the value, and is     *)
(* what the rule spares.                                                   *)
Stands(leaf, f, r, g) ==
  /\ r \in Seq(Made(g))
  /\ \A a \in 1 .. Len(r) : r[a].kind = "kept" =>
       /\ r[a] = Kept(f.start + a) /\ f.start + a <= f.end
       /\ Spared(leaf, f, f.start + a)
  /\ \A i \in Nat : Within(f, i) /\ Spared(leaf, f, i) =>
       i - f.start \in 1 .. Len(r) /\ r[i - f.start] = Kept(i)

LEMMA Replaced ==
  ASSUME NEW leaf, leaf.text \in Seq(Letters), NEW f, IsMatch(f), f.end <= Len(leaf.text),
         rules \in RuleLists, Ruled(rules, f.label), NEW g
  PROVE  LET r == _replacement(leaf, f, rule_for(rules, f.label), g)
         IN  /\ Stands(leaf, f, r, g)
             /\ rule_for(rules, f.label).strategy = "tokenize" =>
                  r = <<Token(tokenize(g, f.label, Value(leaf, f)))>>
<1> DEFINE rule == rule_for(rules, f.label)
           r == _replacement(leaf, f, rule, g)
           n == f.end - f.start
<1>0. /\ f.start \in Nat /\ f.end \in Nat /\ f.start < f.end /\ f.label \in DOMAIN Severity
      /\ Len(leaf.text) \in Nat /\ n \in Nat /\ n >= 1
  BY DEF IsMatch
<1>1. rule.strategy \in Strategy /\ rule.keep_last \in Int
  BY RuleFor
<1>2. \A i : Spared(leaf, f, i) <=>
        \/ rule.strategy = "partial" /\ i > f.end - rule.keep_last
        \/ /\ leaf.text[i] = "-"
           /\ \/ rule.strategy = "partial" /\ rule.keep_last > 0
              \/ rule.strategy = "synthetic" /\ f.label \in Shapeless
  BY DEF Spared
<1>3. Value(leaf, f) \in Seq(Letters)
  BY <1>0 DEF Value
<1> HIDE DEF rule, Stands
<1>4. CASE rule.strategy = "drop"
  <2>1. r = <<>>
    BY <1>4 DEF _replacement
  <2>2. r \in Seq(Made(g)) /\ Len(r) = 0 /\ rule.strategy # "tokenize"
    BY <1>4, <2>1
  <2>3. \A i : ~Spared(leaf, f, i)
    BY <1>2, <1>4
  <2> QED
    BY <2>2, <2>3 DEF rule, Stands
<1>5. CASE rule.strategy \in {"mask", "hash"}
  <2>1. r = <<New(rule.strategy)>>
    BY <1>5 DEF _replacement
  <2>2. New(rule.strategy) \in Made(g) /\ New(rule.strategy).kind # "kept"
    BY <1>1, MadeKinds
  <2> HIDE DEF r
  <2>3. r \in Seq(Made(g)) /\ Len(r) = 1 /\ r[1].kind # "kept" /\ rule.strategy # "tokenize"
    BY <1>5, <2>1, <2>2
  <2>4. \A i : ~Spared(leaf, f, i)
    BY <1>2, <1>5
  <2> QED
    BY <2>3, <2>4 DEF rule, r, Stands
<1>6. CASE rule.strategy = "tokenize"
  <2> DEFINE t == Token(tokenize(g, f.label, Value(leaf, f)))
  <2>1. r = <<t>>
    BY <1>6 DEF _replacement
  <2>2. t \in Made(g) /\ t.kind = "token"
    BY <1>0, <1>3, MadeKinds
  <2> HIDE DEF r, t
  <2>3. r \in Seq(Made(g)) /\ Len(r) = 1 /\ r[1].kind # "kept"
    BY <2>1, <2>2
  <2>4. \A i : ~Spared(leaf, f, i)
    BY <1>2, <1>6
  <2> QED
    BY <2>1, <2>3, <2>4 DEF rule, r, t, Stands
<1>7. CASE rule.strategy = "partial"
  <2> DEFINE k == Greater(0, Lesser(rule.keep_last, n))
             tail == f.end - k
             spare(i) == i > tail \/ (leaf.text[i] = "-" /\ tail < f.end)
  <2>1. r = _partial(leaf, f, rule.keep_last)
    BY <1>7 DEF _replacement
  <2>2. r = [i \in 1 .. n |-> IF spare(f.start + i) THEN Kept(f.start + i) ELSE New("*")]
    BY <2>1 DEF _partial
  <2>3. k \in 0 .. n /\ (k > 0 <=> rule.keep_last > 0) /\ (k = rule.keep_last \/ k = 0 \/ k = n)
    BY <1>0, <1>1 DEF Greater, Lesser
  <2>4. \A i \in f.start + 1 .. f.end : i > tail <=> i > f.end - rule.keep_last
    <3>1. rule.keep_last <= 0 => k = 0
      BY <1>0, <1>1 DEF Greater, Lesser
    <3>2. rule.keep_last > 0 => k = rule.keep_last \/ (k = n /\ n <= rule.keep_last)
      BY <1>0, <1>1 DEF Greater, Lesser
    <3> HIDE DEF k
    <3> QED
      BY <1>0, <1>1, <2>3, <3>1, <3>2
  <2>5. tail < f.end <=> rule.keep_last > 0
    <3> HIDE DEF k
    <3> QED
      BY <1>0, <2>3
  <2>6. \A i \in f.start + 1 .. f.end : spare(i) <=> Spared(leaf, f, i)
    <3> HIDE DEF k
    <3> QED
      BY <1>2, <1>7, <2>4, <2>5
  <2>7. New("*") \in Made(g) /\ New("*").kind # "kept"
    BY MadeKinds
  <2> HIDE DEF r, spare, n
  <2>8. ASSUME NEW i \in 1 .. n
        PROVE  /\ f.start + i \in f.start + 1 .. f.end /\ f.start + i \in Nat
               /\ r[i] \in Made(g)
               /\ r[i] = IF Spared(leaf, f, f.start + i) THEN Kept(f.start + i) ELSE New("*")
    <3>1. f.start + i \in f.start + 1 .. f.end /\ f.start + i \in Nat
      BY <1>0 DEF n
    <3>2. r[i] = IF Spared(leaf, f, f.start + i) THEN Kept(f.start + i) ELSE New("*")
      BY <2>2, <2>6, <3>1
    <3> QED
      BY <2>7, <3>1, <3>2, MadeKinds
  <2>9. r \in Seq(Made(g)) /\ Len(r) = n
    BY <1>0, <2>2, <2>8
  <2>10. \A a \in 1 .. Len(r) : r[a].kind = "kept" =>
                  /\ r[a] = Kept(f.start + a) /\ f.start + a <= f.end
                  /\ Spared(leaf, f, f.start + a)
    BY <1>0, <2>7, <2>8, <2>9, SMTT(40)
  <2>11. ASSUME NEW i \in Nat, Within(f, i), Spared(leaf, f, i)
         PROVE  i - f.start \in 1 .. Len(r) /\ r[i - f.start] = Kept(i)
    <3>1. i - f.start \in 1 .. n /\ f.start + (i - f.start) = i
      BY <1>0, <2>11 DEF Within, n
    <3> QED
      BY <2>8, <2>9, <2>11, <3>1
  <2> QED
    BY <1>7, <2>9, <2>10, <2>11 DEF rule, r, Stands
<1>8. CASE rule.strategy = "synthetic" /\ f.label \notin Shapeless
  <2>1. r = <<New("synthetic")>>
    BY <1>8 DEF _replacement, _synthetic
  <2>2. New("synthetic") \in Made(g) /\ New("synthetic").kind # "kept"
    BY MadeKinds DEF Strategy
  <2> HIDE DEF r
  <2>3. r \in Seq(Made(g)) /\ Len(r) = 1 /\ r[1].kind # "kept" /\ rule.strategy # "tokenize"
    BY <1>8, <2>1, <2>2
  <2>4. \A i : ~Spared(leaf, f, i)
    BY <1>2, <1>8
  <2> QED
    BY <2>3, <2>4 DEF rule, r, Stands
<1>9. CASE rule.strategy = "synthetic" /\ f.label \in Shapeless
  <2>1. r = _synthetic(leaf, f)
    BY <1>9 DEF _replacement
  <2>2. r = [i \in 1 .. n |-> IF leaf.text[f.start + i] = "-" THEN Kept(f.start + i)
                             ELSE New("synthetic")]
    BY <1>9, <2>1 DEF _synthetic
  <2>3. \A i : Spared(leaf, f, i) <=> leaf.text[i] = "-"
    BY <1>2, <1>9
  <2>7. New("synthetic") \in Made(g) /\ New("synthetic").kind # "kept"
    BY MadeKinds DEF Strategy
  <2> HIDE DEF r, n
  <2>8. ASSUME NEW i \in 1 .. n
        PROVE  /\ f.start + i \in f.start + 1 .. f.end /\ f.start + i \in Nat
               /\ r[i] \in Made(g)
               /\ r[i] = IF Spared(leaf, f, f.start + i) THEN Kept(f.start + i) ELSE New("synthetic")
    <3>1. f.start + i \in f.start + 1 .. f.end /\ f.start + i \in Nat
      BY <1>0 DEF n
    <3>2. r[i] = IF Spared(leaf, f, f.start + i) THEN Kept(f.start + i) ELSE New("synthetic")
      BY <2>2, <2>3
    <3> QED
      BY <2>7, <3>1, <3>2, MadeKinds
  <2>9. r \in Seq(Made(g)) /\ Len(r) = n
    BY <1>0, <2>2, <2>8
  <2>10. \A a \in 1 .. Len(r) : r[a].kind = "kept" =>
                  /\ r[a] = Kept(f.start + a) /\ f.start + a <= f.end
                  /\ Spared(leaf, f, f.start + a)
    BY <1>0, <2>7, <2>8, <2>9
  <2>11. ASSUME NEW i \in Nat, Within(f, i), Spared(leaf, f, i)
         PROVE  i - f.start \in 1 .. Len(r) /\ r[i - f.start] = Kept(i)
    <3>1. i - f.start \in 1 .. n /\ f.start + (i - f.start) = i
      BY <1>0, <2>11 DEF Within, n
    <3> QED
      BY <2>8, <2>9, <2>11, <3>1
  <2> QED
    BY <1>9, <2>9, <2>10, <2>11 DEF rule, r, Stands
<1> QED
  BY <1>1, <1>4, <1>5, <1>6, <1>7, <1>8, <1>9 DEF Strategy

----------------------------------------------------------------------------
(* Editing, from the right to the left.                                    *)

(* Findings that can be edited out of one text. *)
Disjoint(leaf, S) ==
  /\ IsFiniteSet(S)
  /\ \A f \in S : IsMatch(f) /\ f.end <= Len(leaf.text)
  /\ \A f, h \in S : f # h => ~Overlap(f, h)

LEMMA LeftmostOf ==
  ASSUME NEW leaf, NEW S, Disjoint(leaf, S), S # {}
  PROVE  Leftmost(S) \in S /\ \A h \in S \ {Leftmost(S)} : Leftmost(S).end <= h.start
<1> DEFINE key == [f \in S |-> <<f.start, f.end>>]
<1>0. \A f \in S : f.start \in Int /\ f.end \in Int /\ f.start < f.end
  BY DEF Disjoint, IsMatch
<1>1. key \in [S -> Seq(Int)] /\ \A m \in S : Len(key[m]) = 2
  BY <1>0
<1>2. PICK f \in S : \A h \in S : ~Above(key[f], key[h])
  <2> HIDE DEF key
  <2> QED
    BY <1>1, LowestOf DEF Disjoint
<1>3. \A h \in S : key[h] = <<h.start, h.end>>
  OBVIOUS
<1> DEFINE c == Leftmost(S)
<1>4. c \in S /\ \A h \in S : ~Above(<<c.start, c.end>>, <<h.start, h.end>>)
  <2>1. \E x \in S : \A h \in S : ~Above(<<x.start, x.end>>, <<h.start, h.end>>)
    <3> HIDE DEF key
    <3> QED
      BY <1>2, <1>3
  <2> QED
    BY <2>1 DEF Leftmost
<1> HIDE DEF c
<1>5. ASSUME NEW h \in S \ {c} PROVE c.end <= h.start
  <2>1. ~Overlap(c, h) /\ ~Above(<<c.start, c.end>>, <<h.start, h.end>>)
    BY <1>4, <1>5 DEF Disjoint
  <2>2. c.end <= h.start \/ h.end <= c.start
    BY <1>0, <1>4, <2>1 DEF Overlap
  <2>3. CASE h.end <= c.start
    <3>1. c.start > h.start
      BY <1>0, <1>4, <2>3
    <3> DEFINE r == <<c.start, c.end>>
               q == <<h.start, h.end>>
    <3>2. r[1] > q[1] /\ 1 \in DOMAIN r /\ \A j \in 1 .. 1 - 1 : r[j] = q[j]
      BY <3>1
    <3>3. Above(r, q)
      BY <3>2 DEF Above
    <3> QED
      BY <2>1, <3>3
  <2> QED
    BY <2>2, <2>3
<1> QED
  BY <1>4, <1>5 DEF c

(* The text a finding is edited out of, and the one that comes of it.      *)
Edit(leaf, f, buffer, g) ==
  IF Ruled(rules, f.label) THEN Splice(buffer, f, _replacement(leaf, f, rule_for(rules, f.label), g))
  ELSE buffer

LEMMA Spliced ==
  ASSUME NEW M, NEW buffer \in Seq(M), NEW f, IsMatch(f), f.end <= Len(buffer), NEW r \in Seq(M),
         NEW made, made = Splice(buffer, f, r)
  PROVE  /\ made \in Seq(M) /\ Len(made) = f.start + Len(r) + (Len(buffer) - f.end)
         /\ \A i \in 1 .. f.start : made[i] = buffer[i]
         /\ \A i \in 1 .. Len(r) : made[f.start + i] = r[i]
         /\ \A i \in f.end + 1 .. Len(buffer) : made[f.start + Len(r) + (i - f.end)] = buffer[i]
<1> DEFINE s == f.start
           e == f.end
           n == Len(buffer)
           a == SubSeq(buffer, 1, s)
           z == SubSeq(buffer, e + 1, n)
           ar == a \o r
<1>0. s \in Nat /\ e \in Nat /\ s < e /\ e <= n /\ n \in Nat /\ Len(r) \in Nat
  BY DEF IsMatch
<1>1. made = ar \o z
  BY DEF Splice
<1> HIDE DEF s, e, n
<1>2. a \in Seq(M) /\ Len(a) = s /\ \A i \in 1 .. s : a[i] = buffer[i]
  BY <1>0 DEF n
<1>3. z \in Seq(M) /\ Len(z) = n - e /\ \A i \in 1 .. n - e : z[i] = buffer[e + i]
  BY <1>0 DEF n
<1> HIDE DEF a, z
<1>4. /\ ar \in Seq(M) /\ Len(ar) = s + Len(r)
      /\ \A i \in 1 .. s : ar[i] = a[i]
      /\ \A i \in 1 .. Len(r) : ar[s + i] = r[i]
  <2>1. a \o r \in Seq(M) /\ Len(a \o r) = Len(a) + Len(r)
    BY <1>2, Appended
  <2>2. \A i \in 1 .. Len(a) : (a \o r)[i] = a[i]
    BY <1>2, Appended
  <2>3. \A i \in 1 .. Len(r) : (a \o r)[Len(a) + i] = r[i]
    BY <1>2, Appended
  <2> QED
    BY <1>2, <2>1, <2>2, <2>3
<1> HIDE DEF ar
<1>5. /\ made \in Seq(M) /\ Len(made) = (s + Len(r)) + (n - e)
      /\ \A i \in 1 .. s + Len(r) : made[i] = ar[i]
      /\ \A i \in 1 .. n - e : made[(s + Len(r)) + i] = z[i]
  <2>1. ar \o z \in Seq(M) /\ Len(ar \o z) = Len(ar) + Len(z)
    BY <1>3, <1>4, Appended
  <2>2. \A i \in 1 .. Len(ar) : (ar \o z)[i] = ar[i]
    BY <1>3, <1>4, Appended
  <2>3. \A i \in 1 .. Len(z) : (ar \o z)[Len(ar) + i] = z[i]
    BY <1>3, <1>4, Appended
  <2> QED
    BY <1>1, <1>3, <1>4, <2>1, <2>2, <2>3
<1>6. ASSUME NEW i \in e + 1 .. n PROVE made[s + Len(r) + (i - e)] = buffer[i]
  <2>1. i - e \in 1 .. n - e /\ e + (i - e) = i
    BY <1>0
  <2>2. made[(s + Len(r)) + (i - e)] = z[i - e] /\ z[i - e] = buffer[e + (i - e)]
    BY <1>3, <1>5, <2>1
  <2> QED
    BY <2>1, <2>2
<1>7. \A i \in 1 .. s : i \in 1 .. s + Len(r)
  BY <1>0
<1>8. \A i \in 1 .. Len(r) : s + i \in 1 .. s + Len(r)
  BY <1>0
<1> QED
  BY <1>0, <1>2, <1>4, <1>5, <1>6, <1>7, <1>8 DEF s, e, n

(* What a text looks like when some findings have been edited out: up to   *)
(* the first of them it is untouched, and of the rest it keeps, in order,  *)
(* what is in none of them or spared.                                      *)
KeptIn(buffer) == {m \in DOMAIN buffer : buffer[m].kind = "kept"}

LeftOf(leaf, T) ==
  {i \in DOMAIN leaf.text : \A f \in T : Within(f, i) /\ Ruled(rules, f.label) => Spared(leaf, f, i)}

Edited(leaf, T, buffer, g) ==
  /\ buffer \in Seq(Made(g))
  /\ \A b \in 0 .. Len(leaf.text) : (\A f \in T : b <= f.start) =>
       b <= Len(buffer) /\ \A i \in 1 .. b : buffer[i] = Kept(i)
  /\ \A m, k \in KeptIn(buffer) : m < k => buffer[m].at < buffer[k].at
  /\ {buffer[m].at : m \in KeptIn(buffer)} = LeftOf(leaf, T)

Untouched(leaf) == [i \in DOMAIN leaf.text |-> Kept(i)]

LEMMA UntouchedIsEdited ==
  ASSUME NEW leaf, leaf.text \in Seq(Letters), NEW g, NEW T, \A f \in T : ~Ruled(rules, f.label)
  PROVE  Edited(leaf, T, Untouched(leaf), g)
<1> DEFINE n == Len(leaf.text)
           u == Untouched(leaf)
<1>0. n \in Nat /\ DOMAIN leaf.text = 1 .. n
  OBVIOUS
<1>1. u = [i \in 1 .. n |-> Kept(i)] /\ DOMAIN u = 1 .. n /\ \A i \in 1 .. n : u[i] = Kept(i)
  BY <1>0 DEF Untouched
<1>2. \A i \in 1 .. n : u[i] \in Made(g) /\ u[i].kind = "kept" /\ u[i].at = i
  BY <1>0, <1>1, MadeKinds
<1>3. u \in Seq(Made(g)) /\ Len(u) = n
  <2> HIDE DEF u, n
  <2> QED
    BY <1>0, <1>1, <1>2
<1> HIDE DEF u, n
<1>4. KeptIn(u) = 1 .. n
  BY <1>1, <1>2 DEF KeptIn
<1>5. {u[m].at : m \in KeptIn(u)} = 1 .. n
  BY <1>2, <1>4
<1>6. LeftOf(leaf, T) = 1 .. n
  BY <1>0 DEF LeftOf
<1>7. \A m, k \in KeptIn(u) : m < k => u[m].at < u[k].at
  BY <1>2, <1>4
<1> QED
  <2>1. \A b \in 0 .. n : b <= Len(u) /\ \A i \in 1 .. b : u[i] = Kept(i)
    BY <1>0, <1>1, <1>3
  <2> QED
    BY <1>3, <1>5, <1>6, <1>7, <2>1 DEF Edited, n, u

LEMMA EditedOn ==
  ASSUME NEW leaf, leaf.text \in Seq(Letters), rules \in RuleLists, NEW g,
         NEW T, Disjoint(leaf, T), T # {}, NEW w, w = Leftmost(T),
         NEW buffer, Edited(leaf, T \ {w}, buffer, g)
  PROVE  Edited(leaf, T, Edit(leaf, w, buffer, g), g)
<1> DEFINE n == Len(leaf.text)
           made == Edit(leaf, w, buffer, g)
           s == w.start
           e == w.end
<1>0. n \in Nat /\ DOMAIN leaf.text = 1 .. n
  OBVIOUS
<1>1. w \in T /\ \A h \in T \ {w} : e <= h.start
  BY LeftmostOf
<1>2. /\ IsMatch(w) /\ s \in Nat /\ e \in Nat /\ s < e /\ e <= n
      /\ \A f \in T : f.start \in Nat /\ f.end \in Nat
  BY <1>1 DEF Disjoint, IsMatch
<1>3. /\ buffer \in Seq(Made(g)) /\ Len(buffer) \in Nat /\ DOMAIN buffer = 1 .. Len(buffer)
      /\ \A m, k \in KeptIn(buffer) : m < k => buffer[m].at < buffer[k].at
      /\ {buffer[m].at : m \in KeptIn(buffer)} = LeftOf(leaf, T \ {w})
  <2>1. buffer \in Seq(Made(g))
    BY DEF Edited
  <2>2. Len(buffer) \in Nat /\ DOMAIN buffer = 1 .. Len(buffer)
    BY <2>1
  <2> QED
    BY <2>1, <2>2 DEF Edited
<1>4. e <= Len(buffer) /\ \A i \in 1 .. e : buffer[i] = Kept(i)
  <2>1. e \in 0 .. n
    BY <1>0, <1>2
  <2> QED
    BY <1>1, <2>1 DEF Edited
<1>5. \A m \in KeptIn(buffer) : buffer[m].at \in 1 .. n
  BY <1>0, <1>3 DEF LeftOf
<1>6. CASE ~Ruled(rules, w.label)
  <2>1. made = buffer
    BY <1>6 DEF Edit
  <2>2. LeftOf(leaf, T) = LeftOf(leaf, T \ {w})
    BY <1>1, <1>6 DEF LeftOf
  <2>3. \A b \in 0 .. n : (\A f \in T : b <= f.start) =>
          b <= Len(buffer) /\ \A i \in 1 .. b : buffer[i] = Kept(i)
    BY DEF Edited
  <2> QED
    BY <1>3, <2>1, <2>2, <2>3 DEF Edited
<1>7. CASE Ruled(rules, w.label)
  <2> DEFINE r == _replacement(leaf, w, rule_for(rules, w.label), g)
             L == Len(r)
             N == Len(buffer)
  <2>1. /\ r \in Seq(Made(g)) /\ L \in Nat
        /\ \A a \in 1 .. L : r[a].kind = "kept" =>
             r[a] = Kept(s + a) /\ s + a <= e /\ Spared(leaf, w, s + a)
        /\ \A i \in Nat : Within(w, i) /\ Spared(leaf, w, i) => i - s \in 1 .. L /\ r[i - s] = Kept(i)
    <3>1. IsMatch(w) /\ w.end <= Len(leaf.text)
      BY <1>2
    <3>2. Stands(leaf, w, r, g)
      BY <1>7, <3>1, Replaced
    <3> HIDE DEF r
    <3> QED
      BY <3>2 DEF Stands
  <2> HIDE DEF r
  <2>2. made = Splice(buffer, w, r)
    BY <1>7 DEF Edit, r
  <2> HIDE DEF made
  <2>3. /\ made \in Seq(Made(g)) /\ Len(made) = s + L + (N - e)
        /\ \A i \in 1 .. s : made[i] = buffer[i]
        /\ \A i \in 1 .. L : made[s + i] = r[i]
        /\ \A i \in e + 1 .. N : made[s + L + (i - e)] = buffer[i]
    <3>1. IsMatch(w) /\ w.end <= Len(buffer) /\ buffer \in Seq(Made(g)) /\ r \in Seq(Made(g))
      BY <1>2, <1>3, <1>4, <2>1
    <3>2. /\ made \in Seq(Made(g)) /\ Len(made) = w.start + Len(r) + (Len(buffer) - w.end)
          /\ \A i \in 1 .. w.start : made[i] = buffer[i]
          /\ \A i \in 1 .. Len(r) : made[w.start + i] = r[i]
          /\ \A i \in w.end + 1 .. Len(buffer) : made[w.start + Len(r) + (i - w.end)] = buffer[i]
      BY <2>2, <3>1, Spliced, SMTT(40)
    <3> QED
      BY <3>2
  <2> HIDE DEF L, N, n, s, e
  <2>4. N \in Nat /\ e <= N /\ L \in Nat /\ DOMAIN made = 1 .. s + L + (N - e)
    <3>1. DOMAIN made = 1 .. Len(made)
      BY <2>3
    <3> QED
      BY <1>3, <1>4, <2>1, <2>3, <3>1 DEF N, L
  <2>5. \A m \in DOMAIN made :
          \/ m \in 1 .. s
          \/ m - s \in 1 .. L /\ s + (m - s) = m
          \/ m > s + L /\ (m - (s + L)) + e \in e + 1 .. N /\ s + L + (((m - (s + L)) + e) - e) = m
    BY <1>2, <2>4
  <2>6. ASSUME NEW m \in DOMAIN made, made[m].kind = "kept", m \in 1 .. s
        PROVE  made[m].at = m
    <3>1. made[m] = Kept(m)
      BY <1>2, <1>4, <2>3, <2>6
    <3> QED
      BY <2>6, <3>1, MadeKinds
  <2>7. ASSUME NEW m \in DOMAIN made, made[m].kind = "kept", m - s \in 1 .. L, s + (m - s) = m
        PROVE  made[m].at = m /\ m \in s + 1 .. e /\ Spared(leaf, w, m)
    <3>1. made[m] = r[m - s]
      BY <2>3, <2>7
    <3>2. made[m] = Kept(m) /\ m <= e /\ Spared(leaf, w, m)
      BY <2>1, <2>7, <3>1
    <3>3. m \in Nat /\ m > s
      BY <1>2, <2>4, <2>7
    <3> QED
      BY <1>2, <3>2, <3>3, MadeKinds
  <2>8. ASSUME NEW m \in DOMAIN made, made[m].kind = "kept", m > s + L
        PROVE  LET k == (m - (s + L)) + e
               IN  /\ k \in KeptIn(buffer) /\ made[m] = buffer[k] /\ k > e
                   /\ made[m].at \in e + 1 .. n
    <3> DEFINE k == (m - (s + L)) + e
    <3>0. m \in Nat
      BY <2>4, <1>2
    <3>1. k \in e + 1 .. N /\ s + L + (k - e) = m
      BY <1>2, <2>4, <2>8
    <3> HIDE DEF k
    <3>2. made[m] = buffer[k]
      BY <2>3, <3>1
    <3>3. k \in KeptIn(buffer) /\ k > e /\ e \in KeptIn(buffer) /\ buffer[e] = Kept(e)
      <4>1. e \in 1 .. N /\ k \in 1 .. N
        BY <1>2, <2>4, <3>1
      <4>2. buffer[e] = Kept(e) /\ buffer[e].kind = "kept"
        BY <1>2, <1>4, MadeKinds
      <4> QED
        BY <1>2, <1>3, <2>8, <3>1, <3>2, <4>1, <4>2 DEF KeptIn, N
    <3>4. buffer[e].at = e
      BY <1>2, <3>3, MadeKinds
    <3>5. buffer[k].at > e /\ buffer[k].at \in 1 .. n
      BY <1>2, <1>3, <1>5, <3>3, <3>4
    <3>6. made[m].at \in e + 1 .. n
      BY <1>2, <3>2, <3>5
    <3> QED
      BY <3>2, <3>3, <3>6 DEF k
  <2>9. \A m, k \in KeptIn(made) : m < k => made[m].at < made[k].at
    <3> SUFFICES ASSUME NEW m \in KeptIn(made), NEW k \in KeptIn(made), m < k
                 PROVE  made[m].at < made[k].at
      OBVIOUS
    <3>1. /\ m \in DOMAIN made /\ made[m].kind = "kept" /\ k \in DOMAIN made /\ made[k].kind = "kept"
          /\ m \in Nat /\ k \in Nat
      BY <1>2, <2>4 DEF KeptIn
    <3>2. CASE m > s + L
      <4> DEFINE a == (m - (s + L)) + e
                 b == (k - (s + L)) + e
      <4>1. k > s + L /\ a < b
        BY <1>2, <2>4, <3>1, <3>2
      <4>2. a \in KeptIn(buffer) /\ made[m] = buffer[a]
        BY <2>8, <3>1, <3>2
      <4>3. b \in KeptIn(buffer) /\ made[k] = buffer[b]
        BY <2>8, <3>1, <4>1
      <4> HIDE DEF a, b
      <4> QED
        BY <1>3, <4>1, <4>2, <4>3
    <3>3. CASE ~(m > s + L)
      <4>1. made[m].at = m /\ m <= e
        <5>1. CASE m \in 1 .. s
          BY <1>2, <2>6, <3>1, <5>1
        <5>2. CASE m \notin 1 .. s
          <6>1. m - s \in 1 .. L /\ s + (m - s) = m
            BY <2>5, <3>1, <3>3, <5>2
          <6> QED
            BY <1>2, <2>7, <3>1, <6>1
        <5> QED
          BY <5>1, <5>2
      <4>2. CASE k > s + L
        <5>1. made[k].at \in e + 1 .. n
          BY <2>8, <3>1, <4>2
        <5> QED
          BY <1>0, <1>2, <3>1, <4>1, <5>1
      <4>3. CASE ~(k > s + L)
        <5>1. CASE k \in 1 .. s
          BY <2>6, <3>1, <4>1, <5>1
        <5>2. CASE k \notin 1 .. s
          <6>1. k - s \in 1 .. L /\ s + (k - s) = k
            BY <2>5, <3>1, <4>3, <5>2
          <6> QED
            BY <2>7, <3>1, <4>1, <6>1
        <5> QED
          BY <5>1, <5>2
      <4> QED
        BY <4>2, <4>3
    <3> QED
      BY <3>2, <3>3
  <2>10. ASSUME NEW i \in 1 .. n, i <= s \/ i \in s + 1 .. e
         PROVE  \A f \in T \ {w} : ~Within(f, i)
    <3>1. i <= e
      BY <1>0, <1>2, <2>10
    <3>2. \A f \in T \ {w} : i <= f.start
      BY <1>0, <1>1, <1>2, <3>1
    <3> QED
      BY <1>0, <1>2, <3>2 DEF Within
  <2>11. \A i \in 1 .. n : Within(w, i) <=> i \in s + 1 .. e
    BY <1>0, <1>2 DEF Within, s, e
  <2>12. \A i \in 1 .. n : i \in LeftOf(leaf, T) <=>
           \A f \in T : Within(f, i) /\ Ruled(rules, f.label) => Spared(leaf, f, i)
    BY <1>0 DEF LeftOf
  <2>13. \A i \in 1 .. n : i \in LeftOf(leaf, T \ {w}) <=>
           \A f \in T \ {w} : Within(f, i) /\ Ruled(rules, f.label) => Spared(leaf, f, i)
    BY <1>0 DEF LeftOf
  <2>14. ASSUME NEW m \in KeptIn(made) PROVE made[m].at \in LeftOf(leaf, T)
    <3>1. m \in DOMAIN made /\ made[m].kind = "kept" /\ m \in Nat
      BY <1>2, <2>4 DEF KeptIn
    <3>2. CASE m \in 1 .. s
      <4>1. made[m].at = m /\ m \in 1 .. n /\ m <= s /\ m \notin s + 1 .. e
        BY <1>0, <1>2, <2>6, <3>1, <3>2
      <4> QED
        BY <2>10, <2>11, <2>12, <4>1
    <3>3. CASE m - s \in 1 .. L /\ s + (m - s) = m
      <4>1. made[m].at = m /\ m \in s + 1 .. e /\ Spared(leaf, w, m)
        BY <2>7, <3>1, <3>3
      <4>2. m \in 1 .. n
        BY <1>0, <1>2, <4>1
      <4> QED
        BY <2>10, <2>12, <4>1, <4>2
    <3>4. CASE m > s + L
      <4> DEFINE k == (m - (s + L)) + e
      <4>1. k \in KeptIn(buffer) /\ made[m] = buffer[k] /\ made[m].at \in e + 1 .. n
        BY <2>8, <3>1, <3>4
      <4> HIDE DEF k
      <4>2. buffer[k].at \in LeftOf(leaf, T \ {w}) /\ buffer[k].at \in 1 .. n
        BY <1>3, <1>5, <4>1 DEF n
      <4>3. made[m].at \in LeftOf(leaf, T \ {w}) /\ made[m].at \in 1 .. n /\ made[m].at \notin s + 1 .. e
        BY <1>2, <4>1, <4>2
      <4> QED
        BY <2>11, <2>12, <2>13, <4>3
    <3> QED
      BY <2>5, <3>1, <3>2, <3>3, <3>4
  <2>15. ASSUME NEW i \in LeftOf(leaf, T) PROVE \E m \in KeptIn(made) : made[m].at = i
    <3>1. i \in 1 .. n /\ i \in LeftOf(leaf, T \ {w})
      BY <1>0 DEF LeftOf
    <3>2. CASE i <= s
      <4>1. i \in 1 .. s /\ i \in DOMAIN made
        BY <1>0, <1>2, <2>4, <3>1, <3>2
      <4>2. made[i] = Kept(i)
        BY <1>2, <1>4, <2>3, <4>1
      <4>3. made[i].kind = "kept" /\ made[i].at = i
        BY <4>1, <4>2, MadeKinds
      <4> QED
        BY <4>1, <4>3 DEF KeptIn
    <3>3. CASE i \in s + 1 .. e
      <4>1. Within(w, i) /\ Spared(leaf, w, i) /\ i \in Nat
        BY <1>0, <1>1, <1>7, <2>11, <2>12, <3>1, <3>3
      <4>2. i - s \in 1 .. L /\ r[i - s] = Kept(i)
        BY <2>1, <4>1
      <4>3. s + (i - s) = i /\ i \in DOMAIN made
        BY <1>2, <2>4, <3>3, <4>2
      <4>4. made[i] = Kept(i)
        BY <2>3, <4>2, <4>3
      <4>5. made[i].kind = "kept" /\ made[i].at = i
        BY <4>1, <4>4, MadeKinds
      <4> QED
        BY <4>3, <4>5 DEF KeptIn
    <3>4. CASE i > e
      <4>1. PICK k \in KeptIn(buffer) : buffer[k].at = i
        BY <1>3, <3>1
      <4>2. k \in 1 .. N /\ buffer[k].kind = "kept"
        BY <1>3, <4>1 DEF KeptIn, N
      <4>3. k > e
        <5> SUFFICES ASSUME ~(k > e) PROVE FALSE
          OBVIOUS
        <5>1. k \in 1 .. e /\ k \in Nat
          BY <1>2, <2>4, <4>2
        <5>2. buffer[k] = Kept(k)
          BY <1>4, <5>1 DEF e
        <5>3. buffer[k].at = k
          BY <5>1, <5>2, MadeKinds
        <5> QED
          BY <1>2, <3>4, <4>1, <5>1, <5>3
      <4> DEFINE m == s + L + (k - e)
      <4>4. k \in e + 1 .. N /\ m \in DOMAIN made
        BY <1>2, <2>4, <4>2, <4>3
      <4>5. made[m] = buffer[k]
        BY <2>3, <4>4
      <4> HIDE DEF m
      <4> QED
        BY <4>1, <4>2, <4>4, <4>5 DEF KeptIn
    <3> QED
      BY <1>0, <1>2, <3>1, <3>2, <3>3, <3>4
  <2>16. {made[m].at : m \in KeptIn(made)} = LeftOf(leaf, T)
    BY <2>14, <2>15
  <2>17. ASSUME NEW b \in 0 .. n, \A f \in T : b <= f.start
         PROVE  b <= Len(made) /\ \A i \in 1 .. b : made[i] = Kept(i)
    <3>1. b <= s /\ b \in Nat
      BY <1>0, <1>1, <2>17 DEF s
    <3>2. b <= Len(made)
      BY <1>2, <2>3, <2>4, <3>1
    <3>3. \A i \in 1 .. b : i \in 1 .. s /\ i \in 1 .. e
      BY <1>2, <3>1
    <3> QED
      BY <1>4, <2>3, <3>2, <3>3 DEF e
  <2> QED
    BY <2>3, <2>9, <2>16, <2>17 DEF Edited, made, n
<1> QED
  BY <1>6, <1>7

(* A text whose findings were only tokenised reads as the one it was made  *)
(* of: piece by piece, what a piece stands for is the next part of it.     *)
Tokenised(T) ==
  \A f \in T : Ruled(rules, f.label) => rule_for(rules, f.label).strategy = "tokenize"

Original(leaf, piece) ==
  IF piece.kind = "token" THEN piece.box.value ELSE <<leaf.text[piece.at]>>

ReadBy(leaf, T, buffer, off) ==
  /\ off \in [0 .. Len(buffer) -> 0 .. Len(leaf.text)]
  /\ off[0] = 0 /\ off[Len(buffer)] = Len(leaf.text)
  /\ \A m \in 1 .. Len(buffer) :
       /\ off[m - 1] <= off[m] /\ buffer[m].kind \in {"kept", "token"}
       /\ Original(leaf, buffer[m]) = SubSeq(leaf.text, off[m - 1] + 1, off[m])
  /\ \A i \in 0 .. Len(buffer) : (\A f \in T : i <= f.start) => off[i] = i

Readable(leaf, T, buffer) == \E off : ReadBy(leaf, T, buffer, off)

LEMMA UntouchedIsReadable ==
  ASSUME NEW leaf, leaf.text \in Seq(Letters), NEW T
  PROVE  Readable(leaf, T, Untouched(leaf))
<1> DEFINE n == Len(leaf.text)
           u == Untouched(leaf)
           off == [i \in 0 .. n |-> i]
<1>0. n \in Nat /\ DOMAIN leaf.text = 1 .. n
  OBVIOUS
<1>1. u = [i \in 1 .. n |-> Kept(i)] /\ Len(u) = n
  BY <1>0 DEF Untouched
<1> HIDE DEF u
<1>2. off \in [0 .. Len(u) -> 0 .. n] /\ \A i \in 0 .. n : off[i] = i
  BY <1>1
<1> HIDE DEF off, n
<1>3. ASSUME NEW m \in 1 .. n
      PROVE  /\ off[m - 1] <= off[m] /\ u[m].kind \in {"kept", "token"}
             /\ Original(leaf, u[m]) = SubSeq(leaf.text, off[m - 1] + 1, off[m])
  <2>1. u[m].kind = "kept" /\ u[m].at = m
    BY <1>0, <1>1, MadeKinds
  <2>2. m \in Nat /\ m - 1 \in 0 .. n /\ m \in 0 .. n /\ (m - 1) + 1 = m
    BY <1>0
  <2>3. off[m - 1] = m - 1 /\ off[m] = m
    BY <1>2, <2>2
  <2>4. SubSeq(leaf.text, m, m) = <<leaf.text[m]>>
    BY LetterAt DEF n
  <2> QED
    BY <2>1, <2>2, <2>3, <2>4 DEF Original
<1>4. 0 \in 0 .. n /\ n \in 0 .. n
  BY <1>0
<1>5. ReadBy(leaf, T, u, off)
  BY <1>1, <1>2, <1>3, <1>4 DEF ReadBy, n
<1> QED
  BY <1>5 DEF Readable, u

LEMMA ReadableOn ==
  ASSUME NEW leaf, leaf.text \in Seq(Letters), rules \in RuleLists, NEW g,
         NEW T, Disjoint(leaf, T), T # {}, Tokenised(T), NEW w, w = Leftmost(T),
         NEW buffer, Edited(leaf, T \ {w}, buffer, g), Readable(leaf, T \ {w}, buffer)
  PROVE  Readable(leaf, T, Edit(leaf, w, buffer, g))
<1> DEFINE n == Len(leaf.text)
           N == Len(buffer)
           made == Edit(leaf, w, buffer, g)
           s == w.start
           e == w.end
<1>0. n \in Nat /\ DOMAIN leaf.text = 1 .. n
  OBVIOUS
<1>1. w \in T /\ \A h \in T \ {w} : e <= h.start
  BY LeftmostOf
<1>2. /\ IsMatch(w) /\ s \in Nat /\ e \in Nat /\ s < e /\ e <= n
      /\ \A f \in T : f.start \in Nat /\ f.end \in Nat
  BY <1>1 DEF Disjoint, IsMatch
<1>3. buffer \in Seq(Made(g)) /\ N \in Nat
  <2>1. buffer \in Seq(Made(g))
    BY DEF Edited
  <2> QED
    BY <2>1
<1>4. e <= N
  <2>1. e \in 0 .. n
    BY <1>0, <1>2
  <2> QED
    BY <1>1, <2>1 DEF Edited
<1>5. PICK off : ReadBy(leaf, T \ {w}, buffer, off)
  BY DEF Readable
<1>6. /\ off \in [0 .. N -> 0 .. n] /\ off[0] = 0 /\ off[N] = n
      /\ \A m \in 1 .. N :
           /\ off[m - 1] <= off[m] /\ buffer[m].kind \in {"kept", "token"}
           /\ Original(leaf, buffer[m]) = SubSeq(leaf.text, off[m - 1] + 1, off[m])
      /\ \A i \in 0 .. N : (\A f \in T \ {w} : i <= f.start) => off[i] = i
  BY <1>5 DEF ReadBy
<1>7. CASE ~Ruled(rules, w.label)
  <2>1. made = buffer
    BY <1>7 DEF Edit
  <2>2. \A i \in 0 .. N : (\A f \in T : i <= f.start) => off[i] = i
    BY <1>6
  <2>3. ReadBy(leaf, T, made, off)
    BY <1>6, <2>1, <2>2 DEF ReadBy
  <2> QED
    BY <2>3 DEF Readable
<1>8. CASE Ruled(rules, w.label)
  <2> DEFINE t == Token(tokenize(g, w.label, Value(leaf, w)))
             r == <<t>>
             at == [i \in 0 .. N - (e - s) + 1 |-> IF i <= s THEN off[i] ELSE off[(i - 1) - s + e]]
  <2>1. Stands(leaf, w, r, g) /\ made = Splice(buffer, w, r)
    <3>1. rule_for(rules, w.label).strategy = "tokenize"
      BY <1>1, <1>8 DEF Tokenised
    <3>2. w.end <= Len(leaf.text)
      BY <1>2
    <3>3. /\ Stands(leaf, w, _replacement(leaf, w, rule_for(rules, w.label), g), g)
          /\ _replacement(leaf, w, rule_for(rules, w.label), g) = r
      BY <1>2, <1>8, <3>1, <3>2, Replaced
    <3> QED
      BY <1>8, <3>3 DEF Edit
  <2>2. r \in Seq(Made(g))
    BY <2>1 DEF Stands
  <2>3. t.kind = "token" /\ t.box.value = SubSeq(leaf.text, s + 1, e)
    <3>1. t.kind = "token" /\ t.box = tokenize(g, w.label, Value(leaf, w))
      BY DEF Token
    <3>2. tokenize(g, w.label, Value(leaf, w)).value = Value(leaf, w)
      BY DEF tokenize
    <3> QED
      BY <3>1, <3>2 DEF Value
  <2> HIDE DEF t
  <2>4. Len(r) = 1 /\ r[1] = t
    OBVIOUS
  <2> HIDE DEF r, made
  <2>5. /\ made \in Seq(Made(g)) /\ Len(made) = s + 1 + (N - e)
        /\ \A i \in 1 .. s : made[i] = buffer[i]
        /\ made[s + 1] = t
        /\ \A i \in e + 1 .. N : made[s + 1 + (i - e)] = buffer[i]
    <3>1. IsMatch(w) /\ w.end <= Len(buffer)
      BY <1>2, <1>4
    <3>2. /\ made \in Seq(Made(g)) /\ Len(made) = w.start + Len(r) + (Len(buffer) - w.end)
          /\ \A i \in 1 .. w.start : made[i] = buffer[i]
          /\ \A i \in 1 .. Len(r) : made[w.start + i] = r[i]
          /\ \A i \in w.end + 1 .. Len(buffer) : made[w.start + Len(r) + (i - w.end)] = buffer[i]
      BY <1>3, <2>1, <2>2, <3>1, Spliced, SMTT(40)
    <3>3. 1 \in 1 .. Len(r)
      BY <2>4
    <3> QED
      BY <2>4, <3>2, <3>3
  <2> HIDE DEF s, e, N, n
  <2> DEFINE K == s + 1 + (N - e)
  <2>6. K \in Nat /\ K >= s + 1 /\ N - (e - s) + 1 = K
    BY <1>2, <1>3, <1>4
  <2>7. at = [i \in 0 .. K |-> IF i <= s THEN off[i] ELSE off[(i - 1) - s + e]]
    BY <2>6
  <2> HIDE DEF at, K
  <2>8. \A i \in 0 .. K : IF i <= s THEN at[i] = off[i] /\ i \in 0 .. N
                         ELSE at[i] = off[(i - 1) - s + e] /\ (i - 1) - s + e \in e .. N /\ e >= 0
    BY <1>2, <1>3, <1>4, <2>7 DEF K
  <2>9. at \in [0 .. K -> 0 .. n]
    <3>1. ASSUME NEW i \in 0 .. K PROVE at[i] \in 0 .. n
      <4>1. CASE i <= s
        BY <1>6, <2>8, <4>1
      <4>2. CASE ~(i <= s)
        <5>1. at[i] = off[(i - 1) - s + e] /\ (i - 1) - s + e \in 0 .. N
          BY <1>2, <1>3, <2>8, <4>2
        <5> QED
          BY <1>6, <5>1
      <4> QED
        BY <4>1, <4>2
    <3> QED
      BY <2>7, <3>1
  <2>10. off[s] = s /\ off[e] = e
    <3>1. s \in 0 .. N /\ e \in 0 .. N /\ \A f \in T \ {w} : s <= f.start /\ e <= f.start
      BY <1>1, <1>2, <1>3, <1>4 DEF s, e
    <3> QED
      BY <1>6, <3>1
  <2>11. at[0] = 0 /\ at[K] = n
    <3>1. 0 \in 0 .. K /\ 0 <= s /\ K \in 0 .. K /\ ~(K <= s) /\ (K - 1) - s + e = N
      BY <1>2, <1>3, <1>4, <2>6 DEF K
    <3> QED
      BY <1>6, <2>8, <3>1
  <2>12. \A i \in 0 .. K : (\A f \in T : i <= f.start) => at[i] = i
    <3> SUFFICES ASSUME NEW i \in 0 .. K, \A f \in T : i <= f.start PROVE at[i] = i
      OBVIOUS
    <3>1. i <= s /\ \A f \in T \ {w} : i <= f.start
      BY <1>1 DEF s
    <3> QED
      BY <1>6, <2>8, <3>1
  <2>13. ASSUME NEW m \in 1 .. K
         PROVE  /\ at[m - 1] <= at[m] /\ made[m].kind \in {"kept", "token"}
                /\ Original(leaf, made[m]) = SubSeq(leaf.text, at[m - 1] + 1, at[m])
    <3>0. m \in Nat /\ m >= 1 /\ m - 1 \in 0 .. K /\ m \in 0 .. K
      BY <2>6
    <3>1. CASE m <= s
      <4>1. m \in 1 .. s /\ m \in 1 .. N /\ m - 1 <= s
        BY <1>2, <1>3, <1>4, <3>0, <3>1
      <4>2. at[m] = off[m] /\ at[m - 1] = off[m - 1] /\ made[m] = buffer[m]
        BY <2>5, <2>8, <3>0, <3>1, <4>1
      <4> QED
        BY <1>6, <4>1, <4>2
    <3>2. CASE m = s + 1
      <4>1. m - 1 = s /\ ~(m <= s) /\ (m - 1) - s + e = e
        BY <1>2, <3>2
      <4>2. at[m - 1] = s /\ at[m] = e /\ made[m] = t
        BY <1>2, <2>5, <2>8, <2>10, <3>0, <3>2, <4>1
      <4> QED
        BY <1>2, <2>3, <4>2 DEF Original
    <3>3. CASE m > s + 1
      <4> DEFINE k == (m - 1) - s + e
      <4>1. /\ ~(m <= s) /\ ~(m - 1 <= s) /\ k \in e + 1 .. N /\ s + 1 + (k - e) = m
            /\ ((m - 1) - 1) - s + e = k - 1 /\ k \in 1 .. N
        BY <1>2, <1>3, <1>4, <3>0, <3>3 DEF K
      <4>2. at[m] = off[k]
        BY <2>8, <3>0, <4>1
      <4> HIDE DEF k
      <4>3. at[m - 1] = off[k - 1]
        BY <2>8, <3>0, <4>1
      <4>4. made[m] = buffer[k]
        BY <2>5, <4>1
      <4> QED
        BY <1>6, <4>1, <4>2, <4>3, <4>4
    <3> QED
      BY <1>2, <3>0, <3>1, <3>2, <3>3
  <2>14. ReadBy(leaf, T, made, at)
    BY <2>5, <2>9, <2>11, <2>12, <2>13 DEF ReadBy, K, n
  <2> QED
    BY <2>14 DEF Readable, made
<1> QED
  BY <1>7, <1>8

EditsBy(h, leaf, S, g) ==
  /\ h[{}] = Untouched(leaf)
  /\ \A T \in SUBSET S : T # {} =>
       LET made == Edit(leaf, Leftmost(T), h[T \ {Leftmost(T)}], g)
       IN  made \in Seq(Made(g)) => h[T] = made

WellEdited(leaf, T, buffer, g) ==
  Edited(leaf, T, buffer, g) /\ (Tokenised(T) => Readable(leaf, T, buffer))

LEMMA EditsWell ==
  ASSUME NEW leaf, leaf.text \in Seq(Letters), rules \in RuleLists, NEW g,
         NEW S, Disjoint(leaf, S), NEW h, EditsBy(h, leaf, S, g)
  PROVE  \A T \in SUBSET S : WellEdited(leaf, T, h[T], g)
<1> DEFINE G == {T \in SUBSET S : WellEdited(leaf, T, h[T], g)}
<1>1. ASSUME NEW T \in SUBSET S, \A x \in T : T \ {x} \in G PROVE WellEdited(leaf, T, h[T], g)
  <2>1. CASE T = {}
    <3>1. h[T] = Untouched(leaf)
      BY <2>1 DEF EditsBy
    <3> QED
      BY <2>1, <3>1, UntouchedIsEdited, UntouchedIsReadable DEF WellEdited
  <2>2. CASE T # {}
    <3> DEFINE w == Leftmost(T)
               buffer == h[T \ {w}]
               made == Edit(leaf, w, buffer, g)
    <3>1. Disjoint(leaf, T)
      <4>1. IsFiniteSet(T)
        BY FS_Subset DEF Disjoint
      <4> QED
        BY <4>1 DEF Disjoint
    <3>2. w \in T
      BY <2>2, <3>1, LeftmostOf
    <3>3. WellEdited(leaf, T \ {w}, buffer, g)
      BY <1>1, <3>2
    <3> HIDE DEF buffer
    <3>4. Edited(leaf, T, made, g)
      BY <2>2, <3>1, <3>3, EditedOn DEF WellEdited
    <3>5. ASSUME Tokenised(T) PROVE Readable(leaf, T, made)
      <4>1. Tokenised(T \ {w})
        BY <3>5 DEF Tokenised
      <4> QED
        BY <2>2, <3>1, <3>3, <3>5, <4>1, ReadableOn DEF WellEdited
    <3>6. made \in Seq(Made(g))
      BY <3>4 DEF Edited
    <3>7. h[T] = made
      BY <2>2, <3>6 DEF EditsBy, buffer
    <3> QED
      BY <3>4, <3>5, <3>7 DEF WellEdited
  <2> QED
    BY <2>1, <2>2
<1>2. \A T \in SUBSET S : (\A x \in T : T \ {x} \in G) => T \in G
  BY <1>1
<1>3. IsFiniteSet(S)
  BY DEF Disjoint
<1>4. SUBSET S \subseteq G
  <2> HIDE DEF G
  <2> QED
    BY <1>2, <1>3, AllSubsets
<1> QED
  BY <1>4

(* What the redactor makes of a text and findings that do not overlap.     *)
LEMMA TextEdited ==
  ASSUME NEW leaf, leaf.text \in Seq(Letters), rules \in RuleLists, NEW g,
         NEW S, Disjoint(leaf, S)
  PROVE  WellEdited(leaf, S, apply_to_text(leaf, S, g), g)
<1> DEFINE edit(f, buffer) ==
             IF Ruled(rules, f.label)
             THEN Splice(buffer, f, _replacement(leaf, f, rule_for(rules, f.label), g))
             ELSE buffer
           base == [i \in DOMAIN leaf.text |-> Kept(i)]
           Is(h) == h = [T \in SUBSET S |->
                           IF T = {} THEN base ELSE edit(Leftmost(T), h[T \ {Leftmost(T)}])]
           c == CHOOSE h : Is(h)
           V == Seq(Made(g))
<1>0. \A T \in SUBSET S : T # {} => Leftmost(T) \in T
  <2> SUFFICES ASSUME NEW T \in SUBSET S, T # {} PROVE Leftmost(T) \in T
    OBVIOUS
  <2>1. IsFiniteSet(T)
    BY FS_Subset DEF Disjoint
  <2>2. Disjoint(leaf, T)
    BY <2>1 DEF Disjoint
  <2> QED
    BY <2>2, LeftmostOf
<1>1. apply_to_text(leaf, S, g) = c[S]
  BY DEF apply_to_text, MapThenFoldSet
<1>2. \A f, buffer : edit(f, buffer) = Edit(leaf, f, buffer, g)
  BY DEF Edit
<1>3. base = Untouched(leaf)
  BY DEF Untouched
<1> HIDE DEF edit, base
<1>4. \E h : Is(h)
  <2> DEFINE pick == [T \in (SUBSET S) \ {{}} |-> Leftmost(T)]
             step == [f \in S |-> [buffer \in V |-> IF edit(f, buffer) \in V THEN edit(f, buffer) ELSE buffer]]
  <2>1. base \in V
    <3>1. Edited(leaf, {}, Untouched(leaf), g)
      BY UntouchedIsEdited
    <3> QED
      BY <1>3, <3>1 DEF Edited
  <2>2. \A f \in S, buffer \in V :
          step[f][buffer] = IF edit(f, buffer) \in V THEN edit(f, buffer) ELSE buffer
    OBVIOUS
  <2>3. step \in [S -> [V -> V]]
    OBVIOUS
  <2>4. pick \in [(SUBSET S) \ {{}} -> S] /\ \A T \in SUBSET S : T # {} => pick[T] \in T /\ pick[T] = Leftmost(T)
    BY <1>0
  <2> HIDE DEF step, pick
  <2>5. PICK F \in [SUBSET S -> V] : IsFold(F, S, base, pick, step)
    <3> HIDE DEF V
    <3>1. IsFiniteSet(S)
      BY DEF Disjoint
    <3> QED
      BY <2>1, <2>3, <2>4, <3>1, FoldExists
  <2>6. ASSUME NEW T \in SUBSET S, T # {}, edit(Leftmost(T), F[T \ {Leftmost(T)}]) \in V
        PROVE  F[T] = edit(Leftmost(T), F[T \ {Leftmost(T)}])
    <3>1. pick[T] = Leftmost(T) /\ Leftmost(T) \in S /\ F[T \ {Leftmost(T)}] \in V
      BY <2>4, <2>5, <2>6
    <3>2. F[T] = step[Leftmost(T)][F[T \ {Leftmost(T)}]]
      BY <2>5, <2>6, <3>1 DEF IsFold
    <3> QED
      BY <2>2, <2>6, <3>1, <3>2
  <2>7. F[{}] = base
    BY <2>5 DEF IsFold
  <2>8. EditsBy(F, leaf, S, g)
    BY <1>2, <1>3, <2>6, <2>7 DEF EditsBy
  <2>9. \A T \in SUBSET S : WellEdited(leaf, T, F[T], g)
    BY <2>8, EditsWell
  <2>10. ASSUME NEW T \in SUBSET S
         PROVE  F[T] = IF T = {} THEN base ELSE edit(Leftmost(T), F[T \ {Leftmost(T)}])
    <3>1. CASE T = {}
      BY <2>7, <3>1
    <3>2. CASE T # {}
      <4>1. Disjoint(leaf, T)
        <5>1. IsFiniteSet(T)
          BY FS_Subset DEF Disjoint
        <5> QED
          BY <5>1 DEF Disjoint
      <4>2. Edited(leaf, T \ {Leftmost(T)}, F[T \ {Leftmost(T)}], g)
        BY <2>9, <3>2 DEF WellEdited
      <4>3. Edited(leaf, T, Edit(leaf, Leftmost(T), F[T \ {Leftmost(T)}], g), g)
        BY <3>2, <4>1, <4>2, EditedOn
      <4>4. edit(Leftmost(T), F[T \ {Leftmost(T)}]) \in V
        BY <1>2, <4>3 DEF Edited
      <4> QED
        BY <2>6, <3>2, <4>4
    <3> QED
      BY <3>1, <3>2
  <2>11. F = [T \in SUBSET S |-> F[T]]
    BY <2>5
  <2> QED
    BY <2>10, <2>11
<1>5. Is(c)
  <2> HIDE DEF Is
  <2> QED
    BY <1>4
<1> HIDE DEF c
<1>6. EditsBy(c, leaf, S, g)
  <2>1. c[{}] = base /\ \A T \in SUBSET S : T # {} => c[T] = edit(Leftmost(T), c[T \ {Leftmost(T)}])
    BY <1>5
  <2> QED
    BY <1>2, <1>3, <2>1 DEF EditsBy
<1>7. WellEdited(leaf, S, c[S], g)
  BY <1>6, EditsWell
<1> QED
  BY <1>1, <1>7

LEMMA ReadBack ==
  ASSUME NEW leaf, leaf.text \in Seq(Letters), NEW M, NEW buffer \in Seq(M), NEW T,
         Readable(leaf, T, buffer)
  PROVE  FlattenSeq([m \in DOMAIN buffer |-> Original(leaf, buffer[m])]) = leaf.text
<1> DEFINE n == Len(leaf.text)
           N == Len(buffer)
           parts == [m \in DOMAIN buffer |-> Original(leaf, buffer[m])]
<1>0. n \in Nat /\ N \in Nat /\ DOMAIN buffer = 1 .. N
  OBVIOUS
<1>1. PICK off : ReadBy(leaf, T, buffer, off)
  BY DEF Readable
<1>2. /\ off \in [0 .. N -> 0 .. n] /\ off[0] = 0 /\ off[N] = n
      /\ \A m \in 1 .. N :
           off[m - 1] <= off[m] /\ Original(leaf, buffer[m]) = SubSeq(leaf.text, off[m - 1] + 1, off[m])
  BY <1>1 DEF ReadBy
<1> DEFINE F == [m \in 0 .. N |-> SubSeq(leaf.text, 1, off[m])]
<1>3. parts = [m \in 1 .. N |-> Original(leaf, buffer[m])]
  BY <1>0
<1> HIDE DEF parts, N, n
<1>4. ASSUME NEW m \in 1 .. N PROVE parts[m] = SubSeq(leaf.text, off[m - 1] + 1, off[m]) /\ parts[m] \in Seq(Letters)
  <2>1. m - 1 \in 0 .. N /\ m \in 0 .. N
    BY <1>0
  <2>2. off[m - 1] \in 0 .. n /\ off[m] \in 0 .. n
    BY <1>2, <2>1
  <2>3. SubSeq(leaf.text, off[m - 1] + 1, off[m]) \in Seq(Letters)
    BY <1>0, <2>2 DEF n
  <2>4. parts[m] = Original(leaf, buffer[m])
    BY <1>3
  <2> QED
    BY <1>2, <2>3, <2>4
<1>5. parts \in Seq(Seq(Letters)) /\ Len(parts) = N
  BY <1>0, <1>3, <1>4
<1>6. ASSUME NEW m \in 0 .. N PROVE F[m] \in Seq(Letters) /\ F[m] = SubSeq(leaf.text, 1, off[m])
  <2>1. off[m] \in 0 .. n
    BY <1>2
  <2> QED
    BY <1>0, <2>1 DEF n
<1>7. F \in [0 .. N -> Seq(Letters)]
  BY <1>6
<1>8. IsPrefixOf(F, parts)
  <2>1. F[0] = <<>>
    <3>1. 0 \in 0 .. N
      BY <1>0
    <3>2. F[0] = SubSeq(leaf.text, 1, 0)
      BY <1>2, <1>6, <3>1
    <3> HIDE DEF F
    <3> QED
      BY <3>2
  <2>2. ASSUME NEW m \in 1 .. N PROVE F[m] = F[m - 1] \o parts[m]
    <3>1. m - 1 \in 0 .. N /\ m \in 0 .. N
      BY <1>0
    <3>2. off[m - 1] \in 0 .. n /\ off[m] \in 0 .. n /\ off[m - 1] <= off[m]
      BY <1>2, <3>1
    <3>3. SubSeq(leaf.text, 1, off[m - 1]) \o SubSeq(leaf.text, off[m - 1] + 1, off[m])
            = SubSeq(leaf.text, 1, off[m])
      BY <3>2, PartsJoin DEF n
    <3> HIDE DEF F
    <3> QED
      BY <1>4, <1>6, <3>1, <3>3
  <2> HIDE DEF F
  <2> QED
    BY <1>5, <1>7, <2>1, <2>2 DEF IsPrefixOf
<1>9. F[N] = leaf.text
  <2>1. N \in 0 .. N
    BY <1>0
  <2>2. F[N] = SubSeq(leaf.text, 1, n)
    BY <1>2, <1>6, <2>1
  <2>3. /\ SubSeq(leaf.text, 1, n) \in Seq(Letters) /\ Len(SubSeq(leaf.text, 1, n)) = n
        /\ \A i \in 1 .. n : SubSeq(leaf.text, 1, n)[i] = leaf.text[i]
    BY <1>0 DEF n
  <2>4. SubSeq(leaf.text, 1, n) = leaf.text
    BY <2>3, SameSequence DEF n
  <2> QED
    BY <2>2, <2>4
<1> HIDE DEF F
<1>10. FlattenSeq(parts) = F[N]
  BY <1>5, <1>7, <1>8, FlattenIsLast
<1> QED
  BY <1>9, <1>10 DEF parts

----------------------------------------------------------------------------
(* Pointers tell leaves apart.                                             *)

(* Words that can be told apart in a text: none is empty, and where one of *)
(* them begins another, the other goes on as no word starts.               *)
Decodable(Words) ==
  /\ \A u \in Words : Len(u) >= 1
  /\ \A u, v, w \in Words : Len(u) < Len(v) /\ (\A k \in 1 .. Len(u) : u[k] = v[k])
       => v[Len(u) + 1] # w[1]

LiesAt(u, i, text) ==
  /\ i \in Nat /\ Len(u) \in Nat /\ Len(text) \in Nat /\ i + Len(u) <= Len(text)
  /\ \A k \in 1 .. Len(u) : text[i + k] = u[k]

LEMMA WordInText ==
  ASSUME NEW S, NEW seqs \in Seq(Seq(S)), NEW F \in [0 .. Len(seqs) -> Seq(S)],
         IsPrefixOf(F, seqs), NEW m \in 1 .. Len(seqs)
  PROVE  LiesAt(seqs[m], Len(F[m - 1]), F[Len(seqs)]) /\ F[m] = F[m - 1] \o seqs[m]
<1>0. Len(seqs) \in Nat /\ seqs[m] \in Seq(S) /\ m - 1 \in 0 .. Len(seqs) /\ m \in 0 .. Len(seqs)
  OBVIOUS
<1> DEFINE p == F[m - 1]
           u == seqs[m]
           text == F[Len(seqs)]
<1>1. F[m] = p \o u
  BY DEF IsPrefixOf
<1>2. p \in Seq(S) /\ u \in Seq(S) /\ text \in Seq(S)
  <2>1. Len(seqs) \in 0 .. Len(seqs)
    BY <1>0
  <2> QED
    BY <1>0, <2>1
<1>3. Begins(p \o u, text)
  BY <1>0, <1>1, PrefixesBegin
<1> HIDE DEF p, u, text
<1>4. Len(p \o u) = Len(p) + Len(u) /\ Len(p) \in Nat /\ Len(u) \in Nat /\ Len(text) \in Nat
  BY <1>2
<1>5. \A k \in 1 .. Len(u) : (p \o u)[Len(p) + k] = u[k]
  BY <1>2, Appended
<1>6. Len(p) + Len(u) <= Len(text) /\ \A i \in 1 .. Len(p) + Len(u) : text[i] = (p \o u)[i]
  BY <1>3, <1>4 DEF Begins
<1>7. ASSUME NEW k \in 1 .. Len(u) PROVE text[Len(p) + k] = u[k]
  <2>1. Len(p) + k \in 1 .. Len(p) + Len(u)
    BY <1>4
  <2> QED
    BY <1>5, <1>6, <2>1
<1> QED
  BY <1>1, <1>4, <1>6, <1>7 DEF LiesAt, p, u, text

(* The next word of one text is no shorter part of the next of another.    *)
LEMMA SameWord ==
  ASSUME NEW S, NEW Words \in SUBSET Seq(S), Decodable(Words),
         NEW x \in Seq(Words), NEW y \in Seq(Words),
         NEW F \in [0 .. Len(x) -> Seq(S)], IsPrefixOf(F, x),
         NEW G \in [0 .. Len(y) -> Seq(S)], IsPrefixOf(G, y),
         F[Len(x)] = G[Len(y)],
         NEW m \in 1 .. Len(x), m \in 1 .. Len(y), F[m - 1] = G[m - 1]
  PROVE  Len(x[m]) >= Len(y[m])
<1> SUFFICES ASSUME Len(x[m]) < Len(y[m]) PROVE FALSE
  <2>1. x[m] \in Seq(S) /\ y[m] \in Seq(S)
    OBVIOUS
  <2>2. Len(x[m]) \in Nat /\ Len(y[m]) \in Nat
    BY <2>1
  <2> QED
    BY <2>2
<1> DEFINE u == x[m]
           v == y[m]
           p == F[m - 1]
           text == F[Len(x)]
<1>0. x \in Seq(Seq(S)) /\ y \in Seq(Seq(S)) /\ Len(x) \in Nat /\ Len(y) \in Nat
  OBVIOUS
<1>1. u \in Words /\ v \in Words
  OBVIOUS
<1>2. /\ Len(p) \in Nat /\ Len(u) \in Nat /\ Len(text) \in Nat /\ F[m] = p \o u
      /\ Len(p) + Len(u) <= Len(text)
      /\ \A k \in 1 .. Len(u) : text[Len(p) + k] = u[k]
  <2>1. LiesAt(u, Len(p), text) /\ F[m] = p \o u
    BY <1>0, WordInText
  <2> HIDE DEF u, p, text
  <2> QED
    BY <2>1 DEF LiesAt
<1>3. /\ Len(v) \in Nat /\ Len(p) + Len(v) <= Len(text)
      /\ \A k \in 1 .. Len(v) : text[Len(p) + k] = v[k]
  <2>1. LiesAt(v, Len(p), text)
    BY <1>0, WordInText
  <2> HIDE DEF v, p, text
  <2> QED
    BY <2>1 DEF LiesAt
<1>s. Len(u) < Len(v)
  OBVIOUS
<1>4. \A k \in 1 .. Len(u) : u[k] = v[k]
  <2> HIDE DEF u, v, p, text
  <2>1. \A k \in 1 .. Len(u) : k \in 1 .. Len(v)
    BY <1>2, <1>3, <1>s
  <2> QED
    BY <1>2, <1>3, <2>1
<1>5. text[Len(p) + (Len(u) + 1)] = v[Len(u) + 1]
  <2> HIDE DEF u, v, p, text
  <2>0. Len(u) \in Nat /\ Len(v) \in Nat
    BY <1>2, <1>3
  <2>1. Len(u) + 1 \in 1 .. Len(v)
    BY <1>s, <2>0
  <2> QED
    BY <1>3, <2>1
<1>6. Len(F[m]) = Len(p) + Len(u)
  <2>1. m - 1 \in 0 .. Len(x)
    BY <1>0
  <2>2. p \in Seq(S)
    BY <2>1
  <2>3. u \in Seq(S)
    OBVIOUS
  <2> HIDE DEF p, u
  <2> QED
    BY <1>2, <2>2, <2>3
<1>7. CASE m = Len(x)
  <2>1. text = F[m] /\ Len(u) < Len(v)
    BY <1>7
  <2> HIDE DEF u, v, p, text
  <2> QED
    BY <1>2, <1>3, <1>6, <2>1
<1>8. CASE m # Len(x)
  <2>1. m + 1 \in 1 .. Len(x) /\ (m + 1) - 1 = m
    BY <1>0, <1>8
  <2> DEFINE w == x[m + 1]
  <2>2. w \in Words
    BY <2>1
  <2>3. \A k \in 1 .. Len(w) : text[Len(F[(m + 1) - 1]) + k] = w[k]
    <3>1. LiesAt(w, Len(F[(m + 1) - 1]), text)
      BY <1>0, <2>1, WordInText
    <3> QED
      BY <3>1 DEF LiesAt
  <2>4. 1 \in 1 .. Len(w)
    <3>1. w \in Seq(S) /\ Len(w) >= 1
      BY <2>2 DEF Decodable
    <3>2. Len(w) \in Nat
      BY <3>1
    <3> QED
      BY <3>1, <3>2
  <2> HIDE DEF w, text, u, v, p
  <2>5. text[Len(p) + Len(u) + 1] = w[1]
    BY <1>6, <2>1, <2>3, <2>4
  <2>6. Len(p) + Len(u) + 1 = Len(p) + (Len(u) + 1)
    BY <1>2
  <2>7. v[Len(u) + 1] = w[1]
    BY <1>5, <2>5, <2>6
  <2>8. Len(u) < Len(v)
    BY DEF u, v
  <2> QED
    BY <1>1, <1>4, <2>2, <2>7, <2>8 DEF Decodable
<1> QED
  BY <1>7, <1>8

LEMMA SameWords ==
  ASSUME NEW S, NEW Words \in SUBSET Seq(S), Decodable(Words),
         NEW x \in Seq(Words), NEW y \in Seq(Words), FlattenSeq(x) = FlattenSeq(y)
  PROVE  x = y
<1>0. x \in Seq(Seq(S)) /\ y \in Seq(Seq(S)) /\ Len(x) \in Nat /\ Len(y) \in Nat
  OBVIOUS
<1>1. PICK F \in [0 .. Len(x) -> Seq(S)] : IsPrefixOf(F, x)
  BY <1>0, PrefixesExist
<1>2. PICK G \in [0 .. Len(y) -> Seq(S)] : IsPrefixOf(G, y)
  BY <1>0, PrefixesExist
<1>3. F[Len(x)] = G[Len(y)]
  BY <1>0, <1>1, <1>2, FlattenIsLast
<1> DEFINE Same(i) == i <= Len(x) /\ i <= Len(y) => F[i] = G[i] /\ (i >= 1 => x[i] = y[i])
           T == {i \in Nat : Same(i)}
<1>4. Same(0)
  BY <1>1, <1>2 DEF IsPrefixOf
<1>5. ASSUME NEW i \in Nat, Same(i) PROVE Same(i + 1)
  <2> SUFFICES ASSUME i + 1 <= Len(x), i + 1 <= Len(y) PROVE F[i + 1] = G[i + 1] /\ x[i + 1] = y[i + 1]
    OBVIOUS
  <2> DEFINE m == i + 1
  <2>1. m \in 1 .. Len(x) /\ m \in 1 .. Len(y) /\ m - 1 = i /\ i <= Len(x) /\ i <= Len(y)
    BY <1>0
  <2>2. F[m - 1] = G[m - 1]
    BY <1>5, <2>1
  <2> HIDE DEF m
  <2>3. Len(x[m]) >= Len(y[m])
    BY <1>1, <1>2, <1>3, <2>1, <2>2, SameWord
  <2>4. Len(y[m]) >= Len(x[m])
    BY <1>1, <1>2, <1>3, <2>1, <2>2, SameWord
  <2>5. /\ F[m] = F[m - 1] \o x[m] /\ Len(x[m]) \in Nat
        /\ \A k \in 1 .. Len(x[m]) : F[Len(x)][Len(F[m - 1]) + k] = x[m][k]
    <3>1. LiesAt(x[m], Len(F[m - 1]), F[Len(x)]) /\ F[m] = F[m - 1] \o x[m]
      BY <1>0, <1>1, <2>1, WordInText
    <3> QED
      BY <3>1 DEF LiesAt
  <2>6. /\ G[m] = G[m - 1] \o y[m] /\ Len(y[m]) \in Nat
        /\ \A k \in 1 .. Len(y[m]) : G[Len(y)][Len(G[m - 1]) + k] = y[m][k]
    <3>1. LiesAt(y[m], Len(G[m - 1]), G[Len(y)]) /\ G[m] = G[m - 1] \o y[m]
      BY <1>0, <1>2, <2>1, WordInText
    <3> QED
      BY <3>1 DEF LiesAt
  <2>7. x[m] \in Seq(S) /\ y[m] \in Seq(S) /\ Len(x[m]) = Len(y[m])
    BY <1>0, <2>1, <2>3, <2>4, <2>5, <2>6
  <2>8. \A k \in 1 .. Len(x[m]) : x[m][k] = y[m][k]
    BY <1>3, <2>2, <2>5, <2>6, <2>7
  <2>9. x[m] = y[m]
    BY <2>7, <2>8, SameSequence
  <2> QED
    BY <2>2, <2>5, <2>6, <2>9 DEF m
<1> HIDE DEF Same
<1>6. T = Nat
  <2>1. T \in SUBSET Nat /\ 0 \in T /\ \A i \in T : i + 1 \in T
    BY <1>4, <1>5
  <2> HIDE DEF T
  <2> QED
    BY <2>1, ReachesAll
<1>7. \A i \in Nat : Same(i)
  BY <1>6
<1>8. Len(x) = Len(y)
  <2>1. ASSUME NEW a \in Seq(Words), NEW b \in Seq(Words),
               NEW A \in [0 .. Len(a) -> Seq(S)], IsPrefixOf(A, a),
               NEW B \in [0 .. Len(b) -> Seq(S)], IsPrefixOf(B, b),
               A[Len(a)] = B[Len(b)], Len(a) < Len(b), A[Len(a)] = B[Len(a)]
        PROVE  FALSE
    <3>0. b \in Seq(Seq(S)) /\ Len(a) \in Nat /\ Len(b) \in Nat
      OBVIOUS
    <3> DEFINE m == Len(a) + 1
    <3>1. m \in 1 .. Len(b) /\ m - 1 = Len(a)
      BY <2>1, <3>0
    <3>2. Len(B[m - 1]) \in Nat /\ Len(b[m]) \in Nat /\ Len(B[m - 1]) + Len(b[m]) <= Len(B[Len(b)])
      <4>1. LiesAt(b[m], Len(B[m - 1]), B[Len(b)])
        BY <2>1, <3>0, <3>1, WordInText
      <4> QED
        BY <4>1 DEF LiesAt
    <3>3. Len(b[m]) >= 1
      BY <3>1 DEF Decodable
    <3>4. B[m - 1] = B[Len(b)]
      BY <2>1, <3>1
    <3> DEFINE i == Len(B[m - 1])
               j == Len(b[m])
    <3>5. i \in Nat /\ j \in Nat /\ i + j <= i /\ j >= 1
      BY <3>2, <3>3, <3>4
    <3> HIDE DEF i, j
    <3> QED
      BY <3>5
  <2>2. CASE Len(x) < Len(y)
    <3>1. F[Len(x)] = G[Len(x)]
      BY <1>0, <1>7, <2>2 DEF Same
    <3> QED
      BY <1>1, <1>2, <1>3, <2>1, <2>2, <3>1
  <2>3. CASE Len(y) < Len(x)
    <3>1. F[Len(y)] = G[Len(y)]
      BY <1>0, <1>7, <2>3 DEF Same
    <3> QED
      BY <1>1, <1>2, <1>3, <2>1, <2>3, <3>1
  <2> QED
    BY <1>0, <2>2, <2>3
<1>9. ASSUME NEW i \in 1 .. Len(x) PROVE x[i] = y[i]
  <2>1. i \in Nat /\ i >= 1 /\ i <= Len(x) /\ i <= Len(y)
    BY <1>0, <1>8
  <2> QED
    BY <1>7, <2>1 DEF Same
<1> QED
  BY <1>8, <1>9, SameSequence

(* All of them strings, as the provers do not know of a literal.           *)
Characters == STRING \union {"~", "/", "0", "1"}

Escapes == {<<"~", "0">>, <<"~", "1">>} \union {<<x>> : x \in Characters \ {"~", "/"}}

Escaped(x) == CASE x = "~" -> <<"~", "0">> [] x = "/" -> <<"~", "1">> [] OTHER -> <<x>>

LEMMA EscapesOf ==
  /\ Decodable(Escapes) /\ Escapes \in SUBSET Seq(Characters)
  /\ \A u \in Escapes : \A k \in 1 .. Len(u) : u[k] # "/"
  /\ \A x \in Characters : Escaped(x) \in Escapes
  /\ \A x, y \in Characters : Escaped(x) = Escaped(y) => x = y
<1>1. ASSUME NEW u \in Escapes
      PROVE  /\ u \in Seq(Characters) /\ u[1] # "/"
             /\ \/ Len(u) = 1 /\ u[1] # "~"
                \/ Len(u) = 2 /\ u[1] = "~" /\ u[2] \in {"0", "1"}
  <2>0. {"~", "/", "0", "1"} \subseteq Characters
    BY DEF Characters
  <2>1. CASE \E x \in {"0", "1"} : u = <<"~", x>>
    <3>1. PICK x \in {"0", "1"} : u = <<"~", x>>
      BY <2>1
    <3>2. "~" \in Characters /\ x \in Characters /\ x \in {"0", "1"}
      BY <2>0
    <3>3. u \in Seq(Characters) /\ Len(u) = 2 /\ u[1] = "~" /\ u[2] = x
      BY <3>1, <3>2
    <3> QED
      BY <3>2, <3>3
  <2>2. CASE \E x \in Characters \ {"~", "/"} : u = <<x>>
    BY <2>2
  <2> QED
    BY <2>1, <2>2 DEF Escapes
<1>2. \A u \in Escapes : \A k \in 1 .. Len(u) : u[k] # "/"
  <2> SUFFICES ASSUME NEW u \in Escapes, NEW k \in 1 .. Len(u) PROVE u[k] # "/"
    OBVIOUS
  <2>1. k = 1 \/ (k = 2 /\ Len(u) = 2)
    <3>1. Len(u) \in {1, 2}
      BY <1>1
    <3>2. CASE Len(u) = 1
      BY <3>2
    <3>3. CASE Len(u) = 2
      BY <3>3
    <3> QED
      BY <3>1, <3>2, <3>3
  <2> QED
    BY <1>1, <2>1
<1>3. Decodable(Escapes)
  <2>1. ASSUME NEW u \in Escapes, NEW v \in Escapes, Len(u) < Len(v), \A k \in 1 .. Len(u) : u[k] = v[k]
        PROVE  FALSE
    <3>1. Len(u) = 1 /\ u[1] # "~" /\ v[1] = "~"
      BY <1>1, <2>1
    <3>2. 1 \in 1 .. Len(u)
      BY <3>1
    <3> QED
      BY <2>1, <3>1, <3>2
  <2>2. \A u \in Escapes : Len(u) >= 1
    BY <1>1
  <2> QED
    BY <2>1, <2>2 DEF Decodable
<1>4. \A x \in Characters : Escaped(x) \in Escapes
  BY DEF Escaped, Escapes
<1>5. ASSUME NEW x \in Characters
      PROVE  /\ x = "~" => Escaped(x) = <<"~", "0">>
             /\ x = "/" => Escaped(x) = <<"~", "1">>
             /\ x \notin {"~", "/"} => Escaped(x) = <<x>>
  BY DEF Escaped
<1>6. ASSUME NEW x \in Characters, NEW y \in Characters, Escaped(x) = Escaped(y) PROVE x = y
  <2> DEFINE u == Escaped(x)
             v == Escaped(y)
  <2>1. /\ x = "~" => Len(u) = 2 /\ u[2] = "0"
        /\ x = "/" => Len(u) = 2 /\ u[2] = "1"
        /\ x \notin {"~", "/"} => Len(u) = 1 /\ u[1] = x
    BY <1>5
  <2>2. /\ y = "~" => Len(v) = 2 /\ v[2] = "0"
        /\ y = "/" => Len(v) = 2 /\ v[2] = "1"
        /\ y \notin {"~", "/"} => Len(v) = 1 /\ v[1] = y
    BY <1>5
  <2>3. u = v
    BY <1>6
  <2> HIDE DEF u, v
  <2> QED
    BY <2>1, <2>2, <2>3
<1> QED
  BY <1>1, <1>2, <1>3, <1>4, <1>6

LEMMA EscapeTellsApart ==
  ASSUME NEW key \in Seq(Characters), NEW other \in Seq(Characters)
  PROVE  /\ _escape(key) \in Seq(Characters)
         /\ \A k \in 1 .. Len(_escape(key)) : _escape(key)[k] # "/"
         /\ _escape(key) = _escape(other) => key = other
<1> DEFINE C == Characters \ {"/"}
           words(k) == [i \in DOMAIN k |-> Escaped(k[i])]
<1>1. \A k : _escape(k) = FlattenSeq(words(k))
  BY DEF _escape, Escaped
<1>2. ASSUME NEW k \in Seq(Characters)
      PROVE  words(k) \in Seq(Escapes) /\ Len(words(k)) = Len(k) /\ \A i \in 1 .. Len(k) : words(k)[i] = Escaped(k[i])
  <2>1. DOMAIN k = 1 .. Len(k) /\ Len(k) \in Nat /\ \A i \in 1 .. Len(k) : k[i] \in Characters
    OBVIOUS
  <2>2. \A i \in 1 .. Len(k) : Escaped(k[i]) \in Escapes
    BY <2>1, EscapesOf
  <2> QED
    BY <2>1, <2>2
<1> HIDE DEF words
<1>3. words(key) \in Seq(Seq(C))
  <2>1. ASSUME NEW u \in Escapes PROVE u \in Seq(C)
    <3>1. u \in Seq(Characters) /\ \A k \in 1 .. Len(u) : u[k] # "/"
      BY <2>1, EscapesOf
    <3> QED
      BY <3>1
  <2>2. words(key) \in Seq(Escapes)
    BY <1>2
  <2> QED
    BY <2>1, <2>2
<1>4. _escape(key) \in Seq(C)
  BY <1>1, <1>3, FlattenType
<1>5. _escape(key) \in Seq(Characters) /\ \A k \in 1 .. Len(_escape(key)) : _escape(key)[k] # "/"
  <2> DEFINE e == _escape(key)
  <2>1. e \in Seq(C)
    BY <1>4
  <2> HIDE DEF e
  <2>2. e \in Seq(Characters) /\ \A k \in 1 .. Len(e) : e[k] # "/"
    BY <2>1
  <2> QED
    BY <2>2 DEF e
<1>6. ASSUME _escape(key) = _escape(other) PROVE key = other
  <2>1. words(key) = words(other)
    <3>1. words(key) \in Seq(Escapes) /\ words(other) \in Seq(Escapes)
      BY <1>2
    <3>2. FlattenSeq(words(key)) = FlattenSeq(words(other))
      BY <1>1, <1>6
    <3> QED
      BY <3>1, <3>2, EscapesOf, SameWords
  <2>2. Len(key) = Len(other)
    BY <1>2, <2>1
  <2>3. ASSUME NEW i \in 1 .. Len(key) PROVE key[i] = other[i]
    <3>1. key[i] \in Characters /\ other[i] \in Characters
      BY <2>2
    <3>2. Escaped(key[i]) = Escaped(other[i])
      BY <1>2, <2>1, <2>2
    <3> QED
      BY <3>1, <3>2, EscapesOf
  <2> QED
    BY <2>2, <2>3, SameSequence
<1> QED
  BY <1>5, <1>6

(* Segments of a pointer: a slash, and then none.                          *)
Segments == {u \in Seq(Characters) : Len(u) >= 1 /\ u[1] = "/" /\ \A k \in 2 .. Len(u) : u[k] # "/"}

LEMMA SegmentOf ==
  ASSUME NEW key \in Seq(Characters)
  PROVE  /\ <<"/">> \o _escape(key) \in Segments
         /\ \A other \in Seq(Characters) : <<"/">> \o _escape(key) = <<"/">> \o _escape(other) => key = other
<1> DEFINE seg(k) == <<"/">> \o _escape(k)
<1>1. ASSUME NEW k \in Seq(Characters)
      PROVE  /\ seg(k) \in Segments /\ Len(seg(k)) = 1 + Len(_escape(k)) /\ Len(_escape(k)) \in Nat
             /\ \A i \in 1 .. Len(_escape(k)) : seg(k)[1 + i] = _escape(k)[i]
  <2> DEFINE e == _escape(k)
             s == <<"/">>
             t == s \o e
  <2>1. e \in Seq(Characters) /\ \A i \in 1 .. Len(e) : e[i] # "/"
    BY EscapeTellsApart
  <2>2. s \in Seq(Characters) /\ Len(s) = 1 /\ s[1] = "/"
    BY DEF Characters
  <2> HIDE DEF e, s
  <2>0. e \in Seq(Characters) /\ s \in Seq(Characters)
    BY <2>1, <2>2
  <2>3. t \in Seq(Characters) /\ Len(t) = Len(s) + Len(e)
    BY <2>0, Appended
  <2>4. \A i \in 1 .. Len(s) : t[i] = s[i]
    BY <2>0, Appended
  <2>5. \A i \in 1 .. Len(e) : t[Len(s) + i] = e[i]
    BY <2>0, Appended
  <2> HIDE DEF t
  <2>6. Len(e) \in Nat /\ Len(t) = 1 + Len(e) /\ t[1] = "/" /\ \A i \in 1 .. Len(e) : t[1 + i] = e[i]
    BY <2>1, <2>2, <2>3, <2>4, <2>5
  <2>7. ASSUME NEW i \in 2 .. Len(t) PROVE t[i] # "/"
    <3>1. i - 1 \in 1 .. Len(e) /\ 1 + (i - 1) = i
      BY <2>6
    <3>2. t[1 + (i - 1)] = e[i - 1]
      BY <2>6, <3>1
    <3> QED
      BY <2>1, <3>1, <3>2
  <2>8. t \in Segments
    BY <2>3, <2>6, <2>7 DEF Segments
  <2> QED
    BY <2>6, <2>8 DEF e, s, t
<1>2. ASSUME NEW other \in Seq(Characters), seg(key) = seg(other) PROVE key = other
  <2> DEFINE e == _escape(key)
             f == _escape(other)
             s == seg(key)
  <2>1. Len(s) = 1 + Len(e) /\ Len(e) \in Nat /\ \A i \in 1 .. Len(e) : s[1 + i] = e[i]
    BY <1>1
  <2>2. Len(s) = 1 + Len(f) /\ Len(f) \in Nat /\ \A i \in 1 .. Len(f) : s[1 + i] = f[i]
    BY <1>1, <1>2
  <2>3. e \in Seq(Characters) /\ f \in Seq(Characters)
    BY EscapeTellsApart
  <2> HIDE DEF e, f, s
  <2>4. Len(e) = Len(f) /\ \A i \in 1 .. Len(e) : e[i] = f[i]
    BY <2>1, <2>2
  <2>5. e = f
    BY <2>3, <2>4, SameSequence
  <2> QED
    BY <2>5, EscapeTellsApart DEF e, f
<1> QED
  BY <1>1, <1>2

LEMMA SegmentsDecode == Decodable(Segments) /\ Segments \in SUBSET Seq(Characters)
<1>1. \A u \in Segments : Len(u) >= 1 /\ Len(u) \in Nat /\ u[1] = "/" /\ \A k \in 2 .. Len(u) : u[k] # "/"
  BY DEF Segments
<1>2. ASSUME NEW u \in Segments, NEW v \in Segments, NEW w \in Segments, Len(u) < Len(v)
      PROVE  v[Len(u) + 1] # w[1]
  <2>1. Len(u) + 1 \in 2 .. Len(v)
    BY <1>1, <1>2
  <2> QED
    BY <1>1, <2>1
<1> QED
  BY <1>1, <1>2 DEF Decodable, Segments

(* Two leaves of one payload never share a pointer.                        *)
LEMMA PointersTellApart ==
  ASSUME NEW p \in Payloads, NEW l \in p, NEW m \in p, Pointer(l) = Pointer(m)
  PROVE  l = m
<1> DEFINE segs(x) == [i \in DOMAIN x.path |-> <<"/">> \o _escape(x.path[i])]
<1>1. l.path \in Seq(Seq(Characters)) /\ m.path \in Seq(Seq(Characters)) /\ (l # m => l.path # m.path)
  <2>1. l.path \in Seq(Seq(STRING)) /\ m.path \in Seq(Seq(STRING)) /\ (l # m => l.path # m.path)
    BY PayloadsAssumption DEF LeafAssumption
  <2>2. \A key \in Seq(STRING) : key \in Seq(Characters)
    BY DEF Characters
  <2> HIDE DEF Characters
  <2> QED
    BY <2>1, <2>2
<1>2. \A x : Pointer(x) = FlattenSeq(segs(x))
  BY DEF Pointer
<1>3. ASSUME NEW x, x.path \in Seq(Seq(Characters))
      PROVE  /\ segs(x) \in Seq(Segments) /\ Len(segs(x)) = Len(x.path)
             /\ \A i \in 1 .. Len(x.path) : segs(x)[i] = <<"/">> \o _escape(x.path[i])
  <2>1. /\ DOMAIN x.path = 1 .. Len(x.path) /\ Len(x.path) \in Nat
        /\ \A i \in 1 .. Len(x.path) : x.path[i] \in Seq(Characters)
    BY <1>3
  <2>2. \A i \in 1 .. Len(x.path) : <<"/">> \o _escape(x.path[i]) \in Segments
    BY <2>1, SegmentOf
  <2> QED
    BY <2>1, <2>2
<1> HIDE DEF segs
<1>4. segs(l) \in Seq(Segments) /\ segs(m) \in Seq(Segments) /\ FlattenSeq(segs(l)) = FlattenSeq(segs(m))
  BY <1>1, <1>2, <1>3
<1>5. segs(l) = segs(m)
  BY <1>4, SegmentsDecode, SameWords
<1>6. Len(l.path) = Len(m.path)
  BY <1>1, <1>3, <1>5
<1>7. ASSUME NEW i \in 1 .. Len(l.path) PROVE l.path[i] = m.path[i]
  <2>1. l.path[i] \in Seq(Characters) /\ m.path[i] \in Seq(Characters)
    BY <1>1, <1>6
  <2>2. <<"/">> \o _escape(l.path[i]) = <<"/">> \o _escape(m.path[i])
    BY <1>1, <1>3, <1>5, <1>6
  <2> QED
    BY <2>1, <2>2, SegmentOf
<1>8. l.path = m.path
  BY <1>1, <1>6, <1>7, SameSequence
<1> QED
  BY <1>1, <1>8

----------------------------------------------------------------------------
(* The findings of a leaf.                                                 *)

LEMMA FiniteImage ==
  ASSUME NEW S, IsFiniteSet(S), NEW f
  PROVE  IsFiniteSet({f[x] : x \in S})
<1> DEFINE G == {T \in SUBSET S : IsFiniteSet({f[x] : x \in T})}
<1>1. ASSUME NEW T \in SUBSET S, \A x \in T : T \ {x} \in G PROVE IsFiniteSet({f[x] : x \in T})
  <2>1. CASE T = {}
    <3>1. {f[x] : x \in T} = {}
      BY <2>1
    <3> QED
      BY <3>1, FS_EmptySet
  <2>2. CASE T # {}
    <3>1. PICK y \in T : TRUE
      BY <2>2
    <3> DEFINE rest == {f[x] : x \in T \ {y}}
    <3>2. IsFiniteSet(rest)
      BY <1>1, <3>1
    <3>3. {f[x] : x \in T} = rest \union {f[y]}
      BY <3>1
    <3> HIDE DEF rest
    <3>4. IsFiniteSet(rest \union {f[y]})
      BY <3>2, FS_AddElement
    <3> QED
      BY <3>3, <3>4
  <2> QED
    BY <2>1, <2>2
<1>2. \A T \in SUBSET S : (\A x \in T : T \ {x} \in G) => T \in G
  BY <1>1
<1>3. SUBSET S \subseteq G
  <2> HIDE DEF G
  <2> QED
    BY <1>2, AllSubsets
<1> QED
  BY <1>3

Fits(leaf, found) ==
  /\ IsFiniteSet(found)
  /\ \A m \in found : IsMatch(m) /\ m.end <= Len(leaf.text)
  /\ \A m, n \in found : m # n /\ m.detector = n.detector => ~Overlap(m, n)

LEMMA MatchesFit ==
  ASSUME NEW leaf, LeafAssumption(leaf), NEW here \in Possible(leaf), NEW found \in SUBSET here
  PROVE  Fits(leaf, run_detector(leaf, found))
<1> DEFINE used == {h \in found : Detectors[h.detector].requires_context => Supported(leaf, h)}
           match(h) == [label |-> Detectors[h.detector].label, detector |-> h.detector,
                        start |-> h.start, end |-> h.end, confidence |-> Confidence(leaf, h)]
           f == [h \in used |-> match(h)]
<1>1. run_detector(leaf, found) = {match(h) : h \in used}
  BY DEF run_detector
<1>2. here \subseteq leaf.spots /\ \A h, i \in here : h # i /\ h.detector = i.detector => ~Overlap(h, i)
  BY DEF Possible
<1>3. IsFiniteSet(used)
  <2>1. IsFiniteSet(leaf.spots) /\ used \subseteq leaf.spots
    BY <1>2 DEF LeafAssumption
  <2> QED
    BY <2>1, FS_Subset
<1>4. {match(h) : h \in used} = {f[h] : h \in used}
  OBVIOUS
<1>5. IsFiniteSet(run_detector(leaf, found))
  <2>1. IsFiniteSet({f[h] : h \in used})
    <3> HIDE DEF used, f
    <3> QED
      BY <1>3, FiniteImage
  <2>2. run_detector(leaf, found) = {f[h] : h \in used}
    BY <1>1, <1>4
  <2> HIDE DEF used, f
  <2> QED
    BY <2>1, <2>2
<1>6. ASSUME NEW h \in used
      PROVE  /\ match(h).detector = h.detector /\ match(h).start = h.start /\ match(h).end = h.end
             /\ IsMatch(match(h)) /\ match(h).end <= Len(leaf.text) /\ h \in here
  <2>1. /\ h \in here /\ h.detector \in DOMAIN Detectors
        /\ h.start \in Nat /\ h.end \in 1 .. Len(leaf.text) /\ h.start < h.end /\ Len(leaf.text) \in Nat
    BY <1>2 DEF LeafAssumption
  <2>2. Detectors[h.detector].label \in DOMAIN Severity /\ Detectors[h.detector].base \in Nat /\ h.detector \in Nat
    BY <2>1, DetectorsAssumption
  <2>3. Confidence(leaf, h) \in Int
    BY <2>2 DEF Confidence, Lesser, Greater, MAX_CONFIDENCE, CONTEXT_BOOST, NO_CONTEXT_PENALTY
  <2> HIDE DEF used, f
  <2> QED
    BY <2>1, <2>2, <2>3 DEF IsMatch
<1> HIDE DEF used, match, f
<1>7. \A m \in run_detector(leaf, found) : IsMatch(m) /\ m.end <= Len(leaf.text)
  BY <1>1, <1>6
<1>8. ASSUME NEW m \in run_detector(leaf, found), NEW n \in run_detector(leaf, found),
             m # n, m.detector = n.detector
      PROVE  ~Overlap(m, n)
  <2>1. PICK h \in used : m = match(h)
    BY <1>1
  <2>2. PICK i \in used : n = match(i)
    BY <1>1
  <2>3. ~Overlap(h, i)
    BY <1>2, <1>6, <1>8, <2>1, <2>2
  <2> QED
    BY <1>6, <2>1, <2>2, <2>3 DEF Overlap
<1> QED
  BY <1>5, <1>7, <1>8 DEF Fits

(* What arbitration drops had to yield to something above it.              *)
LEMMA DroppedYield ==
  ASSUME NEW leaf, NEW found, Fits(leaf, found), NEW m \in found, m \notin _resolve_overlaps(found)
  PROVE  \E k \in _resolve_overlaps(found) : Overlap(k, m) /\ Above(_rank(k), _rank(m))
<1>1. IsFiniteSet(found) /\ \A x \in found : IsMatch(x)
  BY DEF Fits
<1>2. _resolve_overlaps(found) \subseteq found
  BY <1>1, Arbitrated
<1>3. PICK k \in _resolve_overlaps(found) : Overlap(k, m) /\ ~Above(_rank(m), _rank(k))
  BY <1>1, Arbitrated
<1>4. k \in found /\ k # m
  BY <1>2
<1>5. k.detector # m.detector
  BY <1>3, <1>4 DEF Fits
<1> DEFINE r == _rank(k)
           s == _rank(m)
<1>6. r \in Seq(Int) /\ s \in Seq(Int) /\ Len(r) = 4 /\ Len(s) = 4 /\ r # s
  BY <1>1, <1>4, <1>5, RankType
<1> HIDE DEF r, s
<1>7. Above(r, s) \/ Above(s, r)
  BY <1>6, AboveIsTotal
<1> QED
  BY <1>3, <1>7 DEF r, s

LEMMA FindingsDisjoint ==
  ASSUME NEW leaf, Fits(leaf, matches[leaf])
  PROVE  Disjoint(leaf, Findings(leaf))
<1> DEFINE kept == _resolve_overlaps(matches[leaf])
<1>1. IsFiniteSet(matches[leaf]) /\ \A m \in matches[leaf] : IsMatch(m) /\ m.end <= Len(leaf.text)
  BY DEF Fits
<1>2. kept \subseteq matches[leaf] /\ \A m, n \in kept : m # n => ~Overlap(m, n)
  BY <1>1, Arbitrated
<1>3. Findings(leaf) \subseteq kept
  BY DEF Findings
<1> HIDE DEF kept
<1>4. IsFiniteSet(Findings(leaf))
  BY <1>1, <1>2, <1>3, FS_Subset
<1> QED
  BY <1>1, <1>2, <1>3, <1>4 DEF Disjoint

----------------------------------------------------------------------------
(* A payload on its way.                                                   *)

Walked(leaf) == IF TooDeep(leaf) THEN {} ELSE run_detector(leaf, Read(leaf))

(* A leaf that has been walked holds its matches and has left its mark on  *)
(* the answer; nothing is rewritten before all of them have been walked;   *)
(* and what is rewritten is well edited, under one key or another.         *)
PayloadInv ==
  /\ payload \in Payloads /\ rules \in RuleLists
  /\ \A leaf \in payload : hits[leaf] \in Possible(leaf)
  /\ DOMAIN matches \subseteq payload
  /\ \A leaf \in DOMAIN matches : matches[leaf] = Walked(leaf) /\ (CutShort(leaf) => truncated)
  /\ DOMAIN output \subseteq payload
  /\ DOMAIN output # {} => AllScanned
  /\ \A leaf \in DOMAIN output : \E g : WellEdited(leaf, Findings(leaf), output[leaf], g)
  /\ stage = "returned" => DOMAIN output = payload /\ AllScanned

LEMMA LeafFacts ==
  ASSUME PayloadInv, NEW leaf \in payload
  PROVE  LeafAssumption(leaf) /\ leaf.text \in Seq(Letters)
         /\ Fits(leaf, run_detector(leaf, hits[leaf]))
         /\ Fits(leaf, Walked(leaf))
<1>1. LeafAssumption(leaf)
  BY PayloadsAssumption DEF PayloadInv
<1>2. leaf.text \in Seq(Letters)
  BY <1>1 DEF LeafAssumption, Letters
<1>3. hits[leaf] \in Possible(leaf)
  BY DEF PayloadInv
<1>4. Fits(leaf, run_detector(leaf, hits[leaf]))
  BY <1>1, <1>3, MatchesFit
<1>5. Fits(leaf, run_detector(leaf, Read(leaf)))
  <2>1. Read(leaf) \in SUBSET hits[leaf]
    BY DEF Read
  <2> QED
    BY <1>1, <1>3, <2>1, MatchesFit
<1>6. Fits(leaf, {})
  BY FS_EmptySet DEF Fits
<1> QED
  BY <1>1, <1>2, <1>4, <1>5, <1>6 DEF Walked

LEMMA PayloadInvInit == RedactionInit => PayloadInv
<1> SUFFICES ASSUME RedactionInit PROVE PayloadInv
  OBVIOUS
<1>1. DOMAIN matches = {} /\ DOMAIN output = {} /\ stage = "open"
  BY DEF RedactionInit
<1>2. payload \in Payloads /\ rules \in RuleLists /\ \A leaf \in payload : hits[leaf] \in Possible(leaf)
  BY DEF RedactionInit
<1> QED
  BY <1>1, <1>2 DEF PayloadInv

(* What has been edited stays so as long as the rules do.                  *)
LEMMA EditedStays ==
  ASSUME rules' = rules, NEW leaf, NEW T, NEW buffer, NEW g, WellEdited(leaf, T, buffer, g)
  PROVE  WellEdited(leaf, T, buffer, g)'
BY DEF WellEdited, Edited, LeftOf, Spared, Tokenised, Readable, ReadBy

LEMMA FindingsStay ==
  ASSUME matches' = matches, floor' = floor, NEW leaf
  PROVE  Findings(leaf)' = Findings(leaf)
BY DEF Findings

LEMMA LocalIsOwn ==
  ASSUME PayloadInv, NEW leaf \in payload
  PROVE  Local(leaf) = Findings(leaf)
<1>1. {l \in payload : Pointer(l) = Pointer(leaf)} = {leaf}
  BY PointersTellApart DEF PayloadInv
<1> QED
  BY <1>1 DEF Local

(* Once everything has been walked, the output is what can change.         *)
LEMMA OutputSteps ==
  ASSUME PayloadInv, AllScanned, UNCHANGED <<payload, hits, rules, floor, matches, truncated>>,
         DOMAIN output' \subseteq payload,
         \A leaf \in DOMAIN output' : \E g : WellEdited(leaf, Findings(leaf), output'[leaf], g),
         stage' = "returned" => DOMAIN output' = payload
  PROVE  PayloadInv'
<1>1. /\ payload' \in Payloads /\ rules' \in RuleLists
      /\ \A leaf \in payload' : hits'[leaf] \in Possible(leaf)
      /\ DOMAIN matches' \subseteq payload'
  BY DEF PayloadInv
<1>2. \A leaf \in DOMAIN matches' : matches'[leaf] = Walked(leaf)' /\ (CutShort(leaf) => truncated')
  BY DEF PayloadInv, Walked, Read
<1>3. AllScanned'
  BY DEF AllScanned
<1>4. ASSUME NEW leaf \in DOMAIN output'
      PROVE  \E g : WellEdited(leaf, Findings(leaf), output[leaf], g)'
  <2>1. PICK g : WellEdited(leaf, Findings(leaf), output'[leaf], g)
    BY <1>4
  <2>2. WellEdited(leaf, Findings(leaf), output[leaf], g)'
    <3>1. ASSUME NEW CONSTANT T, NEW CONSTANT b, WellEdited(leaf, T, b, g) PROVE WellEdited(leaf, T, b, g)'
      BY <3>1, EditedStays
    <3>2. Findings(leaf)' = Findings(leaf)
      BY FindingsStay
    <3> QED
      BY <2>1, <3>1, <3>2, EditedStays
  <2> QED
    BY <2>2
<1> QED
  BY <1>1, <1>2, <1>3, <1>4 DEF PayloadInv

LEMMA PayloadInvNext == PayloadInv /\ [RedactionNext]_redactionVars => PayloadInv'
<1> SUFFICES ASSUME PayloadInv, [RedactionNext]_redactionVars PROVE PayloadInv'
  OBVIOUS
<1>1. ASSUME NEW leaf \in payload, ScanLeaf(leaf) PROVE PayloadInv'
  <2>1. /\ leaf \notin DOMAIN matches /\ DOMAIN matches' = DOMAIN matches \union {leaf}
        /\ matches'[leaf] = Walked(leaf)
        /\ \A l \in DOMAIN matches : matches'[l] = matches[l]
        /\ truncated' = (truncated \/ CutShort(leaf))
        /\ UNCHANGED <<payload, hits, rules, floor, output, stage>>
    BY <1>1 DEF ScanLeaf, Extend, Walked
  <2>2. ~AllScanned
    BY <2>1 DEF AllScanned
  <2>3. DOMAIN output = {} /\ stage # "returned"
    BY <2>2 DEF PayloadInv
  <2>4. \A l : Walked(l)' = Walked(l) /\ CutShort(l)' = CutShort(l) /\ Possible(l)' = Possible(l)
    BY <2>1 DEF Walked, Read
  <2>5. \A l \in DOMAIN matches' : matches'[l] = Walked(l) /\ (CutShort(l) => truncated')
    BY <2>1 DEF PayloadInv
  <2> QED
    BY <2>1, <2>3, <2>4, <2>5 DEF PayloadInv
<1>2. ASSUME NEW leaf \in payload, RewriteLeaf(leaf) PROVE PayloadInv'
  <2> DEFINE g == generation[server]
             made == apply_to_text(leaf, Findings(leaf), g)
  <2>1. /\ AllScanned /\ stage = "open" /\ UNCHANGED <<payload, hits, rules, floor, matches, truncated, stage>>
        /\ output' = Extend(output, leaf, made)
    BY <1>2, LocalIsOwn DEF RewriteLeaf
  <2>2. /\ DOMAIN output' = DOMAIN output \union {leaf} /\ output'[leaf] = made
        /\ \A l \in DOMAIN output : l # leaf => output'[l] = output[l]
    BY <2>1 DEF Extend
  <2>3. WellEdited(leaf, Findings(leaf), made, g)
    <3>1. leaf.text \in Seq(Letters) /\ Fits(leaf, Walked(leaf)) /\ matches[leaf] = Walked(leaf)
      BY <2>1, LeafFacts DEF PayloadInv, AllScanned
    <3>2. Disjoint(leaf, Findings(leaf))
      BY <3>1, FindingsDisjoint
    <3>3. rules \in RuleLists
      BY DEF PayloadInv
    <3> QED
      BY <3>1, <3>2, <3>3, TextEdited
  <2> HIDE DEF made, g
  <2>4. \A l \in DOMAIN output' : \E k : WellEdited(l, Findings(l), output'[l], k)
    <3>1. \A l \in DOMAIN output : \E k : WellEdited(l, Findings(l), output[l], k)
      BY DEF PayloadInv
    <3> QED
      BY <2>2, <2>3, <3>1
  <2>5. DOMAIN output' \subseteq payload
    BY <2>2 DEF PayloadInv
  <2>6. stage' # "returned"
    BY <2>1
  <2> QED
    BY <2>1, <2>4, <2>5, <2>6, OutputSteps
<1>3. ASSUME NEW leaf \in payload, Unavailable(leaf) PROVE PayloadInv'
  <2>1. /\ AllScanned /\ UNCHANGED <<payload, hits, rules, floor, matches, truncated>>
        /\ DOMAIN output' = {} /\ stage' = "unavailable"
    BY <1>3 DEF Unavailable
  <2> QED
    BY <2>1, OutputSteps
<1>4. ASSUME ReturnAsIs PROVE PayloadInv'
  <2>1. /\ AllScanned /\ UNCHANGED <<payload, hits, rules, floor, matches, truncated>>
        /\ output' = [leaf \in payload |-> Untouched(leaf)]
        /\ NothingToDo
    BY <1>4 DEF ReturnAsIs, Untouched
  <2>2. ASSUME NEW leaf \in payload PROVE \E g : WellEdited(leaf, Findings(leaf), Untouched(leaf), g)
    <3>1. leaf.text \in Seq(Letters)
      BY LeafFacts
    <3>2. \A f \in Findings(leaf) : ~Ruled(rules, f.label)
      <4>1. CASE rules = <<>>
        BY <4>1 DEF Ruled, Covering
      <4>2. CASE Findings(leaf) = {}
        BY <4>2
      <4> QED
        BY <2>1, <4>1, <4>2 DEF NothingToDo
    <3>3. WellEdited(leaf, Findings(leaf), Untouched(leaf), 0)
      BY <3>1, <3>2, UntouchedIsEdited, UntouchedIsReadable DEF WellEdited
    <3> QED
      BY <3>3
  <2>3. DOMAIN output' = payload /\ \A leaf \in payload : output'[leaf] = Untouched(leaf)
    BY <2>1
  <2>4. \A leaf \in DOMAIN output' : \E g : WellEdited(leaf, Findings(leaf), output'[leaf], g)
    BY <2>2, <2>3
  <2> QED
    BY <2>1, <2>3, <2>4, OutputSteps
<1>5. ASSUME ReturnPayload PROVE PayloadInv'
  <2>1. /\ UNCHANGED <<payload, hits, rules, floor, matches, truncated, output>> /\ DOMAIN output = payload
    BY <1>5 DEF ReturnPayload
  <2>2. AllScanned
    BY <2>1 DEF PayloadInv, AllScanned
  <2>3. \A leaf \in DOMAIN output' : \E g : WellEdited(leaf, Findings(leaf), output'[leaf], g)
    BY <2>1 DEF PayloadInv
  <2> QED
    BY <2>1, <2>2, <2>3, OutputSteps
<1>6. ASSUME UNCHANGED <<payload, hits, rules, floor, matches, truncated, output, stage>> PROVE PayloadInv'
  <2>1. CASE AllScanned
    <3>1. \A leaf \in DOMAIN output' : \E g : WellEdited(leaf, Findings(leaf), output'[leaf], g)
      BY <1>6 DEF PayloadInv
    <3>2. DOMAIN output' \subseteq payload /\ (stage' = "returned" => DOMAIN output' = payload)
      BY <1>6 DEF PayloadInv
    <3> QED
      BY <1>6, <2>1, <3>1, <3>2, OutputSteps
  <2>2. CASE ~AllScanned
    <3>1. DOMAIN output = {} /\ stage # "returned"
      BY <2>2 DEF PayloadInv
    <3>2. \A l : Walked(l)' = Walked(l) /\ CutShort(l)' = CutShort(l) /\ Possible(l)' = Possible(l)
      BY <1>6 DEF Walked, Read
    <3> QED
      BY <1>6, <3>1, <3>2 DEF PayloadInv
  <2> QED
    BY <2>1, <2>2
<1>7. ASSUME NEW p \in Processes, Rotate(p) PROVE PayloadInv'
  BY <1>6, <1>7 DEF Rotate
<1>8. CASE UNCHANGED redactionVars
  BY <1>6, <1>8 DEF redactionVars
<1> QED
  BY <1>1, <1>2, <1>3, <1>4, <1>5, <1>7, <1>8 DEF RedactionNext

LEMMA PayloadInvariant == RedactionSpec => []PayloadInv
BY PayloadInvInit, PayloadInvNext, PTL DEF RedactionSpec

(* Whatever a payload's shape and field names, each string keeps, in       *)
(* order, exactly the characters outside its own ruled findings and those  *)
(* their rules leave on purpose: editing from the right by the offsets of  *)
(* the original, and filing findings under pointers, mix nothing up.       *)
THEOREM OnlyFindingsAreTouched == RedactionSpec => []OnlyFindingsTouched
<1>1. PayloadInv => OnlyFindingsTouched
  <2> SUFFICES ASSUME PayloadInv, stage = "returned", NEW leaf \in payload
               PROVE  /\ \A m, n \in KeptPlaces(leaf) : m < n => output[leaf][m].at < output[leaf][n].at
                      /\ Standing(leaf) = LeftOf(leaf, Findings(leaf))
    BY DEF OnlyFindingsTouched, LeftOf
  <2>1. PICK g : WellEdited(leaf, Findings(leaf), output[leaf], g)
    BY DEF PayloadInv
  <2>2. /\ \A m, n \in KeptIn(output[leaf]) : m < n => output[leaf][m].at < output[leaf][n].at
        /\ {output[leaf][m].at : m \in KeptIn(output[leaf])} = LeftOf(leaf, Findings(leaf))
    BY <2>1 DEF WellEdited, Edited
  <2>3. KeptPlaces(leaf) = KeptIn(output[leaf])
    BY DEF KeptPlaces, KeptIn
  <2> QED
    BY <2>2, <2>3 DEF Standing
<1> QED
  BY <1>1, PayloadInvariant, PTL

(* Unless the answer says that not everything was read, a value the        *)
(* patterns know and the rules cover leaves nothing standing but what its  *)
(* rule spares, or had to yield to a stronger match that overlaps it.      *)
THEOREM NothingIsLeftUnexplained == RedactionSpec => []LeftoversExplained
<1>1. PayloadInv => LeftoversExplained
  <2> SUFFICES ASSUME PayloadInv, stage = "returned", ~truncated, NEW leaf \in payload,
                      NEW m \in run_detector(leaf, hits[leaf]), m.confidence >= floor, Ruled(rules, m.label)
               PROVE  \/ \A i \in Standing(leaf) : Within(m, i) => Spared(leaf, m, i)
                      \/ \E f \in _resolve_overlaps(matches[leaf]) :
                           Overlap(f, m) /\ Above(_rank(f), _rank(m))
    BY DEF LeftoversExplained
  <2>1. leaf \in DOMAIN matches /\ matches[leaf] = Walked(leaf) /\ ~CutShort(leaf)
    BY DEF PayloadInv, AllScanned
  <2>2. LeafAssumption(leaf) /\ Fits(leaf, run_detector(leaf, hits[leaf])) /\ hits[leaf] \in Possible(leaf)
    BY LeafFacts DEF PayloadInv
  <2>3. Read(leaf) = hits[leaf]
    <3>1. Len(leaf.text) \in Nat /\ MaxChars \in Nat /\ ~(Len(leaf.text) > MaxChars)
      BY <2>1, <2>2, ObligationsAssumption DEF CutShort, LeafAssumption
    <3>2. \A h \in hits[leaf] : h.end \in 1 .. Len(leaf.text)
      BY <2>2 DEF Possible, LeafAssumption
    <3>3. \A h \in hits[leaf] : h.end <= MaxChars
      BY <3>1, <3>2
    <3> QED
      BY <3>3 DEF Read
  <2>4. matches[leaf] = run_detector(leaf, hits[leaf])
    BY <2>1, <2>3 DEF Walked, CutShort
  <2>5. CASE m \in _resolve_overlaps(matches[leaf])
    <3>1. m \in Findings(leaf)
      BY <2>5 DEF Findings
    <3>2. PICK g : WellEdited(leaf, Findings(leaf), output[leaf], g)
      BY DEF PayloadInv
    <3>3. {output[leaf][n].at : n \in KeptIn(output[leaf])} = LeftOf(leaf, Findings(leaf))
      BY <3>2 DEF WellEdited, Edited
    <3>4. Standing(leaf) = LeftOf(leaf, Findings(leaf))
      BY <3>3 DEF Standing, KeptPlaces, KeptIn
    <3> QED
      BY <3>1, <3>4 DEF LeftOf
  <2>6. CASE m \notin _resolve_overlaps(matches[leaf])
    BY <2>2, <2>4, <2>6, DroppedYield
  <2> QED
    BY <2>5, <2>6
<1> QED
  BY <1>1, PayloadInvariant, PTL

(* A text whose findings were only tokenised is read back, in place and    *)
(* letter by letter, by every process that still holds its keys, however   *)
(* far the rotation has come in each of them.                              *)
THEOREM TokensStayReadable == RedactionSpec => []TokensReadBack
<1>1. PayloadInv => TokensReadBack
  <2> SUFFICES ASSUME PayloadInv, stage = "returned", NEW leaf \in payload, NEW p \in Processes,
                      Tokenised(Findings(leaf)),
                      \A n \in DOMAIN output[leaf] :
                        output[leaf][n].kind = "token" => Holds(p, output[leaf][n].box.key)
               PROVE  Restored(leaf, generation[p]) = leaf.text
    BY DEF TokensReadBack, Tokenised
  <2> DEFINE text == output[leaf]
             g == generation[p]
  <2>1. PICK k : WellEdited(leaf, Findings(leaf), text, k)
    BY DEF PayloadInv
  <2>2. text \in Seq(Made(k)) /\ Readable(leaf, Findings(leaf), text) /\ leaf.text \in Seq(Letters)
    BY <2>1, LeafFacts DEF WellEdited, Edited
  <2>3. FlattenSeq([m \in DOMAIN text |-> Original(leaf, text[m])]) = leaf.text
    BY <2>2, ReadBack
  <2> DEFINE read(n) == IF text[n].kind = "token" THEN detokenize(g, text[n].box)
                        ELSE <<leaf.text[text[n].at]>>
  <2>4. ASSUME NEW n \in DOMAIN text PROVE read(n) = Original(leaf, text[n])
    BY DEF Holds, detokenize, Original
  <2>5. Restored(leaf, g) = FlattenSeq([n \in DOMAIN text |-> read(n)])
    BY DEF Restored
  <2> HIDE DEF text, g, read
  <2>6. [n \in DOMAIN text |-> read(n)] = [n \in DOMAIN text |-> Original(leaf, text[n])]
    BY <2>4
  <2> QED
    BY <2>3, <2>5, <2>6 DEF g
<1> QED
  BY <1>1, PayloadInvariant, PTL
=============================================================================
