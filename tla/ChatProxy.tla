----------------------------- MODULE ChatProxy -----------------------------
(***************************************************************************)
(* One unstreamed chat completion through the reverse proxy                *)
(* (chat_completions in pep/reverse_proxy/main.py, pep/reverse_proxy/      *)
(* obligations.py and the client the proxy enforces decisions with, in     *)
(* sdk/python/control_plane_sdk/client.py): the prompt is decided on,      *)
(* rewritten and sent to a model; the answer is decided on, rewritten,     *)
(* capped, marked and delivered; and the outcome of both decisions is      *)
(* reported.  Policies change in between.                                  *)
(*                                                                         *)
(* A message is a record: its form, "string" or "blocks" (the multimodal   *)
(* content array), and its text, a sequence of the pieces that blank lines *)
(* separate.  A choice of a completion is its text.  Beyond the fields of  *)
(* DecisionPoint an obligation has                                         *)
(*   limits    [max_tokens, max_bytes, max_results: a set of a number, or  *)
(*             the empty set],                                             *)
(*   purposes  what a require_purpose permits.                             *)
(***************************************************************************)
EXTENDS Enforcement

CONSTANTS Rules,       \* the policies that may be in force
          Prompts,     \* what callers send: sequences of messages
          Answers,     \* what models answer: sequences of choices, none empty
          Asked,       \* the models callers address
          Purposes,    \* the purposes callers declare
          TokenLimits, \* the max_tokens callers set: sets of at most one number
          Backends,    \* the URNs of PEP_MODEL_BACKENDS
          MaxEdits     \* bound on the changes of policy

SATISFIABLE          == {"limit", "watermark", "require_purpose", "route"}
RESPONSE_SATISFIABLE == {"limit", "watermark"}

(* Keys are unique (uq_policies_key), a deny carries no obligation, and    *)
(* what a redact rewrites is labels.                                       *)
ASSUME RulesAssumption ==
  /\ \A r \in Rules : r.effect \in Effects /\ (r.effect = "deny" => r.obligations = {})
  /\ \A r, q \in Rules : r.key = q.key => r = q
  /\ \A r \in Rules : \A o \in r.obligations : o.covers \subseteq Labels
LimitKeys == {"max_tokens", "max_bytes", "max_results"}
ASSUME LimitsAssumption ==
  /\ \A r \in Rules : \A o \in r.obligations : \A k \in LimitKeys : o.limits[k] \subseteq Nat
  /\ \A limit \in TokenLimits : limit \subseteq Nat
Message == [form : {"string", "blocks"}, text : Seq(Piece)]
ASSUME PromptsAssumption == \A p \in Prompts : p \in Seq(Message)
ASSUME AnswersAssumption == \A a \in Answers : a \in Seq(Seq(Piece))

Nothing == <<>>   \* no message, no completion, no delivery yet

VARIABLES stored,     \* the policies in force
          edits,      \* how many times they changed
          request,    \* the caller's request
          pc,         \* where the handler is
          inbound,    \* the decision about the prompt
          outbound,   \* the decision about the answer
          upstream,   \* what a model has been sent
          completion, \* what it answered, as rewritten so far
          delivered,  \* what the caller has been sent
          outcome     \* the outcome recorded with each decision

vars == <<stored, edits, request, pc, inbound, outbound, upstream, completion, delivered, outcome>>

----------------------------------------------------------------------------
(* The text of a conversation and back.                                    *)

_messages_text(messages) == FlattenSeq([i \in DOMAIN messages |-> messages[i].text])

Rewritable(messages, i) == messages[i].form = "string" /\ messages[i].text # <<>>

(* The i-th chunk, by itself, as the content of a message or choice.       *)
Chunk(text, i) == IF i \in DOMAIN text THEN <<text[i]>> ELSE <<>>

(* Mutant: every message takes a chunk, the empty ones too. *)
BugCountsAll(messages, governed) ==
  [i \in DOMAIN messages |->
     IF Rewritable(messages, i)
     THEN [messages[i] EXCEPT !.text = Chunk(governed, i)] ELSE messages[i]]

_replace_messages_text(messages, governed) ==
  [i \in DOMAIN messages |->
     IF Rewritable(messages, i)
     THEN [messages[i] EXCEPT !.text =
             Chunk(governed, Cardinality({j \in 1 .. i : Rewritable(messages, j)}))]
     ELSE messages[i]]

_completion_text(choices) == FlattenSeq(choices)

_replace_completion_text(choices, governed) ==
  [i \in DOMAIN choices |-> Chunk(governed, i)]

----------------------------------------------------------------------------
(* The tightest of some caps: the empty set when there is none.            *)
Tightest(caps) == IF caps = {} THEN {} ELSE {Min(caps)}

(* Mutant: the last cap wins. *)
BugLoosest(key, obligations) ==
  LET caps == UNION {o.limits[key] : o \in Of("limit", obligations)}
  IN  IF caps = {} THEN {} ELSE {Max(caps)}

Cap(key, obligations) ==
  Tightest(UNION {o.limits[key] : o \in Of("limit", obligations)})

(* Mutant: one satisfied obligation is enough. *)
BugAnyPurpose(obligations, declared) ==
  LET asked == Of("require_purpose", obligations)
  IN  asked = {} \/ \E o \in asked : declared \in o.purposes

check_purpose(obligations, declared) ==
  \A o \in Of("require_purpose", obligations) : declared \in o.purposes

Shortened(s, cap) == IF cap = {} THEN s ELSE SubSeq(s, 1, Min(cap \union {Len(s)}))

(* The texts within their caps, and the marks each of them is given.  The  *)
(* notice of a cut and the marks follow the text and are not counted.      *)
apply_response_obligations(choices, obligations) ==
  LET kept == Shortened(choices, Cap("max_results", obligations))
  IN  [choices |-> [i \in DOMAIN kept |-> Shortened(kept[i], Cap("max_bytes", obligations))],
       marks   |-> Of("watermark", obligations)]

----------------------------------------------------------------------------
Init ==
  /\ stored \in SUBSET Rules /\ edits = 0
  /\ request \in [messages : Prompts, model : Asked, purpose : Purposes, max_tokens : TokenLimits]
  /\ pc = "decide"
  /\ inbound = Denial /\ outbound = Denial
  /\ upstream = Nothing /\ completion = Nothing /\ delivered = Nothing
  /\ outcome = [inbound |-> "none", outbound |-> "none"]

(* report_outcome never raises: a report that does not arrive is silence.  *)
Reported(direction, what) ==
  outcome' \in {outcome, [outcome EXCEPT ![direction] = what]}

DecideInbound ==
  /\ pc = "decide"
  /\ inbound' = decide(stored, "infer", _messages_text(request.messages), request.model)
  /\ pc' = IF inbound'.effect = "allow" THEN "enforce" ELSE "denied"
  /\ UNCHANGED <<stored, edits, request, outbound, upstream, completion, delivered, outcome>>

(* The decision never arrives, is an error, or is the denial of a pipeline *)
(* that failed: fail closed.                                               *)
InboundUnavailable ==
  /\ pc = "decide"
  /\ inbound' = Denial
  /\ pc' = "denied"
  /\ UNCHANGED <<stored, edits, request, outbound, upstream, completion, delivered, outcome>>

NoBackend(target) == target # NoRoute /\ target \notin Backends

(* Why the proxy itself refuses what the control plane allowed.            *)
CannotDischarge ==
  \/ outstanding(inbound, SATISFIABLE) # {}
  \/ ~check_purpose(inbound.obligations, request.purpose)
  \/ NoBackend(inbound.resolved)

RefuseInbound ==
  /\ pc = "enforce" /\ CannotDischarge
  /\ Reported("inbound", "refused")
  /\ pc' = "denied"
  /\ UNCHANGED <<stored, edits, request, inbound, outbound, upstream, completion, delivered>>

(* upstream_body and backend.                                              *)
Outgoing ==
  [messages   |-> IF inbound.payload # _messages_text(request.messages)
                  THEN _replace_messages_text(request.messages, inbound.payload)
                  ELSE request.messages,
   max_tokens |-> Tightest(request.max_tokens \union Cap("max_tokens", inbound.obligations)),
   to         |-> inbound.resolved]

Send ==
  /\ pc = "enforce" /\ ~CannotDischarge
  /\ upstream' = <<Outgoing>>
  /\ completion' \in Answers
  /\ Reported("inbound", "enforced")
  /\ pc' = "return"
  /\ UNCHANGED <<stored, edits, request, inbound, outbound, delivered>>

(* enforcing reports any exception as a refusal and raises it again: the   *)
(* connection that was never made, and the answer that timed out or was an *)
(* error after the model had the prompt.                                   *)
SendFails ==
  /\ pc = "enforce" /\ ~CannotDischarge
  /\ upstream' \in {Nothing, <<Outgoing>>}
  /\ Reported("inbound", "refused")
  /\ pc' = "failed"
  /\ UNCHANGED <<stored, edits, request, inbound, outbound, completion, delivered>>

DecideOutbound ==
  /\ pc = "return"
  /\ outbound' = decide(stored, "return", _completion_text(completion), request.model)
  /\ pc' = IF outbound'.effect = "allow" THEN "enforce answer" ELSE "denied"
  /\ UNCHANGED <<stored, edits, request, inbound, upstream, completion, delivered, outcome>>

OutboundUnavailable ==
  /\ pc = "return"
  /\ outbound' = Denial
  /\ pc' = "denied"
  /\ UNCHANGED <<stored, edits, request, inbound, upstream, completion, delivered, outcome>>

OutstandingOnReturn(decision) == outstanding(decision, RESPONSE_SATISFIABLE)

RefuseOutbound ==
  /\ pc = "enforce answer" /\ OutstandingOnReturn(outbound) # {}
  /\ Reported("outbound", "refused")
  /\ pc' = "denied"
  /\ UNCHANGED <<stored, edits, request, inbound, outbound, upstream, completion, delivered>>

EnforceOutbound ==
  /\ pc = "enforce answer" /\ OutstandingOnReturn(outbound) = {}
  /\ Reported("outbound", "enforced")
  /\ completion' = IF outbound.payload # _completion_text(completion)
                   THEN _replace_completion_text(completion, outbound.payload)
                   ELSE completion
  /\ pc' = "deliver"
  /\ UNCHANGED <<stored, edits, request, inbound, outbound, upstream, delivered>>

(* Mutant: only the outbound decision's obligations shape the answer. *)
BugOutboundOnly == outbound.obligations

_merge_obligations == inbound.obligations \union outbound.obligations

Deliver ==
  /\ pc = "deliver"
  /\ delivered' = <<apply_response_obligations(completion, _merge_obligations)>>
  /\ pc' = "done"
  /\ UNCHANGED <<stored, edits, request, inbound, outbound, upstream, completion, outcome>>

(* A policy is created, deleted, enabled or disabled.                      *)
EditPolicies ==
  /\ edits < MaxEdits /\ pc \in {"decide", "return"}
  /\ edits' = edits + 1
  /\ \E rule \in Rules : stored' = IF rule \in stored THEN stored \ {rule} ELSE stored \union {rule}
  /\ UNCHANGED <<request, pc, inbound, outbound, upstream, completion, delivered, outcome>>

Next ==
  \/ DecideInbound \/ InboundUnavailable \/ RefuseInbound \/ Send \/ SendFails
  \/ DecideOutbound \/ OutboundUnavailable \/ RefuseOutbound \/ EnforceOutbound \/ Deliver
  \/ EditPolicies

Spec == Init /\ [][Next]_vars

----------------------------------------------------------------------------
Decision ==
  {d \in [effect : Effects, obligations : SUBSET UNION {r.obligations : r \in Rules},
          unsupported : SUBSET KNOWN_OBLIGATIONS,
          resolved : {NoRoute} \union {m.urn : m \in Models}, payload : Seq(Piece)] :
     d.effect = "deny" => d.obligations = {}}

(* A policy put in force can make an answer stricter and never looser: the *)
(* effect moves towards deny or stays, and with the same effect no duty is *)
(* lost ("Union, not override", engine.py).  Only where nothing matched    *)
(* before, and the default effect was the answer, may it be looser.        *)
MoreRulesNeverLoosen ==
  \A rule \in Rules, question \in Question :
    LET before == evaluate(stored, question)
        after  == evaluate(stored \union {rule}, question)
    IN  before.matched # {} =>
          /\ EFFECT_RANK[after.effect] >= EFFECT_RANK[before.effect]
          /\ after.effect = before.effect => before.obligations \subseteq after.obligations

(* Whoever redeems an approval takes on the duties of every policy that    *)
(* matched, those of the allows that the parking policy overrode as well,  *)
(* and no other policy's ("redeeming an approval must not become a way to  *)
(* shed that", _redeemed_decision in pdp.py).                              *)
RedeemingShedsNothing ==
  \A question \in Question :
    LET parked == evaluate(stored, question)
    IN  parked.effect = "require_approval" =>
          obligations_for(stored, parked.matched)
            = UnionObligations(Matched(stored, question))

Meets(limit, caps) == \A n \in limit : \E cap \in caps : cap <= n

Serves(model, route) ==
  /\ model.enabled /\ route.to \subseteq model.names
  /\ \A r \in route.require : \E v \in r[2] : <<r[1], v>> \in model.attributes

DutyOnRequest(o, sent) ==
  CASE o.type = "limit"           -> Meets(o.limits.max_tokens, sent.max_tokens)
    [] o.type = "require_purpose" -> request.purpose \in o.purposes
    [] o.type = "route"           -> \E m \in Models : m.urn = sent.to /\ Serves(m, o)
    [] OTHER                      -> TRUE

(* A prompt reaches a model only when it was allowed to, and then with     *)
(* every duty of that decision discharged: the model meets each route      *)
(* obligation taken by itself although the router merges them, every       *)
(* purpose restriction holds and no token cap is exceeded ("Obligations    *)
(* are binding", client.py).                                               *)
SentAsDecided ==
  \A sent \in Range(upstream) :
    inbound.effect = "allow" /\ \A o \in inbound.obligations : DutyOnRequest(o, sent)

DutyOnAnswer(o, answer) ==
  CASE o.type = "watermark" -> o \in answer.marks
    [] o.type = "limit" ->
         /\ Meets(o.limits.max_results, {Len(answer.choices)})
         /\ \A i \in DOMAIN answer.choices : Meets(o.limits.max_bytes, {Len(answer.choices[i])})
    [] OTHER -> TRUE

(* An answer reaches the caller only when both decisions allowed it, with  *)
(* the caps and the markings of both decisions applied; a duty that cannot *)
(* be discharged on the way back has stopped it (RESPONSE_SATISFIABLE in   *)
(* obligations.py).                                                        *)
DeliveredAsDecided ==
  \A answer \in Range(delivered) :
    /\ upstream # Nothing /\ inbound.effect = "allow" /\ outbound.effect = "allow"
    /\ \A o \in inbound.obligations \union outbound.obligations : DutyOnAnswer(o, answer)
    /\ Types(outbound.obligations) \subseteq RESPONSE_SATISFIABLE \union SATISFIED_BY_CONTROL_PLANE

(* What the redact obligations of a decision cover is gone from every      *)
(* string message a model is sent and from every choice the caller is      *)
(* sent, although only the head of a long text is scanned and the messages *)
(* are rewritten from one text for all of them; and nothing that had to be *)
(* tokenised went out without a key ("Allow, but redact the SSNs" must     *)
(* never degrade into "allow": client.py).  A message in the blocks form   *)
(* is scanned and not rewritten, so nothing is said of it.                 *)
CoveredIsGone ==
  /\ \A sent \in Range(upstream) :
       /\ \A m \in Range(sent.messages) : m.form = "string" => Clean(m.text, inbound)
       /\ \A o \in Of("redact", inbound.obligations) : o.tokenize => HasTokenizer
  /\ \A answer \in Range(delivered) : \A c \in Range(answer.choices) : Clean(c, outbound)

(* The record says enforced only of what happened: the prompt has gone to  *)
(* a model, the answer has been or is being delivered; and a refusal of    *)
(* the answer means that the caller does not get it (enforcing and enforce *)
(* in client.py).                                                          *)
EnforcedIsTrue ==
  /\ outcome.inbound = "enforced" => upstream # Nothing
  /\ outcome.outbound = "enforced" => pc \in {"deliver", "done"}
  /\ outcome.outbound = "refused" => delivered = Nothing

InPlace(messages) ==
  [i \in DOMAIN messages |->
     [messages[i] EXCEPT !.text = Redacted(messages[i].text, inbound.obligations)]]

(* Redaction changes what the messages say and not which message says it,  *)
(* empty messages among them or not, when every message is a string        *)
(* without a blank line (_replace_messages_text in main.py).               *)
MessagesKeepTheirText ==
  (\A m \in Range(request.messages) : m.form = "string" /\ Len(m.text) <= 1) =>
    \A sent \in Range(upstream) : sent.messages = InPlace(request.messages)
(* Redaction takes away what it was asked to, and nothing moves.           *)
RedactedAsDecided == CoveredIsGone /\ MessagesKeepTheirText
=============================================================================
