---------------------------- MODULE MCChatProxy ----------------------------
(* ChatProxy for TLC: seven policies, three models, prompts of up to three *)
(* messages and answers of up to two choices.                              *)
EXTENDS ChatProxy, TLC

None == [max_tokens |-> {}, max_bytes |-> {}, max_results |-> {}]
Duty(type) == [type |-> type, covers |-> {}, tokenize |-> FALSE, to |-> {}, require |-> {},
               limits |-> None, purposes |-> {}]

MaskPii   == [Duty("redact") EXCEPT !.covers = {"pii"}]
TokenPii  == [MaskPii EXCEPT !.tokenize = TRUE]
Mark      == Duty("watermark")
OneChoice == [Duty("limit") EXCEPT !.limits.max_results = {1}]
Short     == [Duty("limit") EXCEPT !.limits.max_bytes = {1}, !.limits.max_tokens = {2}]
Shorter   == [Duty("limit") EXCEPT !.limits.max_tokens = {1}]
ToEu      == [Duty("route") EXCEPT !.require = {<<"region", {"eu", "ch"}>>}]
ToOnPrem  == [Duty("route") EXCEPT !.to = {"internal-gpt"},
                                    !.require = {<<"region", {"eu", "us"}>>}]
ForChat   == [Duty("require_purpose") EXCEPT !.purposes = {"chat", "support"}]
ForCare   == [Duty("require_purpose") EXCEPT !.purposes = {"support"}]

On(action) == {q \in Question : q.action = action}
Seen(label) == {q \in Question : label \in q.findings}
Policy(key, effect, priority, match, obligations) ==
  [key |-> key, effect |-> effect, priority |-> priority, match |-> match,
   obligations |-> obligations]

SevenRules ==
  {Policy(1, "allow", 10, Question, {Mark}),
   Policy(2, "allow", 50, Seen("pii"), {MaskPii, OneChoice}),
   Policy(3, "allow", 50, On("infer"), {ToEu, Short, ForChat}),
   Policy(4, "allow", 20, Question, {ToOnPrem, Shorter, ForCare}),
   Policy(5, "require_approval", 90, On("infer") \intersect Seen("pii"), {MaskPii}),
   Policy(7, "allow", 60, On("infer") \intersect Seen("pii"), {TokenPii}),
   Policy(6, "deny", 5, On("return") \intersect Seen("pii"), {})}

Model(urn, rank, aliases) ==
  [urn |-> urn, rank |-> rank, enabled |-> TRUE, names |-> {urn} \union aliases,
   attributes |-> {<<"region", urn>>}]
ThreeModels == {Model("us", 1, {"internal-gpt"}), Model("eu", 2, {"internal-gpt"}),
                Model("ch", 3, {})}
Callers == {"us", "ch"}

Says(form, text) == [form |-> form, text |-> text]
P == "plain"
S == "pii"
SomePrompts ==
  {<<Says("string", <<P, P>>)>>,
   <<Says("blocks", <<S>>), Says("string", <<S>>)>>,
   <<Says("string", <<>>), Says("string", <<S>>)>>,
   <<Says("string", <<P>>), Says("string", <<S>>)>>,
   <<Says("string", <<P>>), Says("string", <<S>>), Says("string", <<S>>)>>}

SomeAnswers == {<<<<P, P>>>>, <<<<P>>, <<S>>>>, <<<<P>>, <<P>>>>}
ChatOrSupport == {"chat", "support"}
AnyTokens == {{}, {1}}
NotCh == {"us", "eu"}
PiiOnly == {"pii"}
=============================================================================
