----------------------------- MODULE MCMcpProxy -----------------------------
(* McpProxy for TLC: six policies, six tools, answers of one or two       *)
(* messages.                                                               *)
EXTENDS McpProxy

None == [max_tokens |-> {}, max_bytes |-> {}, max_results |-> {}]
Duty(type) == [type |-> type, covers |-> {}, tokenize |-> FALSE, to |-> {}, require |-> {},
               limits |-> None, purposes |-> {}]
MaskPii == [Duty("redact") EXCEPT !.covers = {"pii"}]
Mark    == Duty("watermark")

On(actions) == {q \in Question : q.action \in actions}
Policy(key, effect, priority, match, obligations) ==
  [key |-> key, effect |-> effect, priority |-> priority, match |-> match,
   obligations |-> obligations]

SixRules ==
  {Policy(1, "allow", 10, On({"read", "execute"}), {}),
   Policy(2, "allow", 10, On({"write", "return"}), {MaskPii}),
   Policy(3, "deny", 50, On({"delete"}), {}),
   Policy(4, "allow", 20, On({"delete", "read"}), {MaskPii}),
   Policy(5, "allow", 30, {q \in On({"return", "execute"}) : "pii" \in q.findings}, {Mark}),
   Policy(6, "require_approval", 90, {q \in On({"return", "write"}) : "pii" \in q.findings}, {})}

Named(name, hints, readOnly, destructive) ==
  [name |-> name, hints |-> hints, override |-> {}, readOnly |-> readOnly,
   destructive |-> destructive]
GetAndReset == Named("get_and_reset", {"read"}, {}, TRUE)
GetLatex    == Named("get_latex", {"read"}, {FALSE}, FALSE)
RemoveRow   == Named("remove_row", {"delete"}, {}, FALSE)
Frobnicate  == Named("frobnicate", {}, {TRUE}, FALSE)
ResetCache  == [Named("reset_cache", {"read"}, {}, TRUE) EXCEPT !.override = {"write"}]
GetDropped  == [Named("get_dropped", {"delete", "read"}, {TRUE}, FALSE)
                  EXCEPT !.override = {"no verb"}]
Nameless    == Named(NoName, {}, {TRUE}, FALSE)

AllNames    == {t.name : t \in {GetAndReset, GetLatex, RemoveRow, Frobnicate,
                              ResetCache, GetDropped}}

P == "plain"
S == "pii"
Ask2(method, id, tool, arguments) ==
  [method |-> method, id |-> id, tool |-> tool, arguments |-> arguments]
SomeRequests ==
  {Ask2("tools/call", "1", t, a) : t \in {GetLatex, RemoveRow, Frobnicate},
                                  a \in {<<P>>, <<P, S>>, <<P, P, S>>}}
  \union {Ask2("tools/list", "1", Nameless, <<>>), Ask2("other", "1", Nameless, <<P>>),
          Ask2("tools/call", NoId, Frobnicate, <<S>>)}

Text(lines) == [type |-> "text", text |-> lines]
Image       == [type |-> "other", text |-> <<>>]
Sent(kind, id, content) == [kind |-> kind, id |-> id, content |-> content]
SomeResults ==
  {<<Sent("result", "1", <<Text(<<P, S>>), Image>>)>>,
   <<Sent("notice", NoId, <<>>), Sent("result", "1", <<Image, Text(<<>>), Text(<<S>>)>>)>>,
   <<Sent("result", "1", <<Text(<<P>>), Image, Text(<<P>>), Text(<<S>>)>>)>>,
   <<Sent("result", "1", <<Image>>)>>,
   <<Sent("error", "1", <<>>)>>, <<>>}
SomeListings ==
  {<<Sent("result", "1", <<GetAndReset, Nameless, GetLatex, Frobnicate>>)>>,
   <<Sent("notice", NoId, <<>>), Sent("result", "1", <<RemoveRow, GetAndReset>>)>>,
   <<Sent("result", "1", <<ResetCache, GetDropped>>)>>,
   <<Sent("error", "1", <<>>)>>}
PiiOnly == {"pii"}
NoModels == {}
=============================================================================
