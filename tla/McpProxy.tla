------------------------------ MODULE McpProxy ------------------------------
(***************************************************************************)
(* One JSON-RPC message from an agent through the governing proxy for MCP  *)
(* servers (pep/mcp_proxy/main.py): a tool call is decided on, sent with   *)
(* governed arguments, and its result is decided on before the agent has   *)
(* it; a listing is filtered tool by tool; anything else is passed on.     *)
(* Policies change in between.                                             *)
(*                                                                         *)
(* A tool is a record                                                      *)
(*   name         NoName for an entry of a listing without one,            *)
(*   hints        the verbs its name suggests (ACTION_PREFIXES),           *)
(*   override     annotations["action"]: a set of at most one word, which  *)
(*                an operator writes into a listing to correct the hints,  *)
(*   readOnly     readOnlyHint: a set of at most one Boolean,              *)
(*   destructive  whether destructiveHint is true.                         *)
(* A message has a kind, an id and a content: the tools of a listing, or   *)
(* the blocks of a result, each of them text, a sequence of lines, or of   *)
(* another type.  The arguments of a call are a sequence of pieces.        *)
(***************************************************************************)
EXTENDS Enforcement

CONSTANTS Rules,     \* the policies that may be in force
          Requests,  \* what the agent sends
          Results,   \* bodies of answers to calls: sequences of messages
          Listings,  \* bodies of answers to tools/list
          Ids, NoId, \* the ids of requests, and that of a notification
          Names, NoName, \* the names of tools, and that of a nameless one
          MaxEdits   \* bound on the changes of policy

Verbs == {"delete", "write", "execute", "read"}
Words == Verbs \union {"no verb"}
Nothing == <<>>

Tool    == [name : Names \union {NoName}, hints : SUBSET Verbs, override : SUBSET Words,
            readOnly : SUBSET BOOLEAN, destructive : BOOLEAN]
Block   == [type : {"text", "other"}, text : Seq(Piece)]
Message(content) == [kind : {"result", "error", "notice"}, id : Ids \union {NoId}, content : content]

ASSUME RequestsAssumption ==
  \A r \in Requests : /\ r.method \in {"tools/call", "tools/list", "other"}
                      /\ r.tool \in Tool /\ r.arguments \in Seq(Piece)
ASSUME AnswersAssumption ==
  /\ \A a \in Results : a \in Seq(Message(Seq(Block)))
  /\ \A a \in Listings : a \in Seq(Message(Seq(Tool)))

(* A redact covers labels; what it has masked it does not cover.           *)
ASSUME RulesAssumption == \A r \in Rules : \A o \in r.obligations : o.covers \subseteq Labels

VARIABLES stored, edits,  \* the policies in force, and how often they changed
          recent,         \* those in force within the time an answer is cached
          request,        \* what the agent sent
          pc,
          inbound,        \* the decision about the call
          outbound,       \* the decision about its result
          upstream,       \* what the server has been sent
          answer,         \* the messages of its answer
          offered,        \* the listed tools allowed so far, as positions
          asked,          \* how many tools of the listing have been decided on
          delivered,      \* the messages the agent has been sent
          told,           \* what the proxy itself has told the agent
          outcome         \* the outcome recorded with each decision

policies == <<stored, edits, recent>>
decisions == <<inbound, outbound, outcome>>
vars == <<stored, edits, recent, request, pc, inbound, outbound, upstream, answer, offered, asked,
          delivered, told, outcome>>

----------------------------------------------------------------------------
(* The action a tool stands for.                                           *)

Undeclared == {}

(* What is said of the tool: the override before any hint, and a           *)
(* contradiction between the hints read strictly.                          *)
declared_action(tool) ==
  IF tool.override # {} THEN tool.override
  ELSE IF tool.destructive THEN {"delete"}
  ELSE {IF b THEN "read" ELSE "write" : b \in tool.readOnly}

(* The name's verbs in the order of ACTION_PREFIXES; unknown is execute.   *)
InferredFromName(hints) ==
  IF "delete" \in hints THEN "delete"
  ELSE IF "write" \in hints THEN "write"
  ELSE IF "execute" \in hints \/ "read" \notin hints THEN "execute" ELSE "read"

(* Mutant: the name comes before the declaration. *)
BugNameFirst(tool, declared) == InferredFromName(tool.hints)

(* A declared word that is no verb says nothing, and the name is read.     *)
infer_action(tool, declared) ==
  IF declared \intersect Verbs = {} THEN InferredFromName(tool.hints)
  ELSE CHOOSE verb \in declared \intersect Verbs : TRUE

(* A listing is judged by the annotations in it, a call by the name alone. *)
ListedAction(tool) == infer_action(tool, declared_action(tool))
CallAction(tool)   == infer_action(tool, Undeclared)

----------------------------------------------------------------------------
(* The text of a result and back.                                          *)

TextBlocks(blocks) == {i \in DOMAIN blocks : blocks[i].type = "text"}

_content_text(blocks) ==
  FlattenSeq([i \in DOMAIN blocks |-> IF i \in TextBlocks(blocks) THEN blocks[i].text ELSE <<>>])

Line(lines, i) == IF i \in DOMAIN lines THEN <<lines[i]>> ELSE <<>>

(* Mutant: the lines left over are dropped. *)
BugDropsTail(blocks, lines) ==
  [i \in DOMAIN blocks |->
     IF i \in TextBlocks(blocks)
     THEN [blocks[i] EXCEPT !.text = Line(lines, Cardinality(TextBlocks(blocks) \cap 1 .. i))]
     ELSE blocks[i]]

(* A line for each text block, the empty ones too; what is left over goes  *)
(* into a block of its own at the end.                                     *)
_rewrite_content(blocks, lines) ==
  LET placed == Cardinality(TextBlocks(blocks))
      tail   == SubSeq(lines, placed + 1, Len(lines))
  IN  [i \in DOMAIN blocks |->
         IF i \in TextBlocks(blocks)
         THEN [blocks[i] EXCEPT !.text = Line(lines, Cardinality(TextBlocks(blocks) \cap 1 .. i))]
         ELSE blocks[i]]
      \o (IF tail = <<>> THEN <<>> ELSE <<[type |-> "text", text |-> tail]>>)

(* The first message with the request's id, whatever kind it is.           *)
Replies(messages) == {i \in DOMAIN messages : messages[i].id = request.id}
Reply(messages)   == messages[Min(Replies(messages))]
HasResult(messages) == Replies(messages) # {} /\ Reply(messages).kind = "result"

----------------------------------------------------------------------------
Init ==
  /\ stored \in SUBSET Rules /\ edits = 0 /\ recent = {stored}
  /\ request \in Requests
  /\ pc = "arrived"
  /\ inbound = Denial /\ outbound = Denial
  /\ upstream = Nothing /\ answer = Nothing
  /\ offered = <<>> /\ asked = 0
  /\ delivered = Nothing /\ told = "nothing"
  /\ outcome = [inbound |-> "none", outbound |-> "none"]

(* Mutant: whatever happened is reported as a success. *)
BugAlwaysEnforced(direction, what) ==
  outcome' \in {outcome, [outcome EXCEPT ![direction] = "enforced"]}

(* report_outcome: a denial the client made up has no id to report on, and *)
(* a report that does not arrive is silence.                               *)
Reported(direction, what) ==
  outcome' \in {outcome, [outcome EXCEPT ![direction] = what]}

Deliver(messages) == delivered' = <<messages>> /\ UNCHANGED told
Tell(what)        == told' = what /\ UNCHANGED delivered

AskPlane(action, text) == decide(stored, action, text, NoRoute)

(* What the proxy does not govern: the handshake, notifications, whatever  *)
(* it cannot read.  GET and DELETE are passed on in the same way.          *)
Forward ==
  /\ pc = "arrived"
  /\ request.method = "other" \/ request.id = NoId
  /\ upstream' = <<[tool |-> request.tool, arguments |-> request.arguments]>>
  /\ answer' \in Results /\ Deliver(answer')
  /\ pc' = "done"
  /\ UNCHANGED <<policies, request, decisions, offered, asked>>

----------------------------------------------------------------------------
(* _governed_call. *)

DecideCall ==
  /\ pc = "arrived" /\ request.method = "tools/call" /\ request.id # NoId
  /\ inbound' = AskPlane(CallAction(request.tool), request.arguments)
  /\ IF inbound'.effect = "allow" THEN pc' = "enforce" /\ UNCHANGED told
     ELSE pc' = "done" /\ told' = "denied"
  /\ UNCHANGED <<policies, request, outbound, upstream, answer, offered, asked, delivered, outcome>>

(* The control plane does not answer, or answers with an error that the    *)
(* client raises and the handler does not catch.                           *)
CallUnavailable ==
  /\ pc = "arrived" /\ request.method = "tools/call" /\ request.id # NoId
  /\ told' \in {"denied", "failed"}
  /\ pc' = "done"
  /\ UNCHANGED <<policies, request, decisions, upstream, answer, offered, asked, delivered>>

(* Mutant: the proxy claims the duties of the proxy for models. *)
BugClaims(decision) == outstanding(decision, {"limit", "watermark"})

(* This proxy carries out nothing itself. *)
Undischarged(decision) == outstanding(decision, {})

RefuseCall ==
  /\ pc = "enforce" /\ Undischarged(inbound) # {}
  /\ Reported("inbound", "refused")
  /\ Tell("denied")
  /\ pc' = "done"
  /\ UNCHANGED <<policies, request, inbound, outbound, upstream, answer, offered, asked>>

(* Mutant: the message goes out as it came. *)
BugForwardsRaw == [tool |-> request.tool, arguments |-> request.arguments]

Forwarded == [tool |-> request.tool, arguments |-> inbound.payload]

CallTool ==
  /\ pc = "enforce" /\ Undischarged(inbound) = {}
  /\ upstream' = <<Forwarded>>
  /\ answer' \in Results
  /\ Reported("inbound", "enforced")
  /\ pc' = "reply"
  /\ UNCHANGED <<policies, request, inbound, outbound, offered, asked, delivered, told>>

(* The server answers with an error status, or not at all, and may have    *)
(* run the tool.                                                           *)
CallFails ==
  /\ pc = "enforce" /\ Undischarged(inbound) = {}
  /\ upstream' \in {Nothing, <<Forwarded>>}
  /\ Reported("inbound", "refused")
  /\ Tell("failed")
  /\ pc' = "done"
  /\ UNCHANGED <<policies, request, inbound, outbound, answer, offered, asked>>

ResultText == _content_text(Reply(answer).content)

(* An error, nothing this proxy recognises, or a result without text. *)
NothingToGovern == HasResult(answer) => ResultText = <<>>

PassReply ==
  /\ pc = "reply" /\ NothingToGovern
  /\ Deliver(answer)
  /\ pc' = "done"
  /\ UNCHANGED <<policies, request, decisions, upstream, answer, offered, asked>>

(* Mutant: a result that is denied has not been enforced. *)
BugSaysRefused == Reported("outbound", "refused") /\ told' = "denied"

(* A denial is carried out by keeping the result, and said to be so. *)
Withhold == Reported("outbound", "enforced") /\ told' = "ran"

DecideResult ==
  /\ pc = "reply" /\ ~NothingToGovern
  /\ outbound' = AskPlane("return", ResultText)
  /\ IF outbound'.effect = "allow" THEN pc' = "enforce result" /\ UNCHANGED <<told, outcome>>
     ELSE pc' = "done" /\ Withhold
  /\ UNCHANGED <<policies, request, inbound, upstream, answer, offered, asked, delivered>>

ResultUnavailable ==
  /\ pc = "reply" /\ ~NothingToGovern
  /\ told' \in {"ran", "failed"}
  /\ pc' = "done"
  /\ UNCHANGED <<policies, request, decisions, upstream, answer, offered, asked, delivered>>

RefuseResult ==
  /\ pc = "enforce result" /\ Undischarged(outbound) # {}
  /\ Reported("outbound", "refused")
  /\ Tell("ran")
  /\ pc' = "done"
  /\ UNCHANGED <<policies, request, inbound, outbound, upstream, answer, offered, asked>>

(* _as_wire: one message, in the framing of the answer. *)
Rewritten == <<[Reply(answer) EXCEPT !.content = _rewrite_content(@, outbound.payload)]>>

DeliverResult ==
  /\ pc = "enforce result" /\ Undischarged(outbound) = {}
  /\ Reported("outbound", "enforced")
  /\ Deliver(IF outbound.payload = ResultText THEN answer ELSE Rewritten)
  /\ pc' = "done"
  /\ UNCHANGED <<policies, request, inbound, outbound, upstream, answer, offered, asked>>

----------------------------------------------------------------------------
(* _governed_listing. *)

ForwardListing ==
  /\ pc = "arrived" /\ request.method = "tools/list" /\ request.id # NoId
  /\ upstream' = <<[tool |-> request.tool, arguments |-> request.arguments]>>
  /\ answer' \in Listings
  /\ pc' = "listing"
  /\ UNCHANGED <<policies, request, decisions, offered, asked, delivered, told>>

(* The server or the control plane fails, and the handler does not catch it. *)
ListingFails ==
  /\ pc = "listing"
  /\ told' = "failed"
  /\ pc' = "done"
  /\ UNCHANGED <<policies, request, decisions, upstream, answer, offered, asked, delivered>>

PassListing ==
  /\ pc = "listing" /\ ~HasResult(answer)
  /\ Deliver(answer)
  /\ pc' = "done"
  /\ UNCHANGED <<policies, request, decisions, upstream, answer, offered, asked>>

Listed == Reply(answer).content

(* No payload, nothing persisted, nothing to discharge: an answer of the   *)
(* control plane, or one that the client has kept.                         *)
Advice(tool) == {decide(p, ListedAction(tool), <<>>, NoRoute).effect : p \in recent}

(* One tool: a nameless one is dropped, and so is one about which no       *)
(* answer came.                                                            *)
DecideTool ==
  /\ pc = "listing" /\ HasResult(answer) /\ asked < Len(Listed)
  /\ asked' = asked + 1
  /\ LET tool == Listed[asked + 1]
     IN  offered' \in {offered} \union
           (IF tool.name # NoName /\ "allow" \in Advice(tool)
             THEN {Append(offered, asked + 1)} ELSE {})
  /\ UNCHANGED <<policies, request, pc, decisions, upstream, answer, delivered, told>>

DeliverListing ==
  /\ pc = "listing" /\ HasResult(answer) /\ asked = Len(Listed)
  /\ Deliver(<<[Reply(answer) EXCEPT !.content = [i \in DOMAIN offered |-> @[offered[i]]]]>>)
  /\ pc' = "done"
  /\ UNCHANGED <<policies, request, decisions, upstream, answer, offered, asked>>

(* A policy is created, deleted, enabled or disabled. *)
EditPolicies ==
  /\ edits < MaxEdits /\ pc \in {"arrived", "reply", "listing"}
  /\ edits' = edits + 1
  /\ \E rule \in Rules : stored' = IF rule \in stored THEN stored \ {rule} ELSE stored \union {rule}
  /\ recent' = recent \union {stored'}
  /\ UNCHANGED <<request, pc, decisions, upstream, answer, offered, asked, delivered, told>>

Next ==
  \/ Forward
  \/ DecideCall \/ CallUnavailable \/ RefuseCall \/ CallTool \/ CallFails
  \/ PassReply \/ DecideResult \/ ResultUnavailable \/ RefuseResult \/ DeliverResult
  \/ ForwardListing \/ ListingFails \/ PassListing \/ DecideTool \/ DeliverListing
  \/ EditPolicies

Spec == Init /\ [][Next]_vars

----------------------------------------------------------------------------

(* A tool the server runs was allowed, every duty of that decision is one  *)
(* somebody carries out, and the arguments it is given hold nothing a      *)
(* redact covers, also when they were too long to scan (main.py:350-375).  *)
CallsGoAsDecided ==
  upstream # Nothing /\ request.method = "tools/call" /\ request.id # NoId =>
    /\ inbound.effect = "allow"
    /\ Types(inbound.obligations) \subseteq {"redact"}
    /\ Clean(upstream[1].arguments, inbound)
    /\ upstream[1].tool = request.tool

(* Text of the reply reaches the agent only when the call and its return   *)
(* were allowed and every duty on the return is carried out: nothing a     *)
(* redact covers is in it (main.py:386-457).                               *)
ResultsAreAllowed ==
  /\ delivered # Nothing /\ request.method = "tools/call" /\ request.id # NoId
  /\ ~NothingToGovern
  => /\ inbound.effect = "allow" /\ outbound.effect = "allow"
     /\ Types(outbound.obligations) \subseteq {"redact"}
     /\ Clean(_content_text(Reply(delivered[1]).content), outbound)

(* Rewriting moves text between blocks and loses none of it, and leaves    *)
(* every other block in its place (_rewrite_content).                      *)
NoTextLost ==
  outbound.effect = "allow" /\ delivered # Nothing =>
    LET before == Reply(answer).content
        after  == Reply(delivered[1]).content
    IN  /\ _content_text(after) = outbound.payload
        /\ \A i \in DOMAIN before \ TextBlocks(before) : after[i] = before[i]

(* The agent gets what was decided on, neither more nor less. *)
ResultsComeBackAsDecided == ResultsAreAllowed /\ NoTextLost

(* What is recorded of the two decisions took place: an enforced allow was *)
(* carried out, an enforced denial kept the result from the agent, and     *)
(* nothing refused was handed over (main.py:404-456, enforcing).           *)
RecordsAreTrue ==
  /\ outcome.inbound = "enforced" => upstream # Nothing
  /\ outcome.inbound = "refused" => told # "nothing" /\ delivered = Nothing
  /\ outcome.outbound = "enforced" => (delivered # Nothing <=> outbound.effect = "allow")
  /\ outcome.outbound = "refused" => delivered = Nothing
  /\ outcome.outbound # "none" => upstream # Nothing

(* An agent that is told its call was denied may try something else, one   *)
(* that is told it ran must not repeat it: neither is ever told what did   *)
(* not happen (main.py:405-425).                                           *)
NeverToldWrong ==
  /\ told = "denied" => upstream = Nothing
  /\ told = "ran" => upstream # Nothing /\ delivered = Nothing

(* Neither the control plane nor the agent is told what did not happen. *)
OutcomesAreTrue == RecordsAreTrue /\ NeverToldWrong

(* A tool is shown to an agent that may do what is declared of it: what an *)
(* override says, whatever the hints and the name; else delete, or write,  *)
(* when the server calls it destructive, or not read-only; and when        *)
(* nothing that is said of it is read, delete if its name says so.  The    *)
(* rest of the listing keeps its order (declared_action, main.py:310-331). *)
OfferedAsDeclared ==
  /\ delivered # Nothing /\ request.method = "tools/list" /\ request.id # NoId
  /\ HasResult(answer)
  => LET shown == Reply(delivered[1]).content
         May(action) == \E p \in recent : decide(p, action, <<>>, NoRoute).effect = "allow"
     IN  /\ \A i \in DOMAIN shown :
               /\ \A verb \in Verbs : shown[i].override = {verb} => May(verb)
               /\ shown[i].override = {} =>
                    /\ shown[i].destructive => May("delete")
                    /\ ~shown[i].destructive /\ shown[i].readOnly = {FALSE} => May("write")
               /\ shown[i].override = {"no verb"} /\ "delete" \in shown[i].hints => May("delete")
               /\ shown[i].name # NoName
         /\ \A i, j \in DOMAIN offered : i < j => offered[i] < offered[j]
=============================================================================
