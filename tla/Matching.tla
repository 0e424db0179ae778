------------------------------ MODULE Matching ------------------------------
(***************************************************************************)
(* A policy's match tree, from the document an author writes to the answer *)
(* the engine gives (control_plane/policy/operators.py, normalise_match    *)
(* and AccessRequest in policy/model.py, _eval_node in policy/engine.py):  *)
(* it is brought to a canonical form, validated and stored; when an engine *)
(* is built the stored form goes through the same normaliser again.        *)
(*                                                                         *)
(* An item is a tuple: the segments of a dotted name, Number(n),           *)
(* Boolean(b), Nil or Opaque, which stands for every other object.  A      *)
(* value is a record [kind, items] with its items in order, of the kind    *)
(* "scalar", "list", "dict" (a mapping, one opaque item), "missing" or     *)
(* "raises": finding it has thrown something.  A "pattern" is an operand   *)
(* whose items are the names it accepts, and "broken" one that does not    *)
(* compile.  Numbers are integers.                                         *)
(*                                                                         *)
(* A document is the list of its nodes, the whole tree first and each node *)
(* before its children, which are known by their places.  The field form   *)
(* of a node says which keys it has:                                       *)
(*   "none"                      no node at all,                           *)
(*   "selectors", "conditions"   entries of a selector and a condition,    *)
(*   "all", "any"                children,                                 *)
(*   "not"                       child,                                    *)
(*   "malformed"                 keys that exclude each other, or the      *)
(*                               wrong kind of value under one.            *)
(***************************************************************************)
EXTENDS Integers, FiniteSets, Sequences

CONSTANTS Documents,       \* what authors write
          AccessRequests,
          MoreLabels,      \* labels a request may carry besides
          Sorted,          \* Python's sorted(), of sets of labels
          Index,           \* int(), of the segments that are integers
          Malformed,       \* segments of digits and signs that int() refuses: "--1"
          Attributes,      \* getattr(), of an item and the names that follow
          Float,           \* float(), of the integers it does not refuse:
          MaxFloat         \* those up to this one

Tags == {"#", "?", "~", "!"}

(* Labels and selectors are dotted names.                                  *)
Name == {s \in Seq(STRING) : s # <<>> /\ s[1] \notin Tags}
Item == ({"#"} \X Int) \union ({"?"} \X BOOLEAN) \union {<<"~">>} \union Name

VARIABLES document,   \* what has been written
          stored,     \* its canonical form, or Refused
          match,      \* what the engine has of it, or NotYet
          asked,      \* the request it has been evaluated for
          explained,  \* whether a trace was asked for
          verdict     \* "none", "pass", "fail" or "error"

matchVars == <<document, stored, match, asked, explained, verdict>>

----------------------------------------------------------------------------
Number(n)  == <<"#", n>>
Boolean(b) == <<"?", b>>
Nil        == <<"~">>
Opaque     == <<"!">>

Scalar(x)  == [kind |-> "scalar", items |-> <<x>>]
List(s)    == [kind |-> "list", items |-> s]
Dictionary == [kind |-> "dict", items |-> <<Opaque>>]
MISSING    == [kind |-> "missing", items |-> <<>>]
RAISES     == [kind |-> "raises", items |-> <<>>]

Of(v) == {v.items[i] : i \in DOMAIN v.items}

ASSUME FloatsAssumption == MaxFloat \in Nat /\ Float \in [-MaxFloat .. MaxFloat -> Int]

IsNumber(x)  == x[1] = "#"
IsString(x)  == x[1] \notin Tags

(* float() refuses it, with an OverflowError.                              *)
Huge(x)      == IsNumber(x) /\ x[2] \notin -MaxFloat .. MaxFloat
IsBoolean(o) == o.kind = "scalar" /\ o.items[1][1] = "?"
IsNumeric(o) == o.kind = "scalar" /\ IsNumber(o.items[1]) /\ ~Huge(o.items[1])
Compiles(o)  == o.kind = "pattern" \/ (o.kind = "scalar" /\ IsString(o.items[1]))
The(o)       == o.items[1][2]

(* Python's equality: True is 1, and False is 0.                           *)
Plain(x)   == IF x[1] = "?" THEN Number(IF x[2] THEN 1 ELSE 0) ELSE x
Equal(v, o) ==
  /\ v.kind = o.kind /\ Len(v.items) = Len(o.items)
  /\ \A i \in DOMAIN v.items : Plain(v.items[i]) = Plain(o.items[i])

(* Mutant: only the very name matches. *)
BugExactOnly(item, pattern) == Plain(item) = Plain(pattern)

(* Equality, or the pattern is an ancestor of the item.                    *)
_token_matches(item, pattern) ==
  \/ Plain(item) = Plain(pattern)
  \/ /\ IsString(item) /\ IsString(pattern)
     /\ Len(pattern) < Len(item) /\ SubSeq(item, 1, Len(pattern)) = pattern

Some(v, o)  == \E x \in Of(v), y \in Of(o) : _token_matches(x, y)
Every(v, o) == v.items # <<>> /\ \A y \in Of(o) : \E x \in Of(v) : _token_matches(x, y)
Accepts(v, o) == \E x \in Of(v) : IsString(x) /\ x \in Of(o)

Patterns    == {"glob", "regex", "contains", "startswith", "endswith"}
Comparisons == {"gt", "gte", "lt", "lte"}
Counts      == {"count_gte", "count_lte"}
OPERATORS   == {"eq", "neq", "in", "not_in", "any_of", "all_of", "none_of", "not_glob",
                "exists", "empty"} \union Patterns \union Comparisons \union Counts

(* What a document is made of.  An author may write any operator; what is  *)
(* a pattern is one by its operator.                                       *)
Operand   == {o \in [kind : {"scalar", "list", "pattern", "broken"}, items : Seq(Item)] :
                o.kind = "scalar" => Len(o.items) = 1}
Literal     == {v \in Operand : v.kind \in {"scalar", "list"}}
Trial     == {t \in [op : OPERATORS \union STRING, operand : Operand] :
                t.operand \in Literal \/ t.op \in Patterns \union {"not_glob"}}
Mapping   == [kind : {"mapping"}, tests : Seq(Trial)]
Condition == Mapping \union Literal
WrittenEntry   == [selector : Name, condition : Condition]
Node ==
  [form : {"none", "malformed"}] \union [form : {"not"}, child : Nat]
    \union [form : {"all", "any"}, children : Seq(Nat)]
    \union [form : {"selectors", "conditions"}, entries : Seq(WrittenEntry)]

(* Children follow their parents.                                          *)
IsTree(nodes) ==
  \A i \in DOMAIN nodes :
    /\ nodes[i].form = "not" => nodes[i].child \in i + 1 .. Len(nodes)
    /\ nodes[i].form \in {"all", "any"} =>
         \A n \in DOMAIN nodes[i].children : nodes[i].children[n] \in i + 1 .. Len(nodes)

ASSUME DocumentsAssumption ==
  \A nodes \in Documents : nodes \in Seq(Node) /\ nodes # <<>> /\ IsTree(nodes)

ASSUME RequestsAssumption ==
  \A request \in AccessRequests :
    /\ DOMAIN request = {"id", "type", "action", "attributes", "urn", "kind", "about",
                         "classifications", "findings", "truncated"}
    /\ {request.id, request.type, request.action, request.urn, request.kind} \subseteq Item
    /\ \A name \in DOMAIN request.attributes : name \in STRING /\ request.attributes[name] \in Literal
    /\ \A name \in DOMAIN request.about : name \in STRING /\ request.about[name] \in Literal

AllLabels ==
  MoreLabels \union UNION {r.findings \union r.classifications : r \in AccessRequests}

ASSUME LabelsAssumption ==
  /\ AllLabels \subseteq Name
  /\ \A r \in AccessRequests : IsFiniteSet(r.findings) /\ IsFiniteSet(r.classifications)
  /\ \A S \in SUBSET AllLabels :
       /\ Sorted[S] \in Seq(Name) /\ Of(List(Sorted[S])) = S
       /\ IsFiniteSet(S) => Len(Sorted[S]) = Cardinality(S)

ASSUME SegmentsAssumption ==
  /\ DOMAIN Index \intersect Malformed = {}
  /\ \A x \in DOMAIN Index : Index[x] \in Int

Compares(op, m, n) ==
  CASE op = "gt" -> m > n [] op = "lt" -> m < n
    [] op \in {"gte", "count_gte"} -> m >= n [] op \in {"lte", "count_lte"} -> m <= n

Satisfies(op, x, o) == IsNumber(x) /\ ~Huge(x) /\ Compares(op, Float[x[2]], Float[The(o)])

(* _compare goes through the items until one will do, and raises at one it *)
(* cannot convert; what is no number it passes over.                       *)
Overflows(op, v, o) ==
  \E i \in DOMAIN v.items : Huge(v.items[i]) /\ \A j \in 1 .. i - 1 : ~Satisfies(op, v.items[j], o)

(* PolicyError, or another exception, at the time of the decision. *)
Raises(op, v, o) ==
  \/ v = RAISES
  \/ op \notin OPERATORS
  \/ op \in {"exists", "empty"} /\ ~IsBoolean(o)
  \/ op \in Comparisons /\ v # MISSING /\ (~IsNumeric(o) \/ Overflows(op, v, o))
  \/ op \in Counts /\ ~IsNumeric(o)
  \/ op = "regex" /\ ~Compiles(o)

apply_operator(op, v, o) ==
  CASE op = "eq"                 -> v # MISSING /\ Equal(v, o)
    [] op = "neq"                -> v = MISSING \/ ~Equal(v, o)
    [] op \in {"in", "any_of"}   -> Some(v, o)
    [] op \in {"not_in", "none_of"} -> ~Some(v, o)
    [] op = "all_of"             -> Every(v, o)
    [] op \in Patterns           -> Accepts(v, o)
    [] op = "not_glob"           -> ~Accepts(v, o)
    [] op = "exists"             -> (v # MISSING /\ v # Scalar(Nil)) = The(o)
    [] op = "empty"              -> (v.items = <<>>) = The(o)
    [] op \in Comparisons        -> \E x \in Of(v) : Satisfies(op, x, o)
    [] op \in Counts             -> Compares(op, Len(v.items), Float[The(o)])

----------------------------------------------------------------------------
(* The canonical form.                                                     *)

ROOT_SELECTORS == {"principal", "action", "resource", "context", "findings",
                   "classifications", "env"}

Invalid == [form |-> "invalid"]
Refused == <<Invalid>>
NotYet  == <<>>

(* Mutant: the operand of a comparison is not looked at. *)
BugAnyOperand(test) == test.op \in OPERATORS /\ (test.op = "regex" => Compiles(test.operand))

(* An operand that no float holds is refused too, by an OverflowError.     *)
validate_condition(test) ==
  /\ test.op \in OPERATORS
  /\ test.op = "regex" => Compiles(test.operand)
  /\ test.op \in {"exists", "empty"} => IsBoolean(test.operand)
  /\ test.op \in Comparisons \union Counts => IsNumeric(test.operand)

Test(op, operand) == [op |-> op, operand |-> operand]
Tests(tests)      == [kind |-> "mapping", tests |-> tests]

_normalise_condition(raw) ==
  CASE raw.kind = "mapping" -> raw
    [] raw.kind = "list"    -> Tests(<<Test("in", raw)>>)
    [] OTHER                -> Tests(<<Test("eq", raw)>>)

_validate_conditions(entries) ==
  LET conditions == [i \in DOMAIN entries |->
                       [entries[i] EXCEPT !.condition = _normalise_condition(@)]]
  IN  IF \A i \in DOMAIN conditions :
           /\ conditions[i].selector[1] \in ROOT_SELECTORS
           /\ conditions[i].condition.tests # <<>>
           /\ \A n \in DOMAIN conditions[i].condition.tests :
                validate_condition(conditions[i].condition.tests[n])
      THEN [form |-> "conditions", entries |-> conditions]
      ELSE Invalid

Canonical(node) ==
  CASE node.form = "none" -> [form |-> "all", children |-> <<>>]
    [] node.form \in {"selectors", "conditions"} -> _validate_conditions(node.entries)
    [] node.form \in {"all", "any", "not"} -> node
    [] OTHER -> Invalid

(* One node that is not valid, and all of the document is refused.         *)
normalise_match(nodes) ==
  LET canonical == [i \in DOMAIN nodes |-> Canonical(nodes[i])]
  IN  IF \E i \in DOMAIN nodes : canonical[i] = Invalid THEN Refused ELSE canonical

----------------------------------------------------------------------------
(* The request, as selectors see it.  Attributes of the principal and of   *)
(* the resource are laid over the fields of their owner, and win.          *)

Over(attributes, fields) ==
  [s \in DOMAIN attributes \union DOMAIN fields |->
     IF s \in DOMAIN attributes THEN attributes[s] ELSE fields[s]]

Under(prefix, attributes) ==
  [s \in {prefix \o <<name>> : name \in DOMAIN attributes} |-> attributes[s[Len(s)]]]

(* An attribute may itself be called "attributes".                         *)
Owned(owner, attributes) ==
  LET path   == <<owner, "attributes">>
      nested == Over(Under(path, attributes), [s \in {path} |-> Dictionary])
  IN  Over(Under(<<owner>>, attributes),
           IF "attributes" \in DOMAIN attributes THEN <<>> ELSE nested)

Fields(request) ==
  LET dicts  == {<<"principal">>, <<"resource">>, <<"context">>, <<"env">>}
      labels == {<<"findings">>, <<"classifications">>, <<"resource", "classifications">>}
      others == {<<"principal", "id">>, <<"principal", "type">>, <<"action">>,
                 <<"resource", "urn">>, <<"resource", "kind">>, <<"env", "payload_truncated">>}
  IN  [s \in dicts \union labels \union others |->
         CASE s \in dicts                           -> Dictionary
           [] s = <<"findings">>                    -> List(Sorted[request.findings])
           [] s = <<"classifications">>             ->
                List(Sorted[request.classifications \union request.findings])
           [] s = <<"resource", "classifications">> -> List(Sorted[request.classifications])
           [] s = <<"principal", "id">>             -> Scalar(request.id)
           [] s = <<"principal", "type">>           -> Scalar(request.type)
           [] s = <<"action">>                      -> Scalar(request.action)
           [] s = <<"resource", "urn">>             -> Scalar(request.urn)
           [] s = <<"resource", "kind">>            -> Scalar(request.kind)
           [] s = <<"env", "payload_truncated">>    -> Scalar(Boolean(request.truncated))]

selector_root(request) ==
  Over(Owned("principal", request.attributes),
       Over(Owned("resource", request.about), Fields(request)))

(* The attributes of objects, which None is not asked for.                 *)
Attribute(x, names) ==
  IF names = <<>> THEN Scalar(x)
  ELSE IF x # Nil /\ <<x, names>> \in DOMAIN Attributes THEN Scalar(Attributes[<<x, names>>])
  ELSE MISSING

(* An element by its place, counted from the end when it is negative.      *)
Element(items, segment, names) ==
  LET n == Len(items)
      i == Index[segment]
  IN  IF segment \in Malformed THEN RAISES
      ELSE IF segment \in DOMAIN Index /\ i \in -n .. n - 1
      THEN Attribute(items[IF i < 0 THEN n + i + 1 ELSE i + 1], names)
      ELSE MISSING

(* What remains of a selector once the mappings have been walked.          *)
Beneath(value, rest) ==
  CASE rest = <<>>            -> value
    [] rest # <<>> /\ value.kind = "list"   -> Element(value.items, rest[1], Tail(rest))
    [] rest # <<>> /\ value.kind = "scalar" -> Attribute(value.items[1], rest)
    [] OTHER                  -> MISSING

Walked(root, selector) == {k \in DOMAIN selector : SubSeq(selector, 1, k) \in DOMAIN root}

resolve_path(root, selector) ==
  LET k == CHOOSE k \in Walked(root, selector) : \A j \in Walked(root, selector) : j <= k
  IN  IF Walked(root, selector) = {} THEN MISSING
      ELSE Beneath(root[SubSeq(selector, 1, k)], SubSeq(selector, k + 1, Len(selector)))

----------------------------------------------------------------------------
(* Evaluation.  Without explain it stops at what settles the outcome.      *)

First(outcomes, stop, otherwise) ==
  LET at == {i \in DOMAIN outcomes : outcomes[i] \in stop}
  IN  IF at = {} THEN otherwise ELSE outcomes[CHOOSE i \in at : \A j \in at : i <= j]

Occurs(outcome, outcomes) == \E i \in DOMAIN outcomes : outcomes[i] = outcome

AllOf(outcomes, explain) ==
  IF explain /\ Occurs("error", outcomes) THEN "error"
  ELSE First(outcomes, {"fail", "error"}, "pass")

(* Mutant: with a trace, the last child decides. *)
BugLastDecides(outcomes, explain) ==
  IF outcomes = <<>> THEN "pass"
  ELSE IF explain THEN outcomes[Len(outcomes)]
  ELSE First(outcomes, {"pass", "error"}, "fail")

(* An "any" of nothing passes. *)
AnyOf(outcomes, explain) ==
  IF outcomes = <<>> THEN "pass"
  ELSE IF explain /\ Occurs("error", outcomes) THEN "error"
  ELSE First(outcomes, {"pass", "error"}, "fail")

Negated(outcome) ==
  CASE outcome = "pass" -> "fail" [] outcome = "fail" -> "pass" [] OTHER -> "error"

Outcome(test, observed) ==
  CASE Raises(test.op, observed, test.operand) -> "error"
    [] /\ ~Raises(test.op, observed, test.operand)
       /\ apply_operator(test.op, observed, test.operand) -> "pass"
    [] OTHER -> "fail"

_eval_conditions(entries, root, explain) ==
  AllOf([i \in DOMAIN entries |->
         LET observed == resolve_path(root, entries[i].selector)
             tests    == entries[i].condition.tests
         IN  AllOf([n \in DOMAIN tests |-> Outcome(tests[n], observed)], explain)], explain)

(* What a node comes to, once its children have.                           *)
Evaluated(outcome, node, root, explain) ==
  CASE node.form = "conditions" -> _eval_conditions(node.entries, root, explain)
    [] node.form = "all" -> AllOf([i \in DOMAIN node.children |-> outcome[node.children[i]]], explain)
    [] node.form = "any" -> AnyOf([i \in DOMAIN node.children |-> outcome[node.children[i]]], explain)
    [] node.form = "not" -> Negated(outcome[node.child])

_eval_node(nodes, root, explain) ==
  LET outcome[i \in DOMAIN nodes] == Evaluated(outcome, nodes[i], root, explain)
  IN  outcome[1]

----------------------------------------------------------------------------
MatchInit ==
  /\ document \in Documents
  /\ stored = NotYet
  /\ match = NotYet
  /\ asked \in AccessRequests
  /\ explained \in BOOLEAN
  /\ verdict = "none"

(* The document is accepted or refused when it is written.                 *)
Author ==
  /\ stored = NotYet
  /\ stored' = normalise_match(document)
  /\ UNCHANGED <<document, match, asked, explained, verdict>>

(* load_policies_with_errors: what is stored is validated once more.       *)
LoadDocument ==
  /\ stored \notin {NotYet, Refused}
  /\ match = NotYet
  /\ match' = normalise_match(stored)
  /\ UNCHANGED <<document, stored, asked, explained, verdict>>

EvaluateMatch ==
  /\ match \notin {NotYet, Refused}
  /\ verdict = "none"
  /\ verdict' = _eval_node(match, selector_root(asked), explained)
  /\ UNCHANGED <<document, stored, match, asked, explained>>

MatchNext == Author \/ LoadDocument \/ EvaluateMatch

MatchSpec == MatchInit /\ [][MatchNext]_matchVars

----------------------------------------------------------------------------
(* Properties.                                                             *)

(* What the author's words mean, read off the document as it was written.  *)
Says(condition, observed) ==
  CASE condition.kind = "mapping" ->
         \A n \in DOMAIN condition.tests :
           apply_operator(condition.tests[n].op, observed, condition.tests[n].operand)
    [] condition.kind = "list" -> \E y \in Of(condition), x \in Of(observed) : _token_matches(x, y)
    [] OTHER                   -> Equal(observed, condition)

Meant(means, node, root) ==
  CASE node.form = "none" -> TRUE
    [] node.form \in {"selectors", "conditions"} ->
         \A i \in DOMAIN node.entries :
           Says(node.entries[i].condition, resolve_path(root, node.entries[i].selector))
    [] node.form = "not" -> ~means[node.child]
    [] node.form = "all" -> \A i \in DOMAIN node.children : means[node.children[i]]
    [] node.form = "any" ->
         node.children # <<>> => \E i \in DOMAIN node.children : means[node.children[i]]

Means(nodes, root) ==
  LET means[i \in DOMAIN nodes] == Meant(means, nodes[i], root)
  IN  means[1]

(* Where a document may raise: a selector counts on a place int() cannot   *)
(* read, or a number is compared that no float can hold.                   *)
Trips(nodes, root) ==
  \E i \in DOMAIN nodes :
    /\ nodes[i].form \in {"selectors", "conditions"}
    /\ \E n \in DOMAIN nodes[i].entries :
         LET selector  == nodes[i].entries[n].selector
             condition == nodes[i].entries[n].condition
         IN  \/ \E k \in DOMAIN selector : selector[k] \in Malformed
             \/ /\ condition.kind = "mapping"
                /\ \E t \in DOMAIN condition.tests : condition.tests[t].op \in Comparisons
                /\ \E x \in Of(resolve_path(root, selector)) : Huge(x)

(* "A non-idempotent normaliser would make every stored policy fail to     *)
(* load", and "an operator that throws at decision time is an outage":     *)
(* what was accepted loads as it was stored; it raises for nothing but a   *)
(* malformed place and an overflow; and what it answers, with a trace and  *)
(* without, is what its author wrote, however much else of it would raise. *)
AnswersAsWritten ==
  /\ match # NotYet => match = stored
  /\ verdict = "error" => Trips(document, selector_root(asked))
  /\ verdict \in {"pass", "fail"} => (verdict = "pass") = Means(document, selector_root(asked))

(* The tests that more specific labels can only help; more of them help    *)
(* counting too.                                                           *)
Tokens == {"in", "any_of", "all_of"}

ByName(selector) == \A k \in DOMAIN selector : selector[k] \notin DOMAIN Index \union Malformed

Positive(nodes, ops) ==
  \A i \in DOMAIN nodes :
    /\ nodes[i].form # "not"
    /\ nodes[i].form = "conditions" =>
         \A k \in DOMAIN nodes[i].entries :
           /\ ByName(nodes[i].entries[k].selector)
           /\ \A n \in DOMAIN nodes[i].entries[k].condition.tests :
                nodes[i].entries[k].condition.tests[n].op \in ops

(* The request with one more label, in place of some or of none.           *)
Sharper(request, label, out) == [request EXCEPT !.findings = (@ \ out) \union {label}]

Descends(label, ancestor) ==
  Len(ancestor) <= Len(label) /\ \A i \in DOMAIN ancestor : label[i] = ancestor[i]

(* A rule on labels cannot be escaped by carrying more of them, or more    *)
(* specific ones: "a policy that names pii matches a resource classified   *)
(* pii.email", under every nesting of all and any.  A count can go down    *)
(* when a label becomes more specific, if the more specific one was there; *)
(* and a selector with a place in it, findings.0, reads another label once *)
(* there are more, so that nothing is said of those.                       *)
MoreLabelsStillMatch ==
  verdict = "pass" =>
    \A label \in MoreLabels, out \in SUBSET asked.findings :
      LET more == Sharper(asked, label, out)
      IN  \/ asked.findings \subseteq more.findings /\ Positive(match, Tokens \union {"count_gte"})
          \/ /\ \A f \in asked.findings : \E g \in more.findings : Descends(g, f)
             /\ Positive(match, Tokens)
          => _eval_node(match, selector_root(more), explained) = "pass"
=============================================================================
