----------------------------- MODULE MCPayloads -----------------------------
(***************************************************************************)
(* Matching, Redaction and StreamGovernor for TLC: what decides about a    *)
(* payload, what rewrites it, and how a streamed one is let out.  They     *)
(* share no state, so that TLC explores them side by side: a behaviour is  *)
(* one of a policy document, one of a payload or one of a stream.          *)
(***************************************************************************)
EXTENDS StreamGovernor, Redaction, Matching

(* Labels: a secret is critical, a number and a mail are medium.           *)
Rank     == [secret |-> 4, number |-> 2, mail |-> 2]
NoShape  == {"secret", "number"}

Detector(label, base, keywords, requires) ==
  [label |-> label, base |-> base, keywords |-> keywords, requires_context |-> requires]

(* Numbered in the order of their names.                                   *)
FourDetectors ==
  <<Detector("mail", 95, TRUE, FALSE), Detector("number", 45, TRUE, TRUE),
    Detector("number", 60, TRUE, FALSE), Detector("secret", 45, TRUE, FALSE)>>

Spot(detector, start, end, near) ==
  [detector |-> detector, start |-> start, end |-> end, near |-> near]

Leaf(path, text, hints, spots) == [path |-> path, text |-> text, hints |-> hints, spots |-> spots]

Four == <<"c", "-", "c", "c">>

(* One string: overlaps in part and in whole, across and inside detectors. *)
Mingled ==
  Leaf(<<>>, Four \o <<"c">>, {},
       {Spot(1, 0, 2, TRUE), Spot(1, 3, 5, FALSE), Spot(2, 1, 3, TRUE), Spot(3, 1, 4, FALSE),
        Spot(3, 4, 5, TRUE), Spot(4, 0, 3, FALSE), Spot(4, 2, 5, TRUE)})

(* Two places whose pointers differ only by the escaping.                  *)
Slashed ==
  {Leaf(<<<<"k", "/", "k">>>>, Four, {2}, {Spot(2, 0, 2, FALSE), Spot(1, 2, 4, TRUE)}),
   Leaf(<<<<"k">>, <<"k">>>>, Four, {}, {Spot(2, 1, 3, TRUE), Spot(1, 0, 1, TRUE)}),
   Leaf(<<<<"k", "~", "1", "k">>>>, <<"c">>, {}, {})}

(* A string too deep beside one that is read.                              *)
Deep ==
  {Leaf(<<<<"k">>, <<"k">>, <<"k">>>>, Four, {}, {Spot(1, 0, 2, TRUE)}),
   Leaf(<<<<"0">>>>, Four, {4}, {Spot(4, 0, 3, FALSE), Spot(1, 2, 4, FALSE)})}

SomePayloads ==
  {{}, {Mingled}, Slashed, Deep,
   {Leaf(<<>>, Four \o Four, {}, {Spot(1, 0, 2, TRUE), Spot(1, 5, 7, TRUE), Spot(3, 6, 8, TRUE)})}}

Rule(labels, strategy, keep_last) ==
  [labels |-> labels, strategy |-> strategy, keep_last |-> keep_last]

SomeRules ==
  {<<>>,
   <<Rule({"mail"}, "tokenize", 0), Rule({"mail", "number", "secret"}, "partial", 1)>>,
   <<Rule({"number"}, "partial", 3), Rule({"number", "mail"}, "mask", 0)>>,
   <<Rule({"secret", "mail"}, "drop", 0), Rule({"number"}, "synthetic", 0)>>,
   <<Rule({"mail", "number", "secret"}, "tokenize", 0)>>,
   <<Rule({"mail"}, "synthetic", 0), Rule({"secret"}, "partial", 0), Rule({"number"}, "hash", 0)>>}

----------------------------------------------------------------------------
pii   == <<"pii">>
email == <<"pii", "email">>
phi   == <<"phi">>

Entry(selector, condition) == [selector |-> selector, condition |-> condition]
On(selector, condition)    ==
  <<[form |-> "selectors", entries |-> <<Entry(selector, condition)>>]>>
Op(op, operand)            == Tests(<<Test(op, operand)>>)

Pattern(kind, x) == [kind |-> kind, items |-> <<x>>]

Tier     == <<"principal", "tier">>
Operands == {Scalar(Number(2)), Scalar(Number(5)), Scalar(Number(-9)), Scalar(pii),
             Scalar(Boolean(TRUE)), List(<<pii, phi>>), Scalar(Nil)}

(* Every operator on every kind of operand and value. *)
Leaves ==
  {On(<<s>>, Op(op, o)) :
       s \in {"findings", "bad"}, op \in OPERATORS \union {"likes"}, o \in Operands}
    \union {On(Tier, Op(op, o)) : op \in OPERATORS, o \in Operands}
    \union {On(<<"classifications">>, Op(op, Pattern(k, email))) :
               op \in {"regex", "glob", "not_glob"}, k \in {"pattern", "broken"}}

(* What stands at a place, and what an object has besides. *)
Deeper ==
  {On(<<s, i>>, Op(op, List(<<pii>>))) :
       s \in {"findings", "classifications"}, i \in {"0", "-2", "--1", "x"}, op \in {"in", "not_in"}}
    \union {On(s, Op(op, Scalar(Boolean(TRUE)))) :
               s \in {<<"action", "upper">>, <<"findings", "0", "upper">>, Tier \o <<"0">>,
                      Tier \o <<"real">>, <<"principal", "attributes", "tier">>, <<"context">>,
                      <<"context", "0">>, <<"principal", "attributes">>},
               op \in {"exists", "empty", "eq"}}
    \union {On(Tier \o <<s>>, Op(op, Scalar(Number(4)))) : s \in {"real", "-1"}, op \in Comparisons}

A == On(<<"findings">>, List(<<pii>>))
B == <<[form |-> "conditions", entries |->
          <<Entry(<<"classifications">>, Op("all_of", List(<<pii, phi>>))),
            Entry(Tier, Scalar(Number(1)))>>]>>
C == On(<<"resource", "classifications">>,
        Tests(<<Test("any_of", List(<<phi>>)), Test("count_gte", Scalar(Number(1)))>>))
D == On(<<"principal", "type">>, Scalar(<<"agent">>))

(* These may raise. *)
Odd == On(<<"findings", "--1">>, List(<<pii>>))
Low == On(Tier, Op("lt", Scalar(Number(2))))

(* Trees put together of trees: the places of a part are moved to where it *)
(* comes to stand.                                                         *)
Start(parts, k) == 2 + FoldFunction(+, 0, [j \in 1 .. k - 1 |-> Len(parts[j])])
Moved(nodes, by) ==
  [i \in DOMAIN nodes |->
     CASE nodes[i].form = "not" -> [nodes[i] EXCEPT !.child = @ + by]
       [] nodes[i].form \in {"all", "any"} ->
            [nodes[i] EXCEPT !.children = [n \in DOMAIN @ |-> @[n] + by]]
       [] OTHER -> nodes[i]]
Tree(form, parts) ==
  <<[form |-> form, children |-> [k \in DOMAIN parts |-> Start(parts, k)]]>>
    \o FlattenSeq([k \in DOMAIN parts |-> Moved(parts[k], Start(parts, k) - 1)])
Not(part) == <<[form |-> "not", child |-> 2]>> \o Moved(part, 1)
Only(form) == <<[form |-> form]>>

Pairs ==
  {<<x, y>> : x, y \in {A, B, C, D}} \union {<<A, B, C>>, <<D>>, <<>>}
    \union {<<x, y>> : x \in {D, Odd}, y \in {Odd, Low}} \union {<<Low, A>>, <<Odd, D>>}
Trees == {Tree(f, p) : f \in {"all", "any"}, p \in Pairs} \union {Only("none")}

SomeDocuments ==
  {A, B, C, D} \union Leaves \union Deeper \union Trees \union {Only("malformed"), On(Tier, Tests(<<>>))}
    \union {Not(t) : t \in Trees} \union {Tree("any", <<D, Not(t), t>>) : t \in Trees}

Request(attributes, about, classifications, findings) ==
  [id |-> <<"bot">>, type |-> <<"agent">>, action |-> <<"read">>, attributes |-> attributes,
   urn |-> Nil, kind |-> <<"table">>, about |-> about, classifications |-> classifications,
   findings |-> findings, truncated |-> FALSE]

SomeRequests ==
  {Request(a, r, c, f) :
     a \in {<<>>, [tier |-> Scalar(Number(1))], [tier |-> Scalar(Number(5))],
            [tier |-> Scalar(Number(3)), type |-> Scalar(<<"user">>)],
            [tier |-> List(<<pii, phi>>), attributes |-> Scalar(Boolean(TRUE))],
            [tier |-> List(<<Number(3), Number(-9), Number(1)>>)], [tier |-> Scalar(Nil)]},
     r \in {<<>>, [classifications |-> List(<<pii>>)]}, c \in {{}, {phi}},
     f \in {{}, {pii}, {email, phi}, {pii, email}}}

(* Of Python: floats of a two-bit significand, the order of the labels,   *)
(* the integers among the segments, and attributes of strings and numbers. *)
Rounded      == [n \in -8 .. 8 |-> CASE n \in {-5, 5} -> IF n > 0 THEN 4 ELSE -4
                                    [] n = 7 -> 8 [] n = -7 -> -8 [] OTHER -> n]
Before(x, y) == x = phi \/ (x = pii /\ y = email)
InOrder      == [S \in SUBSET {pii, email, phi} |-> SetToSortSeq(S, Before)]
Places       == [x \in {"0", "-1", "-2"} |-> CASE x = "0" -> 0 [] x = "-1" -> -1 [] OTHER -> -2]
OddPlaces    == {"--1"}
Members ==
  [p \in {<<x, <<"upper">>>> : x \in {<<"read">>, pii, email, phi}}
          \union {<<Number(n), <<"real">>>> : n \in {1, 3, 5, -9}} |->
     IF p[2] = <<"real">> THEN p[1] ELSE Opaque]

SomeLabels == {pii, email, phi}

----------------------------------------------------------------------------
(* A behaviour has one subject; what the others start from is fixed.       *)
VARIABLE subject

NoStream   == answer = <<>> /\ mode = "window"
NoPayload  == payload = {} /\ rules = <<>> /\ floor = 0 /\ server = 1
NoDocument == document = A /\ asked = Request(<<>>, <<>>, {}, {}) /\ ~explained

PayloadsInit ==
  \/ subject = "stream"   /\ RedactionInit /\ NoPayload /\ MatchInit /\ NoDocument /\ StreamInit
  \/ subject = "payload"  /\ StreamInit /\ NoStream /\ MatchInit /\ NoDocument /\ RedactionInit
  \/ subject = "document" /\ StreamInit /\ NoStream /\ RedactionInit /\ NoPayload /\ MatchInit

PayloadsNext ==
  /\ \/ subject = "stream"   /\ StreamNext    /\ UNCHANGED <<redactionVars, matchVars>>
     \/ subject = "payload"  /\ RedactionNext /\ UNCHANGED <<streamVars, matchVars>>
     \/ subject = "document" /\ MatchNext     /\ UNCHANGED <<streamVars, redactionVars>>
  /\ UNCHANGED subject

PayloadsSpec == PayloadsInit /\ [][PayloadsNext]_<<streamVars, redactionVars, matchVars, subject>>
=============================================================================
