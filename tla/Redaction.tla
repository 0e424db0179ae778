----------------------------- MODULE Redaction ------------------------------
(***************************************************************************)
(* A payload on its way through the scanner and the redactor, and what     *)
(* becomes of the tokens in it                                             *)
(* (control_plane/classification/scanner.py and detectors.py,              *)
(* control_plane/redaction/transforms.py and tokenization.py, _scan and    *)
(* _apply_redactions in pdp.py, api/v1/tokens.py).                         *)
(*                                                                         *)
(* A payload is a set of leaves, each a record                             *)
(*   path   the keys that lead to it, each a sequence of characters; a     *)
(*          payload that is one string is the leaf with the empty path,    *)
(*   text   a sequence of the characters "c", alphanumeric, and "-",       *)
(*   hints  the detectors the name of its field is a keyword of,           *)
(*   spots  where the patterns may match and the validators agree: records *)
(*          of a detector, the offsets [start, end) and whether one of its *)
(*          keywords is near.  Those that do are the hits of the leaf.     *)
(* A rewritten text is a sequence of pieces: [kind, at, box], where "kept" *)
(* stands for the original character at that place, and the box of a       *)
(* "token" is the ciphertext.  Processes read the tokenisation keys from   *)
(* their environment, so that a rotation reaches one after the other:      *)
(* generation g encrypts under key g and still reads the Retired before.   *)
(***************************************************************************)
EXTENDS Integers, FiniteSets, SequencesExt

CONSTANTS Payloads,       \* set of payloads
          Detectors,      \* [name -> [label, base, keywords, requires_context]]
          Severity,       \* [label -> its SEVERITY_RANK]
          Shapeless,      \* the labels _synthetic has no shape of its own for
          RuleLists,      \* set of sequences of [labels, strategy, keep_last]
          Floors,         \* values of options.min_confidence, in percent
          MaxChars,       \* CP_MAX_SCAN_CHARS
          MaxDepth,       \* max_depth of the walk
          MaxValue,       \* MAX_VALUE_BYTES
          Processes,
          Retired,        \* how many CP_TOKENIZATION_PREVIOUS_KEYS are kept
          MaxGeneration   \* bound on rotations

Strategy == {"mask", "partial", "hash", "tokenize", "synthetic", "drop"}

(* What is found is never empty, and two leaves never have one path.       *)
LeafAssumption(leaf) ==
  /\ leaf.path \in Seq(Seq(STRING)) /\ leaf.text \in Seq({"c", "-"})
  /\ leaf.hints \subseteq DOMAIN Detectors /\ IsFiniteSet(leaf.spots)
  /\ \A s \in leaf.spots :
       /\ s.detector \in DOMAIN Detectors /\ s.near \in BOOLEAN
       /\ s.start \in Nat /\ s.end \in 1 .. Len(leaf.text) /\ s.start < s.end

ASSUME PayloadsAssumption ==
  \A p \in Payloads :
    /\ \A leaf \in p : LeafAssumption(leaf)
    /\ \A l, m \in p : l # m => l.path # m.path

ASSUME DetectorsAssumption ==
  /\ DOMAIN Detectors \subseteq Nat
  /\ \A d \in DOMAIN Detectors :
       /\ Detectors[d].label \in DOMAIN Severity /\ Detectors[d].base \in Nat
       /\ Detectors[d].keywords \in BOOLEAN /\ Detectors[d].requires_context \in BOOLEAN
  /\ \A label \in DOMAIN Severity : Severity[label] \in Nat

ASSUME ObligationsAssumption ==
  /\ \A list \in RuleLists :
       /\ list \in Seq(Range(list))
       /\ \A i \in DOMAIN list : list[i].strategy \in Strategy /\ list[i].keep_last \in Int
  /\ Floors \subseteq Int /\ Retired \in Nat
  /\ MaxChars \in Nat /\ MaxDepth \in Nat /\ MaxValue \in Nat /\ MaxGeneration \in Nat

VARIABLES payload,     \* what the caller sent
          hits,        \* [leaf -> its hits]
          rules,       \* the decision's redact obligations
          floor,       \* options.min_confidence
          matches,     \* [leaf -> RawMatches], once it has been walked
          truncated,   \* ScanResult.truncated
          output,      \* [leaf -> the pieces it has been rewritten to]
          unhandled,   \* the findings no rule covers
          stage,       \* "open", "returned" or "unavailable"
          server,      \* the process that serves the request
          generation   \* [process -> the generation of its keys]

redactionVars == <<payload, hits, rules, floor, matches, truncated, output, unhandled,
                   stage, server, generation>>

----------------------------------------------------------------------------
(* Scanning.                                                               *)

CONTEXT_BOOST      == 18
NO_CONTEXT_PENALTY == 12
MAX_CONFIDENCE     == 99

Lesser(m, n)  == IF m < n THEN m ELSE n
Greater(m, n) == IF m > n THEN m ELSE n

Supported(leaf, hit) == hit.near \/ hit.detector \in leaf.hints

Confidence(leaf, hit) ==
  LET d == Detectors[hit.detector]
  IN  IF d.keywords /\ Supported(leaf, hit) THEN Lesser(MAX_CONFIDENCE, d.base + CONTEXT_BOOST)
      ELSE IF d.keywords THEN Greater(5, d.base - NO_CONTEXT_PENALTY)
      ELSE d.base

(* The matches of the detectors; a hit without the context its detector    *)
(* requires is dropped.                                                    *)
run_detector(leaf, found) ==
  {[label |-> Detectors[h.detector].label, detector |-> h.detector, start |-> h.start,
    end |-> h.end, confidence |-> Confidence(leaf, h)] :
     h \in {h \in found : Detectors[h.detector].requires_context => Supported(leaf, h)}}

Overlap(m, n) == m.start < n.end /\ n.start < m.end

_rank(m) == <<Severity[m.label], m.end - m.start, m.confidence, m.detector>>

(* The order of tuples. *)
Above(r, s) == \E i \in DOMAIN r : r[i] > s[i] /\ \A j \in 1 .. i - 1 : r[j] = s[j]

(* The matches are taken from the last of this order to the first. *)
Weakest(found) == CHOOSE m \in found : \A n \in found : ~Above(_rank(m), _rank(n))

(* Mutant: the weakest match is kept first. *)
BugWeakestFirst(found) ==
  MapThenFoldSet(LAMBDA m, kept : IF \E k \in kept : Overlap(k, m) THEN kept ELSE kept \union {m},
                 {}, LAMBDA m : m,
                 LAMBDA S : CHOOSE m \in S : \A n \in S : ~Above(_rank(n), _rank(m)), found)

(* Greedily, the strongest first: what overlaps a kept match is dropped.   *)
_resolve_overlaps(found) ==
  MapThenFoldSet(LAMBDA m, kept : IF \E k \in kept : Overlap(k, m) THEN kept ELSE kept \union {m},
                 {}, LAMBDA m : m, Weakest, found)

(* finditer: the matches of one pattern do not overlap.                    *)
Possible(leaf) ==
  {found \in SUBSET leaf.spots :
     \A h, i \in found : h # i /\ h.detector = i.detector => ~Overlap(h, i)}

(* The part of a leaf that is read. *)
Read(leaf) == {h \in hits[leaf] : h.end <= MaxChars}

(* Mutant: a slash in a key is not told from one between keys. *)
BugUnescaped(key) == key

_escape(key) ==
  FlattenSeq([i \in DOMAIN key |->
    CASE key[i] = "~" -> <<"~", "0">> [] key[i] = "/" -> <<"~", "1">> [] OTHER -> <<key[i]>>])

Pointer(leaf) == FlattenSeq([i \in DOMAIN leaf.path |-> <<"/">> \o _escape(leaf.path[i])])

TooDeep(leaf) == Len(leaf.path) > MaxDepth

(* Mutant: a subtree that is abandoned is not mentioned. *)
BugSilentDepth(leaf) == ~TooDeep(leaf) /\ Len(leaf.text) > MaxChars

CutShort(leaf) == TooDeep(leaf) \/ Len(leaf.text) > MaxChars

(* What is left of a leaf's matches after arbitration and then the floor.  *)
Findings(leaf) == {m \in _resolve_overlaps(matches[leaf]) : m.confidence >= floor}

----------------------------------------------------------------------------
(* Tokens: the ciphertext, whose nonce is a function of label and value.   *)

tokenize(key, label, value) == [key |-> key, nonce |-> <<key, label, value>>, value |-> value]

NotRead == <<"none">>

(* Mutant: the retired keys are not tried. *)
BugCurrentOnly(g, token) == IF token.key = g THEN token.value ELSE NotRead

(* The current key, then the retired ones.                                 *)
detokenize(g, token) == IF token.key \in g - Retired .. g THEN token.value ELSE NotRead

----------------------------------------------------------------------------
(* Rewriting.                                                              *)

Kept(i)    == [kind |-> "kept", at |-> i, box |-> <<>>]
New(kind)  == [kind |-> kind, at |-> 0, box |-> <<>>]
Token(box) == [kind |-> "token", at |-> 0, box |-> box]

Value(leaf, f) == SubSeq(leaf.text, f.start + 1, f.end)

Covering(list, label) == {i \in DOMAIN list : label \in list[i].labels}

Ruled(list, label) == Covering(list, label) # {}

(* The first rule that covers the label. *)
rule_for(list, label) ==
  list[CHOOSE i \in Covering(list, label) : \A j \in Covering(list, label) : i <= j]

_partial(leaf, f, keep_last) ==
  LET tail == f.end - Greater(0, Lesser(keep_last, f.end - f.start))
  IN  [i \in 1 .. f.end - f.start |->
         LET at == f.start + i
         IN  IF at > tail \/ (leaf.text[at] = "-" /\ tail < f.end) THEN Kept(at) ELSE New("*")]

_synthetic(leaf, f) ==
  IF f.label \notin Shapeless THEN <<New("synthetic")>>
  ELSE [i \in 1 .. f.end - f.start |->
          LET at == f.start + i IN IF leaf.text[at] = "-" THEN Kept(at) ELSE New("synthetic")]

_replacement(leaf, f, rule, g) ==
  CASE rule.strategy = "drop"      -> <<>>
    [] rule.strategy = "partial"   -> _partial(leaf, f, rule.keep_last)
    [] rule.strategy = "tokenize"  -> <<Token(tokenize(g, f.label, Value(leaf, f)))>>
    [] rule.strategy = "synthetic" -> _synthetic(leaf, f)
    [] OTHER                       -> <<New(rule.strategy)>>

Splice(buffer, f, piece) ==
  SubSeq(buffer, 1, f.start) \o piece \o SubSeq(buffer, f.end + 1, Len(buffer))

Leftmost(findings) ==
  CHOOSE f \in findings : \A h \in findings : ~Above(<<f.start, f.end>>, <<h.start, h.end>>)

(* Right to left, so that each replacement leaves earlier offsets valid.   *)
apply_to_text(leaf, findings, g) ==
  MapThenFoldSet(LAMBDA f, buffer : IF Ruled(rules, f.label)
                   THEN Splice(buffer, f, _replacement(leaf, f, rule_for(rules, f.label), g))
                   ELSE buffer,
                 [i \in DOMAIN leaf.text |-> Kept(i)], LAMBDA f : f, Leftmost, findings)

(* apply_to_structured: the findings filed under the leaf's pointer.       *)
Local(leaf) == UNION {Findings(l) : l \in {l \in payload : Pointer(l) = Pointer(leaf)}}

(* A value over the limit cannot be tokenised.                             *)
TooLong(f) ==
  /\ Ruled(rules, f.label)
  /\ rule_for(rules, f.label).strategy = "tokenize"
  /\ f.end - f.start > MaxValue

----------------------------------------------------------------------------
RedactionInit ==
  /\ payload \in Payloads
  /\ hits \in {f \in [payload -> UNION {Possible(leaf) : leaf \in payload}] :
                 \A leaf \in payload : f[leaf] \in Possible(leaf)}
  /\ rules \in RuleLists
  /\ floor \in Floors
  /\ matches = <<>>
  /\ truncated = FALSE
  /\ output = <<>>
  /\ unhandled = {}
  /\ stage = "open"
  /\ server \in Processes
  /\ generation = [p \in Processes |-> 0]

Extend(f, x, y) == [z \in DOMAIN f \union {x} |-> IF z = x THEN y ELSE f[z]]

(* scan_structured: one leaf of the walk.                                  *)
ScanLeaf(leaf) ==
  /\ leaf \in payload \ DOMAIN matches
  /\ matches' = Extend(matches, leaf, IF TooDeep(leaf) THEN {} ELSE run_detector(leaf, Read(leaf)))
  /\ truncated' = (truncated \/ CutShort(leaf))
  /\ UNCHANGED <<payload, hits, rules, floor, output, unhandled, stage, server, generation>>

AllScanned == DOMAIN matches = payload

(* _apply_redactions: nothing is rewritten without a rule and a finding.   *)
NothingToDo == rules = <<>> \/ \A leaf \in payload : Findings(leaf) = {}

ReturnAsIs ==
  /\ stage = "open" /\ AllScanned
  /\ NothingToDo
  /\ output' = [leaf \in payload |-> [i \in DOMAIN leaf.text |-> Kept(i)]]
  /\ unhandled' = UNION {Findings(leaf) : leaf \in payload}
  /\ stage' = "returned"
  /\ UNCHANGED <<payload, hits, rules, floor, matches, truncated, server, generation>>

(* rewrite: one leaf of the second walk. *)
RewriteLeaf(leaf) ==
  /\ stage = "open" /\ AllScanned
  /\ ~NothingToDo
  /\ leaf \in payload \ DOMAIN output
  /\ ~\E f \in Local(leaf) : TooLong(f)
  /\ output' = Extend(output, leaf, apply_to_text(leaf, Local(leaf), generation[server]))
  /\ unhandled' = unhandled \union {f \in Local(leaf) : ~Ruled(rules, f.label)}
  /\ UNCHANGED <<payload, hits, rules, floor, matches, truncated, stage, server, generation>>

(* TokenizationUnavailable ends the request, whatever has been rewritten.  *)
Unavailable(leaf) ==
  /\ stage = "open" /\ AllScanned
  /\ leaf \in payload \ DOMAIN output
  /\ \E f \in Local(leaf) : TooLong(f)
  /\ output' = <<>>
  /\ stage' = "unavailable"
  /\ UNCHANGED <<payload, hits, rules, floor, matches, truncated, unhandled, server, generation>>

ReturnPayload ==
  /\ stage = "open"
  /\ DOMAIN output = payload
  /\ stage' = "returned"
  /\ UNCHANGED <<payload, hits, rules, floor, matches, truncated, output, unhandled,
                 server, generation>>

(* A process comes back with the next generation of the keys.              *)
Rotate(p) ==
  /\ stage = "returned"
  /\ generation[p] < MaxGeneration
  /\ generation' = [generation EXCEPT ![p] = @ + 1]
  /\ UNCHANGED <<payload, hits, rules, floor, matches, truncated, output, unhandled, stage, server>>

RedactionNext ==
  \/ \E leaf \in payload : ScanLeaf(leaf) \/ RewriteLeaf(leaf) \/ Unavailable(leaf)
  \/ ReturnAsIs
  \/ ReturnPayload
  \/ \E p \in Processes : Rotate(p)

RedactionSpec == RedactionInit /\ [][RedactionNext]_redactionVars

----------------------------------------------------------------------------
(* Properties.                                                             *)

(* What the rule a finding falls under leaves of it on purpose. *)
Spared(leaf, f, i) ==
  LET rule == rule_for(rules, f.label)
  IN  \/ rule.strategy = "partial" /\ i > f.end - rule.keep_last
      \/ /\ leaf.text[i] = "-"
         /\ \/ rule.strategy = "partial" /\ rule.keep_last > 0
            \/ rule.strategy = "synthetic" /\ f.label \in Shapeless

Within(f, i) == f.start < i /\ i <= f.end

KeptPlaces(leaf) == {n \in DOMAIN output[leaf] : output[leaf][n].kind = "kept"}

Standing(leaf) == {output[leaf][n].at : n \in KeptPlaces(leaf)}

(* Right-to-left editing by the offsets of the original touches the right  *)
(* characters in the right string: whatever a payload's shape and field    *)
(* names, each string keeps, in order, exactly the characters outside its  *)
(* own ruled findings, and those their rules leave on purpose.             *)
OnlyFindingsTouched ==
  stage = "returned" => \A leaf \in payload :
    /\ \A m, n \in KeptPlaces(leaf) : m < n => output[leaf][m].at < output[leaf][n].at
    /\ Standing(leaf) = {i \in DOMAIN leaf.text : \A f \in Findings(leaf) :
                           Within(f, i) /\ Ruled(rules, f.label) => Spared(leaf, f, i)}

(* "Silently skipping is what let a nested payload come back reading       *)
(* clean": unless the answer says that not everything was read, a value    *)
(* the patterns know and the rules cover leaves nothing standing but what  *)
(* its rule spares, or had to yield to a stronger match that overlaps it.  *)
(* The stronger match need not be redacted itself: no rule may cover it,   *)
(* and it may lie under the floor, which is applied after the arbitration. *)
LeftoversExplained ==
  stage = "returned" /\ ~truncated => \A leaf \in payload :
    \A m \in run_detector(leaf, hits[leaf]) :
      m.confidence >= floor /\ Ruled(rules, m.label) =>
        \/ \A i \in Standing(leaf) : Within(m, i) => Spared(leaf, m, i)
        \/ \E f \in _resolve_overlaps(matches[leaf]) : Overlap(f, m) /\ Above(_rank(f), _rank(m))

Restored(leaf, g) ==
  FlattenSeq([n \in DOMAIN output[leaf] |->
    LET piece == output[leaf][n]
    IN  IF piece.kind = "token" THEN detokenize(g, piece.box) ELSE <<leaf.text[piece.at]>>])

Holds(p, key) == key \in generation[p] - Retired .. generation[p]

(* A token outlives the key it was minted under by the rotations that keep *)
(* it: a text whose findings were only tokenised is read back, in place    *)
(* and letter by letter, by every process that still holds its keys,       *)
(* however far the rotation has come in each of them.                      *)
TokensReadBack ==
  stage = "returned" => \A leaf \in payload, p \in Processes :
    /\ \A f \in Findings(leaf) :
          Ruled(rules, f.label) => rule_for(rules, f.label).strategy = "tokenize"
    /\ \A n \in DOMAIN output[leaf] :
         output[leaf][n].kind = "token" => Holds(p, output[leaf][n].box.key)
    => Restored(leaf, generation[p]) = leaf.text
=============================================================================
