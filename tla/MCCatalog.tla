----------------------------- MODULE MCCatalog -----------------------------
(* Catalog for TLC: an asset and a pattern that covers it, two labels, and *)
(* three calls at once: a scan or a discovery, with two of another scan,   *)
(* somebody who labels or deletes, and a resolution.                       *)
EXTENDS Catalog

CONSTANTS c1, c2, c3

ThreeCalls == {c1, c2, c3}
Table     == "pg://public.t"
Schema    == "pg://public.*"
TwoUrns   == {Table, Schema}
Covers    == [u \in TwoUrns |-> IF u = Table THEN {Schema} ELSE {}]
TwoLabels == {"email", "ssn"}
TwoLevels == {1, 2}
SchemaOnly == {Schema}
Everything == {Table, Schema}

R(urn, label, source, level) ==
  [urn |-> urn, of |-> "seed", label |-> label, source |-> source, level |-> level,
   by |-> "seed"]
SomeRows == {R(Schema, "email", "manual", 1), R(Table, "ssn", "scan", 1),
             R(Table, "ssn", "manual", 2), R(Table, "email", "imported", 2)}

Job(kind, urn) == [kind |-> kind, urn |-> urn, label |-> "ssn", sources |-> {}, level |-> 1,
                   found |-> <<>>, assets |-> <<>>]
ScanOf(found) == [Job("scan", Table) EXCEPT !.found = found]
Nothing == [l \in {} |-> 0]
Ssn     == [l \in {"ssn"} |-> 1]
Both    == [l \in TwoLabels |-> 2]
Found(urn, imported, scan, found) ==
  [urn |-> urn, imported |-> imported, scan |-> scan, found |-> found]
Discovery(listed) == [Job("discover", Table) EXCEPT !.assets = listed]
Unlabel(sources) == [Job("unlabel", Table) EXCEPT !.sources = sources]

Writers ==
  {ScanOf(Both), Discovery(<<Found(Schema, {}, FALSE, Nothing), Found(Table, {"email"}, TRUE, Ssn)>>)}
Rescans == {ScanOf(Ssn), ScanOf([l \in {"email"} |-> 2])}
People  == {Job("label", Table), Unlabel({"manual"}), Unlabel(DOMAIN Precedence),
            Job("drop", Table), Job("drop", Schema)}
Readers == {Job("resolve", Table)}

SomeJobs ==
  [c \in ThreeCalls |->
     CASE c = c1 -> Writers [] c = c2 -> Rescans \union Readers [] c = c3 -> People \union Readers]
=============================================================================
