---------------------------- MODULE CatalogProofs ----------------------------
(***************************************************************************)
(* What Catalog promises, for any calls, names, labels, confidences and    *)
(* jobs: what scans leave in the tables, what a resolution answers, that   *)
(* assertions by hand stand, and that discovery runs are whole.            *)
(*                                                                         *)
(* Inv, the inductive invariant, says of every call what its statements    *)
(* are still about (Plan), how its uncommitted writes fit the tables       *)
(* (Pending), what they are for (Accounted), what a scan has already       *)
(* cleared and written of an asset (Scanned), what a discovery run has     *)
(* still to do (Whole) and a resolution still to read (Complete); of two   *)
(* calls, that what they have written is apart (Apart); and of the tables, *)
(* that they are consistent and that the last scans stand in them.         *)
(*                                                                         *)
(* A step is a call's beginning, its commit, or a step of its own that     *)
(* leaves the tables as they are (Stepping); each keeps Inv, conjunct by   *)
(* conjunct.                                                               *)
(***************************************************************************)
EXTENDS Catalog, FiniteSetTheorems, WellFoundedInduction, TLAPS

----------------------------------------------------------------------------
(* Types.  What a transaction is about is a row of its tables, a statement *)
(* left to run, or a scan made.                                            *)
Ops == {"need", "find", "upsert", "put", "remove", "touch", "drop", "sample", "exact", "patterns",
        "labels"}
Statement == [op : Ops, urn : Urns, labels : SUBSET Labels, sources : SUBSET DOMAIN Precedence,
              level : Nat, found : Findings \union {<<>>}, scan : BOOLEAN]
Scan == [urn : Urns, found : Findings \union {<<>>}]

TypeOK ==
  /\ assets \in [Urns -> Ids] /\ rows \subseteq Row
  /\ job \in [Calls -> Request] /\ pc \in [Calls -> {"idle", "run", "done", "failed"}]
  /\ todo \in [Calls -> Seq(Statement)] /\ seen = [c \in Calls |-> seen[c]]
  /\ held \in [Calls -> [Urns -> Ids]]
  /\ put \in [Calls -> SUBSET Row] /\ cut \in [Calls -> SUBSET Row]
  /\ added \in [Calls -> SUBSET Urns] /\ dropped \in [Calls -> SUBSET Urns]
  /\ touched \in [Calls -> SUBSET Urns] /\ errors \in [Calls -> SUBSET Urns]
  /\ answer \in [Calls -> [Labels -> Nat]] /\ met \in [Calls -> SUBSET Calls]
  /\ steady \in [Calls -> SUBSET Row] /\ left \in [Calls -> SUBSET Row]
  /\ scans \in [Calls -> SUBSET Scan]
  /\ lastScan \in [Urns -> SUBSET [found : Findings \union {<<>>}, by : Calls]]

(* The statements a job of each kind is made of.                           *)
KindOps(kind) ==
  CASE kind = "label"    -> {"need", "put"}
    [] kind = "unlabel"  -> {"need", "remove"}
    [] kind = "drop"     -> {"need", "drop"}
    [] kind = "scan"     -> {"find", "remove", "put", "touch"}
    [] kind = "discover" -> {"upsert", "put", "sample", "remove", "touch"}
    [] kind = "resolve"  -> {"exact", "patterns", "labels"}

(* A put is of one label from one source, by hand just for a label job.    *)
PutOk(s, kind) ==
  \E l \in Labels, x \in DOMAIN Precedence :
    /\ s.labels = {l} /\ s.sources = {x} /\ s.level \in Levels
    /\ x = "manual" <=> kind = "label"
StmtOk(s, j) ==
  /\ s.op \in KindOps(j.kind)
  /\ s.op = "put" => PutOk(s, j.kind)
  /\ s.op = "remove" /\ j.kind # "unlabel" => s.sources = {"scan"} /\ s.labels = Labels
  /\ s.op \in {"upsert", "sample"} => s.found \in Findings
  /\ j.kind \in {"label", "unlabel", "drop", "scan"} => s.urn = j.urn

StmtsOk(t, j) == \A i \in DOMAIN t : StmtOk(t[i], j)

(* The statements of a scan are a block: the old rows go, the new ones     *)
(* come, label by label, and a touch of the asset ends it.                 *)
ScanPut(s)  == s.op = "put" /\ s.sources = {"scan"}
Scanning(s) == s.op = "remove" \/ ScanPut(s)
Ends(t, i, j) ==
  /\ j \in DOMAIN t /\ i <= j /\ t[j].op = "touch"
  /\ \A k \in i..(j - 1) : /\ Scanning(t[k]) /\ t[k].urn = t[j].urn
                           /\ ScanPut(t[k]) => \E l \in DOMAIN t[j].found : t[k].labels = {l}
                           /\ k # i => ScanPut(t[k])
Blocks(t) ==
  /\ \A i \in DOMAIN t : Scanning(t[i]) => \E j \in DOMAIN t : Ends(t, i, j)
  /\ \A i \in DOMAIN t : i > 1 /\ (ScanPut(t[i]) \/ t[i].op = "touch") => Scanning(t[i - 1])
  /\ \A i, j \in DOMAIN t : t[i].op = "remove" /\ Ends(t, i, j) =>
        \A l \in DOMAIN t[j].found : \E k \in (i + 1)..(j - 1) : t[k].labels = {l}

Touches(t, u) == \E i \in DOMAIN t : t[i].op = "touch" /\ t[i].urn = u

(* Nothing is written of an asset that was not looked up.                  *)
Looking == {"need", "find", "upsert"}
Looks(t, h) ==
  \A i \in DOMAIN t : t[i].op \in {"put", "remove", "touch", "sample", "drop"} =>
    \/ h[t[i].urn] # NONE
    \/ \E j \in 1..(i - 1) : t[j].op \in Looking /\ t[j].urn = t[i].urn

(* A resolution looks its assets up before it reads a label.               *)
Resolving(t) ==
  \A i, k \in DOMAIN t : i < k /\ t[i].op = "labels" => t[k].op = "labels"

(* What a SELECT saw is what the statement at hand is about.               *)
SeenOk(c) ==
  seen[c] # NONE =>
    /\ todo[c] # <<>> /\ Cur(c).op \in Looking \union {"put", "remove"}
    /\ Cur(c).op \in Looking => seen[c] = {held[c][Cur(c).urn]} \ {NONE}
    /\ Cur(c).op \in {"put", "remove"} =>
         /\ seen[c] \subseteq Row
         /\ \A r \in seen[c] : /\ r.urn = Cur(c).urn /\ r.of = held[c][Cur(c).urn]
                               /\ r.label \in Cur(c).labels /\ r.source \in Cur(c).sources

(* A session that is not open keeps nothing.                               *)
Closed(c) ==
  pc[c] # "run" =>
    /\ todo[c] = <<>> /\ seen[c] = NONE /\ put[c] = {} /\ cut[c] = {} /\ added[c] = {}
    /\ dropped[c] = {} /\ touched[c] = {} /\ errors[c] = {} /\ scans[c] = {}

Plan(c) ==
  /\ Closed(c) /\ StmtsOk(todo[c], job[c]) /\ (job[c].kind # "unlabel" => Blocks(todo[c]))
  /\ Looks(todo[c], held[c])
  /\ Resolving(todo[c]) /\ SeenOk(c)

----------------------------------------------------------------------------
(* Two calls under way have locked different rows and assets, neither has  *)
(* written under what the other deletes, and each knows of the other's     *)
(* scan.                                                                   *)
Reserved(c) == added[c] \union dropped[c] \union touched[c]
Apart(c, d) ==
  /\ \A r \in put[c] \union cut[c], o \in put[d] \union cut[d] : Key(r) # Key(o)
  /\ Reserved(c) \intersect Reserved(d) = {}
  /\ \A r \in put[c] : r.urn \notin dropped[d]
  /\ pc[c] = "run" /\ pc[d] = "run" /\ d \in Scanners => d \in met[c]

(* A call's writes fit the tables they are to be committed to.             *)
Pending(c) ==
  /\ cut[c] \subseteq rows
  /\ \A r \in put[c] : r.of = Asset(c, r.urn)
  /\ \A r, o \in put[c] : Key(o) = Key(r) => o = r
  /\ \A r \in put[c], o \in rows : Key(o) = Key(r) => o \in cut[c]
  /\ \A u \in added[c] : assets[u] = NONE
  /\ \A u \in dropped[c] : \A r \in rows : r.urn = u => r \in cut[c]
  /\ \A u \in touched[c] : Asset(c, u) # NONE
  /\ IF job[c].kind = "drop" THEN put[c] = {} /\ added[c] = {} /\ touched[c] = {}
     ELSE dropped[c] = {}
  /\ job[c].kind = "unlabel" => put[c] = {}

(* A scan row is written or deleted by a scan that will be, or is,         *)
(* recorded; a manual one is deleted by the call that is about it.         *)
Traced(c, u) == Touches(todo[c], u) \/ Rescanned(c, u) # {}
PutAccounted(c, r) == r.source = "scan" => c \in ScansOf(r.urn) /\ Traced(c, r.urn)
CutAccounted(c, r) ==
  /\ r.source = "scan" => Detached(c, r.urn) \/ Traced(c, r.urn)
  /\ r.source = "manual" => job[c].kind \in {"label", "unlabel", "drop"} /\ job[c].urn = r.urn
ScanAccounted(c, s) ==
  /\ c \in ScansOf(s.urn) /\ s.urn \in added[c] \union touched[c]
  /\ held[c][s.urn] = Asset(c, s.urn)
  /\ \A o \in scans[c] : o.urn = s.urn => o = s
Accounted(c) ==
  /\ \A r \in put[c] : PutAccounted(c, r)
  /\ \A r \in cut[c] : CutAccounted(c, r)
  /\ \A s \in scans[c] : ScanAccounted(c, s)

----------------------------------------------------------------------------
(* What a scan has done of an asset.  Alone, it leaves no scan row but its *)
(* own; another scan's may come in between, if one was under way.          *)
Alone(c, u) == met[c] \intersect ScansOf(u) = {}
Kept(c, u) == IF Alone(c, u) THEN put[c] ELSE put[c] \union left[c]
Foreign(c, u) == {r \in rows \ cut[c] : r.urn = u /\ r.source = "scan" /\ r.of = held[c][u]}

Cleared(c, u, found) ==
  /\ Alone(c, u) => Foreign(c, u) = {}
  /\ \A r \in put[c] : r.urn = u /\ r.source = "scan" => r.label \in DOMAIN found
Bears(c, u, l) == \E r \in Kept(c, u) : Shows(r, u, l, "scan")

(* In the middle of a block the old rows are gone, and every label found   *)
(* is on the asset or still to be put.                                     *)
InBlock(c) ==
  \A j \in DOMAIN todo[c] : Ends(todo[c], 1, j) /\ Cur(c).op # "remove" =>
    /\ Cleared(c, todo[c][j].urn, todo[c][j].found)
    /\ \A l \in DOMAIN todo[c][j].found :
         \/ \E k \in 1..(j - 1) : todo[c][k].labels = {l}
         \/ Bears(c, todo[c][j].urn, l)

(* After it, all of them are.                                              *)
AfterBlock(c) ==
  \A s \in scans[c] : ~Touches(todo[c], s.urn) =>
    /\ Cleared(c, s.urn, s.found)
    /\ \A l \in DOMAIN s.found : Bears(c, s.urn, l)

(* And the SELECT before the delete sees every row that is to go.          *)
SeesScans(c) ==
  c \in Scanners /\ todo[c] # <<>> /\ seen[c] # NONE =>
    /\ Cur(c).op = "remove" =>
         \A r \in VisibleRows(c) :
           /\ Alone(c, Cur(c).urn) \/ r \in put[c]
           /\ r.urn = Cur(c).urn /\ r.source = "scan" /\ r.of = held[c][Cur(c).urn]
           => \E o \in seen[c] : Same(r, o)
    /\ ScanPut(Cur(c)) /\ Alone(c, Cur(c).urn) => seen[c] \subseteq put[c]

(* Scan rows are put under the asset the call has loaded.                  *)
PutsHeld(c) == \A r \in put[c] : r.source = "scan" => held[c][r.urn] = r.of

(* The scans committed are one to an asset, by calls that are done, and    *)
(* stand in the tables.                                                    *)
LastScanOk ==
  /\ \A u \in Urns : \A s, o \in lastScan[u] : o = s
  /\ \A u \in Urns : \A s \in lastScan[u] : pc[s.by] = "done"
  /\ LastLabelsStand /\ StaleLabelsGo

----------------------------------------------------------------------------
(* Every asset a discovery run listed is still to be upserted, or what the *)
(* source asserts of it is written, found there or still to be put, and    *)
(* its scan made, in error or still due.                                   *)
Imports(s, u, l) == s.op = "put" /\ s.urn = u /\ s.labels = {l} /\ s.sources = {"imported"}
Asserted(c, u, l) ==
  \/ \E k \in DOMAIN todo[c] : Imports(todo[c][k], u, l)
  \/ \E r \in put[c] \union left[c] : Shows(r, u, l, "imported")
Sampling(c, u) == \E k \in DOMAIN todo[c] : todo[c][k].op = "sample" /\ todo[c][k].urn = u
ScanDue(c, u)  == u \in errors[c] \/ Traced(c, u) \/ Sampling(c, u)
Absorbed(c, a) ==
  (\A l \in a.imported : Asserted(c, a.urn, l)) /\ (a.scan => ScanDue(c, a.urn))
Whole(c) ==
  job[c].kind = "discover" /\ pc[c] = "run" =>
    \A i \in DOMAIN job[c].assets :
      \/ \E k \in DOMAIN todo[c] : todo[c][k] = upsert_asset(job[c].assets[i])
      \/ Absorbed(c, job[c].assets[i])

(* Every row that was there since a resolution began is in the answer or   *)
(* still to be read, from the asset it has loaded or is to load.           *)
Answered(c, r) ==
  answer[c][r.label] > 0 /\ (r.source = "manual" => answer[c][r.label] >= r.level)

Has(t, op) == \E i \in DOMAIN t : t[i].op = op
Reads(t, u) == \E i \in DOMAIN t : t[i].op = "labels" /\ t[i].urn = u
ToRead(c, r) ==
  /\ Reads(todo[c], r.urn)
  /\ \/ held[c][r.urn] = r.of
     \/ r.urn = job[c].urn /\ Has(todo[c], "exact")
     \/ r.urn \in Covering[job[c].urn] /\ Has(todo[c], "patterns")
Complete(c) ==
  job[c].kind = "resolve" /\ pc[c] \in {"run", "done"} =>
    /\ pc[c] = "run" => steady[c] \subseteq rows
    /\ \A r \in steady[c] : r.urn \in Covering[job[c].urn] \union {job[c].urn} =>
         Answered(c, r) \/ ToRead(c, r)
    /\ \A i \in DOMAIN todo[c] : todo[c][i].op \in {"exact", "patterns"} => todo[c][i].urn = job[c].urn

----------------------------------------------------------------------------
(* Finite sets, sequences and jobs as statements.                          *)

(* A nonempty set of numbers has a least.                                  *)
LEMMA LeastOf ==
  ASSUME NEW T \in SUBSET Nat, T # {}
  PROVE  \E n \in T : \A m \in T : n <= m
<1>1. PICK n \in T : \A m \in T : ~ (<<m, n>> \in OpToRel(<, Nat))
  BY NatLessThanWellFounded, WFMin
<1>2. \A m \in T : ~ (m < n)
  BY <1>1 DEF OpToRel
<1> QED BY <1>2

(* A finite set of numbers has a greatest.                                 *)
LEMMA Bounded ==
  ASSUME NEW S \in SUBSET Nat, IsFiniteSet(S)
  PROVE  \E b \in Nat : \A s \in S : s <= b
<1>1. PICK n \in Nat : \E f : f \in Bijection(1 .. n, S)
  <2>1. PICK n \in Nat : ExistsBijection(1 .. n, S)
    BY FS_NatBijection
  <2> QED
    BY <2>1 DEF ExistsBijection
<1>a. PICK f : f \in Bijection(1 .. n, S)
  BY <1>1
<1>2. /\ f \in [1 .. n -> Nat] /\ \A i \in 1 .. n : f[i] \in Nat
      /\ \A s \in S : \E i \in 1 .. n : f[i] = s
  BY <1>a DEF Bijection, Injection, Surjection
<1> DEFINE Fails == {k \in Nat : k <= n /\ \A b \in Nat : \E i \in 1 .. k : ~ (f[i] <= b)}
<1> SUFFICES ASSUME Fails # {} PROVE FALSE
  <2>1. n \notin Fails
    OBVIOUS
  <2>2. PICK b \in Nat : \A i \in 1 .. n : f[i] <= b
    BY <2>1
  <2> QED
    BY <1>2, <2>2
<1>3. PICK k \in Fails : \A m \in Fails : k <= m
  BY LeastOf
<1>4. k \in Nat /\ k <= n /\ k # 0 /\ ~ (\E b \in Nat : \A i \in 1 .. k : f[i] <= b)
  OBVIOUS
<1>5. k - 1 \in Nat /\ k - 1 <= n /\ k - 1 \notin Fails
  <2>1. k - 1 \in Nat /\ k - 1 <= n /\ ~ (k <= k - 1)
    BY <1>4
  <2> HIDE DEF Fails
  <2> QED
    BY <1>3, <2>1
<1>6. PICK b \in Nat : \A i \in 1 .. (k - 1) : f[i] <= b
  BY <1>5
<1> HIDE DEF Fails
<1>7. k \in 1 .. n /\ f[k] \in Nat
  BY <1>2, <1>4
<1>8. PICK c \in Nat : b <= c /\ f[k] <= c
  BY <1>7
<1>9. ASSUME NEW i \in 1 .. k PROVE f[i] <= c
  <2>1. CASE i = k
    BY <1>8, <2>1
  <2>2. CASE i # k
    <3>1. i \in 1 .. (k - 1) /\ i \in 1 .. n
      BY <1>4, <2>2
    <3>2. f[i] <= b /\ f[i] \in Nat
      BY <1>2, <1>6, <3>1
    <3> QED
      BY <1>8, <3>2
  <2> QED
    BY <2>1, <2>2
<1> QED
  BY <1>4, <1>9

(* A finite nonempty set of numbers has a greatest.                        *)
LEMMA GreatestOf ==
  ASSUME NEW S \in SUBSET Nat, IsFiniteSet(S), S # {}
  PROVE  \E m \in S : \A s \in S : s <= m
<1> DEFINE Above == {b \in Nat : \A s \in S : s <= b}
<1>1. PICK b \in Above : \A a \in Above : b <= a
  <2>1. Above # {}
    BY Bounded
  <2> HIDE DEF Above
  <2>2. Above \in SUBSET Nat
    BY DEF Above
  <2> QED
    BY <2>1, <2>2, LeastOf
<1>2. SUFFICES ASSUME b \notin S PROVE FALSE
  BY <1>1
<1>3. b \in Nat /\ \A s \in S : s \in Nat /\ s <= b /\ s # b
  BY <1>1, <1>2
<1>4. PICK s \in S : s \in Nat /\ s <= b /\ s # b
  BY <1>3
<1>5. b - 1 \in Nat /\ \A x \in S : x <= b - 1
  BY <1>3, <1>4
<1>6. b - 1 \in Above
  BY <1>5
<1>7. b <= b - 1
  BY <1>1, <1>6
<1> QED
  BY <1>3, <1>7

(* An order of iterating a finite set goes through all of it once.         *)
LEMMA InOrder ==
  ASSUME NEW S, IsFiniteSet(S)
  PROVE  /\ SetToSeq(S) \in Seq(S) /\ DOMAIN SetToSeq(S) = 1 .. Len(SetToSeq(S))
         /\ \A s \in S : \E i \in DOMAIN SetToSeq(S) : SetToSeq(S)[i] = s
<1>1. PICK f : f \in Bijection(1 .. Cardinality(S), S)
  BY FS_CardinalityType DEF ExistsBijection
<1>2. Cardinality(S) \in Nat
  BY FS_CardinalityType
<1> DEFINE n == Cardinality(S)
           g == SetToSeq(S)
<1>3. f \in [1 .. n -> S] /\ IsInjective(f)
  BY <1>1 DEF Bijection, Injection, IsInjective
<1>4. g \in [1 .. n -> S] /\ IsInjective(g)
  BY <1>3 DEF SetToSeq
<1> HIDE DEF g
<1>5. g \in Seq(S) /\ DOMAIN g = 1 .. Len(g) /\ Len(g) = n
  BY <1>2, <1>4
<1>6. \A s \in S : \E i \in DOMAIN g : g[i] = s
  <2>1. g \in Injection(1 .. n, S)
    BY <1>4 DEF Injection, IsInjective
  <2>2. IsFiniteSet(1 .. n) /\ Cardinality(1 .. n) = n
    BY <1>2, FS_Interval
  <2>3. g \in Surjection(1 .. n, S)
    BY <2>1, <2>2, FS_Injection
  <2> QED
    BY <1>4, <2>3 DEF Surjection
<1> QED
  BY <1>5, <1>6 DEF g

(* A statement for each member of a finite set, and no other.              *)
LEMMA ForEachOf ==
  ASSUME NEW D, IsFiniteSet(D), NEW S, NEW f \in [D -> S]
  PROVE  /\ ForEach(f) \in Seq(S)
         /\ \A i \in DOMAIN ForEach(f) : \E x \in D : ForEach(f)[i] = f[x]
         /\ \A x \in D : \E i \in DOMAIN ForEach(f) : ForEach(f)[i] = f[x]
<1> DEFINE g == SetToSeq(D)
<1>1. g \in Seq(D) /\ DOMAIN g = 1 .. Len(g) /\ \A x \in D : \E i \in DOMAIN g : g[i] = x
  BY InOrder
<1>2. ForEach(f) = [i \in DOMAIN g |-> f[g[i]]]
  BY DEF ForEach
<1> HIDE DEF g
<1>3. Len(g) \in Nat /\ \A i \in DOMAIN g : g[i] \in D
  BY <1>1
<1>4. ForEach(f) \in [1 .. Len(g) -> S]
  BY <1>1, <1>2, <1>3
<1> QED
  BY <1>1, <1>2, <1>3, <1>4

(* A concatenation, index by index.                                        *)
LEMMA ConcatAt ==
  ASSUME NEW S, NEW s \in Seq(S), NEW t \in Seq(S)
  PROVE  /\ s \o t \in Seq(S) /\ Len(s \o t) = Len(s) + Len(t) /\ Len(s) \in Nat /\ Len(t) \in Nat
         /\ DOMAIN s = 1 .. Len(s) /\ DOMAIN t = 1 .. Len(t)
         /\ DOMAIN (s \o t) = 1 .. (Len(s) + Len(t))
         /\ \A i \in 1 .. Len(s) : (s \o t)[i] = s[i]
         /\ \A i \in 1 .. Len(t) : (s \o t)[Len(s) + i] = t[i]
         /\ \A i \in 1 .. (Len(s) + Len(t)) : i \in 1 .. Len(s) \/ i - Len(s) \in 1 .. Len(t)
         /\ \A i \in 1 .. (Len(s) + Len(t)) : i \notin 1 .. Len(s) => (s \o t)[i] = t[i - Len(s)]
OBVIOUS

(* A tail, index by index.                                                 *)
LEMMA TailAt ==
  ASSUME NEW S, NEW t \in Seq(S), t # <<>>
  PROVE  /\ Tail(t) \in Seq(S) /\ Len(t) \in Nat /\ Len(t) >= 1 /\ DOMAIN t = 1 .. Len(t)
         /\ DOMAIN Tail(t) = 1 .. (Len(t) - 1) /\ Head(t) = t[1] /\ 1 \in DOMAIN t /\ t[1] \in S
         /\ \A i \in DOMAIN Tail(t) : i + 1 \in DOMAIN t /\ Tail(t)[i] = t[i + 1]
         /\ \A i \in DOMAIN t : i # 1 => i - 1 \in DOMAIN Tail(t) /\ t[i] = Tail(t)[i - 1]
OBVIOUS

(* What holds of some statement after the first holds of one of the rest.  *)
LEMMA StmtsTail ==
  ASSUME NEW t \in Seq(Statement), t # <<>>, NEW j, StmtsOk(t, j)
  PROVE  StmtsOk(Tail(t), j) /\ StmtOk(t[1], j)
BY TailAt DEF StmtsOk

(* Two lists of statements a job may have are one.                         *)
LEMMA StmtsConcat ==
  ASSUME NEW s \in Seq(Statement), NEW t \in Seq(Statement), NEW j, StmtsOk(s, j), StmtsOk(t, j)
  PROVE  StmtsOk(s \o t, j)
BY ConcatAt DEF StmtsOk

(* The reads of labels stay last.                                          *)
LEMMA ResolvingTail ==
  ASSUME NEW t \in Seq(Statement), t # <<>>, Resolving(t)
  PROVE  Resolving(Tail(t))
<1> SUFFICES ASSUME NEW i \in DOMAIN Tail(t), NEW k \in DOMAIN Tail(t), i < k,
                    Tail(t)[i].op = "labels"
             PROVE  Tail(t)[k].op = "labels"
  BY DEF Resolving
<1>1. i + 1 \in DOMAIN t /\ k + 1 \in DOMAIN t /\ Tail(t)[i] = t[i + 1] /\ Tail(t)[k] = t[k + 1]
  BY TailAt
<1>2. i + 1 < k + 1
  BY TailAt
<1> QED
  BY <1>1, <1>2 DEF Resolving

----------------------------------------------------------------------------
NotMid(t) == t # <<>> => ~ScanPut(t[1]) /\ t[1].op # "touch"

(* Blocks that overlap end together.                                       *)
LEMMA EndsUnique ==
  ASSUME NEW t \in Seq(Statement), NEW i \in Nat, NEW k \in Nat, NEW j \in Nat, NEW m \in Nat,
         Ends(t, i, j), Ends(t, k, m), i <= k, k <= j
  PROVE  j = m
<1>1. t[j].op = "touch" /\ t[m].op = "touch" /\ k <= m
  BY DEF Ends
<1>2. ~Scanning(t[j]) /\ ~Scanning(t[m])
  BY <1>1 DEF Scanning, ScanPut
<1>3. ~ (j < m)
  <2> SUFFICES ASSUME j < m PROVE FALSE
    OBVIOUS
  <2>1. j \in k .. (m - 1)
    OBVIOUS
  <2> QED
    BY <1>2, <2>1 DEF Ends
<1>4. ~ (m < j)
  <2> SUFFICES ASSUME m < j PROVE FALSE
    OBVIOUS
  <2>1. m \in i .. (j - 1)
    BY <1>1
  <2> QED
    BY <1>2, <2>1 DEF Ends
<1> QED
  BY <1>3, <1>4

(* A block of the tail is a block, one further on.                         *)
LEMMA EndsTail ==
  ASSUME NEW t \in Seq(Statement), t # <<>>, NEW i \in DOMAIN Tail(t), NEW j \in DOMAIN Tail(t)
  PROVE  Ends(Tail(t), i, j) <=> Ends(t, i + 1, j + 1)
<1>0. /\ i \in Nat /\ j \in Nat /\ i >= 1 /\ j <= Len(t) - 1 /\ Len(t) \in Nat
      /\ i + 1 \in DOMAIN t /\ j + 1 \in DOMAIN t /\ Tail(t)[j] = t[j + 1]
  BY TailAt
<1>1. ASSUME NEW k \in i .. (j - 1)
      PROVE  k + 1 \in (i + 1) .. ((j + 1) - 1) /\ Tail(t)[k] = t[k + 1] /\ (k # i <=> k + 1 # i + 1)
  <2>1. k \in DOMAIN Tail(t)
    BY <1>0, TailAt
  <2> QED
    BY <1>0, <2>1, TailAt
<1>2. ASSUME NEW k \in (i + 1) .. ((j + 1) - 1)
      PROVE  k - 1 \in i .. (j - 1) /\ Tail(t)[k - 1] = t[k] /\ (k # i + 1 <=> k - 1 # i)
  <2>1. k \in DOMAIN t /\ k # 1
    BY <1>0, TailAt
  <2> QED
    BY <1>0, <2>1, TailAt
<1>3. ASSUME Ends(Tail(t), i, j) PROVE Ends(t, i + 1, j + 1)
  <2>1. i <= j /\ i + 1 <= j + 1 /\ t[j + 1].op = "touch"
    BY <1>0, <1>3 DEF Ends
  <2> SUFFICES ASSUME NEW k \in (i + 1) .. ((j + 1) - 1)
               PROVE  /\ Scanning(t[k]) /\ t[k].urn = t[j + 1].urn
                      /\ ScanPut(t[k]) => \E l \in DOMAIN t[j + 1].found : t[k].labels = {l}
                      /\ k # i + 1 => ScanPut(t[k])
    BY <1>0, <2>1 DEF Ends
  <2>2. k - 1 \in i .. (j - 1) /\ Tail(t)[k - 1] = t[k] /\ (k # i + 1 <=> k - 1 # i)
    BY <1>2
  <2> QED
    BY <1>0, <1>3, <2>2 DEF Ends
<1>4. ASSUME Ends(t, i + 1, j + 1) PROVE Ends(Tail(t), i, j)
  BY <1>0, <1>1, <1>4 DEF Ends
<1> QED
  BY <1>3, <1>4

(* A block reaches from each of its statements to the same touch.          *)
LEMMA EndsNext ==
  ASSUME NEW t \in Seq(Statement), Blocks(t), NEW i \in DOMAIN t, i + 1 \in DOMAIN t,
         Scanning(t[i])
  PROVE  \A j \in DOMAIN t : Ends(t, i, j) <=> Ends(t, i + 1, j)
<1>0. i \in Nat /\ DOMAIN t \subseteq Nat
  OBVIOUS
<1>1. PICK m \in DOMAIN t : Ends(t, i, m)
  BY DEF Blocks
<1>2. t[m].op = "touch" /\ i <= m /\ m # i
  BY <1>1 DEF Ends, Scanning, ScanPut
<1>3. i + 1 <= m
  BY <1>0, <1>2
<1>4. \A k \in (i + 1) .. (m - 1) : k \in i .. (m - 1) /\ k # i
  BY <1>0
<1>5. Ends(t, i + 1, m)
  <2> SUFFICES ASSUME NEW k \in (i + 1) .. (m - 1)
               PROVE  /\ Scanning(t[k]) /\ t[k].urn = t[m].urn
                      /\ ScanPut(t[k]) => \E l \in DOMAIN t[m].found : t[k].labels = {l}
                      /\ ScanPut(t[k])
    BY <1>2, <1>3 DEF Ends
  <2> QED
    BY <1>1, <1>4 DEF Ends
<1>6. ASSUME NEW j \in DOMAIN t, Ends(t, i, j) PROVE j = m
  BY <1>0, <1>1, <1>2, <1>6, EndsUnique
<1>7. ASSUME NEW j \in DOMAIN t, Ends(t, i + 1, j) PROVE j = m
  <2>1. i + 1 \in Nat /\ j \in Nat /\ m \in Nat /\ i + 1 <= i + 1
    BY <1>0
  <2> QED
    BY <2>1, <1>3, <1>5, <1>7, EndsUnique
<1> QED
  BY <1>1, <1>5, <1>6, <1>7

(* Every label that was found is put between the removal and the end.      *)
Filled(t, i, j) == \A l \in DOMAIN t[j].found : \E k \in (i + 1) .. (j - 1) : t[k].labels = {l}

LEMMA BlocksFilled ==
  ASSUME NEW t, Blocks(t), NEW i \in DOMAIN t, NEW j \in DOMAIN t, t[i].op = "remove", Ends(t, i, j)
  PROVE  Filled(t, i, j)
BY DEF Blocks, Filled

(* Without its first statement a list is still in blocks, and its first is *)
(* in the middle of none unless the one before was of a block.             *)
LEMMA BlocksTail ==
  ASSUME NEW t \in Seq(Statement), t # <<>>, Blocks(t)
  PROVE  Blocks(Tail(t)) /\ (~Scanning(t[1]) => NotMid(Tail(t)))
<1> DEFINE u == Tail(t)
<1>0. /\ u \in Seq(Statement) /\ Len(t) \in Nat /\ DOMAIN t = 1 .. Len(t) /\ DOMAIN u = 1 .. (Len(t) - 1)
      /\ \A i \in DOMAIN u : i + 1 \in DOMAIN t /\ u[i] = t[i + 1]
      /\ \A i \in DOMAIN t : i # 1 => i - 1 \in DOMAIN u /\ t[i] = u[i - 1]
  BY TailAt
<1>1. \A i, j \in DOMAIN u : Ends(u, i, j) <=> Ends(t, i + 1, j + 1)
  BY EndsTail
<1> HIDE DEF u
<1>2. ASSUME NEW i \in DOMAIN u, Scanning(u[i]) PROVE \E j \in DOMAIN u : Ends(u, i, j)
  <2>1. PICK m \in DOMAIN t : Ends(t, i + 1, m)
    BY <1>0, <1>2 DEF Blocks
  <2>2. m # 1 /\ i + 1 <= m
    BY <1>0, <2>1 DEF Ends
  <2>3. m - 1 \in DOMAIN u /\ (m - 1) + 1 = m
    BY <1>0, <2>2
  <2> QED
    BY <1>1, <2>1, <2>3
<1>3. ASSUME NEW i \in DOMAIN u, i > 1, ScanPut(u[i]) \/ u[i].op = "touch"
      PROVE  Scanning(u[i - 1])
  <2>1. i - 1 \in DOMAIN u /\ (i - 1) + 1 = i /\ i + 1 \in DOMAIN t /\ (i + 1) - 1 = i /\ i + 1 > 1
    BY <1>0, <1>3
  <2>2. u[i] = t[i + 1] /\ u[i - 1] = t[i]
    BY <1>0, <2>1
  <2> QED
    BY <1>3, <2>1, <2>2 DEF Blocks
<1>4. ASSUME NEW i \in DOMAIN u, NEW j \in DOMAIN u, u[i].op = "remove", Ends(u, i, j),
             NEW l \in DOMAIN u[j].found
      PROVE  \E k \in (i + 1) .. (j - 1) : u[k].labels = {l}
  <2>1. /\ i + 1 \in DOMAIN t /\ j + 1 \in DOMAIN t /\ u[i] = t[i + 1] /\ u[j] = t[j + 1]
        /\ Ends(t, i + 1, j + 1)
    BY <1>0, <1>1, <1>4
  <2>2. PICK k \in ((i + 1) + 1) .. ((j + 1) - 1) : t[k].labels = {l}
    <3>1. t[i + 1].op = "remove" /\ l \in DOMAIN t[j + 1].found
      BY <1>4, <2>1
    <3>2. Filled(t, i + 1, j + 1)
      BY <2>1, <3>1, BlocksFilled
    <3> QED
      BY <3>1, <3>2 DEF Filled
  <2>3. k \in DOMAIN t /\ k # 1 /\ k - 1 \in (i + 1) .. (j - 1)
    BY <1>0, <2>1, <2>2
  <2> QED
    BY <1>0, <2>2, <2>3
<1>5. ASSUME ~Scanning(t[1]), u # <<>>, ScanPut(u[1]) \/ u[1].op = "touch" PROVE FALSE
  <2>1. 1 \in DOMAIN u /\ 2 \in DOMAIN t /\ u[1] = t[2]
    <3>1. 1 \in DOMAIN u
      BY <1>0, <1>5
    <3>2. 1 + 1 \in DOMAIN t /\ u[1] = t[1 + 1]
      BY <1>0, <3>1
    <3> QED
      BY <3>1, <3>2
  <2>2. Scanning(t[2 - 1])
    BY <1>5, <2>1 DEF Blocks
  <2> QED
    BY <1>5, <2>2
<1> QED
  BY <1>2, <1>3, <1>4, <1>5 DEF Blocks, NotMid, u

(* Once the asset is loaded, what follows has been looked up.              *)
LEMMA LooksTail ==
  ASSUME NEW t \in Seq(Statement), t # <<>>, NEW h, Looks(t, h),
         t[1].op \in Looking => h[t[1].urn] # NONE
  PROVE  Looks(Tail(t), h)
<1> SUFFICES ASSUME NEW i \in DOMAIN Tail(t),
                    Tail(t)[i].op \in {"put", "remove", "touch", "sample", "drop"},
                    h[Tail(t)[i].urn] = NONE
             PROVE  \E j \in 1 .. (i - 1) : Tail(t)[j].op \in Looking /\ Tail(t)[j].urn = Tail(t)[i].urn
  BY DEF Looks
<1>1. i + 1 \in DOMAIN t /\ Tail(t)[i] = t[i + 1] /\ i \in Nat
  BY TailAt
<1>2. PICK j \in 1 .. ((i + 1) - 1) : t[j].op \in Looking /\ t[j].urn = t[i + 1].urn
  BY <1>1 DEF Looks
<1>3. j # 1
  BY <1>1, <1>2
<1>4. j - 1 \in 1 .. (i - 1) /\ j \in DOMAIN t
  BY <1>1, <1>2, <1>3, TailAt
<1>5. Tail(t)[j - 1] = t[j]
  BY <1>3, <1>4, TailAt
<1> QED
  BY <1>1, <1>2, <1>4, <1>5

(* Statements about loaded assets may come first.                          *)
LEMMA LooksConcat ==
  ASSUME NEW s \in Seq(Statement), NEW t \in Seq(Statement), NEW h, Looks(t, h),
         \A i \in DOMAIN s : h[s[i].urn] # NONE
  PROVE  Looks(s \o t, h)
<1> DEFINE v == s \o t
<1>0. /\ Len(s) \in Nat /\ Len(t) \in Nat /\ DOMAIN s = 1 .. Len(s) /\ DOMAIN t = 1 .. Len(t)
      /\ DOMAIN v = 1 .. (Len(s) + Len(t))
      /\ \A i \in 1 .. Len(s) : v[i] = s[i]
      /\ \A i \in 1 .. Len(t) : v[Len(s) + i] = t[i]
      /\ \A i \in DOMAIN v : i \notin 1 .. Len(s) => i - Len(s) \in 1 .. Len(t) /\ v[i] = t[i - Len(s)]
  BY ConcatAt
<1> HIDE DEF v
<1> SUFFICES ASSUME NEW i \in DOMAIN v, v[i].op \in {"put", "remove", "touch", "sample", "drop"},
                    h[v[i].urn] = NONE
             PROVE  \E j \in 1 .. (i - 1) : v[j].op \in Looking /\ v[j].urn = v[i].urn
  BY DEF Looks, v
<1>1. i \in Nat /\ i \notin 1 .. Len(s) /\ i - Len(s) \in 1 .. Len(t) /\ v[i] = t[i - Len(s)]
  BY <1>0
<1>. PICK k : k = i - Len(s)
  OBVIOUS
<1>2. k \in DOMAIN t /\ v[i] = t[k]
  BY <1>0, <1>1
<1>3. PICK j \in 1 .. (k - 1) : t[j].op \in Looking /\ t[j].urn = v[i].urn
  BY <1>2 DEF Looks
<1>4. j \in 1 .. Len(t) /\ Len(s) + j \in 1 .. (i - 1)
  BY <1>0, <1>1, <1>2, <1>3
<1> QED
  BY <1>0, <1>3, <1>4

(* A block is one in a longer list.                                        *)
LEMMA EndsConcat ==
  ASSUME NEW s \in Seq(Statement), NEW t \in Seq(Statement)
  PROVE  /\ \A i, j \in DOMAIN s : Ends(s, i, j) => Ends(s \o t, i, j)
         /\ \A i, j \in DOMAIN t : Ends(s \o t, Len(s) + i, Len(s) + j) <=> Ends(t, i, j)
<1> DEFINE v == s \o t
           n == Len(s)
<1>0. /\ n \in Nat /\ Len(t) \in Nat /\ DOMAIN s = 1 .. n /\ DOMAIN t = 1 .. Len(t)
      /\ DOMAIN v = 1 .. (n + Len(t))
      /\ \A i \in 1 .. n : v[i] = s[i]
      /\ \A i \in 1 .. Len(t) : v[n + i] = t[i]
  BY ConcatAt
<1> HIDE DEF v, n
<1>1. ASSUME NEW i \in DOMAIN s, NEW j \in DOMAIN s, Ends(s, i, j) PROVE Ends(v, i, j)
  <2>1. j \in DOMAIN v /\ v[j] = s[j] /\ i <= j /\ s[j].op = "touch"
    BY <1>0, <1>1 DEF Ends
  <2>2. \A k \in i .. (j - 1) : v[k] = s[k]
    BY <1>0
  <2> QED
    BY <1>1, <2>1, <2>2 DEF Ends
<1>2. ASSUME NEW i \in DOMAIN t, NEW j \in DOMAIN t
      PROVE  Ends(v, n + i, n + j) <=> Ends(t, i, j)
  <2>0. i \in Nat /\ j \in Nat /\ n + j \in DOMAIN v /\ v[n + j] = t[j] /\ (n + i <= n + j <=> i <= j)
    BY <1>0
  <2>a. n \in Nat /\ Len(t) \in Nat /\ i \in 1 .. Len(t) /\ j \in 1 .. Len(t)
    BY <1>0
  <2>1. \A k \in i .. (j - 1) : n + k \in (n + i) .. ((n + j) - 1) /\ v[n + k] = t[k] /\ (n + k # n + i <=> k # i)
    <3> SUFFICES ASSUME NEW k \in i .. (j - 1)
                 PROVE  n + k \in (n + i) .. ((n + j) - 1) /\ v[n + k] = t[k] /\ (n + k # n + i <=> k # i)
      OBVIOUS
    <3>1. k \in 1 .. Len(t) /\ n + k \in (n + i) .. ((n + j) - 1) /\ (n + k # n + i <=> k # i)
      BY <2>a
    <3> QED
      BY <1>0, <3>1
  <2>2. \A k \in (n + i) .. ((n + j) - 1) : k - n \in i .. (j - 1) /\ v[k] = t[k - n] /\ (k # n + i <=> k - n # i)
    <3> SUFFICES ASSUME NEW k \in (n + i) .. ((n + j) - 1)
                 PROVE  k - n \in i .. (j - 1) /\ v[k] = t[k - n] /\ (k # n + i <=> k - n # i)
      OBVIOUS
    <3>1. k - n \in i .. (j - 1) /\ (k # n + i <=> k - n # i) /\ n + (k - n) = k
      BY <1>0, <2>0
    <3> QED
      BY <2>1, <3>1
  <2>3. ASSUME Ends(v, n + i, n + j) PROVE Ends(t, i, j)
    <3>1. j \in DOMAIN t /\ i <= j /\ t[j].op = "touch"
      BY <2>0, <2>3 DEF Ends
    <3> SUFFICES ASSUME NEW k \in i .. (j - 1)
                 PROVE  /\ Scanning(t[k]) /\ t[k].urn = t[j].urn
                        /\ ScanPut(t[k]) => \E l \in DOMAIN t[j].found : t[k].labels = {l}
                        /\ k # i => ScanPut(t[k])
      BY <3>1 DEF Ends
    <3>2. n + k \in (n + i) .. ((n + j) - 1) /\ v[n + k] = t[k] /\ (n + k # n + i <=> k # i)
      BY <2>1
    <3> QED
      BY <2>0, <2>3, <3>2 DEF Ends
  <2>4. ASSUME Ends(t, i, j) PROVE Ends(v, n + i, n + j)
    <3>1. n + j \in DOMAIN v /\ n + i <= n + j /\ v[n + j].op = "touch"
      BY <2>0, <2>4 DEF Ends
    <3> SUFFICES ASSUME NEW k \in (n + i) .. ((n + j) - 1)
                 PROVE  /\ Scanning(v[k]) /\ v[k].urn = v[n + j].urn
                        /\ ScanPut(v[k]) => \E l \in DOMAIN v[n + j].found : v[k].labels = {l}
                        /\ k # n + i => ScanPut(v[k])
      BY <3>1 DEF Ends
    <3>2. k - n \in i .. (j - 1) /\ v[k] = t[k - n] /\ (k # n + i <=> k - n # i)
      BY <2>2
    <3> QED
      BY <2>0, <2>4, <3>2 DEF Ends
  <2> QED
    BY <2>3, <2>4
<1> QED
  BY <1>0, <1>1, <1>2 DEF v, n

(* Places of the second of two lists.                                      *)
LEMMA Shifted ==
  ASSUME NEW n \in Nat, NEW m \in Nat, NEW i \in Nat, NEW j \in Nat, i - n \in 1 .. m, j - n \in 1 .. m,
         NEW k \in ((i - n) + 1) .. ((j - n) - 1)
  PROVE  k \in 1 .. m /\ n + k \in (i + 1) .. (j - 1)
OBVIOUS

(* Lists in blocks make a list in blocks.                                  *)
LEMMA BlocksConcat ==
  ASSUME NEW s \in Seq(Statement), NEW t \in Seq(Statement), Blocks(s), Blocks(t), NotMid(t)
  PROVE  Blocks(s \o t)
<1> DEFINE v == s \o t
           n == Len(s)
<1>0. /\ n \in Nat /\ Len(t) \in Nat /\ DOMAIN s = 1 .. n /\ DOMAIN t = 1 .. Len(t) /\ v \in Seq(Statement)
      /\ DOMAIN v = 1 .. (n + Len(t))
      /\ \A i \in DOMAIN s : i \in DOMAIN v /\ v[i] = s[i]
      /\ \A i \in DOMAIN t : n + i \in DOMAIN v /\ v[n + i] = t[i]
  BY ConcatAt
<1>a. n \in Nat /\ Len(t) \in Nat /\ DOMAIN t = 1 .. Len(t) /\ DOMAIN v = 1 .. (n + Len(t))
  BY <1>0
<1>1. /\ \A i, j \in DOMAIN s : Ends(s, i, j) => Ends(v, i, j)
      /\ \A i, j \in DOMAIN t : Ends(v, n + i, n + j) <=> Ends(t, i, j)
  BY EndsConcat
<1> HIDE DEF v, n
<1>2. ASSUME NEW i \in DOMAIN v, i \notin DOMAIN s PROVE i - n \in DOMAIN t /\ n + (i - n) = i
  BY <1>0, <1>2
<1>3. ASSUME NEW i \in DOMAIN v, Scanning(v[i]) PROVE \E j \in DOMAIN v : Ends(v, i, j)
  <2>1. CASE i \in DOMAIN s
    BY <1>0, <1>1, <1>3, <2>1 DEF Blocks
  <2>2. CASE i \notin DOMAIN s
    <3>1. i - n \in DOMAIN t /\ n + (i - n) = i
      BY <1>2, <2>2
    <3>2. PICK j \in DOMAIN t : Ends(t, i - n, j)
      BY <1>0, <1>3, <3>1 DEF Blocks
    <3> QED
      BY <1>0, <1>1, <3>1, <3>2
  <2> QED
    BY <2>1, <2>2
<1>4. ASSUME NEW i \in DOMAIN v, i > 1, ScanPut(v[i]) \/ v[i].op = "touch" PROVE Scanning(v[i - 1])
  <2>1. CASE i \in DOMAIN s
    <3>1. i - 1 \in DOMAIN s
      BY <1>0, <1>4, <2>1
    <3> QED
      BY <1>0, <1>4, <2>1, <3>1 DEF Blocks
  <2>2. CASE i \notin DOMAIN s
    <3>1. i - n \in DOMAIN t /\ n + (i - n) = i
      BY <1>2, <2>2
    <3>2. v[i] = t[i - n]
      BY <1>0, <3>1
    <3>3. i - n # 1
      <4> SUFFICES ASSUME i - n = 1 PROVE FALSE
        OBVIOUS
      <4>1. t # <<>> /\ v[i] = t[1]
        BY <3>1, <3>2
      <4> QED
        BY <1>4, <4>1 DEF NotMid
    <3>4. i - n > 1 /\ (i - n) - 1 \in DOMAIN t /\ n + ((i - n) - 1) = i - 1
      BY <1>0, <3>1, <3>3
    <3>5. Scanning(t[(i - n) - 1])
      BY <1>4, <3>1, <3>2, <3>4 DEF Blocks
    <3> QED
      BY <1>0, <3>4, <3>5
  <2> QED
    BY <2>1, <2>2
<1>5. ASSUME NEW i \in DOMAIN v, NEW j \in DOMAIN v, v[i].op = "remove", Ends(v, i, j),
             NEW l \in DOMAIN v[j].found
      PROVE  \E k \in (i + 1) .. (j - 1) : v[k].labels = {l}
  <2>1. CASE i \in DOMAIN s
    <3>1. PICK m \in DOMAIN s : Ends(s, i, m)
      BY <1>0, <1>5, <2>1 DEF Blocks, Scanning
    <3>2. Ends(v, i, m) /\ m \in DOMAIN v
      BY <1>0, <1>1, <2>1, <3>1
    <3>3. i \in Nat /\ j \in Nat /\ m \in Nat /\ i <= m
      BY <1>0, <3>1, <3>2 DEF Ends
    <3>4. j = m
      BY <1>0, <1>5, <3>2, <3>3, EndsUnique
    <3>5. v[j] = s[j] /\ v[i] = s[i]
      BY <1>0, <2>1, <3>1, <3>4
    <3>6. PICK k \in (i + 1) .. (m - 1) : s[k].labels = {l}
      <4>1. s[i].op = "remove" /\ l \in DOMAIN s[m].found
        BY <1>5, <3>4, <3>5
      <4>2. Filled(s, i, m)
        BY <2>1, <3>1, <4>1, BlocksFilled
      <4> QED
        BY <4>1, <4>2 DEF Filled
    <3>7. k \in DOMAIN s /\ k \in (i + 1) .. (j - 1)
      BY <1>0, <2>1, <3>1, <3>4
    <3> QED
      BY <1>0, <3>6, <3>7
  <2>2. CASE i \notin DOMAIN s
    <3>1. i - n \in DOMAIN t /\ n + (i - n) = i
      BY <1>2, <2>2
    <3>2. i <= j
      BY <1>5 DEF Ends
    <3>3. j \notin DOMAIN s
      BY <1>0, <2>2, <3>2
    <3>4. j - n \in DOMAIN t /\ n + (j - n) = j
      BY <1>2, <3>3
    <3>5. v[i] = t[i - n] /\ v[j] = t[j - n] /\ Ends(t, i - n, j - n)
      <4>1. v[n + (i - n)] = t[i - n] /\ v[n + (j - n)] = t[j - n]
        BY <1>0, <3>1, <3>4
      <4>2. PICK a \in DOMAIN t, b \in DOMAIN t : a = i - n /\ b = j - n
        BY <3>1, <3>4
      <4>3. Ends(v, n + a, n + b) <=> Ends(t, a, b)
        BY <1>1
      <4> QED
        BY <1>5, <3>1, <3>4, <4>1, <4>2, <4>3
    <3>6. PICK k \in ((i - n) + 1) .. ((j - n) - 1) : t[k].labels = {l}
      <4>1. t[i - n].op = "remove" /\ l \in DOMAIN t[j - n].found
        BY <1>5, <3>5
      <4>2. Filled(t, i - n, j - n)
        BY <3>1, <3>4, <3>5, <4>1, BlocksFilled
      <4> QED
        BY <4>1, <4>2 DEF Filled
    <3>7. k \in DOMAIN t /\ n + k \in (i + 1) .. (j - 1)
      <4>1. i \in Nat /\ j \in Nat
        BY <1>a
      <4>2. PICK a \in Nat, b \in Nat, h \in Nat, m \in Nat : a = i /\ b = j /\ h = n /\ m = Len(t)
        BY <1>a, <4>1
      <4>3. a - h \in 1 .. m /\ b - h \in 1 .. m /\ k \in ((a - h) + 1) .. ((b - h) - 1)
        BY <1>a, <3>1, <3>4, <4>2
      <4>4. k \in 1 .. m /\ h + k \in (a + 1) .. (b - 1)
        BY <4>3, Shifted
      <4> QED
        BY <1>a, <4>2, <4>4
    <3>8. v[n + k] = t[k]
      BY <1>0, <3>7
    <3> QED
      BY <3>6, <3>7, <3>8
  <2> QED
    BY <2>1, <2>2
<1> QED
  BY <1>3, <1>4, <1>5 DEF Blocks, v

(* Statements none of which belongs to a scan.                             *)
Quiet(s) == \A i \in DOMAIN s : ~Scanning(s[i]) /\ s[i].op # "touch"

(* A list without scan statements is in blocks.                            *)
LEMMA QuietBlocks ==
  ASSUME NEW s \in Seq(Statement), Quiet(s)
  PROVE  Blocks(s) /\ NotMid(s)
<1>1. s # <<>> => 1 \in DOMAIN s
  OBVIOUS
<1> QED
  BY <1>1 DEF Blocks, Quiet, NotMid, Scanning, Ends

(* What a put is.                                                          *)
LEMMA PutFacts ==
  ASSUME NEW u \in Urns, NEW l \in Labels, NEW x \in DOMAIN Precedence, NEW v \in Levels
  PROVE  /\ Put(u, l, x, v) \in Statement
         /\ Put(u, l, x, v).op = "put" /\ Put(u, l, x, v).urn = u /\ Put(u, l, x, v).labels = {l}
         /\ Put(u, l, x, v).sources = {x} /\ Put(u, l, x, v).level = v
<1>1. v \in Nat
  BY CatalogAssumption
<1> QED
  BY <1>1 DEF Put, Stmt, Statement, Ops

(* What findings are.                                                      *)
LEMMA FindingsFacts ==
  ASSUME NEW found \in Findings
  PROVE  DOMAIN found \subseteq Labels /\ IsFiniteSet(DOMAIN found) /\ \A l \in DOMAIN found : found[l] \in Levels
<1>1. PICK S \in SUBSET Labels : found \in [S -> Levels]
  BY DEF Findings
<1>2. DOMAIN found = S
  BY <1>1
<1> QED
  BY <1>1, <1>2, CatalogAssumption, FS_Subset

Remover(u) == [Stmt("remove", u) EXCEPT !.sources = {"scan"}]
Toucher(u, found) == [Stmt("touch", u) EXCEPT !.found = found]

(* The delete that begins a scan.                                          *)
LEMMA RemoverFacts ==
  ASSUME NEW u \in Urns
  PROVE  /\ Remover(u) \in Statement /\ Remover(u).op = "remove" /\ Remover(u).urn = u
         /\ Remover(u).sources = {"scan"} /\ Remover(u).labels = Labels
BY DEF Remover, Stmt, Statement, Precedence, Ops

(* The touch that ends it.                                                 *)
LEMMA ToucherFacts ==
  ASSUME NEW u \in Urns, NEW found \in Findings
  PROVE  /\ Toucher(u, found) \in Statement /\ Toucher(u, found).op = "touch"
         /\ Toucher(u, found).urn = u /\ Toucher(u, found).found = found
BY DEF Toucher, Stmt, Statement, Ops

IsScan(b, u, found) ==
  /\ b \in Seq(Statement) /\ Len(b) >= 2 /\ b[1] = Remover(u) /\ b[Len(b)] = Toucher(u, found)
  /\ \A i \in 2 .. (Len(b) - 1) : \E l \in DOMAIN found : b[i] = Put(u, l, "scan", found[l])
  /\ \A l \in DOMAIN found : \E i \in 2 .. (Len(b) - 1) : b[i] = Put(u, l, "scan", found[l])

(* apply_scan deletes, puts each label found, and touches.                 *)
LEMMA ScanShape ==
  ASSUME NEW u \in Urns, NEW found \in Findings
  PROVE  IsScan(apply_scan(u, found), u, found)
<1> DEFINE f == [l \in DOMAIN found |-> Put(u, l, "scan", found[l])]
           p == ForEach(f)
           r == <<Remover(u)>>
           e == <<Toucher(u, found)>>
<1>0. "scan" \in DOMAIN Precedence
  BY DEF Precedence
<1>1. f \in [DOMAIN found -> Statement]
  BY <1>0, FindingsFacts, PutFacts
<1>2. /\ p \in Seq(Statement)
      /\ \A i \in DOMAIN p : \E l \in DOMAIN found : p[i] = f[l]
      /\ \A l \in DOMAIN found : \E i \in DOMAIN p : p[i] = f[l]
  <2> HIDE DEF f
  <2> QED
    BY <1>1, FindingsFacts, ForEachOf
<1>3. \A l \in DOMAIN found : f[l] = Put(u, l, "scan", found[l])
  OBVIOUS
<1>4. apply_scan(u, found) = (r \o p) \o e
  BY DEF apply_scan, Remover, Toucher
<1>5. r \in Seq(Statement) /\ e \in Seq(Statement) /\ Len(r) = 1 /\ Len(e) = 1 /\ r[1] = Remover(u) /\ e[1] = Toucher(u, found)
  BY RemoverFacts, ToucherFacts
<1> HIDE DEF f, p, r, e
<1> DEFINE q == r \o p
           b == q \o e
<1>a. p \in Seq(Statement) /\ r \in Seq(Statement) /\ e \in Seq(Statement)
  BY <1>2, <1>5
<1>b. /\ q \in Seq(Statement) /\ Len(q) = Len(r) + Len(p) /\ Len(p) \in Nat /\ DOMAIN p = 1 .. Len(p)
      /\ \A i \in 1 .. Len(r) : q[i] = r[i]
      /\ \A i \in 1 .. Len(p) : q[Len(r) + i] = p[i]
  BY <1>a, ConcatAt
<1> HIDE DEF q
<1>6. /\ q \in Seq(Statement) /\ Len(p) \in Nat /\ Len(q) = 1 + Len(p) /\ DOMAIN p = 1 .. Len(p)
      /\ q[1] = Remover(u) /\ \A i \in 1 .. Len(p) : q[1 + i] = p[i]
  BY <1>b, <1>5
<1>d. q \in Seq(Statement)
  BY <1>b
<1>c. /\ b \in Seq(Statement) /\ Len(b) = Len(q) + Len(e)
      /\ \A i \in 1 .. Len(q) : b[i] = q[i]
      /\ \A i \in 1 .. Len(e) : b[Len(q) + i] = e[i]
  BY <1>a, <1>d, ConcatAt
<1> HIDE DEF b
<1>7. /\ b \in Seq(Statement) /\ Len(b) = 2 + Len(p) /\ \A i \in 1 .. (1 + Len(p)) : b[i] = q[i]
      /\ b[2 + Len(p)] = Toucher(u, found)
  <2>1. Len(q) + 1 = 2 + Len(p) /\ Len(q) + Len(e) = 2 + Len(p)
    BY <1>5, <1>6
  <2>2. b[Len(q) + 1] = e[1]
    BY <1>5, <1>c
  <2> QED
    BY <1>5, <1>6, <1>c, <2>1, <2>2
<1>8. b[1] = Remover(u) /\ \A i \in 1 .. Len(p) : b[1 + i] = p[i]
  <2>1. \A i \in 1 .. Len(p) : 1 + i \in 1 .. (1 + Len(p))
    BY <1>6
  <2>2. 1 \in 1 .. (1 + Len(p))
    BY <1>6
  <2> QED
    BY <1>6, <1>7, <2>1, <2>2
<1>9. ASSUME NEW i \in 2 .. (Len(b) - 1) PROVE \E l \in DOMAIN found : b[i] = Put(u, l, "scan", found[l])
  <2>1. i - 1 \in DOMAIN p /\ 1 + (i - 1) = i
    BY <1>6, <1>7
  <2>2. PICK l \in DOMAIN found : p[i - 1] = f[l]
    BY <1>2, <2>1
  <2>3. b[1 + (i - 1)] = p[i - 1]
    BY <1>6, <1>8, <2>1
  <2> QED
    BY <1>3, <2>1, <2>2, <2>3
<1>10. ASSUME NEW l \in DOMAIN found PROVE \E i \in 2 .. (Len(b) - 1) : b[i] = Put(u, l, "scan", found[l])
  <2>1. PICK i \in DOMAIN p : p[i] = f[l]
    BY <1>2
  <2>2. 1 + i \in 2 .. (Len(b) - 1)
    BY <1>6, <1>7
  <2> QED
    BY <1>3, <1>6, <1>8, <2>1, <2>2
<1>11. Len(b) >= 2 /\ b[Len(b)] = Toucher(u, found)
  BY <1>6, <1>7
<1>12. IsScan(b, u, found)
  BY <1>7, <1>8, <1>9, <1>10, <1>11 DEF IsScan
<1> QED
  BY <1>4, <1>12 DEF q, b

(* Its statements are of one asset, and a job may have them.               *)
LEMMA ScanStmts ==
  ASSUME NEW u \in Urns, NEW found \in Findings, NEW b, IsScan(b, u, found)
  PROVE  /\ b # <<>> /\ \A i \in DOMAIN b : b[i].urn = u /\ b[i].op \in {"remove", "put", "touch"}
         /\ Touches(b, u) /\ Resolving(b) /\ b[1].op = "remove" /\ NotMid(b)
         /\ \A j : j.kind \in {"scan", "discover"} /\ (j.kind = "scan" => j.urn = u) => StmtsOk(b, j)
<1>0. Len(b) \in Nat /\ Len(b) >= 2 /\ DOMAIN b = 1 .. Len(b) /\ b # <<>>
  BY DEF IsScan
<1>1. ASSUME NEW i \in DOMAIN b
      PROVE  \/ i = 1 /\ b[i] = Remover(u)
             \/ i = Len(b) /\ b[i] = Toucher(u, found)
             \/ \E l \in DOMAIN found : b[i] = Put(u, l, "scan", found[l])
  <2>1. i = 1 \/ i = Len(b) \/ i \in 2 .. (Len(b) - 1)
    BY <1>0
  <2> QED
    BY <2>1 DEF IsScan
<1>2. "scan" \in DOMAIN Precedence
  BY DEF Precedence
<1>3. \A l \in DOMAIN found : /\ l \in Labels /\ found[l] \in Levels
                              /\ Put(u, l, "scan", found[l]).op = "put"
                              /\ Put(u, l, "scan", found[l]).urn = u
                              /\ Put(u, l, "scan", found[l]).labels = {l}
                              /\ Put(u, l, "scan", found[l]).sources = {"scan"}
                              /\ Put(u, l, "scan", found[l]).level = found[l]
  BY <1>2, FindingsFacts, PutFacts
<1>4. \A i \in DOMAIN b : b[i].urn = u /\ b[i].op \in {"remove", "put", "touch"}
  BY <1>1, <1>3, RemoverFacts, ToucherFacts
<1>5. Touches(b, u)
  BY <1>0, ToucherFacts DEF IsScan, Touches
<1>6. b[1].op = "remove" /\ NotMid(b)
  BY RemoverFacts DEF IsScan, NotMid, ScanPut
<1>7. ASSUME NEW j, j.kind \in {"scan", "discover"}, j.kind = "scan" => j.urn = u
      PROVE  StmtsOk(b, j)
  <2> SUFFICES ASSUME NEW i \in DOMAIN b PROVE StmtOk(b[i], j)
    BY DEF StmtsOk
  <2>1. b[i].urn = u /\ b[i].op \in {"remove", "put", "touch"}
    BY <1>4
  <2>2. b[i].op \in KindOps(j.kind)
    BY <1>7, <2>1 DEF KindOps
  <2>3. b[i].op = "put" => PutOk(b[i], j.kind)
    <3>1. b[i].op = "put" => \E l \in DOMAIN found : b[i] = Put(u, l, "scan", found[l])
      BY <1>1, RemoverFacts, ToucherFacts
    <3>2. j.kind # "label"
      BY <1>7
    <3> QED
      BY <1>2, <1>3, <3>1, <3>2 DEF PutOk
  <2>4. b[i].op = "remove" => b[i].sources = {"scan"} /\ b[i].labels = Labels
    BY <1>1, <1>3, RemoverFacts, ToucherFacts
  <2> QED
    BY <1>7, <2>1, <2>2, <2>3, <2>4 DEF StmtOk
<1> QED
  BY <1>0, <1>4, <1>5, <1>6, <1>7 DEF Resolving

(* They are one block.                                                     *)
LEMMA ScanBlocks ==
  ASSUME NEW u \in Urns, NEW found \in Findings, NEW b, IsScan(b, u, found)
  PROVE  Blocks(b)
<1> DEFINE n == Len(b)
<1>0. n \in Nat /\ n >= 2 /\ DOMAIN b = 1 .. n /\ b[1] = Remover(u) /\ b[n] = Toucher(u, found)
  BY DEF IsScan
<1>1. \A i \in 2 .. (n - 1) : \E l \in DOMAIN found : b[i] = Put(u, l, "scan", found[l])
  BY DEF IsScan
<1>2. \A l \in DOMAIN found : \E i \in 2 .. (n - 1) : b[i] = Put(u, l, "scan", found[l])
  BY DEF IsScan
<1>3. "scan" \in DOMAIN Precedence
  BY DEF Precedence
<1>4. \A l \in DOMAIN found : /\ Put(u, l, "scan", found[l]).op = "put"
                              /\ Put(u, l, "scan", found[l]).urn = u
                              /\ Put(u, l, "scan", found[l]).labels = {l}
                              /\ Put(u, l, "scan", found[l]).sources = {"scan"}
  BY <1>3, FindingsFacts, PutFacts
<1> HIDE DEF n
<1>5. \A i \in 2 .. (n - 1) : ScanPut(b[i]) /\ b[i].urn = u /\ \E l \in DOMAIN found : b[i].labels = {l}
  BY <1>1, <1>4 DEF ScanPut
<1>6. Scanning(b[1]) /\ b[1].op = "remove" /\ ~ScanPut(b[1]) /\ b[1].urn = u
  BY <1>0, RemoverFacts DEF Scanning, ScanPut
<1>7. b[n].op = "touch" /\ b[n].urn = u /\ b[n].found = found /\ ~Scanning(b[n])
  BY <1>0, ToucherFacts DEF Scanning, ScanPut
<1>8. ASSUME NEW i \in 1 .. (n - 1) PROVE Ends(b, i, n)
  <2>1. \A k \in i .. (n - 1) : k \in 1 .. (n - 1) /\ (k = 1 \/ k \in 2 .. (n - 1)) /\ (k # i => k # 1)
    BY <1>0
  <2>2. n \in DOMAIN b /\ i <= n
    BY <1>0
  <2> SUFFICES ASSUME NEW k \in i .. (n - 1)
               PROVE  /\ Scanning(b[k]) /\ b[k].urn = u
                      /\ ScanPut(b[k]) => \E l \in DOMAIN found : b[k].labels = {l}
                      /\ k # i => ScanPut(b[k])
    BY <1>7, <2>2 DEF Ends
  <2> QED
    BY <1>5, <1>6, <2>1 DEF Scanning
<1>9. \A i \in DOMAIN b : Scanning(b[i]) => i \in 1 .. (n - 1) /\ n \in DOMAIN b
  <2> SUFFICES ASSUME NEW i \in DOMAIN b, Scanning(b[i]) PROVE i \in 1 .. (n - 1) /\ n \in DOMAIN b
    OBVIOUS
  <2>1. i # n
    BY <1>7
  <2> QED
    BY <1>0, <2>1
<1>10. ASSUME NEW i \in DOMAIN b, i > 1 PROVE Scanning(b[i - 1])
  <2>1. i - 1 = 1 \/ i - 1 \in 2 .. (n - 1)
    BY <1>0, <1>10
  <2> QED
    BY <1>5, <1>6, <2>1 DEF Scanning
<1>11. ASSUME NEW i \in DOMAIN b, NEW j \in DOMAIN b, b[i].op = "remove", Ends(b, i, j),
              NEW l \in DOMAIN b[j].found
       PROVE  \E k \in (i + 1) .. (j - 1) : b[k].labels = {l}
  <2>1. i = 1
    <3>1. i # n /\ i \notin 2 .. (n - 1)
      BY <1>5, <1>7, <1>11 DEF ScanPut
    <3> QED
      BY <1>0, <3>1
  <2>2. j = n
    <3>1. j = 1 \/ j \in 2 .. (n - 1) \/ j = n
      BY <1>0
    <3>2. b[j].op = "touch"
      BY <1>11 DEF Ends
    <3> QED
      BY <1>5, <1>6, <3>1, <3>2 DEF ScanPut
  <2>3. PICK k \in 2 .. (n - 1) : b[k] = Put(u, l, "scan", found[l])
    BY <1>2, <1>7, <1>11, <2>2
  <2>4. b[k].labels = {l}
    BY <1>4, <1>7, <1>11, <2>2, <2>3
  <2> QED
    BY <2>1, <2>2, <2>3, <2>4
<1> QED
  BY <1>8, <1>9, <1>10, <1>11 DEF Blocks

(* There is a highest confidence.                                          *)
LEMMA MaxLevel == Max(Levels) \in Levels
<1>1. Levels \subseteq Nat /\ IsFiniteSet(Levels) /\ Levels # {}
  BY CatalogAssumption
<1>2. PICK k \in Levels : \A x \in Levels : x <= k
  BY <1>1, GreatestOf
<1>3. \E m \in Levels : \A x \in Levels : m >= x
  BY <1>1, <1>2
<1> QED
  BY <1>3 DEF Max

Sampler(u, found) == [Stmt("sample", u) EXCEPT !.found = found]

(* What follows an upsert: a put for each label the source asserts, and    *)
(* the sample.                                                             *)
LEMMA AbsorbFacts ==
  ASSUME NEW s \in Statement, s.found \in Findings, NEW j, j.kind = "discover"
  PROVE  /\ _absorb(s) \in Seq(Statement) /\ StmtsOk(_absorb(s), j)
         /\ Quiet(_absorb(s)) /\ Resolving(_absorb(s))
         /\ \A i \in DOMAIN _absorb(s) : _absorb(s)[i].urn = s.urn /\ _absorb(s)[i].op \in {"put", "sample"}
         /\ \A l \in s.labels : \E i \in DOMAIN _absorb(s) :
              /\ _absorb(s)[i].op = "put" /\ _absorb(s)[i].urn = s.urn
              /\ _absorb(s)[i].labels = {l} /\ _absorb(s)[i].sources = {"imported"}
         /\ s.scan => \E i \in DOMAIN _absorb(s) : _absorb(s)[i].op = "sample" /\ _absorb(s)[i].urn = s.urn
<1> DEFINE f == [l \in s.labels |-> Put(s.urn, l, "imported", Max(Levels))]
           p == ForEach(f)
           e == IF s.scan THEN <<Sampler(s.urn, s.found)>> ELSE <<>>
           a == p \o e
<1>0. "imported" \in DOMAIN Precedence /\ s.urn \in Urns /\ s.labels \in SUBSET Labels /\ s.scan \in BOOLEAN
  BY DEF Precedence, Statement
<1>1. \A l \in s.labels : /\ f[l] \in Statement /\ f[l].op = "put" /\ f[l].urn = s.urn
                          /\ f[l].labels = {l} /\ f[l].sources = {"imported"} /\ f[l].level \in Levels
  BY <1>0, MaxLevel, PutFacts
<1>2. IsFiniteSet(s.labels)
  BY <1>0, CatalogAssumption, FS_Subset
<1>3. f \in [s.labels -> Statement]
  BY <1>1
<1> HIDE DEF f
<1>4. /\ p \in Seq(Statement)
      /\ \A i \in DOMAIN p : \E l \in s.labels : p[i] = f[l]
      /\ \A l \in s.labels : \E i \in DOMAIN p : p[i] = f[l]
  BY <1>2, <1>3, ForEachOf
<1>5. /\ Sampler(s.urn, s.found) \in Statement /\ Sampler(s.urn, s.found).op = "sample"
      /\ Sampler(s.urn, s.found).urn = s.urn /\ Sampler(s.urn, s.found).found = s.found
  BY <1>0 DEF Sampler, Stmt, Statement, Ops
<1>6. /\ e \in Seq(Statement) /\ \A i \in DOMAIN e : i = 1 /\ e[i] = Sampler(s.urn, s.found)
      /\ s.scan => 1 \in DOMAIN e /\ e[1] = Sampler(s.urn, s.found)
  BY <1>5
<1>7. _absorb(s) = a
  BY DEF _absorb, f, Sampler
<1>8. p \in Seq(Statement) /\ e \in Seq(Statement)
  BY <1>4, <1>6
<1> HIDE DEF p, e
<1>9. /\ a \in Seq(Statement) /\ Len(p) \in Nat /\ DOMAIN p = 1 .. Len(p) /\ DOMAIN e = 1 .. Len(e)
      /\ Len(e) \in Nat
      /\ DOMAIN a = 1 .. (Len(p) + Len(e))
      /\ \A i \in 1 .. Len(p) : a[i] = p[i]
      /\ \A i \in 1 .. Len(e) : a[Len(p) + i] = e[i]
      /\ \A i \in DOMAIN a : i \in 1 .. Len(p) \/ i - Len(p) \in 1 .. Len(e)
      /\ \A i \in DOMAIN a : i \notin 1 .. Len(p) => a[i] = e[i - Len(p)]
  BY <1>8, ConcatAt
<1> HIDE DEF a
<1>10. \A i \in DOMAIN a : a[i] = Sampler(s.urn, s.found) \/ \E l \in s.labels : a[i] = f[l]
  BY <1>4, <1>6, <1>9
<1>11. ASSUME NEW l \in s.labels PROVE \E i \in DOMAIN a : a[i] = f[l]
  <2>1. PICK i \in DOMAIN p : p[i] = f[l]
    BY <1>4
  <2>2. i \in DOMAIN a
    BY <1>9
  <2> QED
    BY <1>9, <2>1, <2>2
<1>12. s.scan => \E i \in DOMAIN a : a[i] = Sampler(s.urn, s.found)
  <2>1. s.scan => 1 \in 1 .. Len(e) /\ e[1] = Sampler(s.urn, s.found)
    BY <1>6, <1>9
  <2>2. s.scan => Len(p) + 1 \in DOMAIN a
    BY <1>9, <2>1
  <2> QED
    BY <1>9, <2>1, <2>2
<1>13. \A i \in DOMAIN a : a[i].urn = s.urn /\ a[i].op \in {"put", "sample"}
  BY <1>1, <1>5, <1>10
<1>14. StmtsOk(a, j)
  <2> SUFFICES ASSUME NEW i \in DOMAIN a PROVE StmtOk(a[i], j)
    BY DEF StmtsOk
  <2>1. CASE a[i] = Sampler(s.urn, s.found)
    BY <1>5, <2>1 DEF StmtOk, KindOps
  <2>2. CASE \E l \in s.labels : a[i] = f[l]
    <3>1. PICK l \in s.labels : a[i] = f[l]
      BY <2>2
    <3>2. PutOk(a[i], j.kind)
      BY <1>0, <1>1, <3>1 DEF PutOk
    <3> QED
      BY <1>1, <3>1, <3>2 DEF StmtOk, KindOps
  <2> QED
    BY <1>10, <2>1, <2>2
<1>15. Quiet(a)
  <2> SUFFICES ASSUME NEW i \in DOMAIN a PROVE ~Scanning(a[i]) /\ a[i].op # "touch"
    BY DEF Quiet
  <2>1. a[i].op = "put" => a[i].sources # {"scan"}
    BY <1>1, <1>5, <1>10
  <2> QED
    BY <1>13, <2>1 DEF Scanning, ScanPut
<1>16. Resolving(a)
  BY <1>13 DEF Resolving
<1> QED
  BY <1>1, <1>5, <1>7, <1>9, <1>11, <1>12, <1>13, <1>14, <1>15, <1>16

----------------------------------------------------------------------------
(* The statements every kind of request begins with.                       *)
Starts(t, j) ==
  /\ t \in Seq(Statement) /\ StmtsOk(t, j) /\ (j.kind # "unlabel" => Blocks(t))
  /\ \A h : Looks(t, h)
  /\ Resolving(t) /\ (t # <<>> => ~Scanning(t[1]) /\ t[1].op # "touch")
  /\ j.kind = "discover" => \A i \in DOMAIN j.assets : i \in DOMAIN t /\ t[i] = upsert_asset(j.assets[i])
  /\ j.kind = "resolve" =>
       /\ Has(t, "exact") /\ Has(t, "patterns")
       /\ \A u \in Covering[j.urn] \union {j.urn} : \E i \in DOMAIN t : t[i].op = "labels" /\ t[i].urn = u
       /\ \A i \in DOMAIN t : t[i].op \in {"exact", "patterns"} => t[i].urn = j.urn

(* What a bare statement is.                                               *)
LEMMA StmtFacts ==
  ASSUME NEW op \in Ops, NEW u \in Urns
  PROVE  /\ Stmt(op, u) \in Statement /\ Stmt(op, u).op = op /\ Stmt(op, u).urn = u
BY DEF Stmt, Statement

(* A look-up and a write.                                                  *)
LEMMA PairStarts ==
  ASSUME NEW s \in Statement, NEW t \in Statement, NEW j, j.kind \in {"label", "unlabel", "drop"},
         StmtOk(s, j), StmtOk(t, j), s.op = "need", t.urn = s.urn,
         j.kind # "unlabel" => ~Scanning(t) /\ t.op # "touch"
  PROVE  Starts(<<s, t>>, j)
<1> DEFINE p == <<s, t>>
<1>0. p \in Seq(Statement) /\ DOMAIN p = {1, 2} /\ p[1] = s /\ p[2] = t /\ p # <<>>
  OBVIOUS
<1> HIDE DEF p
<1>1. StmtsOk(p, j)
  BY <1>0 DEF StmtsOk
<1>2. j.kind # "unlabel" => Blocks(p)
  <2>1. ~Scanning(s) /\ s.op # "touch"
    BY DEF Scanning, ScanPut
  <2> QED
    BY <1>0, <2>1, QuietBlocks DEF Quiet
<1>3. ASSUME NEW h PROVE Looks(p, h)
  <2> SUFFICES ASSUME NEW i \in DOMAIN p, p[i].op \in {"put", "remove", "touch", "sample", "drop"}
               PROVE  \E k \in 1 .. (i - 1) : p[k].op \in Looking /\ p[k].urn = p[i].urn
    BY DEF Looks
  <2>1. i = 2
    BY <1>0
  <2>2. 1 \in 1 .. (i - 1)
    BY <2>1
  <2> QED
    BY <1>0, <2>1, <2>2 DEF Looking
<1>4. Resolving(p)
  <2>1. p[1].op # "labels" /\ p[2].op # "labels"
    BY <1>0 DEF StmtOk, KindOps
  <2> QED
    BY <1>0, <2>1 DEF Resolving
<1>5. ~Scanning(p[1]) /\ p[1].op # "touch"
  BY <1>0 DEF Scanning, ScanPut
<1> QED
  BY <1>0, <1>1, <1>2, <1>3, <1>4, <1>5 DEF Starts, p

(* A label job.                                                            *)
LEMMA LabelStarts ==
  ASSUME NEW j \in Request, j.kind = "label" PROVE Starts(Program(j), j)
<1>0. j.urn \in Urns /\ j.label \in Labels /\ j.level \in Levels /\ "manual" \in DOMAIN Precedence
  BY DEF Request, Precedence
<1>1. Program(j) = <<Stmt("need", j.urn), Put(j.urn, j.label, "manual", j.level)>>
  BY DEF Program
<1> DEFINE s == Stmt("need", j.urn)
           t == Put(j.urn, j.label, "manual", j.level)
<1>2. s \in Statement /\ s.op = "need" /\ s.urn = j.urn
  BY <1>0, StmtFacts DEF Ops
<1>3. /\ t \in Statement /\ t.op = "put" /\ t.urn = j.urn /\ t.labels = {j.label} /\ t.sources = {"manual"}
      /\ t.level \in Levels
  BY <1>0, PutFacts
<1> HIDE DEF s, t
<1>4. StmtOk(s, j)
  BY <1>2 DEF StmtOk, KindOps
<1>5. StmtOk(t, j)
  <2>1. PutOk(t, j.kind)
    BY <1>0, <1>3 DEF PutOk
  <2> QED
    BY <1>3, <2>1 DEF StmtOk, KindOps
<1>6. ~Scanning(t)
  <2>1. "manual" # "scan"
    OBVIOUS
  <2> QED
    BY <1>3, <2>1 DEF Scanning, ScanPut
<1>7. Starts(<<s, t>>, j)
  BY <1>2, <1>3, <1>4, <1>5, <1>6, PairStarts
<1> QED
  BY <1>1, <1>7 DEF s, t

(* An unlabel job.                                                         *)
LEMMA UnlabelStarts ==
  ASSUME NEW j \in Request, j.kind = "unlabel" PROVE Starts(Program(j), j)
<1>0. j.urn \in Urns /\ j.label \in Labels /\ j.sources \in SUBSET DOMAIN Precedence
  BY DEF Request
<1> DEFINE s == Stmt("need", j.urn)
           t == [Stmt("remove", j.urn) EXCEPT !.labels = {j.label}, !.sources = j.sources]
<1>1. Program(j) = <<s, t>>
  BY DEF Program
<1>2. s \in Statement /\ s.op = "need" /\ s.urn = j.urn
  BY <1>0, StmtFacts DEF Ops
<1>3. t \in Statement /\ t.op = "remove" /\ t.urn = j.urn
  BY <1>0 DEF Stmt, Statement, Ops
<1> HIDE DEF s, t
<1>4. StmtOk(s, j) /\ StmtOk(t, j)
  BY <1>2, <1>3 DEF StmtOk, KindOps
<1>7. Starts(<<s, t>>, j)
  BY <1>2, <1>3, <1>4, PairStarts
<1> QED
  BY <1>1, <1>7

(* A drop job.                                                             *)
LEMMA DropStarts ==
  ASSUME NEW j \in Request, j.kind = "drop" PROVE Starts(Program(j), j)
<1>0. j.urn \in Urns
  BY DEF Request
<1> DEFINE s == Stmt("need", j.urn)
           t == Stmt("drop", j.urn)
<1>1. Program(j) = <<s, t>>
  BY DEF Program
<1>2. s \in Statement /\ s.op = "need" /\ s.urn = j.urn /\ t \in Statement /\ t.op = "drop" /\ t.urn = j.urn
  BY <1>0, StmtFacts DEF Ops
<1> HIDE DEF s, t
<1>4. StmtOk(s, j) /\ StmtOk(t, j)
  BY <1>2 DEF StmtOk, KindOps
<1>5. ~Scanning(t) /\ t.op # "touch"
  BY <1>2 DEF Scanning, ScanPut
<1>7. Starts(<<s, t>>, j)
  BY <1>2, <1>4, <1>5, PairStarts
<1> QED
  BY <1>1, <1>7

(* A scan job.                                                             *)
LEMMA ScanStarts ==
  ASSUME NEW j \in Request, j.kind = "scan" PROVE Starts(Program(j), j)
<1>0. j.urn \in Urns /\ j.found \in Findings
  BY DEF Request
<1> DEFINE f == Stmt("find", j.urn)
           s == <<f>>
           b == apply_scan(j.urn, j.found)
<1>1. Program(j) = s \o b
  BY DEF Program
<1>2. f \in Statement /\ f.op = "find" /\ f.urn = j.urn
  BY <1>0, StmtFacts DEF Ops
<1>3. IsScan(b, j.urn, j.found)
  BY <1>0, ScanShape
<1> HIDE DEF f, b
<1>4. s \in Seq(Statement) /\ Len(s) = 1 /\ s[1] = f /\ DOMAIN s = {1}
  BY <1>2
<1> HIDE DEF s
<1>5. /\ b \in Seq(Statement) /\ b # <<>> /\ \A i \in DOMAIN b : b[i].urn = j.urn /\ b[i].op \in {"remove", "put", "touch"}
      /\ Resolving(b) /\ NotMid(b) /\ StmtsOk(b, j) /\ Blocks(b)
  <2>1. b \in Seq(Statement)
    BY <1>3 DEF IsScan
  <2>2. Blocks(b)
    BY <1>0, <1>3, ScanBlocks
  <2>3. /\ b # <<>> /\ \A i \in DOMAIN b : b[i].urn = j.urn /\ b[i].op \in {"remove", "put", "touch"}
        /\ Resolving(b) /\ NotMid(b)
    BY <1>0, <1>3, ScanStmts
  <2>4. StmtsOk(b, j)
    BY <1>0, <1>3, ScanStmts
  <2> QED
    BY <2>1, <2>2, <2>3, <2>4
<1>6. ~Scanning(f) /\ f.op # "touch"
  BY <1>2 DEF Scanning, ScanPut
<1>7. Blocks(s) /\ StmtsOk(s, j)
  <2>1. Quiet(s)
    BY <1>4, <1>6 DEF Quiet
  <2>2. StmtOk(f, j)
    BY <1>2 DEF StmtOk, KindOps
  <2> QED
    BY <1>4, <2>1, <2>2, QuietBlocks DEF StmtsOk
<1> DEFINE t == s \o b
<1>8. Blocks(t) /\ StmtsOk(t, j)
  BY <1>4, <1>5, <1>7, BlocksConcat, StmtsConcat
<1>9. /\ t \in Seq(Statement) /\ Len(s) \in Nat /\ DOMAIN b = 1 .. Len(b) /\ Len(b) \in Nat
      /\ DOMAIN t = 1 .. (Len(s) + Len(b))
      /\ \A i \in 1 .. Len(s) : t[i] = s[i]
      /\ \A i \in DOMAIN t : i \in 1 .. Len(s) \/ i - Len(s) \in 1 .. Len(b)
      /\ \A i \in DOMAIN t : i \notin 1 .. Len(s) => t[i] = b[i - Len(s)]
  <2>1. s \in Seq(Statement) /\ b \in Seq(Statement)
    BY <1>4, <1>5
  <2> QED
    BY <2>1, ConcatAt
<1> HIDE DEF t
<1>10. t[1] = f /\ \A i \in DOMAIN t : i = 1 \/ (i > 1 /\ i \in Nat /\ t[i].urn = j.urn /\ t[i].op \in {"remove", "put", "touch"})
  BY <1>4, <1>5, <1>9
<1>11. ASSUME NEW h PROVE Looks(t, h)
  <2> SUFFICES ASSUME NEW i \in DOMAIN t, t[i].op \in {"put", "remove", "touch", "sample", "drop"}
               PROVE  \E k \in 1 .. (i - 1) : t[k].op \in Looking /\ t[k].urn = t[i].urn
    BY DEF Looks
  <2>1. i # 1
    BY <1>2, <1>10
  <2>2. 1 \in 1 .. (i - 1) /\ t[i].urn = j.urn
    BY <1>10, <2>1
  <2> QED
    BY <1>2, <1>10, <2>2 DEF Looking
<1>12. Resolving(t)
  BY <1>2, <1>10 DEF Resolving
<1> QED
  BY <1>1, <1>6, <1>8, <1>9, <1>10, <1>11, <1>12 DEF Starts, t

(* The upsert of a listed asset.                                           *)
LEMMA UpsertFacts ==
  ASSUME NEW a \in Listing
  PROVE  LET s == upsert_asset(a)
         IN  /\ s \in Statement /\ s.op = "upsert" /\ s.urn = a.urn /\ s.labels = a.imported
             /\ s.scan = a.scan /\ s.found = a.found /\ s.found \in Findings
BY DEF upsert_asset, Listing, Stmt, Statement, Ops

(* A discovery run.                                                        *)
LEMMA DiscoverStarts ==
  ASSUME NEW j \in Request, j.kind = "discover" PROVE Starts(Program(j), j)
<1>0. j.assets \in Seq(Listing)
  BY DEF Request
<1> DEFINE t == [i \in DOMAIN j.assets |-> upsert_asset(j.assets[i])]
<1>1. Program(j) = t
  BY DEF Program
<1>2. \A i \in DOMAIN j.assets : /\ t[i] = upsert_asset(j.assets[i]) /\ t[i] \in Statement
                                 /\ t[i].op = "upsert" /\ t[i].found \in Findings
  <2>1. \A i \in DOMAIN j.assets : j.assets[i] \in Listing
    BY <1>0
  <2> QED
    BY <2>1, UpsertFacts
<1>3. t \in Seq(Statement) /\ DOMAIN t = DOMAIN j.assets
  <2>1. DOMAIN j.assets = 1 .. Len(j.assets) /\ Len(j.assets) \in Nat
    BY <1>0
  <2>2. t \in [1 .. Len(j.assets) -> Statement]
    BY <1>2, <2>1
  <2> QED
    BY <2>1, <2>2
<1> HIDE DEF t
<1>4. StmtsOk(t, j)
  BY <1>2, <1>3 DEF StmtsOk, StmtOk, KindOps
<1>5. Quiet(t)
  BY <1>2, <1>3 DEF Quiet, Scanning, ScanPut
<1>6. Blocks(t)
  BY <1>3, <1>5, QuietBlocks
<1>7. (\A h : Looks(t, h)) /\ Resolving(t)
  BY <1>2, <1>3 DEF Looks, Resolving
<1>8. t # <<>> => 1 \in DOMAIN t
  BY <1>3
<1> QED
  BY <1>1, <1>2, <1>3, <1>4, <1>5, <1>6, <1>7, <1>8 DEF Starts, Quiet

(* A resolution.                                                           *)
LEMMA ResolveStarts ==
  ASSUME NEW j \in Request, j.kind = "resolve" PROVE Starts(Program(j), j)
<1>0. j.urn \in Urns /\ Covering[j.urn] \in SUBSET Urns /\ IsFiniteSet(Covering[j.urn])
  <2>1. j.urn \in Urns
    BY DEF Request
  <2> QED
    BY <2>1, CatalogAssumption, FS_Subset
<1> DEFINE C == Covering[j.urn]
           f == [p \in C |-> Stmt("labels", p)]
           m == ForEach(f)
           s == <<Stmt("exact", j.urn), Stmt("patterns", j.urn)>>
           e == <<Stmt("labels", j.urn)>>
           sm == s \o m
           t == sm \o e
<1>1. Program(j) = t
  BY DEF Program, resolve
<1>2. \A p \in C : f[p] = Stmt("labels", p) /\ f[p] \in Statement /\ f[p].op = "labels" /\ f[p].urn = p
  BY <1>0, StmtFacts DEF Ops
<1>3. f \in [C -> Statement]
  BY <1>2
<1> HIDE DEF f
<1>4. /\ m \in Seq(Statement)
      /\ \A i \in DOMAIN m : \E p \in C : m[i] = f[p]
      /\ \A p \in C : \E i \in DOMAIN m : m[i] = f[p]
  BY <1>0, <1>3, ForEachOf
<1>5. /\ Stmt("exact", j.urn) \in Statement /\ Stmt("exact", j.urn).op = "exact" /\ Stmt("exact", j.urn).urn = j.urn
      /\ Stmt("patterns", j.urn) \in Statement /\ Stmt("patterns", j.urn).op = "patterns" /\ Stmt("patterns", j.urn).urn = j.urn
      /\ Stmt("labels", j.urn) \in Statement /\ Stmt("labels", j.urn).op = "labels" /\ Stmt("labels", j.urn).urn = j.urn
  BY <1>0, StmtFacts DEF Ops
<1>6. /\ s \in Seq(Statement) /\ Len(s) = 2 /\ s[1] = Stmt("exact", j.urn) /\ s[2] = Stmt("patterns", j.urn)
      /\ e \in Seq(Statement) /\ Len(e) = 1 /\ e[1] = Stmt("labels", j.urn)
  BY <1>5
<1>7. s \in Seq(Statement) /\ m \in Seq(Statement) /\ e \in Seq(Statement)
  BY <1>4, <1>6
<1> HIDE DEF s, m, e
<1>8. /\ sm \in Seq(Statement) /\ Len(sm) = Len(s) + Len(m) /\ Len(m) \in Nat /\ DOMAIN m = 1 .. Len(m)
      /\ \A i \in 1 .. Len(s) : sm[i] = s[i]
      /\ \A i \in 1 .. Len(m) : sm[Len(s) + i] = m[i]
  BY <1>7, ConcatAt
<1>9. sm \in Seq(Statement)
  BY <1>8
<1> HIDE DEF sm
<1>10. /\ t \in Seq(Statement) /\ Len(t) = Len(sm) + Len(e) /\ DOMAIN t = 1 .. (Len(sm) + Len(e))
       /\ \A i \in 1 .. Len(sm) : t[i] = sm[i]
       /\ \A i \in 1 .. Len(e) : t[Len(sm) + i] = e[i]
  BY <1>7, <1>9, ConcatAt
<1> HIDE DEF t
<1> DEFINE n == Len(m)
<1>11. /\ n \in Nat /\ DOMAIN t = 1 .. (n + 3) /\ t[1] = Stmt("exact", j.urn) /\ t[2] = Stmt("patterns", j.urn)
       /\ t[n + 3] = Stmt("labels", j.urn) /\ \A i \in 1 .. n : t[2 + i] = m[i]
  <2>1. Len(sm) = n + 2 /\ Len(sm) + Len(e) = n + 3 /\ n \in Nat
    BY <1>6, <1>8
  <2>2. t[Len(sm) + 1] = e[1] /\ Len(sm) + 1 = n + 3
    BY <1>6, <1>10, <2>1
  <2>3. \A i \in 1 .. n : 2 + i \in 1 .. Len(sm)
    BY <2>1
  <2>4. t[1] = sm[1] /\ t[2] = sm[2] /\ sm[1] = s[1] /\ sm[2] = s[2]
    BY <1>6, <1>8, <1>10, <2>1
  <2> QED
    BY <1>6, <1>8, <1>10, <2>1, <2>2, <2>3, <2>4
<1> HIDE DEF n
<1>12. \A i \in DOMAIN t : i \in Nat /\ (i = 1 \/ i = 2 \/ (i > 2 /\ t[i].op = "labels"))
  <2> SUFFICES ASSUME NEW i \in DOMAIN t, i # 1, i # 2 PROVE i \in Nat /\ i > 2 /\ t[i].op = "labels"
    BY <1>11
  <2>1. i \in Nat /\ i > 2 /\ (i = n + 3 \/ (i - 2 \in 1 .. n /\ 2 + (i - 2) = i))
    BY <1>11
  <2>2. CASE i = n + 3
    BY <1>5, <1>11, <2>1, <2>2
  <2>3. CASE i - 2 \in 1 .. n /\ 2 + (i - 2) = i
    <3>1. t[i] = m[i - 2] /\ i - 2 \in DOMAIN m
      BY <1>8, <1>11, <2>3 DEF n
    <3> QED
      BY <1>2, <1>4, <2>1, <3>1
  <2> QED
    BY <2>1, <2>2, <2>3
<1>13. \A i \in DOMAIN t : /\ t[i].op \in {"exact", "patterns", "labels"}
                           /\ t[i].op \in {"exact", "patterns"} => t[i].urn = j.urn /\ i \in {1, 2}
  BY <1>5, <1>11, <1>12
<1>14. ASSUME NEW u \in C \union {j.urn} PROVE \E i \in DOMAIN t : t[i].op = "labels" /\ t[i].urn = u
  <2>1. CASE u = j.urn
    BY <1>5, <1>11, <2>1
  <2>2. CASE u \in C
    <3>1. PICK i \in DOMAIN m : m[i] = f[u]
      BY <1>4, <2>2
    <3>2. 2 + i \in DOMAIN t /\ t[2 + i] = m[i]
      BY <1>8, <1>11, <3>1 DEF n
    <3> QED
      BY <1>2, <2>2, <3>1, <3>2
  <2> QED
    BY <2>1, <2>2
<1>15. Resolving(t)
  BY <1>5, <1>11, <1>12 DEF Resolving
<1>16. StmtsOk(t, j) /\ Quiet(t) /\ \A h : Looks(t, h)
  BY <1>13 DEF StmtsOk, StmtOk, KindOps, Quiet, Scanning, ScanPut, Looks
<1>17. t \in Seq(Statement) /\ Blocks(t)
  BY <1>10, <1>16, QuietBlocks
<1>18. Has(t, "exact") /\ Has(t, "patterns") /\ 1 \in DOMAIN t
  BY <1>5, <1>11 DEF Has
<1> QED
  BY <1>1, <1>13, <1>14, <1>15, <1>16, <1>17, <1>18 DEF Starts, Quiet

(* The statements a request starts with.                                   *)
LEMMA ProgramStarts ==
  ASSUME NEW j \in Request PROVE Starts(Program(j), j)
<1>1. j.kind \in {"label", "unlabel", "drop", "scan", "discover", "resolve"}
  BY DEF Request
<1> QED
  BY <1>1, LabelStarts, UnlabelStarts, DropStarts, ScanStarts, DiscoverStarts, ResolveStarts

----------------------------------------------------------------------------
(* The steps. What each action does to the call that takes it and to the   *)
(* others, with no action of another call left to consider.                *)

(* A step of one call that leaves the tables and the other calls alone.    *)
SameWrites(d)  == put'[d] = put[d] /\ cut'[d] = cut[d]
SameUrns(d)    == added'[d] = added[d] /\ dropped'[d] = dropped[d] /\ touched'[d] = touched[d]
SameSession(d) == held'[d] = held[d] /\ errors'[d] = errors[d] /\ scans'[d] = scans[d]
SameAnswer(d)  == answer'[d] = answer[d] /\ left'[d] = left[d]
SamePlace(d)   == pc'[d] = pc[d] /\ todo'[d] = todo[d] /\ seen'[d] = seen[d]
SameCall(d) ==
  SameWrites(d) /\ SameUrns(d) /\ SameSession(d) /\ SameAnswer(d) /\ SamePlace(d)

SameTables == assets' = assets /\ rows' = rows /\ lastScan' = lastScan /\ steady' = steady

Own(c) ==
  /\ SameTables /\ job' = job /\ met' = met
  /\ \A d \in Calls : d # c => SameCall(d)

(* A session that is closed.                                               *)
Shut(c) ==
  /\ todo'[c] = <<>> /\ seen'[c] = NONE /\ put'[c] = {} /\ cut'[c] = {} /\ added'[c] = {}
  /\ dropped'[c] = {} /\ touched'[c] = {} /\ errors'[c] = {} /\ scans'[c] = {}
  /\ held'[c] = [u \in Urns |-> NONE] /\ SameAnswer(c)

Aborted(c) == pc[c] = "run" /\ pc'[c] = "failed" /\ Shut(c)

Rest(c) ==
  IF Cur(c).op = "upsert" THEN _absorb(Cur(c)) \o Tail(todo[c]) ELSE Tail(todo[c])
Advanced(c) == pc'[c] = pc[c] /\ todo'[c] = Rest(c) /\ seen'[c] = NONE

Going(c, ops) == pc[c] = "run" /\ todo[c] # <<>> /\ Cur(c).op \in ops

(* A session that ends.                                                    *)
LEMMA CloseShuts ==
  ASSUME TypeOK, NEW c \in Calls, NEW how, Close(c, how), UNCHANGED <<answer, left>>
  PROVE  /\ Shut(c) /\ pc'[c] = how /\ \A d \in Calls : d # c => SameCall(d)
BY DEF Close, TypeOK, Shut, SameCall, SameWrites, SameUrns, SameSession, SameAnswer, SamePlace

(* A statement that is done.                                               *)
LEMMA AdvanceAdvances ==
  ASSUME TypeOK, NEW c \in Calls, Advance(c)
  PROVE  /\ Advanced(c) /\ \A d \in Calls : d # c => SamePlace(d)
BY DEF Advance, TypeOK, Advanced, SamePlace, Rest

(* A failure is a step of the call.                                        *)
LEMMA FailStep ==
  ASSUME TypeOK, NEW c \in Calls, Fail(c)
  PROVE  Own(c) /\ Aborted(c)
<1>1. Close(c, "failed") /\ UNCHANGED <<answer, left>>
  BY DEF Fail, Abort
<1> QED
  BY <1>1, CloseShuts DEF Fail, Own, SameTables, tables, Aborted

Selected(c) ==
  /\ SameWrites(c) /\ SameUrns(c) /\ SameAnswer(c) /\ pc'[c] = pc[c] /\ todo'[c] = todo[c]
  /\ errors'[c] = errors[c] /\ scans'[c] = scans[c]

SelectedRows(c) ==
  /\ Going(c, {"put", "remove"}) /\ Selected(c) /\ held'[c] = held[c]
  /\ seen'[c] = {r \in VisibleRows(c) : /\ r.urn = Cur(c).urn /\ r.of = held[c][Cur(c).urn]
                                        /\ r.label \in Cur(c).labels /\ r.source \in Cur(c).sources}
SelectedAsset(c) ==
  /\ Going(c, Looking) /\ Selected(c)
  /\ held'[c] = [held[c] EXCEPT ![Cur(c).urn] = Asset(c, Cur(c).urn)]
  /\ seen'[c] = {Asset(c, Cur(c).urn)} \ {NONE}

(* So is a SELECT,                                                         *)
LEMMA SelectStep ==
  ASSUME TypeOK, NEW c \in Calls, Select(c)
  PROVE  Own(c) /\ (SelectedRows(c) \/ SelectedAsset(c))
<1>1. CASE Cur(c).op \in {"put", "remove"}
  BY <1>1 DEF Select, Ready, TypeOK, Own, SameTables, tables, pending, SameCall, SameWrites, SameUrns,
     SameSession, SameAnswer, SamePlace, SelectedRows, Selected, Going
<1>2. CASE Cur(c).op \notin {"put", "remove"}
  BY <1>2 DEF Select, Ready, TypeOK, Own, SameTables, tables, pending, SameCall, SameWrites, SameUrns,
     SameSession, SameAnswer, SamePlace, SelectedAsset, Selected, Going, Looking
<1> QED
  BY <1>1, <1>2

Used(c) ==
  /\ Going(c, Looking) /\ seen[c] # NONE /\ seen[c] # {} /\ Advanced(c)
  /\ SameWrites(c) /\ added'[c] = added[c] /\ dropped'[c] = dropped[c] /\ SameSession(c)
  /\ SameAnswer(c)
  /\ \/ touched'[c] = touched[c]
     \/ /\ Cur(c).op = "upsert" /\ AssetFree(c, Cur(c).urn)
        /\ Asset(c, Cur(c).urn) = held[c][Cur(c).urn]
        /\ touched'[c] = touched[c] \union {Cur(c).urn}

(* the use of what it saw,                                                 *)
LEMMA UseAssetStep ==
  ASSUME TypeOK, NEW c \in Calls, UseAsset(c)
  PROVE  Own(c) /\ (Aborted(c) \/ Used(c))
<1>0. /\ Going(c, Looking) /\ seen[c] # NONE /\ UNCHANGED <<tables, job, answer, met, left>>
  BY DEF UseAsset, Looked, Ready, Going, Looking
<1>1. CASE Abort(c)
  BY <1>0, <1>1, CloseShuts DEF Abort, Own, SameTables, tables, Aborted, Going
<1>2. CASE seen[c] # {} /\ Advance(c) /\ UNCHANGED <<pending, session>>
  BY <1>0, <1>2, AdvanceAdvances DEF Own, SameTables, tables, Used, SameCall, SameWrites, SameUrns,
     SameSession, SameAnswer, pending, session
<1>3. ASSUME NEW changed \in BOOLEAN, Cur(c).op = "upsert", seen[c] # {},
             changed => AssetFree(c, Cur(c).urn), ~(changed /\ Asset(c, Cur(c).urn) # held[c][Cur(c).urn]),
             touched' = [touched EXCEPT ![c] = @ \union {u \in {Cur(c).urn} : changed}],
             Advance(c), UNCHANGED <<put, cut, added, dropped, session>>
      PROVE  Own(c) /\ Used(c)
  <2>1. Advanced(c) /\ \A d \in Calls : d # c => SamePlace(d)
    BY <1>3, AdvanceAdvances
  <2>2. touched'[c] = touched[c] \union {u \in {Cur(c).urn} : changed} /\ \A d \in Calls : d # c => touched'[d] = touched[d]
    BY <1>3 DEF TypeOK
  <2>3. \/ touched'[c] = touched[c]
        \/ /\ changed /\ touched'[c] = touched[c] \union {Cur(c).urn}
    BY <2>2
  <2> QED
    BY <1>0, <1>3, <2>1, <2>2, <2>3 DEF Own, SameTables, tables, Used, SameCall, SameWrites, SameUrns,
       SameSession, SameAnswer, session
<1>4. \/ Abort(c)
      \/ seen[c] # {} /\ Advance(c) /\ UNCHANGED <<pending, session>>
      \/ \E changed \in BOOLEAN :
           /\ Cur(c).op = "upsert" /\ seen[c] # {} /\ (changed => AssetFree(c, Cur(c).urn))
           /\ ~(changed /\ Asset(c, Cur(c).urn) # held[c][Cur(c).urn])
           /\ touched' = [touched EXCEPT ![c] = @ \union {u \in {Cur(c).urn} : changed}]
           /\ Advance(c) /\ UNCHANGED <<put, cut, added, dropped, session>>
  BY DEF UseAsset
<1> QED
  BY <1>1, <1>2, <1>3, <1>4

Inserted(c) ==
  /\ Going(c, {"find", "upsert"}) /\ seen[c] # NONE /\ seen[c] = {} /\ Advanced(c)
  /\ AssetFree(c, Cur(c).urn) /\ assets[Cur(c).urn] = NONE
  /\ added'[c] = added[c] \union {Cur(c).urn} /\ held'[c] = [held[c] EXCEPT ![Cur(c).urn] = c]
  /\ SameWrites(c) /\ dropped'[c] = dropped[c] /\ touched'[c] = touched[c]
  /\ errors'[c] = errors[c] /\ scans'[c] = scans[c] /\ SameAnswer(c)

(* the insert of an asset,                                                 *)
LEMMA InsertAssetStep ==
  ASSUME TypeOK, NEW c \in Calls, InsertAsset(c)
  PROVE  Own(c) /\ (Aborted(c) \/ Inserted(c))
<1>0. /\ Going(c, {"find", "upsert"}) /\ seen[c] # NONE /\ seen[c] = {} /\ UNCHANGED <<tables, job, answer, met, left>>
      /\ AssetFree(c, Cur(c).urn)
  BY DEF InsertAsset, Looked, Ready, Going
<1>1. CASE assets[Cur(c).urn] # NONE
  <2>1. Abort(c)
    BY <1>1 DEF InsertAsset
  <2> QED
    BY <1>0, <2>1, CloseShuts DEF Abort, Own, SameTables, tables, Aborted, Going
<1>2. CASE assets[Cur(c).urn] = NONE
  <2>1. /\ Advance(c) /\ added' = [added EXCEPT ![c] = @ \union {Cur(c).urn}]
        /\ held' = [held EXCEPT ![c][Cur(c).urn] = c]
        /\ UNCHANGED <<put, cut, dropped, touched, errors, scans>>
    BY <1>2 DEF InsertAsset
  <2>2. Advanced(c) /\ \A d \in Calls : d # c => SamePlace(d)
    BY <2>1, AdvanceAdvances
  <2> QED
    BY <1>0, <1>2, <2>1, <2>2 DEF TypeOK, Own, SameTables, tables, Inserted, SameCall, SameWrites, SameUrns,
       SameSession, SameAnswer
<1> QED
  BY <1>1, <1>2

Old(c, row) == {r \in VisibleRows(c) : Key(r) = Key(row)}
WroteRow(c) ==
  /\ Going(c, {"put"}) /\ seen[c] # NONE /\ Advanced(c) /\ RowsFree(c, {Key(NewRow(c))})
  /\ \/ seen[c] # {} /\ \E r \in Old(c, NewRow(c)) : Same(r, NewRow(c))
     \/ /\ seen[c] = {} /\ Old(c, NewRow(c)) = {} /\ ParentStays(c, Cur(c).urn)
        /\ Asset(c, Cur(c).urn) = held[c][Cur(c).urn]
  /\ put'[c] = (put[c] \ Old(c, NewRow(c))) \union {NewRow(c)}
  /\ cut'[c] = cut[c] \union (Old(c, NewRow(c)) \intersect rows)
  /\ SameUrns(c) /\ SameSession(c) /\ SameAnswer(c)

(* the write of a row,                                                     *)
LEMMA PutRowStep ==
  ASSUME TypeOK, NEW c \in Calls, PutRow(c)
  PROVE  Own(c) /\ (Aborted(c) \/ WroteRow(c))
<1> DEFINE row == NewRow(c)
           old == Old(c, row)
<1>0. /\ Going(c, {"put"}) /\ seen[c] # NONE /\ UNCHANGED <<tables, job, answer, met, left>>
      /\ RowsFree(c, {Key(row)})
  BY DEF PutRow, Looked, Ready, Going
<1>1. CASE Abort(c)
  BY <1>0, <1>1, CloseShuts DEF Abort, Own, SameTables, tables, Aborted, Going
<1>2. CASE ~Abort(c)
  <2>0. row.urn = Cur(c).urn
    BY DEF NewRow
  <2>1. /\ Advance(c) /\ put' = [put EXCEPT ![c] = (@ \ old) \union {row}]
        /\ cut' = [cut EXCEPT ![c] = @ \union (old \intersect rows)]
        /\ UNCHANGED <<added, dropped, touched, session>>
        /\ ~(seen[c] # {} /\ \A r \in old : ~Same(r, row))
        /\ ~(seen[c] = {} /\ (old # {} \/ Asset(c, row.urn) # held[c][row.urn]))
        /\ seen[c] = {} => ParentStays(c, row.urn)
    BY <1>2 DEF PutRow, Old
  <2>2. Advanced(c) /\ \A d \in Calls : d # c => SamePlace(d)
    BY <2>1, AdvanceAdvances
  <2>3. \/ seen[c] # {} /\ \E r \in old : Same(r, row)
        \/ /\ seen[c] = {} /\ old = {} /\ ParentStays(c, Cur(c).urn)
           /\ Asset(c, Cur(c).urn) = held[c][Cur(c).urn]
    BY <2>0, <2>1
  <2> HIDE DEF row, old
  <2>4. /\ put'[c] = (put[c] \ old) \union {row} /\ cut'[c] = cut[c] \union (old \intersect rows)
        /\ \A d \in Calls : d # c => put'[d] = put[d] /\ cut'[d] = cut[d]
    BY <2>1 DEF TypeOK
  <2>5. WroteRow(c)
    BY <1>0, <2>1, <2>2, <2>3, <2>4 DEF WroteRow, SameUrns, SameSession, SameAnswer, session, row, old
  <2> QED
    BY <1>0, <2>1, <2>2, <2>4, <2>5 DEF Own, SameTables, tables, SameCall, SameWrites, SameUrns,
       SameSession, SameAnswer, session
<1> QED
  BY <1>1, <1>2

LeftRow(c) ==
  /\ Going(c, {"put"}) /\ seen[c] # NONE /\ Advanced(c) /\ NewRow(c) \in seen[c]
  /\ left'[c] = left[c] \union {NewRow(c)} /\ answer'[c] = answer[c]
  /\ SameWrites(c) /\ SameUrns(c) /\ SameSession(c)

(* the one that is not written,                                            *)
LEMMA LeaveRowStep ==
  ASSUME TypeOK, NEW c \in Calls, LeaveRow(c)
  PROVE  Own(c) /\ LeftRow(c)
<1>1. Advanced(c) /\ \A d \in Calls : d # c => SamePlace(d)
  BY AdvanceAdvances DEF LeaveRow
<1> QED
  BY <1>1 DEF LeaveRow, Looked, Ready, Going, LeftRow, TypeOK, Own, SameTables, tables, pending, session, SameCall,
     SameWrites, SameUrns, SameSession, SameAnswer

Gone(c) == {r \in VisibleRows(c) : \E o \in seen[c] : Same(r, o)}
Removed(c) ==
  /\ Going(c, {"remove"}) /\ seen[c] # NONE /\ Advanced(c) /\ RowsFree(c, {Key(r) : r \in seen[c]})
  /\ put'[c] = put[c] \ Gone(c) /\ cut'[c] = cut[c] \union (Gone(c) \intersect rows)
  /\ SameUrns(c) /\ SameSession(c) /\ SameAnswer(c)

(* the delete of rows,                                                     *)
LEMMA RemoveRowsStep ==
  ASSUME TypeOK, NEW c \in Calls, RemoveRows(c)
  PROVE  Own(c) /\ (Aborted(c) \/ Removed(c))
<1> DEFINE gone == Gone(c)
<1>0. /\ Going(c, {"remove"}) /\ seen[c] # NONE /\ UNCHANGED <<tables, job, answer, met, left>>
      /\ RowsFree(c, {Key(r) : r \in seen[c]})
  BY DEF RemoveRows, Looked, Ready, Going
<1>1. CASE Abort(c)
  BY <1>0, <1>1, CloseShuts DEF Abort, Own, SameTables, tables, Aborted, Going
<1>2. CASE ~Abort(c)
  <2>1. /\ Advance(c) /\ put' = [put EXCEPT ![c] = @ \ gone]
        /\ cut' = [cut EXCEPT ![c] = @ \union (gone \intersect rows)]
        /\ UNCHANGED <<added, dropped, touched, session>>
    BY <1>2 DEF RemoveRows, Gone
  <2>2. Advanced(c) /\ \A d \in Calls : d # c => SamePlace(d)
    BY <2>1, AdvanceAdvances
  <2> HIDE DEF gone
  <2>4. /\ put'[c] = put[c] \ gone /\ cut'[c] = cut[c] \union (gone \intersect rows)
        /\ \A d \in Calls : d # c => put'[d] = put[d] /\ cut'[d] = cut[d]
    BY <2>1 DEF TypeOK
  <2>5. Removed(c)
    BY <1>0, <2>1, <2>2, <2>4 DEF Removed, SameUrns, SameSession, SameAnswer, session, gone
  <2> QED
    BY <1>0, <2>1, <2>2, <2>4, <2>5 DEF Own, SameTables, tables, SameCall, SameWrites, SameUrns,
       SameSession, SameAnswer, session
<1> QED
  BY <1>1, <1>2

Made(c) == [urn |-> Cur(c).urn, found |-> Cur(c).found]
Touched(c) ==
  /\ Going(c, {"touch"}) /\ Advanced(c) /\ AssetFree(c, Cur(c).urn)
  /\ Asset(c, Cur(c).urn) = held[c][Cur(c).urn]
  /\ touched'[c] = touched[c] \union ({Cur(c).urn} \ added[c])
  /\ scans'[c] = {s \in scans[c] : s.urn # Cur(c).urn} \union {Made(c)}
  /\ SameWrites(c) /\ added'[c] = added[c] /\ dropped'[c] = dropped[c]
  /\ held'[c] = held[c] /\ errors'[c] = errors[c] /\ SameAnswer(c)

(* the touch,                                                              *)
LEMMA TouchStep ==
  ASSUME TypeOK, NEW c \in Calls, Touch(c)
  PROVE  Own(c) /\ (Aborted(c) \/ Touched(c))
<1>0. /\ Going(c, {"touch"}) /\ UNCHANGED <<tables, job, answer, met, left>> /\ AssetFree(c, Cur(c).urn)
  BY DEF Touch, Ready, Going
<1>1. CASE Asset(c, Cur(c).urn) # held[c][Cur(c).urn]
  <2>1. Abort(c)
    BY <1>1 DEF Touch
  <2> QED
    BY <1>0, <2>1, CloseShuts DEF Abort, Own, SameTables, tables, Aborted, Going
<1>2. CASE Asset(c, Cur(c).urn) = held[c][Cur(c).urn]
  <2>1. /\ Advance(c) /\ touched' = [touched EXCEPT ![c] = @ \union ({Cur(c).urn} \ added[c])]
        /\ scans' = [scans EXCEPT ![c] = {s \in @ : s.urn # Cur(c).urn} \union {Made(c)}]
        /\ UNCHANGED <<put, cut, added, dropped, held, errors>>
    BY <1>2 DEF Touch, Made
  <2>2. Advanced(c) /\ \A d \in Calls : d # c => SamePlace(d)
    BY <2>1, AdvanceAdvances
  <2> QED
    BY <1>0, <1>2, <2>1, <2>2 DEF TypeOK, Own, SameTables, tables, Touched, SameCall, SameWrites, SameUrns,
       SameSession, SameAnswer
<1> QED
  BY <1>1, <1>2

Mine(c) == {r \in rows : r.urn = Cur(c).urn /\ r.of = held[c][Cur(c).urn]}
Dropped(c) ==
  /\ Going(c, {"drop"}) /\ Advanced(c) /\ AssetFree(c, Cur(c).urn) /\ ParentUnused(c, Cur(c).urn)
  /\ RowsFree(c, {Key(r) : r \in Mine(c)})
  /\ \/ /\ Asset(c, Cur(c).urn) = held[c][Cur(c).urn]
        /\ dropped'[c] = dropped[c] \union {Cur(c).urn} /\ cut'[c] = cut[c] \union Mine(c)
     \/ dropped'[c] = dropped[c] /\ cut'[c] = cut[c]
  /\ put'[c] = put[c] /\ added'[c] = added[c] /\ touched'[c] = touched[c]
  /\ SameSession(c) /\ SameAnswer(c)

(* the delete of an asset,                                                 *)
LEMMA DropAssetStep ==
  ASSUME TypeOK, NEW c \in Calls, DropAsset(c)
  PROVE  Own(c) /\ Dropped(c)
<1>0. /\ Going(c, {"drop"}) /\ AssetFree(c, Cur(c).urn) /\ ParentUnused(c, Cur(c).urn) /\ Advance(c)
      /\ RowsFree(c, {Key(r) : r \in Mine(c)})
      /\ UNCHANGED <<tables, put, added, touched, job, held, errors, answer, met, scans, left>>
  BY DEF DropAsset, Ready, Going, Mine
<1>1. \/ /\ Asset(c, Cur(c).urn) = held[c][Cur(c).urn]
         /\ dropped' = [dropped EXCEPT ![c] = @ \union {Cur(c).urn}]
         /\ cut' = [cut EXCEPT ![c] = @ \union Mine(c)]
      \/ UNCHANGED <<dropped, cut>>
  BY DEF DropAsset, Mine
<1>2. Advanced(c) /\ \A d \in Calls : d # c => SamePlace(d)
  BY <1>0, AdvanceAdvances
<1> QED
  BY <1>0, <1>1, <1>2 DEF TypeOK, Own, SameTables, tables, Dropped, SameCall, SameWrites, SameUrns,
     SameSession, SameAnswer

Sampled(c) ==
  /\ Going(c, {"sample"}) /\ SameWrites(c) /\ SameUrns(c) /\ SameAnswer(c)
  /\ pc'[c] = pc[c] /\ seen'[c] = seen[c] /\ held'[c] = held[c] /\ scans'[c] = scans[c]
  /\ \/ todo'[c] = apply_scan(Cur(c).urn, Cur(c).found) \o Tail(todo[c]) /\ errors'[c] = errors[c]
     \/ todo'[c] = Tail(todo[c]) /\ errors'[c] = errors[c] \union {Cur(c).urn}

(* the sample,                                                             *)
LEMMA SampleStep ==
  ASSUME TypeOK, NEW c \in Calls, Sample(c)
  PROVE  Own(c) /\ Sampled(c)
BY DEF Sample, Ready, Going, TypeOK, Own, SameTables, tables, Sampled, SameCall, SameWrites, SameUrns,
     SameSession, SameAnswer, SamePlace, pending

ReadOn(c) ==
  /\ Advanced(c) /\ SameWrites(c) /\ SameUrns(c) /\ errors'[c] = errors[c] /\ scans'[c] = scans[c]
  /\ left'[c] = left[c]
ReadTheAssets(c) ==
  /\ Going(c, {"exact", "patterns"}) /\ ReadOn(c) /\ answer'[c] = answer[c]
  /\ held'[c] = [u \in Urns |-> IF u \in (IF Cur(c).op = "exact" THEN {Cur(c).urn} ELSE Covering[Cur(c).urn])
                                THEN assets[u] ELSE held[c][u]]
ReadTheLabels(c) ==
  /\ Going(c, {"labels"}) /\ ReadOn(c) /\ held'[c] = held[c]
  /\ answer'[c] = _merge_labels(answer[c], {r \in rows : r.urn = Cur(c).urn /\ r.of = held[c][Cur(c).urn]})

(* a read of assets,                                                       *)
LEMMA ReadAssetsStep ==
  ASSUME TypeOK, NEW c \in Calls, ReadAssets(c)
  PROVE  Own(c) /\ ReadTheAssets(c)
<1>1. Advanced(c) /\ \A d \in Calls : d # c => SamePlace(d)
  BY AdvanceAdvances DEF ReadAssets
<1> QED
  BY <1>1 DEF ReadAssets, Ready, Going, TypeOK, Own, SameTables, tables, ReadTheAssets, ReadOn, SameCall,
     SameWrites, SameUrns, SameSession, SameAnswer, pending

(* and a read of labels.                                                   *)
LEMMA ReadLabelsStep ==
  ASSUME TypeOK, NEW c \in Calls, ReadLabels(c)
  PROVE  Own(c) /\ ReadTheLabels(c)
<1>1. Advanced(c) /\ \A d \in Calls : d # c => SamePlace(d)
  BY AdvanceAdvances DEF ReadLabels
<1> QED
  BY <1>1 DEF ReadLabels, Ready, Going, TypeOK, Own, SameTables, tables, ReadTheLabels, ReadOn, SameCall,
     SameWrites, SameUrns, SameSession, SameAnswer, pending

----------------------------------------------------------------------------
(* The steps of Next, in two kinds.                                        *)
OwnStep(c) ==
  \/ Aborted(c) \/ SelectedRows(c) \/ SelectedAsset(c) \/ Used(c) \/ Inserted(c) \/ WroteRow(c)
  \/ LeftRow(c) \/ Removed(c) \/ Touched(c) \/ Dropped(c) \/ Sampled(c) \/ ReadTheAssets(c)
  \/ ReadTheLabels(c)

(* What is kept for each call is a function of the calls.                  *)
Shaped ==
  /\ put = [d \in Calls |-> put[d]] /\ cut = [d \in Calls |-> cut[d]]
  /\ added = [d \in Calls |-> added[d]] /\ dropped = [d \in Calls |-> dropped[d]]
  /\ touched = [d \in Calls |-> touched[d]] /\ held = [d \in Calls |-> held[d]]
  /\ errors = [d \in Calls |-> errors[d]] /\ scans = [d \in Calls |-> scans[d]]
  /\ answer = [d \in Calls |-> answer[d]] /\ left = [d \in Calls |-> left[d]]
  /\ pc = [d \in Calls |-> pc[d]] /\ todo = [d \in Calls |-> todo[d]] /\ seen = [d \in Calls |-> seen[d]]

(* Well typed, they are.                                                   *)
LEMMA TypeShaped == ASSUME TypeOK PROVE Shaped
BY DEF TypeOK, Shaped

(* A session that ends keeps them so,                                      *)
LEMMA CloseShaped ==
  ASSUME Shaped, NEW c \in Calls, NEW how, Close(c, how), UNCHANGED <<answer, left>>
  PROVE  Shaped'
BY DEF Shaped, Close

(* a statement that is done,                                               *)
LEMMA AdvanceShaped ==
  ASSUME Shaped, NEW c \in Calls, Advance(c)
  PROVE  pc' = [d \in Calls |-> pc'[d]] /\ todo' = [d \in Calls |-> todo'[d]] /\ seen' = [d \in Calls |-> seen'[d]]
BY DEF Shaped, Advance

(* and every step of a call.                                               *)
LEMMA OwnShaped ==
  ASSUME Shaped, NEW c \in Calls,
         \/ Select(c) \/ UseAsset(c) \/ InsertAsset(c) \/ PutRow(c) \/ LeaveRow(c)
         \/ RemoveRows(c) \/ Touch(c) \/ DropAsset(c) \/ Sample(c) \/ ReadAssets(c) \/ ReadLabels(c)
         \/ Fail(c)
  PROVE  Shaped'
<1>1. CASE Select(c)
  BY <1>1 DEF Select, Shaped, pending
<1>2. CASE UseAsset(c)
  <2>0. UNCHANGED <<answer, left>>
    BY <1>2 DEF UseAsset
  <2>1. CASE Abort(c)
    BY <2>0, <2>1, CloseShaped DEF Abort
  <2>2. CASE Advance(c) /\ UNCHANGED <<put, cut, added, dropped, session>> /\ (\E T : touched' = [touched EXCEPT ![c] = T])
    BY <2>0, <2>2, AdvanceShaped DEF Shaped, session
  <2>3. CASE Advance(c) /\ UNCHANGED <<pending, session>>
    BY <2>0, <2>3, AdvanceShaped DEF Shaped, session, pending
  <2> QED
    BY <1>2, <2>1, <2>2, <2>3 DEF UseAsset
<1>3. CASE InsertAsset(c)
  <2>0. UNCHANGED <<answer, left>>
    BY <1>3 DEF InsertAsset
  <2>1. CASE Abort(c)
    BY <2>0, <2>1, CloseShaped DEF Abort
  <2>2. CASE ~Abort(c)
    BY <1>3, <2>0, <2>2, AdvanceShaped DEF Shaped, InsertAsset
  <2> QED
    BY <2>1, <2>2
<1>4. CASE PutRow(c)
  <2>0. UNCHANGED <<answer, left>>
    BY <1>4 DEF PutRow
  <2>1. CASE Abort(c)
    BY <2>0, <2>1, CloseShaped DEF Abort
  <2>2. CASE ~Abort(c)
    <3>1. /\ Advance(c) /\ UNCHANGED <<added, dropped, touched, session>>
          /\ (\E S : put' = [put EXCEPT ![c] = S]) /\ (\E S : cut' = [cut EXCEPT ![c] = S])
      BY <1>4, <2>2 DEF PutRow
    <3> QED
      BY <2>0, <3>1, AdvanceShaped DEF Shaped, session
  <2> QED
    BY <2>1, <2>2
<1>5. CASE LeaveRow(c)
  BY <1>5, AdvanceShaped DEF Shaped, LeaveRow, pending, session
<1>6. CASE RemoveRows(c)
  <2>0. UNCHANGED <<answer, left>>
    BY <1>6 DEF RemoveRows
  <2>1. CASE Abort(c)
    BY <2>0, <2>1, CloseShaped DEF Abort
  <2>2. CASE ~Abort(c)
    <3>1. /\ Advance(c) /\ UNCHANGED <<added, dropped, touched, session>>
          /\ (\E S : put' = [put EXCEPT ![c] = S]) /\ (\E S : cut' = [cut EXCEPT ![c] = S])
      BY <1>6, <2>2 DEF RemoveRows
    <3> QED
      BY <2>0, <3>1, AdvanceShaped DEF Shaped, session
  <2> QED
    BY <2>1, <2>2
<1>7. CASE Touch(c)
  <2>0. UNCHANGED <<answer, left>>
    BY <1>7 DEF Touch
  <2>1. CASE Abort(c)
    BY <2>0, <2>1, CloseShaped DEF Abort
  <2>2. CASE ~Abort(c)
    BY <1>7, <2>0, <2>2, AdvanceShaped DEF Shaped, Touch
  <2> QED
    BY <2>1, <2>2
<1>8. CASE DropAsset(c)
  <2>1. /\ (\E S : dropped' = [dropped EXCEPT ![c] = S]) \/ dropped' = dropped
        /\ (\E S : cut' = [cut EXCEPT ![c] = S]) \/ cut' = cut
        /\ Advance(c) /\ UNCHANGED <<put, added, touched, held, errors, answer, scans, left>>
    BY <1>8 DEF DropAsset
  <2> QED
    BY <2>1, AdvanceShaped DEF Shaped
<1>9. CASE Sample(c)
  BY <1>9 DEF Shaped, Sample, pending
<1>10. CASE ReadAssets(c)
  BY <1>10, AdvanceShaped DEF Shaped, ReadAssets, pending
<1>11. CASE ReadLabels(c)
  BY <1>11, AdvanceShaped DEF Shaped, ReadLabels, pending
<1>12. CASE Fail(c)
  BY <1>12, CloseShaped DEF Fail, Abort
<1> QED
  BY <1>1, <1>2, <1>3, <1>4, <1>5, <1>6, <1>7, <1>8, <1>9, <1>10, <1>11, <1>12

(* There are no other steps.                                               *)
LEMMA Stepping ==
  ASSUME TypeOK, Next
  PROVE  \E c \in Calls : Begin(c) \/ Commit(c) \/ (Own(c) /\ OwnStep(c) /\ Shaped')
<1>1. PICK c \in Calls :
        \/ Begin(c) \/ Select(c) \/ UseAsset(c) \/ InsertAsset(c) \/ PutRow(c) \/ LeaveRow(c)
        \/ RemoveRows(c) \/ Touch(c) \/ DropAsset(c) \/ Sample(c) \/ ReadAssets(c) \/ ReadLabels(c)
        \/ Commit(c) \/ Fail(c)
  BY DEF Next
<1>2. Begin(c) \/ Commit(c) \/ (Own(c) /\ OwnStep(c))
  BY <1>1, FailStep, SelectStep, UseAssetStep, InsertAssetStep, PutRowStep, LeaveRowStep,
     RemoveRowsStep, TouchStep, DropAssetStep, SampleStep, ReadAssetsStep, ReadLabelsStep DEF OwnStep
<1>3. Begin(c) \/ Commit(c) \/ Shaped'
  BY <1>1, TypeShaped, OwnShaped
<1> QED
  BY <1>2, <1>3

(* The statement at hand.                                                  *)
LEMMA CurFacts ==
  ASSUME TypeOK, NEW c \in Calls, todo[c] # <<>>
  PROVE  /\ todo[c] \in Seq(Statement) /\ Cur(c) = todo[c][1] /\ Cur(c) \in Statement /\ Cur(c).urn \in Urns
         /\ 1 \in DOMAIN todo[c] /\ Cur(c).labels \subseteq Labels
<1>1. todo[c] \in Seq(Statement)
  BY DEF TypeOK
<1>2. Cur(c) = todo[c][1] /\ todo[c][1] \in Statement /\ 1 \in DOMAIN todo[c]
  BY <1>1 DEF Cur
<1> QED
  BY <1>1, <1>2 DEF Statement

(* What is left after it.                                                  *)
LEMMA RestPlan ==
  ASSUME TypeOK, NEW c \in Calls, Plan(c), todo[c] # <<>>
  PROVE  /\ Rest(c) \in Seq(Statement) /\ StmtsOk(Rest(c), job[c])
         /\ (job[c].kind # "unlabel" => Blocks(Rest(c))) /\ Resolving(Rest(c))
         /\ \A h : /\ Looks(todo[c], h)
                   /\ Cur(c).op \in Looking => h[Cur(c).urn] # NONE
                   => Looks(Rest(c), h)
<1> DEFINE t == todo[c]
           s == Cur(c)
<1>0. t \in Seq(Statement) /\ s = t[1] /\ s \in Statement
  BY CurFacts
<1>1. Tail(t) \in Seq(Statement) /\ StmtsOk(Tail(t), job[c]) /\ StmtOk(s, job[c]) /\ Resolving(Tail(t))
  <2>1. StmtsOk(t, job[c]) /\ Resolving(t)
    BY DEF Plan
  <2> QED
    BY <1>0, <2>1, TailAt, StmtsTail, ResolvingTail
<1>2. ASSUME job[c].kind # "unlabel"
      PROVE  Blocks(Tail(t)) /\ (~Scanning(s) => NotMid(Tail(t)))
  BY <1>0, <1>2, BlocksTail DEF Plan
<1>3. ASSUME NEW h, Looks(t, h), s.op \in Looking => h[s.urn] # NONE
      PROVE  Looks(Tail(t), h)
  BY <1>0, <1>3, LooksTail
<1>4. CASE s.op # "upsert"
  BY <1>1, <1>2, <1>3, <1>4 DEF Rest
<1>5. CASE s.op = "upsert"
  <2> DEFINE a == _absorb(s)
  <2>0. job[c].kind = "discover" /\ s.found \in Findings
    <3>1. job[c].kind \in {"label", "unlabel", "drop", "scan", "discover", "resolve"}
      BY DEF TypeOK, Request
    <3>2. "upsert" \in KindOps(job[c].kind)
      BY <1>1, <1>5 DEF StmtOk
    <3>3. job[c].kind = "discover"
      <4>1. CASE job[c].kind \in {"label", "unlabel"}
        BY <3>2, <4>1 DEF KindOps
      <4>2. CASE job[c].kind \in {"drop", "scan"}
        BY <3>2, <4>2 DEF KindOps
      <4>3. CASE job[c].kind = "resolve"
        BY <3>2, <4>3 DEF KindOps
      <4> QED
        BY <3>1, <4>1, <4>2, <4>3
    <3> QED
      BY <1>1, <1>5, <3>3 DEF StmtOk
  <2>1. /\ a \in Seq(Statement) /\ StmtsOk(a, job[c]) /\ Quiet(a) /\ Resolving(a)
        /\ \A i \in DOMAIN a : a[i].urn = s.urn /\ a[i].op \in {"put", "sample"}
    BY <1>0, <2>0, AbsorbFacts
  <2> HIDE DEF a
  <2>2. Rest(c) = a \o Tail(t)
    BY <1>5 DEF Rest, a
  <2>3. StmtsOk(a \o Tail(t), job[c]) /\ a \o Tail(t) \in Seq(Statement)
    <3> DEFINE tl == Tail(t)
    <3>1. tl \in Seq(Statement) /\ StmtsOk(tl, job[c]) /\ a \in Seq(Statement) /\ StmtsOk(a, job[c])
      BY <1>1, <2>1
    <3> HIDE DEF tl
    <3>2. StmtsOk(a \o tl, job[c])
      BY <3>1, StmtsConcat
    <3>3. a \o tl \in Seq(Statement)
      BY <3>1
    <3> QED
      BY <3>2, <3>3 DEF tl
  <2>4. ~Scanning(s)
    BY <1>5 DEF Scanning, ScanPut
  <2>5. Blocks(Tail(t)) /\ NotMid(Tail(t))
    BY <1>2, <2>0, <2>4
  <2>6. Blocks(a)
    BY <2>1, QuietBlocks
  <2>7. Blocks(a \o Tail(t))
    BY <1>1, <2>1, <2>5, <2>6, BlocksConcat
  <2>8. ASSUME NEW h, Looks(t, h), s.op \in Looking => h[s.urn] # NONE
        PROVE  Looks(a \o Tail(t), h)
    <3>1. h[s.urn] # NONE
      BY <1>5, <2>8 DEF Looking
    <3>2. Looks(Tail(t), h)
      BY <1>3, <2>8
    <3>3. \A i \in DOMAIN a : h[a[i].urn] # NONE
      BY <2>1, <3>1
    <3> QED
      BY <1>1, <2>1, <3>2, <3>3, LooksConcat
  <2>9. Resolving(a \o Tail(t))
    <3>1. \A i \in DOMAIN (a \o Tail(t)) : (a \o Tail(t))[i].op # "labels"
      BY <2>0, <2>3 DEF StmtsOk, StmtOk, KindOps
    <3> QED
      BY <3>1 DEF Resolving
  <2> QED
    BY <2>2, <2>3, <2>7, <2>8, <2>9
<1> QED
  BY <1>4, <1>5

(* The row a put would write.                                              *)
LEMMA NewRowFacts ==
  ASSUME TypeOK, NEW c \in Calls, Plan(c), Going(c, {"put"}), seen[c] # NONE
  PROVE  \E l \in Labels, x \in DOMAIN Precedence :
           /\ Cur(c).labels = {l} /\ Cur(c).sources = {x}
           /\ NewRow(c) \in Row /\ NewRow(c).urn = Cur(c).urn /\ NewRow(c).of = held[c][Cur(c).urn]
           /\ NewRow(c).label = l /\ NewRow(c).source = x
           /\ (x = "manual" <=> job[c].kind = "label")
           /\ (x = "scan" <=> ScanPut(Cur(c)))
<1>0. /\ todo[c] # <<>> /\ Cur(c).op = "put" /\ todo[c] \in Seq(Statement) /\ Cur(c) = todo[c][1]
      /\ Cur(c).urn \in Urns /\ 1 \in DOMAIN todo[c]
  BY CurFacts DEF Going
<1>1. PutOk(Cur(c), job[c].kind)
  BY <1>0 DEF Plan, StmtsOk, StmtOk
<1>2. PICK l \in Labels, x \in DOMAIN Precedence :
        /\ Cur(c).labels = {l} /\ Cur(c).sources = {x} /\ Cur(c).level \in Levels
        /\ x = "manual" <=> job[c].kind = "label"
  BY <1>1 DEF PutOk
<1>3. held[c][Cur(c).urn] \in Calls \union {"seed"}
  <2>1. held[c][Cur(c).urn] # NONE
    <3>1. \/ held[c][todo[c][1].urn] # NONE
          \/ \E j \in 1 .. (1 - 1) : todo[c][j].op \in Looking /\ todo[c][j].urn = todo[c][1].urn
      BY <1>0 DEF Plan, Looks
    <3> QED
      BY <1>0, <3>1
  <2>2. held[c][Cur(c).urn] \in Ids
    BY <1>0 DEF TypeOK
  <2> QED
    BY <2>1, <2>2 DEF Ids
<1>4. NewRow(c).by \in Calls \union {"seed"}
  <2>1. CASE seen[c] = {}
    BY <2>1 DEF NewRow
  <2>2. CASE seen[c] # {}
    <3>1. seen[c] \subseteq Row
      BY <1>0 DEF Plan, SeenOk
    <3>2. \A r \in seen[c] : r.by \in Calls \union {"seed"}
      BY <3>1 DEF Row
    <3> QED
      BY <2>2, <3>2 DEF NewRow
  <2> QED
    BY <2>1, <2>2
<1>5. /\ NewRow(c).urn = Cur(c).urn /\ NewRow(c).of = held[c][Cur(c).urn] /\ NewRow(c).label = l
      /\ NewRow(c).source = x /\ NewRow(c).level = Cur(c).level
  BY <1>2 DEF NewRow
<1>6. NewRow(c) = [urn |-> Cur(c).urn, of |-> held[c][Cur(c).urn], label |-> l, source |-> x,
                   level |-> Cur(c).level, by |-> NewRow(c).by]
  BY <1>2 DEF NewRow
<1>7. NewRow(c) \in Row
  BY <1>0, <1>2, <1>3, <1>4, <1>6 DEF Row
<1>8. x = "scan" <=> ScanPut(Cur(c))
  BY <1>0, <1>2 DEF ScanPut
<1> QED
  BY <1>2, <1>5, <1>7, <1>8

(* A write is about a loaded asset.                                        *)
LEMMA HeldAtWork ==
  ASSUME TypeOK, NEW c \in Calls, Plan(c), Going(c, {"put", "remove", "touch", "sample", "drop"})
  PROVE  held[c][Cur(c).urn] # NONE
<1>0. todo[c] # <<>> /\ Cur(c) = todo[c][1] /\ 1 \in DOMAIN todo[c]
  BY CurFacts DEF Going
<1>1. \/ held[c][todo[c][1].urn] # NONE
      \/ \E j \in 1 .. (1 - 1) : todo[c][j].op \in Looking /\ todo[c][j].urn = todo[c][1].urn
  BY <1>0 DEF Plan, Looks, Going
<1> QED
  BY <1>0, <1>1

----------------------------------------------------------------------------
(* Types.                                                                  *)

(* The sources and their precedence.                                       *)
LEMMA Sources ==
  /\ DOMAIN Precedence = {"manual", "imported", "scan"}
  /\ Precedence["manual"] = 40 /\ Precedence["imported"] = 30 /\ Precedence["scan"] = 20
BY DEF Precedence

Beats(r, o) ==
  \/ Precedence[r.source] > Precedence[o.source]
  \/ Precedence[r.source] = Precedence[o.source] /\ r.level >= o.level

(* Some row beats all the others.                                          *)
LEMMA WinnerWins ==
  ASSUME NEW R \in SUBSET Row, R # {}
  PROVE  Winner(R) \in R /\ \A o \in R : Beats(Winner(R), o)
<1> DEFINE From(x) == {r \in R : r.source = x}
<1>0. \A r \in R : r.source \in {"manual", "imported", "scan"} /\ r.level \in Levels
  BY Sources DEF Row
<1>1. PICK x \in {"manual", "imported", "scan"} :
        From(x) # {} /\ \A o \in R : Precedence[o.source] <= Precedence[x]
  <2>1. CASE From("manual") # {}
    BY <1>0, <2>1, Sources
  <2>2. CASE From("manual") = {} /\ From("imported") # {}
    <3>1. \A o \in R : o.source \in {"imported", "scan"}
      BY <1>0, <2>2
    <3> QED
      BY <2>2, <3>1, Sources
  <2>3. CASE From("manual") = {} /\ From("imported") = {}
    <3>1. \A o \in R : o.source = "scan"
      BY <1>0, <2>3
    <3>2. From("scan") # {}
      BY <3>1
    <3> QED
      BY <3>1, <3>2, Sources
  <2> QED
    BY <2>1, <2>2, <2>3
<1> DEFINE V == {r.level : r \in From(x)}
<1>2. V \subseteq Levels /\ V # {} /\ V \in SUBSET Nat
  <2>1. V \subseteq Levels /\ V # {}
    BY <1>0, <1>1
  <2>2. Levels \subseteq Nat
    BY CatalogAssumption
  <2> HIDE DEF V
  <2> QED
    BY <2>1, <2>2
<1>3. IsFiniteSet(V)
  BY <1>2, FS_Subset, CatalogAssumption
<1>4. PICK v \in V : \A s \in V : s <= v
  BY <1>2, <1>3, GreatestOf
<1>5. PICK w \in From(x) : w.level = v
  OBVIOUS
<1>6. ASSUME NEW o \in R PROVE Beats(w, o)
  <2>1. CASE o.source = x
    <3>1. o.level \in V /\ o.level <= w.level
      BY <1>4, <1>5, <2>1
    <3>2. o.level \in Nat /\ w.level \in Nat
      BY <1>2, <1>5, <3>1
    <3> QED
      BY <1>5, <2>1, <3>1, <3>2 DEF Beats
  <2>2. CASE o.source # x
    <3>1. o.source \in {"manual", "imported", "scan"} /\ Precedence[o.source] <= Precedence[x]
      BY <1>0, <1>1
    <3>2. Precedence[x] > Precedence[o.source]
      BY <2>2, <3>1, Sources
    <3> QED
      BY <1>5, <3>2 DEF Beats
  <2> QED
    BY <2>1, <2>2
<1>7. Winner(R) = CHOOSE r \in R : \A o \in R : Beats(r, o)
  BY DEF Winner, Beats
<1> QED
  BY <1>5, <1>6, <1>7

(* The greater of two numbers.                                             *)
LEMMA MaxOfTwo ==
  ASSUME NEW a \in Nat, NEW b \in Nat
  PROVE  Max({a, b}) \in Nat /\ Max({a, b}) >= a /\ Max({a, b}) >= b
<1>1. Max({a, b}) = CHOOSE x \in {a, b} : \A y \in {a, b} : x >= y
  BY DEF Max
<1>2. \E x \in {a, b} : \A y \in {a, b} : x >= y
  OBVIOUS
<1> QED
  BY <1>1, <1>2

(* What a resolution makes of the rows it reads.                           *)
LEMMA MergeFacts ==
  ASSUME NEW a \in [Labels -> Nat], NEW R \in SUBSET Row
  PROVE  /\ _merge_labels(a, R) \in [Labels -> Nat]
         /\ \A l \in Labels : _merge_labels(a, R)[l] >= a[l]
         /\ \A r \in R : /\ _merge_labels(a, R)[r.label] > 0
                         /\ r.source = "manual" => _merge_labels(a, R)[r.label] >= r.level
<1> DEFINE m == _merge_labels(a, R)
           Of(l) == {r \in R : r.label = l}
<1>1. m = [l \in Labels |-> IF Of(l) = {} THEN a[l] ELSE Max({a[l], Winner(Of(l)).level})]
  BY DEF _merge_labels
<1>2. ASSUME NEW l \in Labels, Of(l) # {}
      PROVE  /\ m[l] \in Nat /\ m[l] >= a[l] /\ m[l] > 0
             /\ \A r \in Of(l) : r.source = "manual" => m[l] >= r.level
  <2> DEFINE w == Winner(Of(l))
  <2>1. w \in Of(l) /\ \A o \in Of(l) : Beats(w, o)
    BY <1>2, WinnerWins
  <2>2. \A r \in Of(l) : r.level \in Nat /\ r.level > 0 /\ r.source \in {"manual", "imported", "scan"}
    <3>1. \A r \in Of(l) : r.level \in Levels /\ r.source \in DOMAIN Precedence
      BY DEF Row
    <3>2. \A v \in Levels : v \in Nat /\ v > 0
      BY CatalogAssumption
    <3> QED
      BY <3>1, <3>2, Sources
  <2>3. m[l] = Max({a[l], w.level})
    BY <1>1, <1>2
  <2>4. w.level \in Nat /\ w.level > 0 /\ w.source \in {"manual", "imported", "scan"}
    BY <2>1, <2>2
  <2> HIDE DEF w, m
  <2>5. m[l] \in Nat /\ m[l] >= a[l] /\ m[l] >= w.level
    BY <2>3, <2>4, MaxOfTwo
  <2>6. ASSUME NEW r \in Of(l), r.source = "manual" PROVE m[l] >= r.level
    <3>1. w.level >= r.level
      <4>1. Beats(w, r)
        BY <2>1
      <4> QED
        BY <2>4, <2>6, <4>1, Sources DEF Beats
    <3>2. r.level \in Nat
      BY <2>2
    <3> QED
      BY <2>4, <2>5, <3>1, <3>2
  <2> QED
    BY <2>4, <2>5, <2>6
<1>3. ASSUME NEW l \in Labels, Of(l) = {}
      PROVE  m[l] = a[l] /\ m[l] \in Nat
  BY <1>1, <1>3
<1>4. m \in [Labels -> Nat]
  <2>1. \A l \in Labels : m[l] \in Nat
    BY <1>2, <1>3
  <2> QED
    BY <1>1, <2>1
<1>5. \A r \in R : r.label \in Labels /\ r \in Of(r.label)
  BY DEF Row
<1> HIDE DEF m, Of
<1>6. \A l \in Labels : m[l] >= a[l]
  BY <1>2, <1>3
<1>7. \A r \in R : m[r.label] > 0 /\ (r.source = "manual" => m[r.label] >= r.level)
  BY <1>2, <1>5
<1> QED
  BY <1>4, <1>6, <1>7 DEF m

----------------------------------------------------------------------------
CallType(d) ==
  /\ pc[d] \in {"idle", "run", "done", "failed"} /\ todo[d] \in Seq(Statement)
  /\ held[d] \in [Urns -> Ids] /\ put[d] \subseteq Row /\ cut[d] \subseteq Row
  /\ added[d] \subseteq Urns /\ dropped[d] \subseteq Urns /\ touched[d] \subseteq Urns
  /\ errors[d] \subseteq Urns /\ answer[d] \in [Labels -> Nat] /\ left[d] \subseteq Row
  /\ scans[d] \subseteq Scan

SharedType ==
  /\ assets \in [Urns -> Ids] /\ rows \subseteq Row /\ job \in [Calls -> Request]
  /\ met \in [Calls -> SUBSET Calls] /\ steady \in [Calls -> SUBSET Row]
  /\ lastScan \in [Urns -> SUBSET [found : Findings \union {<<>>}, by : Calls]]

(* TypeOK, part by part.                                                   *)
LEMMA TypeParts ==
  ASSUME TypeOK
  PROVE  SharedType /\ Shaped /\ \A d \in Calls : CallType(d)
BY DEF TypeOK, SharedType, Shaped, CallType

(* An asset is known by who registered it.                                 *)
LEMMA AssetType ==
  ASSUME TypeOK, NEW c \in Calls, NEW u \in Urns
  PROVE  Asset(c, u) \in Ids /\ VisibleRows(c) \subseteq Row
BY DEF TypeOK, Asset, Ids, VisibleRows

(* The scan a touch records.                                               *)
LEMMA MadeType ==
  ASSUME TypeOK, NEW c \in Calls, todo[c] # <<>>
  PROVE  Made(c) \in Scan
<1>1. Cur(c) \in Statement
  BY CurFacts
<1>2. Cur(c).urn \in Urns /\ Cur(c).found \in Findings \union {<<>>}
  BY <1>1 DEF Statement
<1> QED
  BY <1>2 DEF Made, Scan

(* A call left alone keeps its types.                                      *)
LEMMA SameCallType ==
  ASSUME NEW d \in Calls, CallType(d), SameCall(d)
  PROVE  CallType(d)'
BY DEF CallType, SameCall, SameWrites, SameUrns, SameSession, SameAnswer, SamePlace

(* What is left is a list of statements.                                   *)
LEMMA RestType ==
  ASSUME TypeOK, NEW c \in Calls, Plan(c), todo[c] # <<>>
  PROVE  Rest(c) \in Seq(Statement)
BY RestPlan

(* So is what a sample leads to.                                           *)
LEMMA SampledTodo ==
  ASSUME TypeOK, NEW c \in Calls, Plan(c), Sampled(c)
  PROVE  /\ Cur(c).found \in Findings /\ job[c].kind = "discover"
         /\ todo'[c] \in Seq(Statement)
<1>1. todo[c] # <<>> /\ Cur(c).op = "sample"
  BY DEF Sampled, Going
<1>2. todo[c] \in Seq(Statement) /\ Cur(c) = todo[c][1] /\ 1 \in DOMAIN todo[c] /\ Cur(c).urn \in Urns
  BY <1>1, CurFacts
<1>3. StmtOk(Cur(c), job[c])
  BY <1>2 DEF Plan, StmtsOk
<1>4. Cur(c).found \in Findings
  BY <1>1, <1>3 DEF StmtOk
<1>5. job[c].kind = "discover"
  <2>1. job[c].kind \in {"label", "unlabel", "drop", "scan", "discover", "resolve"}
    BY DEF TypeOK, Request
  <2>2. "sample" \in KindOps(job[c].kind)
    BY <1>1, <1>3 DEF StmtOk
  <2>3. CASE job[c].kind \in {"label", "unlabel"}
    BY <2>2, <2>3 DEF KindOps
  <2>4. CASE job[c].kind \in {"drop", "scan"}
    BY <2>2, <2>4 DEF KindOps
  <2>5. CASE job[c].kind = "resolve"
    BY <2>2, <2>5 DEF KindOps
  <2> QED
    BY <2>1, <2>3, <2>4, <2>5
<1>6. todo'[c] \in Seq(Statement)
  <2> DEFINE tl == Tail(todo[c])
             b == apply_scan(Cur(c).urn, Cur(c).found)
  <2>1. tl \in Seq(Statement)
    BY <1>1, <1>2, TailAt
  <2>2. b \in Seq(Statement)
    BY <1>2, <1>4, ScanShape DEF IsScan
  <2>3. todo'[c] = b \o tl \/ todo'[c] = tl
    BY DEF Sampled
  <2> HIDE DEF b, tl
  <2>4. b \o tl \in Seq(Statement)
    BY <2>1, <2>2
  <2> QED
    BY <2>1, <2>3, <2>4
<1> QED
  BY <1>4, <1>5, <1>6

(* A call's step keeps its types.                                          *)
LEMMA OwnType ==
  ASSUME TypeOK, NEW c \in Calls, Plan(c), OwnStep(c)
  PROVE  CallType(c)'
<1>0. CallType(c) /\ SharedType
  BY TypeParts
<1>1. CASE Aborted(c)
  BY <1>0, <1>1 DEF CallType, Aborted, Shut, SameAnswer, Ids
<1>2. CASE SelectedRows(c)
  BY <1>0, <1>2 DEF CallType, SelectedRows, Selected, SameWrites, SameUrns, SameAnswer
<1>3. CASE SelectedAsset(c)
  <2>1. todo[c] # <<>>
    BY <1>3 DEF SelectedAsset, Going
  <2>2. Cur(c).urn \in Urns
    BY <2>1, CurFacts
  <2>3. Asset(c, Cur(c).urn) \in Ids
    BY <2>2, AssetType
  <2>4. held'[c] \in [Urns -> Ids]
    BY <1>0, <1>3, <2>2, <2>3 DEF SelectedAsset, CallType
  <2> QED
    BY <1>0, <1>3, <2>4 DEF CallType, SelectedAsset, Selected, SameWrites, SameUrns, SameAnswer
<1>4. CASE Used(c)
  <2>1. todo[c] # <<>>
    BY <1>4 DEF Used, Going
  <2>2. Cur(c).urn \in Urns /\ Rest(c) \in Seq(Statement)
    BY <2>1, CurFacts, RestType
  <2>3. touched'[c] \subseteq Urns
    BY <1>0, <1>4, <2>2 DEF Used, CallType
  <2> QED
    BY <1>0, <1>4, <2>2, <2>3 DEF CallType, Used, Advanced, SameWrites, SameSession, SameAnswer
<1>5. CASE Inserted(c)
  <2>1. todo[c] # <<>>
    BY <1>5 DEF Inserted, Going
  <2>2. Cur(c).urn \in Urns /\ Rest(c) \in Seq(Statement)
    BY <2>1, CurFacts, RestType
  <2>3. added'[c] \subseteq Urns /\ held'[c] \in [Urns -> Ids]
    BY <1>0, <1>5, <2>2 DEF Inserted, CallType, Ids
  <2> QED
    BY <1>0, <1>5, <2>2, <2>3 DEF CallType, Inserted, Advanced, SameWrites, SameAnswer
<1>6. CASE WroteRow(c)
  <2>1. todo[c] # <<>> /\ NewRow(c) \in Row
    BY <1>6, NewRowFacts DEF WroteRow, Going
  <2>2. Rest(c) \in Seq(Statement)
    BY <2>1, RestType
  <2>3. put'[c] \subseteq Row /\ cut'[c] \subseteq Row
    BY <1>0, <1>6, <2>1 DEF WroteRow, CallType, SharedType
  <2> QED
    BY <1>0, <1>6, <2>2, <2>3 DEF CallType, WroteRow, Advanced, SameUrns, SameSession, SameAnswer
<1>7. CASE LeftRow(c)
  <2>1. todo[c] # <<>> /\ NewRow(c) \in Row
    BY <1>7, NewRowFacts DEF LeftRow, Going
  <2>2. Rest(c) \in Seq(Statement)
    BY <2>1, RestType
  <2> QED
    BY <1>0, <1>7, <2>1, <2>2 DEF CallType, LeftRow, Advanced, SameWrites, SameUrns, SameSession
<1>8. CASE Removed(c)
  <2>1. todo[c] # <<>>
    BY <1>8 DEF Removed, Going
  <2>2. Rest(c) \in Seq(Statement)
    BY <2>1, RestType
  <2>3. put'[c] \subseteq Row /\ cut'[c] \subseteq Row
    BY <1>0, <1>8 DEF Removed, CallType, SharedType
  <2> QED
    BY <1>0, <1>8, <2>2, <2>3 DEF CallType, Removed, Advanced, SameUrns, SameSession, SameAnswer
<1>9. CASE Touched(c)
  <2>1. todo[c] # <<>>
    BY <1>9 DEF Touched, Going
  <2>2. Cur(c).urn \in Urns /\ Rest(c) \in Seq(Statement) /\ Made(c) \in Scan
    BY <2>1, CurFacts, RestType, MadeType
  <2>3. touched'[c] \subseteq Urns /\ scans'[c] \subseteq Scan
    BY <1>0, <1>9, <2>2 DEF Touched, CallType
  <2> QED
    BY <1>0, <1>9, <2>2, <2>3 DEF CallType, Touched, Advanced, SameWrites, SameAnswer
<1>10. CASE Dropped(c)
  <2>1. todo[c] # <<>>
    BY <1>10 DEF Dropped, Going
  <2>2. Cur(c).urn \in Urns /\ Rest(c) \in Seq(Statement)
    BY <2>1, CurFacts, RestType
  <2>3. dropped'[c] \subseteq Urns /\ cut'[c] \subseteq Row
    BY <1>0, <1>10, <2>2 DEF Dropped, CallType, Mine, SharedType
  <2> QED
    BY <1>0, <1>10, <2>2, <2>3 DEF CallType, Dropped, Advanced, SameSession, SameAnswer
<1>11. CASE Sampled(c)
  <2>1. todo[c] # <<>>
    BY <1>11 DEF Sampled, Going
  <2>2. Cur(c).urn \in Urns /\ todo'[c] \in Seq(Statement)
    BY <1>11, <2>1, CurFacts, SampledTodo
  <2>3. errors'[c] \subseteq Urns
    BY <1>0, <1>11, <2>2 DEF Sampled, CallType
  <2> QED
    BY <1>0, <1>11, <2>2, <2>3 DEF CallType, Sampled, SameWrites, SameUrns, SameAnswer
<1>12. CASE ReadTheAssets(c)
  <2>1. todo[c] # <<>>
    BY <1>12 DEF ReadTheAssets, Going
  <2>2. Rest(c) \in Seq(Statement)
    BY <2>1, RestType
  <2>3. held'[c] \in [Urns -> Ids]
    BY <1>0, <1>12 DEF ReadTheAssets, CallType, SharedType
  <2> QED
    BY <1>0, <1>12, <2>2, <2>3 DEF CallType, ReadTheAssets, ReadOn, Advanced, SameWrites, SameUrns
<1>13. CASE ReadTheLabels(c)
  <2>1. todo[c] # <<>>
    BY <1>13 DEF ReadTheLabels, Going
  <2>2. Rest(c) \in Seq(Statement)
    BY <2>1, RestType
  <2>3. answer'[c] \in [Labels -> Nat]
    <3>1. {r \in rows : r.urn = Cur(c).urn /\ r.of = held[c][Cur(c).urn]} \in SUBSET Row
      BY <1>0 DEF SharedType
    <3>2. answer[c] \in [Labels -> Nat]
      BY <1>0 DEF CallType
    <3> QED
      BY <1>13, <3>1, <3>2, MergeFacts DEF ReadTheLabels
  <2> QED
    BY <1>0, <1>13, <2>2, <2>3 DEF CallType, ReadTheLabels, ReadOn, Advanced, SameWrites, SameUrns
<1> QED
  BY <1>1, <1>2, <1>3, <1>4, <1>5, <1>6, <1>7, <1>8, <1>9, <1>10, <1>11, <1>12, <1>13 DEF OwnStep

(* The parts make TypeOK.                                                  *)
LEMMA TypeOfParts ==
  ASSUME SharedType', Shaped', \A d \in Calls : CallType(d)'
  PROVE  TypeOK'
<1>1. pc' \in [Calls -> {"idle", "run", "done", "failed"}] /\ todo' \in [Calls -> Seq(Statement)]
  BY DEF Shaped, CallType
<1>2. /\ put' \in [Calls -> SUBSET Row] /\ cut' \in [Calls -> SUBSET Row] /\ left' \in [Calls -> SUBSET Row]
      /\ held' \in [Calls -> [Urns -> Ids]]
  BY DEF Shaped, CallType
<1>3. /\ added' \in [Calls -> SUBSET Urns] /\ dropped' \in [Calls -> SUBSET Urns]
      /\ touched' \in [Calls -> SUBSET Urns] /\ errors' \in [Calls -> SUBSET Urns]
  BY DEF Shaped, CallType
<1>4. answer' \in [Calls -> [Labels -> Nat]] /\ scans' \in [Calls -> SUBSET Scan]
  BY DEF Shaped, CallType
<1>5. seen' = [c \in Calls |-> seen'[c]]
  BY DEF Shaped
<1> QED
  BY <1>1, <1>2, <1>3, <1>4, <1>5 DEF TypeOK, SharedType

(* A call's step keeps TypeOK.                                             *)
LEMMA TypeKept ==
  ASSUME TypeOK, NEW c \in Calls, Plan(c), Own(c), OwnStep(c), Shaped'
  PROVE  TypeOK'
<1>0. SharedType /\ \A d \in Calls : CallType(d)
  BY TypeParts
<1>1. SharedType'
  BY <1>0 DEF SharedType, Own, SameTables
<1>2. CallType(c)'
  BY OwnType
<1>3. \A d \in Calls : d # c => CallType(d)'
  BY <1>0, SameCallType DEF Own
<1>4. SharedType' /\ Shaped' /\ \A d \in Calls : CallType(d)'
  BY <1>1, <1>2, <1>3
<1> QED
  BY <1>4, TypeOfParts

----------------------------------------------------------------------------
(* Plan: what is left to do.                                               *)

(* Which jobs have which statements.                                       *)
LEMMA OpKinds ==
  ASSUME NEW kind \in {"label", "unlabel", "drop", "scan", "discover", "resolve"}, NEW op, op \in KindOps(kind)
  PROVE  /\ op = "upsert" => kind = "discover"
         /\ op = "sample" => kind = "discover"
         /\ op = "drop" => kind = "drop"
         /\ op \in {"exact", "patterns", "labels"} => kind = "resolve"
         /\ op = "touch" => kind \in {"scan", "discover"}
         /\ op = "put" => kind \in {"label", "scan", "discover"}
         /\ op = "remove" => kind \in {"unlabel", "scan", "discover"}
         /\ kind = "resolve" => op \in {"exact", "patterns", "labels"}
<1>1. CASE kind = "label"
  BY <1>1 DEF KindOps
<1>2. CASE kind = "unlabel"
  BY <1>2 DEF KindOps
<1>3. CASE kind = "drop"
  BY <1>3 DEF KindOps
<1>4. CASE kind = "scan"
  BY <1>4 DEF KindOps
<1>5. CASE kind = "discover"
  BY <1>5 DEF KindOps
<1>6. CASE kind = "resolve"
  BY <1>6 DEF KindOps
<1> QED
  BY <1>1, <1>2, <1>3, <1>4, <1>5, <1>6

(* The statement at hand is one of the job's.                              *)
LEMMA CurOk ==
  ASSUME TypeOK, NEW c \in Calls, Plan(c), todo[c] # <<>>
  PROVE  /\ StmtOk(Cur(c), job[c]) /\ Cur(c).op \in KindOps(job[c].kind)
         /\ job[c].kind \in {"label", "unlabel", "drop", "scan", "discover", "resolve"}
<1>1. job[c].kind \in {"label", "unlabel", "drop", "scan", "discover", "resolve"}
  BY DEF TypeOK, Request
<1>2. Cur(c) = todo[c][1] /\ 1 \in DOMAIN todo[c]
  BY CurFacts
<1>3. StmtOk(Cur(c), job[c])
  BY <1>2 DEF Plan, StmtsOk
<1> QED
  BY <1>1, <1>3 DEF StmtOk

(* Statements are about urns.                                              *)
LEMMA StmtUrns ==
  ASSUME TypeOK, NEW c \in Calls
  PROVE  held[c] \in [Urns -> Ids] /\ \A i \in DOMAIN todo[c] : todo[c][i] \in Statement /\ todo[c][i].urn \in Urns
<1>1. held[c] \in [Urns -> Ids] /\ todo[c] \in Seq(Statement)
  BY DEF TypeOK
<1>2. \A i \in DOMAIN todo[c] : todo[c][i] \in Statement
  BY <1>1
<1> QED
  BY <1>1, <1>2 DEF Statement

(* Nothing left is a plan.                                                 *)
LEMMA EmptyPlan ==
  \A j, h : StmtsOk(<<>>, j) /\ Blocks(<<>>) /\ Looks(<<>>, h) /\ Resolving(<<>>)
BY DEF StmtsOk, Blocks, Looks, Resolving

(* A call left alone keeps its plan.                                       *)
LEMMA SamePlan ==
  ASSUME NEW d \in Calls, Plan(d), SameCall(d), job' = job
  PROVE  Plan(d)'
BY DEF Plan, Closed, SeenOk, Cur, SameCall, SameWrites, SameUrns, SameSession, SameAnswer, SamePlace

(* An asset that stays loaded needs no look-up.                            *)
LEMMA LooksMore ==
  ASSUME NEW t, NEW h, NEW g, Looks(t, h), \A i \in DOMAIN t : h[t[i].urn] # NONE => g[t[i].urn] # NONE
  PROVE  Looks(t, g)
BY DEF Looks

(* A statement that is done with leaves the plan of the rest.              *)
LEMMA MovedOn ==
  ASSUME TypeOK, NEW c \in Calls, Plan(c), pc[c] = "run", todo[c] # <<>>, Advanced(c), job' = job,
         Looks(todo[c], held'[c]), Cur(c).op \in Looking => held'[c][Cur(c).urn] # NONE
  PROVE  Plan(c)'
<1>1. /\ StmtsOk(Rest(c), job[c])
      /\ (job[c].kind # "unlabel" => Blocks(Rest(c))) /\ Resolving(Rest(c))
      /\ Looks(Rest(c), held'[c])
  BY RestPlan
<1>2. todo'[c] = Rest(c) /\ pc'[c] = "run" /\ seen'[c] = NONE
  BY DEF Advanced
<1> QED
  BY <1>1, <1>2 DEF Plan, Closed, SeenOk

(* Every step of a call keeps its plan.                                    *)
LEMMA OwnPlan ==
  ASSUME TypeOK, NEW c \in Calls, Plan(c), job' = job, OwnStep(c)
  PROVE  Plan(c)'
<1> DEFINE t == todo[c]
<1>0. Looks(t, held[c])
  BY DEF Plan
<1>1. CASE Aborted(c)
  BY <1>1, EmptyPlan DEF Aborted, Shut, Plan, Closed, SeenOk
<1>2. CASE SelectedRows(c)
  <2>1. todo'[c] = todo[c] /\ pc'[c] = "run" /\ held'[c] = held[c] /\ Cur(c)' = Cur(c) /\ todo[c] # <<>>
    BY <1>2 DEF SelectedRows, Selected, Going, Cur
  <2>2. VisibleRows(c) \subseteq Row
    BY DEF VisibleRows, TypeOK
  <2>3. SeenOk(c)'
    BY <1>2, <2>1, <2>2 DEF SeenOk, SelectedRows, Going, Looking
  <2> QED
    BY <2>1, <2>3 DEF Plan, Closed
<1>3. CASE SelectedAsset(c)
  <2>1. /\ todo'[c] = todo[c] /\ pc'[c] = "run" /\ Cur(c)' = Cur(c) /\ todo[c] # <<>>
        /\ Cur(c).op \in Looking
    BY <1>3 DEF SelectedAsset, Selected, Going, Cur
  <2>2. t \in Seq(Statement) /\ Cur(c) = t[1] /\ Cur(c).urn \in Urns /\ 1 \in DOMAIN t
    BY <2>1, CurFacts
  <2>3. held[c] \in [Urns -> Ids] /\ \A i \in DOMAIN t : t[i].urn \in Urns
    BY StmtUrns
  <2>4. held'[c][Cur(c).urn] = Asset(c, Cur(c).urn) /\ \A u \in Urns : u # Cur(c).urn => held'[c][u] = held[c][u]
    BY <1>3, <2>2, <2>3 DEF SelectedAsset
  <2>5. SeenOk(c)'
    BY <1>3, <2>1, <2>4 DEF SeenOk, SelectedAsset, Looking
  <2>6. Looks(t, held'[c])
    <3> SUFFICES ASSUME NEW i \in DOMAIN t, t[i].op \in {"put", "remove", "touch", "sample", "drop"}
                 PROVE  \/ held'[c][t[i].urn] # NONE
                        \/ \E j \in 1 .. (i - 1) : t[j].op \in Looking /\ t[j].urn = t[i].urn
      BY DEF Looks
    <3>1. CASE t[i].urn # Cur(c).urn
      BY <1>0, <2>3, <2>4, <3>1 DEF Looks
    <3>2. CASE t[i].urn = Cur(c).urn
      <4>1. i # 1
        BY <2>1, <2>2 DEF Looking
      <4>2. 1 \in 1 .. (i - 1)
        BY <2>2, <4>1
      <4> QED
        BY <2>1, <2>2, <3>2, <4>2
    <3> QED
      BY <3>1, <3>2
  <2> QED
    BY <2>1, <2>5, <2>6 DEF Plan, Closed
<1>4. CASE Used(c)
  <2>1. pc[c] = "run" /\ todo[c] # <<>> /\ Advanced(c) /\ held'[c] = held[c]
    BY <1>4 DEF Used, Going, SameSession
  <2>2. seen[c] = {held[c][Cur(c).urn]} \ {NONE} /\ seen[c] # {}
    BY <1>4 DEF Used, Going, Plan, SeenOk
  <2>3. held[c][Cur(c).urn] # NONE
    BY <2>2
  <2> QED
    BY <1>0, <2>1, <2>3, MovedOn
<1>5. CASE Inserted(c)
  <2>1. pc[c] = "run" /\ todo[c] # <<>> /\ Advanced(c)
    BY <1>5 DEF Inserted, Going
  <2>2. t \in Seq(Statement) /\ Cur(c).urn \in Urns
    BY <2>1, CurFacts
  <2>3. held[c] \in [Urns -> Ids] /\ \A i \in DOMAIN t : t[i].urn \in Urns
    BY StmtUrns
  <2>4. held'[c][Cur(c).urn] = c /\ c # NONE /\ \A u \in Urns : u # Cur(c).urn => held'[c][u] = held[c][u]
    BY <1>5, <2>2, <2>3, CatalogAssumption DEF Inserted
  <2>5. \A i \in DOMAIN t : held[c][t[i].urn] # NONE => held'[c][t[i].urn] # NONE
    BY <2>3, <2>4
  <2> HIDE DEF t
  <2>6. Looks(t, held'[c])
    BY <1>0, <2>5, LooksMore
  <2> QED
    BY <2>1, <2>4, <2>6, MovedOn DEF t
<1>6. CASE WroteRow(c) \/ LeftRow(c) \/ Removed(c) \/ Touched(c) \/ Dropped(c)
  <2>1. pc[c] = "run" /\ todo[c] # <<>> /\ Advanced(c) /\ held'[c] = held[c] /\ Cur(c).op \notin Looking
    BY <1>6 DEF WroteRow, LeftRow, Removed, Touched, Dropped, Going, SameSession, Looking
  <2> QED
    BY <1>0, <2>1, MovedOn
<1>7. CASE Sampled(c)
  <2>1. pc[c] = "run" /\ t # <<>> /\ pc'[c] = "run" /\ held'[c] = held[c] /\ Cur(c).op = "sample" /\ seen'[c] = seen[c]
    BY <1>7 DEF Sampled, Going
  <2>2. t \in Seq(Statement) /\ Cur(c).urn \in Urns /\ Cur(c) = t[1]
    BY <2>1, CurFacts
  <2>3. Cur(c).found \in Findings /\ job[c].kind = "discover" /\ todo'[c] \in Seq(Statement)
    BY <1>7, SampledTodo
  <2>4. seen[c] = NONE
    BY <2>1 DEF Plan, SeenOk, Looking
  <2> DEFINE tl == Tail(t)
             u == Cur(c).urn
             b == apply_scan(u, Cur(c).found)
  <2>5. held[c][u] # NONE
    BY <1>7, HeldAtWork DEF Sampled, Going
  <2>6. tl \in Seq(Statement) /\ StmtsOk(tl, job[c]) /\ Resolving(tl)
    BY <2>1, <2>2, TailAt, StmtsTail, ResolvingTail DEF Plan
  <2>7. Blocks(tl) /\ NotMid(tl)
    <3>1. ~Scanning(t[1]) /\ Blocks(t)
      BY <2>1, <2>2, <2>3 DEF Scanning, ScanPut, Plan
    <3> QED
      BY <2>1, <2>2, <3>1, BlocksTail
  <2>8. Looks(tl, held[c])
    BY <1>0, <2>1, <2>2, LooksTail DEF Looking
  <2>9. IsScan(b, u, Cur(c).found)
    BY <2>2, <2>3, ScanShape
  <2>10. b \in Seq(Statement)
    BY <2>9 DEF IsScan
  <2> HIDE DEF b, u, tl, t
  <2>11. /\ StmtsOk(b, job[c]) /\ Blocks(b) /\ Resolving(b) /\ \A i \in DOMAIN b : b[i].urn = u
    BY <2>2, <2>3, <2>9, ScanStmts, ScanBlocks DEF u
  <2>12. StmtsOk(b \o tl, job[c])
    BY <2>6, <2>10, <2>11, StmtsConcat
  <2>13. Blocks(b \o tl)
    BY <2>6, <2>7, <2>10, <2>11, BlocksConcat
  <2>14. Looks(b \o tl, held[c])
    <3>1. \A i \in DOMAIN b : held[c][b[i].urn] # NONE
      BY <2>5, <2>11
    <3> QED
      BY <2>6, <2>8, <2>10, <3>1, LooksConcat
  <2>15. todo'[c] = b \o tl \/ todo'[c] = tl
    BY <1>7 DEF Sampled, b, tl, u, t
  <2>16. StmtsOk(todo'[c], job[c]) /\ Blocks(todo'[c]) /\ Looks(todo'[c], held'[c])
    <3>1. CASE todo'[c] = b \o tl
      BY <2>1, <2>12, <2>13, <2>14, <3>1
    <3>2. CASE todo'[c] = tl
      BY <2>1, <2>6, <2>7, <2>8, <3>2
    <3> QED
      BY <2>15, <3>1, <3>2
  <2>17. Resolving(todo'[c])
    <3>1. \A i \in DOMAIN todo'[c] : todo'[c][i].op # "labels"
      BY <2>3, <2>16 DEF StmtsOk, StmtOk, KindOps
    <3> QED
      BY <3>1 DEF Resolving
  <2>18. job'[c].kind # "unlabel" => Blocks(todo'[c])
    BY <2>16
  <2> QED
    BY <2>1, <2>4, <2>16, <2>17, <2>18 DEF Plan, Closed, SeenOk
<1>8. CASE ReadTheAssets(c)
  <2>1. pc[c] = "run" /\ todo[c] # <<>> /\ Advanced(c) /\ Cur(c).op \in {"exact", "patterns"}
    BY <1>8 DEF ReadTheAssets, ReadOn, Going
  <2>2. job[c].kind = "resolve"
    BY <2>1, CurOk, OpKinds
  <2>3. \A i \in DOMAIN t : t[i].op \in {"exact", "patterns", "labels"}
    BY <2>2 DEF Plan, StmtsOk, StmtOk, KindOps
  <2>4. Looks(t, held'[c])
    BY <2>3 DEF Looks
  <2>5. Cur(c).op \notin Looking
    BY <2>1 DEF Looking
  <2> QED
    BY <2>1, <2>4, <2>5, MovedOn
<1>9. CASE ReadTheLabels(c)
  <2>1. pc[c] = "run" /\ todo[c] # <<>> /\ Advanced(c) /\ held'[c] = held[c] /\ Cur(c).op \notin Looking
    BY <1>9 DEF ReadTheLabels, ReadOn, Going, Looking
  <2> QED
    BY <1>0, <2>1, MovedOn
<1> QED
  BY <1>1, <1>2, <1>3, <1>4, <1>5, <1>6, <1>7, <1>8, <1>9 DEF OwnStep

----------------------------------------------------------------------------
(* Pending: a call and the tables.                                         *)

(* A row's key.                                                            *)
LEMMA KeyFacts ==
  ASSUME NEW r, NEW o
  PROVE  Key(r) = Key(o) <=> r.urn = o.urn /\ r.of = o.of /\ r.label = o.label /\ r.source = o.source
BY DEF Key

(* A row's columns.                                                        *)
LEMMA RowFacts ==
  ASSUME NEW r \in Row
  PROVE  r.urn \in Urns /\ r.of \in Calls \union {"seed"} /\ r.of # NONE /\ r.label \in Labels
BY CatalogAssumption DEF Row

(* A call left alone keeps its writes.                                     *)
LEMMA SamePending ==
  ASSUME NEW d \in Calls, Pending(d), SameCall(d), SameTables, job' = job
  PROVE  Pending(d)'
BY DEF Pending, Asset, SameCall, SameTables, SameWrites, SameUrns

(* Two calls left alone stay apart.                                        *)
LEMMA SameApart ==
  ASSUME NEW c \in Calls, NEW d \in Calls, Apart(c, d), SameCall(c), SameCall(d), job' = job, met' = met
  PROVE  Apart(c, d)'
BY DEF Apart, Reserved, Scanners, SameCall, SameWrites, SameUrns, SamePlace

(* What a call that has written nothing new leaves as it was.              *)
LEMMA QuietPending ==
  ASSUME NEW c \in Calls, Pending(c), SameWrites(c), SameUrns(c), SameTables, job' = job
  PROVE  Pending(c)'
BY DEF Pending, Asset, SameTables, SameWrites, SameUrns

(* Which asset a call that deletes none sees.                              *)
LEMMA AssetSeen ==
  ASSUME TypeOK, TablesConsistent, NEW c \in Calls, Pending(c), NEW r \in rows \ cut[c]
  PROVE  Asset(c, r.urn) = assets[r.urn] /\ r.of = assets[r.urn]
<1>1. r \in Row /\ r.of = assets[r.urn]
  BY DEF TypeOK, TablesConsistent
<1>2. r.urn \notin dropped[c]
  BY DEF Pending
<1>3. r.urn \notin added[c]
  BY <1>1, RowFacts DEF Pending
<1> QED
  BY <1>1, <1>2, <1>3 DEF Asset

(* Every row a call sees is under the asset it sees.                       *)
LEMMA OldOf ==
  ASSUME TypeOK, TablesConsistent, NEW c \in Calls, Pending(c), NEW r \in VisibleRows(c)
  PROVE  r.of = Asset(c, r.urn)
<1>1. CASE r \in put[c]
  BY <1>1 DEF Pending
<1>2. CASE r \in rows \ cut[c]
  BY <1>2, AssetSeen
<1> QED
  BY <1>1, <1>2 DEF VisibleRows

(* A row written.                                                          *)
LEMMA WrotePending ==
  ASSUME TypeOK, TablesConsistent, NEW c \in Calls, Plan(c), Pending(c), SameTables, job' = job, WroteRow(c)
  PROVE  Pending(c)'
<1> DEFINE row == NewRow(c)
           old == Old(c, row)
<1>0. /\ todo[c] # <<>> /\ Cur(c).op = "put" /\ put'[c] = (put[c] \ old) \union {row}
      /\ cut'[c] = cut[c] \union (old \intersect rows) /\ SameUrns(c) /\ assets' = assets /\ rows' = rows
  BY DEF WroteRow, Going, SameTables
<1>1. row \in Row /\ row.urn = Cur(c).urn /\ row.of = held[c][Cur(c).urn]
  BY NewRowFacts DEF WroteRow
<1>2. job[c].kind \notin {"drop", "unlabel"} /\ dropped[c] = {}
  <2>1. job[c].kind \in {"label", "scan", "discover"}
    BY <1>0, CurOk, OpKinds
  <2> QED
    BY <2>1 DEF Pending
<1>3. \A r : r \in old <=> r \in VisibleRows(c) /\ Key(r) = Key(row)
  BY DEF Old
<1>4. \A u : Asset(c, u)' = Asset(c, u)
  BY <1>0 DEF Asset, SameUrns
<1>5. row.of = Asset(c, row.urn)
  <2>1. CASE seen[c] = {}
    BY <1>1, <2>1 DEF WroteRow
  <2>2. CASE seen[c] # {}
    <3>1. PICK r \in old : Same(r, row)
      BY <2>2 DEF WroteRow
    <3>2. r \in VisibleRows(c) /\ r.urn = row.urn /\ r.of = row.of
      BY <1>3, <3>1, KeyFacts
    <3> QED
      BY <3>2, OldOf
  <2> QED
    BY <2>1, <2>2
<1> HIDE DEF row, old
<1>6. \A r \in put'[c] : r = row \/ (r \in put[c] /\ Key(r) # Key(row))
  BY <1>0, <1>3 DEF VisibleRows
<1>7. \A o \in rows : Key(o) = Key(row) => o \in cut'[c]
  BY <1>0, <1>3 DEF VisibleRows
<1>8. (cut[c] \subseteq rows)'
  BY <1>0 DEF Pending
<1>9. (\A r \in put[c] : r.of = Asset(c, r.urn))'
  BY <1>4, <1>5, <1>6 DEF Pending
<1>10. (\A r, o \in put[c] : Key(o) = Key(r) => o = r)'
  BY <1>6 DEF Pending
<1>11. (\A r \in put[c], o \in rows : Key(o) = Key(r) => o \in cut[c])'
  BY <1>0, <1>6, <1>7 DEF Pending
<1>12. (\A u \in touched[c] : Asset(c, u) # NONE)' /\ (\A u \in added[c] : assets[u] = NONE)'
  BY <1>0, <1>4 DEF Pending, SameUrns
<1>13. (\A u \in dropped[c] : \A r \in rows : r.urn = u => r \in cut[c])'
  BY <1>0, <1>2 DEF SameUrns
<1>14. (dropped[c] = {})' /\ job'[c].kind \notin {"drop", "unlabel"}
  BY <1>0, <1>2 DEF SameUrns
<1> QED
  BY <1>8, <1>9, <1>10, <1>11, <1>12, <1>13, <1>14 DEF Pending

(* Rows deleted.                                                           *)
LEMMA RemovedPending ==
  ASSUME TypeOK, NEW c \in Calls, Pending(c), SameTables, job' = job, Removed(c)
  PROVE  Pending(c)'
<1>0. /\ put'[c] \subseteq put[c] /\ cut'[c] = cut[c] \union (Gone(c) \intersect rows)
      /\ SameUrns(c) /\ assets' = assets /\ rows' = rows
  BY DEF Removed, SameTables
<1>1. \A u : Asset(c, u)' = Asset(c, u)
  BY <1>0 DEF Asset, SameUrns
<1>2. (cut[c] \subseteq rows)' /\ cut[c] \subseteq cut'[c]
  BY <1>0 DEF Pending
<1>3. /\ (\A r \in put[c] : r.of = Asset(c, r.urn))'
      /\ (\A r, o \in put[c] : Key(o) = Key(r) => o = r)'
      /\ (\A r \in put[c], o \in rows : Key(o) = Key(r) => o \in cut[c])'
  BY <1>0, <1>1, <1>2 DEF Pending
<1>4. (\A u \in touched[c] : Asset(c, u) # NONE)' /\ (\A u \in added[c] : assets[u] = NONE)'
  BY <1>0, <1>1 DEF Pending, SameUrns
<1>5. (\A u \in dropped[c] : \A r \in rows : r.urn = u => r \in cut[c])'
  BY <1>0, <1>2 DEF Pending, SameUrns
<1>6. /\ IF job'[c].kind = "drop" THEN put'[c] = {} /\ added'[c] = {} /\ touched'[c] = {}
         ELSE dropped'[c] = {}
      /\ job'[c].kind = "unlabel" => put'[c] = {}
  BY <1>0 DEF Pending, SameUrns
<1> QED
  BY <1>2, <1>3, <1>4, <1>5, <1>6 DEF Pending

(* No row of a call is of an asset it has found absent.                    *)
LEMMA InsertedPending ==
  ASSUME TypeOK, NEW c \in Calls, Plan(c), Pending(c), SameTables, job' = job, Inserted(c)
  PROVE  Pending(c)'
<1>. PICK u : u = Cur(c).urn
  OBVIOUS
<1>0. /\ todo[c] # <<>> /\ Cur(c).op \in {"find", "upsert"} /\ SameWrites(c) /\ assets[u] = NONE
      /\ added'[c] = added[c] \union {u} /\ dropped'[c] = dropped[c] /\ touched'[c] = touched[c]
      /\ assets' = assets /\ rows' = rows
  BY DEF Inserted, Going, SameTables
<1>1. job[c].kind \notin {"drop", "unlabel"} /\ dropped[c] = {}
  <2>1. Cur(c).op \in KindOps(job[c].kind)
    BY <1>0, CurOk
  <2>2. job[c].kind # "drop" /\ job[c].kind # "unlabel"
    BY <1>0, <2>1 DEF KindOps
  <2> QED
    BY <2>2 DEF Pending
<1>2. c # NONE /\ u \in Urns
  BY <1>0, CatalogAssumption, CurFacts
<1>3. \A v : v # u => Asset(c, v)' = Asset(c, v)
  BY <1>0 DEF Asset
<1>4. Asset(c, u)' = c
  <2>1. u \notin dropped'[c] /\ u \in added'[c]
    BY <1>0, <1>1
  <2> QED
    BY <2>1 DEF Asset
<1>5. Asset(c, u) = c \/ Asset(c, u) = NONE
  <2>1. u \notin dropped[c]
    BY <1>1
  <2>2. CASE u \in added[c]
    BY <2>1, <2>2 DEF Asset
  <2>3. CASE u \notin added[c]
    BY <1>0, <2>1, <2>3 DEF Asset
  <2> QED
    BY <2>2, <2>3
<1>6. \A r \in put[c] : r.of = Asset(c, r.urn) /\ r.of # NONE
  <2>1. \A r \in put[c] : r \in Row
    BY DEF TypeOK
  <2> QED
    BY <2>1, RowFacts DEF Pending
<1>7. (\A r \in put[c] : r.of = Asset(c, r.urn))'
  <2>1. put'[c] = put[c]
    BY <1>0 DEF SameWrites
  <2>2. ASSUME NEW r \in put[c] PROVE r.of = Asset(c, r.urn)'
    <3>1. CASE r.urn = u
      <4>1. r.of = Asset(c, u) /\ r.of # NONE
        BY <1>6, <3>1
      <4>2. r.of = c
        BY <1>5, <4>1
      <4> QED
        BY <1>4, <3>1, <4>2 DEF Asset
    <3>2. CASE r.urn # u
      BY <1>3, <1>6, <3>2
    <3> QED
      BY <3>1, <3>2
  <2> QED
    BY <2>1, <2>2
<1>8. (\A v \in touched[c] : Asset(c, v) # NONE)'
  <2>1. ASSUME NEW v \in touched[c] PROVE Asset(c, v)' # NONE
    <3>1. CASE v = u
      BY <1>2, <1>4, <3>1 DEF Asset
    <3>2. CASE v # u
      BY <1>3, <3>2 DEF Pending
    <3> QED
      BY <3>1, <3>2
  <2> QED
    BY <1>0, <2>1
<1>9. (\A v \in added[c] : assets[v] = NONE)'
  BY <1>0 DEF Pending
<1>10. (cut[c] \subseteq rows)' /\ (\A r, o \in put[c] : Key(o) = Key(r) => o = r)'
      /\ (\A r \in put[c], o \in rows : Key(o) = Key(r) => o \in cut[c])'
      /\ dropped'[c] = {} /\ job'[c].kind \notin {"drop", "unlabel"}
  BY <1>0, <1>1 DEF Pending, SameWrites
<1> QED
  BY <1>7, <1>8, <1>9, <1>10 DEF Pending

(* An asset is deleted with all its rows, by a call that does nothing      *)
(* else.                                                                   *)
LEMMA DroppedFacts ==
  ASSUME TypeOK, TablesConsistent, NEW c \in Calls, Plan(c), Pending(c), Dropped(c)
  PROVE  /\ job[c].kind = "drop" /\ put[c] = {} /\ added[c] = {} /\ touched[c] = {}
         /\ Mine(c) \subseteq rows
         /\ Asset(c, Cur(c).urn) = held[c][Cur(c).urn] =>
              \A r \in rows : r.urn = Cur(c).urn => r \in Mine(c)
<1> DEFINE u == Cur(c).urn
<1>0. todo[c] # <<>> /\ Cur(c).op = "drop"
  BY DEF Dropped, Going
<1>1. job[c].kind = "drop"
  BY <1>0, CurOk, OpKinds
<1>2. put[c] = {} /\ added[c] = {} /\ touched[c] = {}
  BY <1>1 DEF Pending
<1>3. held[c][u] # NONE
  BY HeldAtWork DEF Dropped, Going
<1>4. ASSUME Asset(c, u) = held[c][u] PROVE assets[u] = held[c][u]
  BY <1>2, <1>3, <1>4 DEF Asset
<1>5. ASSUME Asset(c, u) = held[c][u], NEW r \in rows, r.urn = u PROVE r \in Mine(c)
  BY <1>4, <1>5 DEF Mine, TablesConsistent
<1> QED
  BY <1>1, <1>2, <1>5 DEF Mine

(* An asset deleted.                                                       *)
LEMMA DroppedPending ==
  ASSUME TypeOK, TablesConsistent, NEW c \in Calls, Plan(c), Pending(c), SameTables, job' = job, Dropped(c)
  PROVE  Pending(c)'
<1> DEFINE u == Cur(c).urn
<1>0. /\ job[c].kind = "drop" /\ put[c] = {} /\ added[c] = {} /\ touched[c] = {}
      /\ Mine(c) \subseteq rows
      /\ Asset(c, u) = held[c][u] => \A r \in rows : r.urn = u => r \in Mine(c)
  BY DroppedFacts
<1>1. put'[c] = {} /\ added'[c] = {} /\ touched'[c] = {} /\ rows' = rows
  BY <1>0 DEF Dropped, SameTables
<1>2. cut'[c] \subseteq rows /\ cut[c] \subseteq cut'[c]
  BY <1>0 DEF Dropped, Pending
<1>3. \A v \in dropped'[c] : \A r \in rows : r.urn = v => r \in cut'[c]
  BY <1>0, <1>2 DEF Dropped, Pending
<1> QED
  BY <1>0, <1>1, <1>2, <1>3 DEF Pending

(* An asset updated.                                                       *)
LEMMA TouchPending ==
  ASSUME NEW c \in Calls, Pending(c), SameTables, job' = job, SameWrites(c),
         added'[c] = added[c], dropped'[c] = dropped[c], job[c].kind # "drop",
         NEW u, Asset(c, u) # NONE, touched'[c] \subseteq touched[c] \union {u}
  PROVE  Pending(c)'
<1>1. \A v : Asset(c, v)' = Asset(c, v)
  BY DEF Asset, SameTables
<1>2. (\A v \in touched[c] : Asset(c, v) # NONE)'
  BY <1>1 DEF Pending
<1> QED
  BY <1>1, <1>2 DEF Pending, SameTables, SameWrites

(* Every step of a call keeps its writes fitting the tables.               *)
LEMMA OwnPending ==
  ASSUME TypeOK, TablesConsistent, NEW c \in Calls, Plan(c), Pending(c), Own(c), OwnStep(c)
  PROVE  Pending(c)'
<1>0. SameTables /\ job' = job
  BY DEF Own
<1>1. CASE Aborted(c)
  BY <1>1 DEF Aborted, Shut, Pending
<1>2. CASE SelectedRows(c) \/ SelectedAsset(c) \/ LeftRow(c) \/ Sampled(c) \/ ReadTheAssets(c) \/ ReadTheLabels(c)
  <2>1. SameWrites(c) /\ SameUrns(c)
    BY <1>2 DEF SelectedRows, SelectedAsset, Selected, LeftRow, Sampled, ReadTheAssets, ReadTheLabels, ReadOn
  <2> QED
    BY <1>0, <2>1, QuietPending
<1>3. CASE Used(c)
  <2>0. SameWrites(c) /\ added'[c] = added[c] /\ dropped'[c] = dropped[c] /\ todo[c] # <<>>
    BY <1>3 DEF Used, Going
  <2>1. CASE touched'[c] = touched[c]
    BY <1>0, <2>0, <2>1, QuietPending DEF SameUrns
  <2>2. CASE touched'[c] # touched[c]
    <3>1. /\ Cur(c).op = "upsert" /\ Asset(c, Cur(c).urn) = held[c][Cur(c).urn]
          /\ touched'[c] = touched[c] \union {Cur(c).urn} /\ seen[c] # {} /\ seen[c] # NONE
      BY <1>3, <2>2 DEF Used
    <3>2. job[c].kind = "discover"
      BY <2>0, <3>1, CurOk, OpKinds
    <3>3. held[c][Cur(c).urn] # NONE
      BY <3>1 DEF Plan, SeenOk, Looking
    <3> QED
      BY <1>0, <2>0, <3>1, <3>2, <3>3, TouchPending
  <2> QED
    BY <2>1, <2>2
<1>4. CASE Inserted(c)
  BY <1>0, <1>4, InsertedPending
<1>5. CASE WroteRow(c)
  BY <1>0, <1>5, WrotePending
<1>6. CASE Removed(c)
  BY <1>0, <1>6, RemovedPending
<1>7. CASE Touched(c)
  <2>0. /\ SameWrites(c) /\ added'[c] = added[c] /\ dropped'[c] = dropped[c] /\ todo[c] # <<>>
        /\ Cur(c).op = "touch" /\ Asset(c, Cur(c).urn) = held[c][Cur(c).urn]
        /\ touched'[c] \subseteq touched[c] \union {Cur(c).urn}
    BY <1>7 DEF Touched, Going
  <2>1. held[c][Cur(c).urn] # NONE
    BY <1>7, HeldAtWork DEF Touched, Going
  <2>2. job[c].kind # "drop"
    BY <2>0, CurOk, OpKinds
  <2> QED
    BY <1>0, <2>0, <2>1, <2>2, TouchPending
<1>8. CASE Dropped(c)
  BY <1>0, <1>8, DroppedPending
<1> QED
  BY <1>1, <1>2, <1>3, <1>4, <1>5, <1>6, <1>7, <1>8 DEF OwnStep

----------------------------------------------------------------------------
(* Apart: two calls.                                                       *)

(* What a call adds to what it has written is free of the others.          *)
Foreigners(c, r) == \A d \in Calls : d # c => \A o \in put[d] \union cut[d] : Key(r) # Key(o)
FreshWrites(c) ==
  \A r \in put'[c] \union cut'[c] :
    (\E q \in put[c] \union cut[c] : Key(r) = Key(q)) \/ Foreigners(c, r)
FreshUrns(c) ==
  \A u \in added'[c] \union dropped'[c] \union touched'[c] :
    u \in Reserved(c) \/ AssetFree(c, u)
FreshParents(c) ==
  \A d \in Calls : d # c =>
    /\ \A r \in put'[c] : r.urn \notin dropped[d]
    /\ \A r \in put[d] : r.urn \notin dropped'[c]

(* What is new must be free of the others.                                 *)
LEMMA FreshApart ==
  ASSUME NEW c \in Calls, NEW d \in Calls, d # c, Apart(c, d), Apart(d, c), Own(c),
         FreshWrites(c), FreshUrns(c), FreshParents(c), pc'[c] = "run" => pc[c] = "run"
  PROVE  Apart(c, d)' /\ Apart(d, c)'
<1>0. /\ put'[d] = put[d] /\ cut'[d] = cut[d] /\ added'[d] = added[d] /\ dropped'[d] = dropped[d]
      /\ touched'[d] = touched[d] /\ pc'[d] = pc[d] /\ job' = job /\ met' = met
  BY DEF Own, SameCall, SameWrites, SameUrns, SamePlace
<1>1. \A r \in put'[c] \union cut'[c], o \in put[d] \union cut[d] : Key(r) # Key(o)
  BY DEF FreshWrites, Foreigners, Apart
<1>2. Reserved(d)' = Reserved(d)
  BY <1>0 DEF Reserved
<1>3. (Reserved(c) \intersect Reserved(d) = {})'
  <2>1. ASSUME NEW u \in Reserved(c)' PROVE u \notin Reserved(d)
    <3>1. u \in Reserved(c) \/ AssetFree(c, u)
      BY DEF FreshUrns, Reserved
    <3>2. CASE u \in Reserved(c)
      BY <3>2 DEF Apart
    <3>3. CASE AssetFree(c, u)
      BY <3>3 DEF AssetFree, Others, Reserved
    <3> QED
      BY <3>1, <3>2, <3>3
  <2> QED
    BY <1>2, <2>1
<1>4. Scanners' = Scanners
  BY <1>0 DEF Scanners
<1>5. /\ \A r \in put'[c] : r.urn \notin dropped'[d]
      /\ \A r \in put'[d] : r.urn \notin dropped'[c]
  BY <1>0 DEF FreshParents
<1>6. /\ pc'[c] = "run" /\ pc'[d] = "run" /\ d \in Scanners => d \in met'[c]
      /\ pc'[c] = "run" /\ pc'[d] = "run" /\ c \in Scanners => c \in met'[d]
  BY <1>0 DEF Apart
<1>7. /\ \A r \in put'[c] \union cut'[c], o \in put'[d] \union cut'[d] : Key(r) # Key(o)
      /\ \A r \in put'[d] \union cut'[d], o \in put'[c] \union cut'[c] : Key(r) # Key(o)
  BY <1>0, <1>1
<1> QED
  BY <1>3, <1>4, <1>5, <1>6, <1>7 DEF Apart

(* A free row is nobody else's.                                            *)
LEMMA FreeForeign ==
  ASSUME NEW c \in Calls, NEW keys, RowsFree(c, keys), NEW r, Key(r) \in keys
  PROVE  Foreigners(c, r)
BY DEF RowsFree, Others, Foreigners

(* Nothing new is.                                                         *)
LEMMA SameFresh ==
  ASSUME NEW c \in Calls, \A d \in Calls : d # c => Apart(c, d) /\ Apart(d, c)
  PROVE  /\ SameWrites(c) => FreshWrites(c)
         /\ SameUrns(c) => FreshUrns(c)
         /\ put'[c] \subseteq put[c] /\ dropped'[c] \subseteq dropped[c] => FreshParents(c)
BY DEF SameWrites, FreshWrites, SameUrns, FreshUrns, Reserved, FreshParents, Apart

(* A row written.                                                          *)
LEMMA WroteFresh ==
  ASSUME TypeOK, TablesConsistent, NEW c \in Calls, Plan(c), \A d \in Calls : Pending(d),
         \A d \in Calls : d # c => Apart(c, d) /\ Apart(d, c), WroteRow(c)
  PROVE  FreshWrites(c) /\ FreshUrns(c) /\ FreshParents(c)
<1> DEFINE row == NewRow(c)
           old == Old(c, row)
<1>0. /\ put'[c] = (put[c] \ old) \union {row} /\ cut'[c] = cut[c] \union (old \intersect rows)
      /\ SameUrns(c) /\ RowsFree(c, {Key(row)})
  BY DEF WroteRow
<1>1. row.urn = Cur(c).urn
  BY NewRowFacts DEF WroteRow
<1>2. \A r \in old : r \in VisibleRows(c) /\ Key(r) = Key(row)
  BY DEF Old
<1>3. seen[c] = {} => ParentStays(c, row.urn)
  BY <1>1 DEF WroteRow
<1>4. seen[c] # {} => \E r \in old : Same(r, row)
  BY DEF WroteRow
<1> HIDE DEF row, old
<1>5. \A r : Key(r) = Key(row) => Foreigners(c, r)
  BY <1>0, FreeForeign
<1>6. FreshWrites(c)
  BY <1>0, <1>2, <1>5 DEF FreshWrites
<1>7. FreshUrns(c)
  BY <1>0, SameFresh
<1>8. ASSUME NEW d \in Calls, d # c PROVE row.urn \notin dropped[d]
  <2>1. CASE seen[c] = {}
    BY <1>3, <1>8, <2>1 DEF ParentStays, Others
  <2>2. CASE seen[c] # {}
    <3>1. PICK r \in old : Same(r, row)
      BY <1>4, <2>2
    <3>2. r.urn = row.urn /\ Key(r) = Key(row) /\ r \in VisibleRows(c)
      BY <1>2, <3>1, KeyFacts
    <3>3. CASE r \in put[c]
      BY <1>8, <3>2, <3>3 DEF Apart
    <3>4. CASE r \in rows
      <4>1. row.urn \in dropped[d] => r \in cut[d]
        BY <3>2, <3>4 DEF Pending
      <4>2. r \notin cut[d]
        BY <1>5, <1>8, <3>2 DEF Foreigners
      <4> QED
        BY <4>1, <4>2
    <3> QED
      BY <3>2, <3>3, <3>4 DEF VisibleRows
  <2> QED
    BY <2>1, <2>2
<1>9. ASSUME NEW d \in Calls, d # c
      PROVE  (\A r \in put'[c] : r.urn \notin dropped[d]) /\ (\A r \in put[d] : r.urn \notin dropped'[c])
  BY <1>0, <1>8, <1>9 DEF Apart, SameUrns
<1> QED
  BY <1>6, <1>7, <1>9 DEF FreshParents

(* Rows deleted.                                                           *)
LEMMA RemovedFresh ==
  ASSUME NEW c \in Calls, \A d \in Calls : d # c => Apart(c, d) /\ Apart(d, c), Removed(c)
  PROVE  FreshWrites(c) /\ FreshUrns(c) /\ FreshParents(c)
<1>0. /\ put'[c] \subseteq put[c] /\ cut'[c] = cut[c] \union (Gone(c) \intersect rows)
      /\ SameUrns(c) /\ RowsFree(c, {Key(r) : r \in seen[c]})
  BY DEF Removed
<1>1. FreshUrns(c) /\ FreshParents(c)
  BY <1>0, SameFresh DEF SameUrns
<1>2. ASSUME NEW r \in Gone(c) PROVE Foreigners(c, r)
  <2>1. \E o \in seen[c] : Key(r) = Key(o)
    BY DEF Gone, Same
  <2>2. Key(r) \in {Key(o) : o \in seen[c]}
    BY <2>1
  <2> QED
    BY <1>0, <2>2, FreeForeign
<1> QED
  BY <1>0, <1>1, <1>2 DEF FreshWrites

(* An asset deleted.                                                       *)
LEMMA DroppedFresh ==
  ASSUME TypeOK, TablesConsistent, NEW c \in Calls, Plan(c), Pending(c),
         \A d \in Calls : d # c => Apart(c, d) /\ Apart(d, c), Dropped(c)
  PROVE  FreshWrites(c) /\ FreshUrns(c) /\ FreshParents(c)
<1> DEFINE u == Cur(c).urn
<1>0. /\ put[c] = {} /\ Mine(c) \subseteq rows
      /\ Asset(c, u) = held[c][u] => \A r \in rows : r.urn = u => r \in Mine(c)
  BY DroppedFacts
<1>1. put'[c] = {} /\ added'[c] = added[c] /\ touched'[c] = touched[c] /\ SameSession(c)
  BY <1>0 DEF Dropped
<1>2. AssetFree(c, u) /\ ParentUnused(c, u) /\ RowsFree(c, {Key(r) : r \in Mine(c)})
  BY DEF Dropped
<1>3. \/ Asset(c, u) = held[c][u] /\ dropped'[c] = dropped[c] \union {u} /\ cut'[c] = cut[c] \union Mine(c)
      \/ dropped'[c] = dropped[c] /\ cut'[c] = cut[c]
  BY DEF Dropped
<1> HIDE DEF u
<1>4. \A r \in Mine(c) : Foreigners(c, r)
  <2> SUFFICES ASSUME NEW r \in Mine(c) PROVE Foreigners(c, r)
    OBVIOUS
  <2>1. Key(r) \in {Key(o) : o \in Mine(c)}
    OBVIOUS
  <2> QED
    BY <1>2, <2>1, FreeForeign
<1>5. FreshWrites(c)
  BY <1>1, <1>3, <1>4 DEF FreshWrites
<1>6. FreshUrns(c)
  BY <1>1, <1>2, <1>3 DEF FreshUrns, Reserved
<1>7. ASSUME NEW d \in Calls, d # c, NEW r \in put[d] PROVE r.urn \notin dropped'[c]
  <2>1. CASE dropped'[c] = dropped[c]
    BY <1>7, <2>1 DEF Apart
  <2>2. CASE Asset(c, u) = held[c][u] /\ dropped'[c] = dropped[c] \union {u}
    <3>1. r.urn = u => r \in rows
      BY <1>2, <1>7 DEF ParentUnused, Others
    <3>2. r.urn = u => r \in Mine(c)
      BY <1>0, <2>2, <3>1
    <3>3. r.urn # u
      BY <1>4, <1>7, <3>2 DEF Foreigners
    <3> QED
      BY <1>7, <2>2, <3>3 DEF Apart
  <2> QED
    BY <1>3, <2>1, <2>2
<1> QED
  BY <1>1, <1>5, <1>6, <1>7 DEF FreshParents

(* Every step of a call keeps it apart from the others.                    *)
LEMMA OwnApart ==
  ASSUME TypeOK, TablesConsistent, NEW c \in Calls, Plan(c), \A d \in Calls : Pending(d),
         \A b, d \in Calls : b # d => Apart(b, d), Own(c), OwnStep(c)
  PROVE  \A b, d \in Calls : b # d => Apart(b, d)'
<1>0. \A d \in Calls : d # c => Apart(c, d) /\ Apart(d, c)
  OBVIOUS
<1>1. FreshWrites(c) /\ FreshUrns(c) /\ FreshParents(c)
  <2>1. CASE Aborted(c)
    BY <2>1 DEF Aborted, Shut, FreshWrites, FreshUrns, FreshParents
  <2>2. CASE SelectedRows(c) \/ SelectedAsset(c) \/ LeftRow(c) \/ Sampled(c) \/ ReadTheAssets(c) \/ ReadTheLabels(c)
    <3>1. SameWrites(c) /\ SameUrns(c)
      BY <2>2 DEF SelectedRows, SelectedAsset, Selected, LeftRow, Sampled, ReadTheAssets, ReadTheLabels, ReadOn
    <3>2. put'[c] \subseteq put[c] /\ dropped'[c] \subseteq dropped[c]
      BY <3>1 DEF SameWrites, SameUrns
    <3> QED
      BY <1>0, <3>1, <3>2, SameFresh
  <2>3. CASE Used(c) \/ Inserted(c) \/ Touched(c)
    <3>1. SameWrites(c) /\ dropped'[c] = dropped[c]
      BY <2>3 DEF Used, Inserted, Touched
    <3>2. FreshUrns(c)
      BY <2>3 DEF Used, Inserted, Touched, FreshUrns, Reserved
    <3>3. put'[c] \subseteq put[c] /\ dropped'[c] \subseteq dropped[c]
      BY <3>1 DEF SameWrites
    <3> QED
      BY <1>0, <3>1, <3>2, <3>3, SameFresh
  <2>4. CASE WroteRow(c)
    BY <1>0, <2>4, WroteFresh
  <2>5. CASE Removed(c)
    BY <1>0, <2>5, RemovedFresh
  <2>6. CASE Dropped(c)
    BY <1>0, <2>6, DroppedFresh
  <2> QED
    BY <2>1, <2>2, <2>3, <2>4, <2>5, <2>6 DEF OwnStep
<1>2. pc'[c] = "run" => pc[c] = "run"
  BY DEF OwnStep, Aborted, SelectedRows, SelectedAsset, Selected, Used, Inserted, WroteRow, LeftRow, Removed,
     Touched, Dropped, Sampled, ReadTheAssets, ReadTheLabels, ReadOn, Advanced, Going
<1>3. \A d \in Calls : d # c => Apart(c, d)' /\ Apart(d, c)'
  BY <1>0, <1>1, <1>2, FreshApart
<1>4. \A b, d \in Calls : b # d /\ b # c /\ d # c => Apart(b, d)'
  BY SameApart DEF Own
<1> QED
  BY <1>3, <1>4

----------------------------------------------------------------------------
(* Accounted: what writes are for.                                         *)

(* A touch that is due stays due.                                          *)
LEMMA TouchesRest ==
  ASSUME TypeOK, NEW c \in Calls, Plan(c), todo[c] # <<>>, NEW u, Touches(todo[c], u),
         ~ (Cur(c).op = "touch" /\ Cur(c).urn = u)
  PROVE  Touches(Rest(c), u) /\ Touches(Tail(todo[c]), u)
<1> DEFINE t == todo[c]
           tl == Tail(t)
<1>1. t \in Seq(Statement) /\ Cur(c) = t[1]
  BY CurFacts
<1>2. PICK i \in DOMAIN t : t[i].op = "touch" /\ t[i].urn = u
  BY DEF Touches
<1>3. i # 1
  BY <1>1, <1>2
<1>4. tl \in Seq(Statement) /\ i - 1 \in DOMAIN tl /\ t[i] = tl[i - 1]
  BY <1>1, <1>3, TailAt
<1>5. Touches(tl, u)
  BY <1>2, <1>4 DEF Touches
<1>6. CASE Cur(c).op # "upsert"
  BY <1>5, <1>6 DEF Rest
<1>7. CASE Cur(c).op = "upsert"
  <2> DEFINE a == _absorb(Cur(c))
             k == i - 1
  <2>1. Rest(c) = a \o tl
    BY <1>7 DEF Rest
  <2>2. a \in Seq(Statement)
    <3>1. Cur(c).found \in Findings /\ job[c].kind = "discover"
      BY <1>7, CurOk, OpKinds DEF StmtOk
    <3> QED
      BY <1>1, <3>1, CurFacts, AbsorbFacts
  <2> HIDE DEF a, tl, k
  <2>3. tl \in Seq(Statement) /\ k \in DOMAIN tl /\ tl[k].op = "touch" /\ tl[k].urn = u
    BY <1>2, <1>4 DEF k
  <2>4. Len(a) + k \in DOMAIN (a \o tl) /\ (a \o tl)[Len(a) + k] = tl[k]
    <3>1. /\ DOMAIN tl = 1 .. Len(tl) /\ Len(tl) \in Nat /\ Len(a) \in Nat
          /\ DOMAIN (a \o tl) = 1 .. (Len(a) + Len(tl))
          /\ \A n \in 1 .. Len(tl) : (a \o tl)[Len(a) + n] = tl[n]
      BY <2>2, <2>3, ConcatAt
    <3> QED
      BY <2>3, <3>1
  <2> QED
    BY <1>5, <2>1, <2>3, <2>4 DEF Touches, tl
<1> QED
  BY <1>6, <1>7, <1>5

(* A touch in either list is in both.                                      *)
LEMMA TouchesConcat ==
  ASSUME NEW b \in Seq(Statement), NEW t \in Seq(Statement), NEW u, Touches(b, u) \/ Touches(t, u)
  PROVE  Touches(b \o t, u)
<1>0. /\ DOMAIN t = 1 .. Len(t) /\ Len(t) \in Nat /\ Len(b) \in Nat /\ DOMAIN b = 1 .. Len(b)
      /\ DOMAIN (b \o t) = 1 .. (Len(b) + Len(t))
      /\ \A n \in 1 .. Len(t) : (b \o t)[Len(b) + n] = t[n]
      /\ \A n \in 1 .. Len(b) : (b \o t)[n] = b[n]
  BY ConcatAt
<1>1. CASE Touches(b, u)
  <2>1. PICK i \in DOMAIN b : b[i].op = "touch" /\ b[i].urn = u
    BY <1>1 DEF Touches
  <2>2. i \in DOMAIN (b \o t) /\ (b \o t)[i] = b[i]
    BY <1>0
  <2> QED
    BY <2>1, <2>2 DEF Touches
<1>2. CASE Touches(t, u)
  <2>1. PICK i \in DOMAIN t : t[i].op = "touch" /\ t[i].urn = u
    BY <1>2 DEF Touches
  <2>2. Len(b) + i \in DOMAIN (b \o t) /\ (b \o t)[Len(b) + i] = t[i]
    BY <1>0
  <2> QED
    BY <2>1, <2>2 DEF Touches
<1> QED
  BY <1>1, <1>2

(* A statement that belongs to a scan is followed by its touch.            *)
LEMMA ScanningTouches ==
  ASSUME TypeOK, NEW c \in Calls, Plan(c), todo[c] # <<>>, job[c].kind # "unlabel", Scanning(Cur(c))
  PROVE  Touches(todo[c], Cur(c).urn) /\ Cur(c).op # "touch"
<1> DEFINE t == todo[c]
<1>1. t \in Seq(Statement) /\ Cur(c) = t[1] /\ 1 \in DOMAIN t
  BY CurFacts
<1>2. PICK j \in DOMAIN t : Ends(t, 1, j)
  BY <1>1 DEF Plan, Blocks
<1>3. Cur(c).op # "touch"
  BY DEF Scanning, ScanPut
<1>4. j \in Nat /\ j # 1 /\ 1 <= j /\ t[j].op = "touch"
  BY <1>1, <1>2, <1>3 DEF Ends
<1>5. 1 \in 1 .. (j - 1)
  BY <1>4
<1>6. t[1].urn = t[j].urn
  BY <1>2, <1>5 DEF Ends
<1> QED
  BY <1>1, <1>3, <1>4, <1>6 DEF Touches

(* A call left alone accounts as before.                                   *)
LEMMA SameAccounted ==
  ASSUME NEW d \in Calls, Accounted(d), SameCall(d), SameTables, job' = job
  PROVE  Accounted(d)'
BY DEF Accounted, PutAccounted, CutAccounted, ScanAccounted, Traced, Rescanned, Detached, Asset, ScansOf,
   Scanners, SameCall, SameTables, SameWrites, SameUrns, SameSession, SamePlace

(* What is accounted for stays so while the plan loses no touch.           *)
LEMMA TracedOn ==
  ASSUME NEW c \in Calls, job' = job, dropped[c] \subseteq dropped'[c],
         \A u : Traced(c, u) => Traced(c, u)'
  PROVE  /\ \A r : PutAccounted(c, r) => PutAccounted(c, r)'
         /\ \A r : CutAccounted(c, r) => CutAccounted(c, r)'
<1>1. \A u : ScansOf(u)' = ScansOf(u)
  BY DEF ScansOf, Scanners
<1>2. \A u : Detached(c, u) => Detached(c, u)'
  BY DEF Detached
<1>3. \A r : PutAccounted(c, r) => PutAccounted(c, r)'
  BY <1>1 DEF PutAccounted
<1>4. \A r : CutAccounted(c, r) => CutAccounted(c, r)'
  BY <1>2 DEF CutAccounted
<1> QED
  BY <1>3, <1>4

(* So do scans that go on.                                                 *)
LEMMA ScansOn ==
  ASSUME NEW c \in Calls, job' = job, scans'[c] = scans[c], \A s \in scans[c] : ScanAccounted(c, s),
         added[c] \subseteq added'[c], touched[c] \subseteq touched'[c],
         \A s \in scans[c] : held'[c][s.urn] = Asset(c, s.urn)'
  PROVE  \A s \in scans'[c] : ScanAccounted(c, s)'
<1>1. \A u : ScansOf(u)' = ScansOf(u)
  BY DEF ScansOf, Scanners
<1> QED
  BY <1>1 DEF ScanAccounted

(* A trace stays when a statement is done.                                 *)
LEMMA TracedRest ==
  ASSUME TypeOK, NEW c \in Calls, Plan(c), todo[c] # <<>>, Advanced(c), scans'[c] = scans[c], Cur(c).op # "touch"
  PROVE  \A u : Traced(c, u) => Traced(c, u)'
<1> SUFFICES ASSUME NEW u, Traced(c, u) PROVE Traced(c, u)'
  OBVIOUS
<1>1. CASE Rescanned(c, u) # {}
  BY <1>1 DEF Traced, Rescanned
<1>2. CASE Touches(todo[c], u)
  <2>1. Touches(Rest(c), u)
    BY <1>2, TouchesRest
  <2> QED
    BY <2>1 DEF Traced, Advanced
<1> QED
  BY <1>1, <1>2 DEF Traced

(* Only scans and discoveries scan.                                        *)
LEMMA ScannedKinds ==
  ASSUME NEW c \in Calls, Accounted(c), NEW s \in scans[c]
  PROVE  job[c].kind \in {"scan", "discover"}
BY DEF Accounted, ScanAccounted, ScansOf, Scanners

(* A step that writes no row, deletes no asset and keeps what the call has *)
(* loaded.                                                                 *)
LEMMA QuietAccounted ==
  ASSUME TypeOK, NEW c \in Calls, Accounted(c), SameTables, job' = job, SameWrites(c),
         added'[c] = added[c], dropped'[c] = dropped[c], touched[c] \subseteq touched'[c],
         scans'[c] = scans[c], \A u : Traced(c, u) => Traced(c, u)',
         \A s \in scans[c] : held'[c][s.urn] = held[c][s.urn] \/ held'[c][s.urn] = Asset(c, s.urn)
  PROVE  Accounted(c)'
<1>1. \A u : Asset(c, u)' = Asset(c, u)
  BY DEF Asset, SameTables
<1>2. \A s \in scans[c] : held'[c][s.urn] = Asset(c, s.urn)'
  BY <1>1 DEF Accounted, ScanAccounted
<1>3. \A s \in scans'[c] : ScanAccounted(c, s)'
  BY <1>2, ScansOn DEF Accounted
<1>4. /\ \A r : PutAccounted(c, r) => PutAccounted(c, r)'
      /\ \A r : CutAccounted(c, r) => CutAccounted(c, r)'
  BY TracedOn
<1> QED
  BY <1>3, <1>4 DEF Accounted, SameWrites

(* A row written.                                                          *)
LEMMA WroteAccounted ==
  ASSUME TypeOK, NEW c \in Calls, Plan(c), Accounted(c), SameTables, job' = job, WroteRow(c)
  PROVE  Accounted(c)'
<1> DEFINE row == NewRow(c)
           old == Old(c, row)
<1>0. /\ todo[c] # <<>> /\ Cur(c).op = "put" /\ Advanced(c) /\ seen[c] # NONE
      /\ put'[c] = (put[c] \ old) \union {row} /\ cut'[c] = cut[c] \union (old \intersect rows)
      /\ SameUrns(c) /\ SameSession(c)
  BY DEF WroteRow, Going
<1>1. PICK x \in DOMAIN Precedence :
        /\ row.source = x /\ row.urn = Cur(c).urn /\ Cur(c).sources = {x}
        /\ (x = "manual" <=> job[c].kind = "label") /\ (x = "scan" <=> ScanPut(Cur(c)))
  BY <1>0, NewRowFacts DEF Going, WroteRow
<1>2. job[c].kind \in {"label", "scan", "discover"} /\ StmtOk(Cur(c), job[c])
  BY <1>0, CurOk, OpKinds
<1>3. \A r \in old : r.urn = row.urn /\ r.source = row.source
  BY KeyFacts DEF Old
<1>4. \A u : Traced(c, u) => Traced(c, u)'
  BY <1>0, TracedRest DEF SameSession
<1>5. \A u : Asset(c, u)' = Asset(c, u)
  BY <1>0 DEF Asset, SameTables, SameUrns
<1>6. \A s \in scans[c] : held'[c][s.urn] = Asset(c, s.urn)'
  BY <1>0, <1>5 DEF Accounted, ScanAccounted, SameSession
<1>7. \A s \in scans'[c] : ScanAccounted(c, s)'
  BY <1>0, <1>6, ScansOn DEF Accounted, SameSession, SameUrns
<1>8. row.source = "scan" => c \in ScansOf(row.urn) /\ Traced(c, row.urn)
  <2> SUFFICES ASSUME row.source = "scan" PROVE c \in ScansOf(row.urn) /\ Traced(c, row.urn)
    OBVIOUS
  <2>1. Scanning(Cur(c)) /\ job[c].kind \in {"scan", "discover"}
    BY <1>1, <1>2 DEF Scanning
  <2>2. Touches(todo[c], Cur(c).urn)
    BY <1>0, <2>1, ScanningTouches
  <2>3. job[c].kind = "scan" => job[c].urn = Cur(c).urn
    BY <1>2 DEF StmtOk
  <2> QED
    BY <1>1, <2>1, <2>2, <2>3 DEF Traced, ScansOf, Scanners
<1>9. row.source = "manual" => job[c].kind = "label" /\ job[c].urn = row.urn
  BY <1>1, <1>2 DEF StmtOk
<1> HIDE DEF row, old
<1>10. /\ \A r : PutAccounted(c, r) => PutAccounted(c, r)'
       /\ \A r : CutAccounted(c, r) => CutAccounted(c, r)'
  BY <1>0, <1>4, TracedOn DEF SameUrns
<1>11. PutAccounted(c, row)
  BY <1>8 DEF PutAccounted
<1>12. \A r \in old : CutAccounted(c, r)
  BY <1>3, <1>8, <1>9 DEF CutAccounted
<1>13. \A r \in put'[c] : PutAccounted(c, r)'
  <2> SUFFICES ASSUME NEW r \in put'[c] PROVE PutAccounted(c, r)
    BY <1>10
  <2> QED
    BY <1>0, <1>11 DEF Accounted
<1>14. \A r \in cut'[c] : CutAccounted(c, r)'
  BY <1>0, <1>10, <1>12 DEF Accounted
<1> QED
  BY <1>7, <1>13, <1>14 DEF Accounted

(* A row seen is what the statement is about.                              *)
LEMMA SeenRows ==
  ASSUME NEW c \in Calls, Plan(c), seen[c] # NONE, Cur(c).op \in {"put", "remove"}, NEW r, NEW o \in seen[c], Same(r, o)
  PROVE  /\ r.urn = Cur(c).urn /\ r.of = held[c][Cur(c).urn]
         /\ r.label \in Cur(c).labels /\ r.source \in Cur(c).sources
<1>1. /\ o.urn = Cur(c).urn /\ o.of = held[c][Cur(c).urn]
      /\ o.label \in Cur(c).labels /\ o.source \in Cur(c).sources
  BY DEF Plan, SeenOk
<1> QED
  BY <1>1, KeyFacts DEF Same

(* Rows deleted.                                                           *)
LEMMA RemovedAccounted ==
  ASSUME TypeOK, NEW c \in Calls, Plan(c), Accounted(c), SameTables, job' = job, Removed(c)
  PROVE  Accounted(c)'
<1>0. /\ todo[c] # <<>> /\ Cur(c).op = "remove" /\ Advanced(c) /\ seen[c] # NONE
      /\ put'[c] \subseteq put[c] /\ cut'[c] = cut[c] \union (Gone(c) \intersect rows)
      /\ SameUrns(c) /\ SameSession(c)
  BY DEF Removed, Going
<1>1. job[c].kind \in {"unlabel", "scan", "discover"} /\ StmtOk(Cur(c), job[c])
  BY <1>0, CurOk, OpKinds
<1>2. \A r \in Gone(c) : r.urn = Cur(c).urn /\ r.source \in Cur(c).sources
  BY <1>0, SeenRows DEF Gone
<1>3. \A u : Traced(c, u) => Traced(c, u)'
  BY <1>0, TracedRest DEF SameSession
<1>4. \A u : Asset(c, u)' = Asset(c, u)
  BY <1>0 DEF Asset, SameTables, SameUrns
<1>5. \A s \in scans[c] : held'[c][s.urn] = Asset(c, s.urn)'
  BY <1>0, <1>4 DEF Accounted, ScanAccounted, SameSession
<1>6. \A s \in scans'[c] : ScanAccounted(c, s)'
  BY <1>0, <1>5, ScansOn DEF Accounted, SameSession, SameUrns
<1>7. /\ \A r : PutAccounted(c, r) => PutAccounted(c, r)'
      /\ \A r : CutAccounted(c, r) => CutAccounted(c, r)'
  BY <1>0, <1>3, TracedOn DEF SameUrns
<1>8. ASSUME NEW r \in Gone(c) PROVE CutAccounted(c, r)
  <2>1. CASE job[c].kind = "unlabel"
    <3>1. job[c].urn = r.urn
      BY <1>1, <1>2, <2>1 DEF StmtOk
    <3> QED
      BY <2>1, <3>1 DEF CutAccounted, Detached
  <2>2. CASE job[c].kind # "unlabel"
    <3>1. Touches(todo[c], Cur(c).urn)
      BY <1>0, <2>2, ScanningTouches DEF Scanning
    <3>2. r.source = "scan"
      BY <1>0, <1>1, <1>2, <2>2 DEF StmtOk
    <3> QED
      BY <1>2, <3>1, <3>2 DEF CutAccounted, Traced
  <2> QED
    BY <2>1, <2>2
<1>9. \A r \in put'[c] : PutAccounted(c, r)'
  BY <1>0, <1>7 DEF Accounted
<1>10. \A r \in cut'[c] : CutAccounted(c, r)'
  BY <1>0, <1>7, <1>8 DEF Accounted
<1> QED
  BY <1>6, <1>9, <1>10 DEF Accounted

(* A scan recorded.                                                        *)
LEMMA TouchedAccounted ==
  ASSUME TypeOK, NEW c \in Calls, Plan(c), Accounted(c), SameTables, job' = job, Touched(c)
  PROVE  Accounted(c)'
<1>. PICK u : u = Cur(c).urn
  OBVIOUS
<1>. PICK m : m = Made(c)
  OBVIOUS
<1>0. /\ todo[c] # <<>> /\ Cur(c).op = "touch" /\ Advanced(c) /\ Asset(c, u) = held[c][u]
      /\ touched'[c] = touched[c] \union ({u} \ added[c])
      /\ scans'[c] = {s \in scans[c] : s.urn # u} \union {m}
      /\ SameWrites(c) /\ added'[c] = added[c] /\ dropped'[c] = dropped[c] /\ held'[c] = held[c]
  BY DEF Touched, Going
<1>1. m.urn = u
  BY DEF Made
<1>2. job[c].kind \in {"scan", "discover"} /\ StmtOk(Cur(c), job[c])
  BY <1>0, CurOk, OpKinds
<1>3. c \in ScansOf(u)
  BY <1>2 DEF StmtOk, ScansOf, Scanners
<1>4. \A v : Asset(c, v)' = Asset(c, v)
  BY <1>0 DEF Asset, SameTables
<1>5. \A v : Traced(c, v) => Traced(c, v)'
  <2> SUFFICES ASSUME NEW v, Traced(c, v) PROVE Traced(c, v)'
    OBVIOUS
  <2>1. CASE v = u
    <3>1. m \in Rescanned(c, v)'
      BY <1>0, <1>1, <2>1 DEF Rescanned
    <3> QED
      BY <3>1 DEF Traced
  <2>2. CASE v # u /\ Rescanned(c, v) # {}
    <3>1. PICK s \in scans[c] : s.urn = v
      BY <2>2 DEF Rescanned
    <3>2. s \in Rescanned(c, v)'
      BY <1>0, <2>2, <3>1 DEF Rescanned
    <3> QED
      BY <3>2 DEF Traced
  <2>3. CASE v # u /\ Touches(todo[c], v)
    <3>1. Touches(Rest(c), v)
      BY <1>0, <2>3, TouchesRest
    <3> QED
      BY <1>0, <3>1 DEF Traced, Advanced
  <2> QED
    BY <2>1, <2>2, <2>3 DEF Traced
<1>6. \A v : ScansOf(v)' = ScansOf(v)
  BY DEF ScansOf, Scanners
<1>7. ASSUME NEW s \in scans'[c] PROVE ScanAccounted(c, s)'
  <2>1. s = m \/ (s \in scans[c] /\ s.urn # u)
    BY <1>0
  <2>2. c \in ScansOf(s.urn)' /\ s.urn \in added'[c] \union touched'[c] /\ held'[c][s.urn] = Asset(c, s.urn)
    BY <1>0, <1>1, <1>3, <1>6, <2>1 DEF Accounted, ScanAccounted
  <2>3. \A o \in scans'[c] : o.urn = s.urn => o = s
    BY <1>0, <1>1, <2>1 DEF Accounted, ScanAccounted
  <2> QED
    BY <1>4, <2>2, <2>3 DEF ScanAccounted
<1>8. /\ \A r : PutAccounted(c, r) => PutAccounted(c, r)'
      /\ \A r : CutAccounted(c, r) => CutAccounted(c, r)'
  BY <1>0, <1>5, TracedOn
<1> QED
  BY <1>0, <1>7, <1>8 DEF Accounted, SameWrites

(* An asset deleted.                                                       *)
LEMMA DroppedAccounted ==
  ASSUME TypeOK, TablesConsistent, NEW c \in Calls, Plan(c), Pending(c), Accounted(c), SameTables, job' = job, Dropped(c)
  PROVE  Accounted(c)'
<1>. PICK u : u = Cur(c).urn
  OBVIOUS
<1>0. todo[c] # <<>> /\ Cur(c).op = "drop" /\ Advanced(c) /\ SameSession(c) /\ put'[c] = put[c]
  BY DEF Dropped, Going
<1>1. job[c].kind = "drop" /\ put[c] = {}
  BY DroppedFacts
<1>2. job[c].urn = u
  BY <1>0, <1>1, CurOk DEF StmtOk
<1>3. scans'[c] = {} /\ put'[c] = {}
  <2>1. scans[c] = {}
    BY <1>1, ScannedKinds
  <2> QED
    BY <1>0, <1>1, <2>1 DEF SameSession
<1>4. \/ /\ dropped'[c] = dropped[c] \union {u} /\ cut'[c] = cut[c] \union Mine(c)
      \/ dropped'[c] = dropped[c] /\ cut'[c] = cut[c]
  BY DEF Dropped
<1>5. \A v : Traced(c, v) => Traced(c, v)'
  BY <1>0, TracedRest DEF SameSession
<1>6. \A r : CutAccounted(c, r) => CutAccounted(c, r)'
  BY <1>4, <1>5, TracedOn
<1>7. ASSUME NEW r \in cut'[c] PROVE CutAccounted(c, r)'
  <2>1. CASE r \in cut[c]
    BY <1>6, <2>1 DEF Accounted
  <2>2. CASE r \notin cut[c]
    <3>1. r.urn = u /\ u \in dropped'[c]
      BY <1>4, <2>2 DEF Mine
    <3> QED
      BY <1>1, <1>2, <3>1 DEF CutAccounted, Detached
  <2> QED
    BY <2>1, <2>2
<1> QED
  BY <1>3, <1>7 DEF Accounted

(* An asset inserted.                                                      *)
LEMMA InsertedAccounted ==
  ASSUME TypeOK, NEW c \in Calls, Plan(c), Pending(c), Accounted(c), SameTables, job' = job, Inserted(c)
  PROVE  Accounted(c)'
<1>. PICK u : u = Cur(c).urn
  OBVIOUS
<1>0. /\ todo[c] # <<>> /\ Cur(c).op \in {"find", "upsert"} /\ SameWrites(c) /\ Advanced(c)
      /\ added'[c] = added[c] \union {u} /\ dropped'[c] = dropped[c] /\ touched'[c] = touched[c]
      /\ held'[c] = [held[c] EXCEPT ![u] = c] /\ scans'[c] = scans[c]
  BY DEF Inserted, Going
<1>1. dropped[c] = {}
  <2>1. Cur(c).op \in KindOps(job[c].kind)
    BY <1>0, CurOk
  <2>2. job[c].kind # "drop"
    BY <1>0, <2>1 DEF KindOps
  <2> QED
    BY <2>2 DEF Pending
<1>2. u \in Urns /\ held[c] \in [Urns -> Ids] /\ \A s \in scans[c] : s.urn \in Urns
  <2>1. scans[c] \subseteq Scan
    BY DEF TypeOK
  <2> QED
    BY <1>0, <2>1, CurFacts, StmtUrns DEF Scan
<1>3. \A v : v # u => Asset(c, v)' = Asset(c, v)
  BY <1>0 DEF Asset, SameTables
<1>4. Asset(c, u)' = c
  BY <1>0, <1>1 DEF Asset
<1>5. ASSUME NEW s \in scans[c] PROVE held'[c][s.urn] = Asset(c, s.urn)'
  <2>1. CASE s.urn = u
    <3>1. held'[c][s.urn] = c
      BY <1>0, <1>2, <2>1
    <3> QED
      BY <1>0, <1>1, <2>1, <3>1 DEF Asset
  <2>2. CASE s.urn # u
    BY <1>0, <1>2, <1>3, <2>2 DEF Accounted, ScanAccounted
  <2> QED
    BY <2>1, <2>2
<1>6. \A s \in scans'[c] : ScanAccounted(c, s)'
  BY <1>0, <1>5, ScansOn DEF Accounted
<1>7. \A v : Traced(c, v) => Traced(c, v)'
  BY <1>0, TracedRest
<1>8. /\ \A r : PutAccounted(c, r) => PutAccounted(c, r)'
      /\ \A r : CutAccounted(c, r) => CutAccounted(c, r)'
  BY <1>0, <1>7, TracedOn
<1> QED
  BY <1>0, <1>6, <1>8 DEF Accounted, SameWrites

(* A sample leaves its traces.                                             *)
LEMMA SampledTraced ==
  ASSUME TypeOK, NEW c \in Calls, Plan(c), Sampled(c)
  PROVE  \A u : /\ Touches(todo[c], u) => Touches(todo'[c], u)
                /\ Traced(c, u) => Traced(c, u)'
<1>0. todo[c] # <<>> /\ Cur(c).op = "sample" /\ scans'[c] = scans[c]
  BY DEF Sampled, Going
<1>1. Cur(c).found \in Findings /\ Cur(c).urn \in Urns /\ todo[c] \in Seq(Statement)
  BY <1>0, SampledTodo, CurFacts
<1> DEFINE b == apply_scan(Cur(c).urn, Cur(c).found)
           tl == Tail(todo[c])
<1>2. b \in Seq(Statement) /\ tl \in Seq(Statement)
  BY <1>0, <1>1, ScanShape, TailAt DEF IsScan
<1>3. todo'[c] = b \o tl \/ todo'[c] = tl
  BY DEF Sampled
<1>4. ASSUME NEW u, Touches(todo[c], u) PROVE Touches(todo'[c], u)
  <2>1. Touches(tl, u)
    BY <1>0, <1>4, TouchesRest
  <2> HIDE DEF b, tl
  <2>2. Touches(b \o tl, u)
    BY <1>2, <2>1, TouchesConcat
  <2>3. CASE todo'[c] = tl
    BY <2>1, <2>3
  <2>4. CASE todo'[c] = b \o tl
    BY <2>2, <2>4
  <2> QED
    BY <1>3, <2>3, <2>4
<1>5. ASSUME NEW u, Traced(c, u) PROVE Traced(c, u)'
  BY <1>0, <1>4, <1>5 DEF Traced, Rescanned
<1> QED
  BY <1>4, <1>5

(* Every step of a call keeps its writes accounted for.                    *)
LEMMA OwnAccounted ==
  ASSUME TypeOK, TablesConsistent, NEW c \in Calls, Plan(c), Pending(c), Accounted(c), Own(c), OwnStep(c)
  PROVE  Accounted(c)'
<1>0. SameTables /\ job' = job
  BY DEF Own
<1>1. CASE Aborted(c)
  BY <1>1 DEF Aborted, Shut, Accounted
<1>2. CASE SelectedRows(c)
  <2>1. /\ SameWrites(c) /\ SameUrns(c) /\ scans'[c] = scans[c] /\ held'[c] = held[c] /\ todo'[c] = todo[c]
    BY <1>2 DEF SelectedRows, Selected
  <2>2. \A u : Traced(c, u) => Traced(c, u)'
    BY <2>1 DEF Traced, Rescanned
  <2> QED
    BY <1>0, <2>1, <2>2, QuietAccounted DEF SameUrns
<1>3. CASE SelectedAsset(c)
  <2>1. /\ SameWrites(c) /\ SameUrns(c) /\ scans'[c] = scans[c] /\ todo'[c] = todo[c] /\ todo[c] # <<>>
        /\ held'[c] = [held[c] EXCEPT ![Cur(c).urn] = Asset(c, Cur(c).urn)]
    BY <1>3 DEF SelectedAsset, Selected, Going
  <2>2. \A u : Traced(c, u) => Traced(c, u)'
    BY <2>1 DEF Traced, Rescanned
  <2>3. ASSUME NEW s \in scans[c]
        PROVE  held'[c][s.urn] = held[c][s.urn] \/ held'[c][s.urn] = Asset(c, s.urn)
    <3>1. scans[c] \subseteq Scan /\ held[c] \in [Urns -> Ids]
      BY DEF TypeOK
    <3>2. s.urn \in Urns
      BY <3>1 DEF Scan
    <3>3. CASE s.urn = Cur(c).urn
      BY <2>1, <3>1, <3>2, <3>3
    <3>4. CASE s.urn # Cur(c).urn
      BY <2>1, <3>1, <3>2, <3>4
    <3> QED
      BY <3>3, <3>4
  <2> QED
    BY <1>0, <2>1, <2>2, <2>3, QuietAccounted DEF SameUrns
<1>4. CASE Used(c)
  <2>1. /\ SameWrites(c) /\ added'[c] = added[c] /\ dropped'[c] = dropped[c] /\ touched[c] \subseteq touched'[c]
        /\ scans'[c] = scans[c] /\ held'[c] = held[c] /\ todo[c] # <<>> /\ Advanced(c) /\ Cur(c).op # "touch"
    BY <1>4 DEF Used, Going, SameSession, Looking
  <2>2. \A u : Traced(c, u) => Traced(c, u)'
    BY <2>1, TracedRest
  <2> QED
    BY <1>0, <2>1, <2>2, QuietAccounted
<1>5. CASE Inserted(c)
  BY <1>0, <1>5, InsertedAccounted
<1>6. CASE WroteRow(c)
  BY <1>0, <1>6, WroteAccounted
<1>7. CASE LeftRow(c) \/ ReadTheLabels(c)
  <2>1. /\ SameWrites(c) /\ SameUrns(c)
        /\ scans'[c] = scans[c] /\ held'[c] = held[c] /\ todo[c] # <<>> /\ Advanced(c) /\ Cur(c).op # "touch"
    BY <1>7 DEF LeftRow, ReadTheLabels, ReadOn, Going, SameSession
  <2>2. \A u : Traced(c, u) => Traced(c, u)'
    BY <2>1, TracedRest
  <2> QED
    BY <1>0, <2>1, <2>2, QuietAccounted DEF SameUrns
<1>8. CASE Removed(c)
  BY <1>0, <1>8, RemovedAccounted
<1>9. CASE Touched(c)
  BY <1>0, <1>9, TouchedAccounted
<1>10. CASE Dropped(c)
  BY <1>0, <1>10, DroppedAccounted
<1>11. CASE Sampled(c)
  <2>1. /\ SameWrites(c) /\ SameUrns(c) /\ scans'[c] = scans[c] /\ held'[c] = held[c]
    BY <1>11 DEF Sampled
  <2>2. \A u : Traced(c, u) => Traced(c, u)'
    BY <1>11, SampledTraced
  <2> QED
    BY <1>0, <2>1, <2>2, QuietAccounted DEF SameUrns
<1>12. CASE ReadTheAssets(c)
  <2>1. /\ SameWrites(c) /\ SameUrns(c) /\ scans'[c] = scans[c] /\ todo[c] # <<>> /\ Advanced(c)
        /\ Cur(c).op \in {"exact", "patterns"}
    BY <1>12 DEF ReadTheAssets, ReadOn, Going
  <2>2. job[c].kind = "resolve"
    BY <2>1, CurOk, OpKinds
  <2>3. scans[c] = {}
    BY <2>2, ScannedKinds
  <2>4. \A u : Traced(c, u) => Traced(c, u)'
    BY <2>1, TracedRest
  <2> QED
    BY <1>0, <2>1, <2>3, <2>4, QuietAccounted DEF SameUrns
<1> QED
  BY <1>1, <1>2, <1>3, <1>4, <1>5, <1>6, <1>7, <1>8, <1>9, <1>10, <1>11, <1>12 DEF OwnStep

----------------------------------------------------------------------------
(* Scanned: what a scan has done.                                          *)

(* The rows a scan has written are of the asset it has loaded.             *)
LEMMA SamePutsHeld ==
  ASSUME NEW d \in Calls, PutsHeld(d), SameCall(d)
  PROVE  PutsHeld(d)'
BY DEF PutsHeld, SameCall, SameWrites, SameSession

(* Where nothing is put or loaded.                                         *)
LEMMA QuietPutsHeld ==
  ASSUME NEW c \in Calls, PutsHeld(c), put'[c] \subseteq put[c], held'[c] = held[c]
  PROVE  PutsHeld(c)'
BY DEF PutsHeld

(* Every step of a call keeps its scan rows under the asset it loaded.     *)
LEMMA OwnPutsHeld ==
  ASSUME TypeOK, NEW c \in Calls, Plan(c), Pending(c), Accounted(c), PutsHeld(c), OwnStep(c)
  PROVE  PutsHeld(c)'
<1>0. put[c] \subseteq Row /\ held[c] \in [Urns -> Ids]
  BY DEF TypeOK
<1>1. CASE Aborted(c)
  BY <1>1 DEF Aborted, Shut, PutsHeld
<1>2. CASE SelectedRows(c) \/ Used(c) \/ LeftRow(c) \/ Removed(c) \/ Touched(c) \/ Dropped(c) \/ Sampled(c) \/ ReadTheLabels(c)
  <2>1. put'[c] \subseteq put[c] /\ held'[c] = held[c]
    BY <1>2 DEF SelectedRows, Selected, Used, LeftRow, Removed, Touched, Dropped, Sampled, ReadTheLabels, ReadOn,
       SameWrites, SameSession
  <2> QED
    BY <2>1, QuietPutsHeld
<1>3. CASE SelectedAsset(c)
  <2>1. todo[c] # <<>> /\ put'[c] = put[c] /\ held'[c] = [held[c] EXCEPT ![Cur(c).urn] = Asset(c, Cur(c).urn)]
    BY <1>3 DEF SelectedAsset, Selected, SameWrites, Going
  <2>2. ASSUME NEW r \in put[c], r.source = "scan" PROVE held'[c][r.urn] = r.of
    <3>1. r.urn \in Urns /\ r.of = Asset(c, r.urn) /\ held[c][r.urn] = r.of
      BY <1>0, <2>2, RowFacts DEF Pending, PutsHeld
    <3>2. CASE r.urn = Cur(c).urn
      BY <1>0, <2>1, <3>1, <3>2
    <3>3. CASE r.urn # Cur(c).urn
      BY <1>0, <2>1, <3>1, <3>3
    <3> QED
      BY <3>2, <3>3
  <2> QED
    BY <2>1, <2>2 DEF PutsHeld
<1>4. CASE Inserted(c)
  <2>1. /\ todo[c] # <<>> /\ put'[c] = put[c] /\ held'[c] = [held[c] EXCEPT ![Cur(c).urn] = c]
        /\ seen[c] # NONE /\ seen[c] = {} /\ Cur(c).op \in Looking
    BY <1>4 DEF Inserted, SameWrites, Going, Looking
  <2>2. held[c][Cur(c).urn] = NONE
    BY <2>1 DEF Plan, SeenOk
  <2>3. ASSUME NEW r \in put[c], r.source = "scan" PROVE held'[c][r.urn] = r.of
    <3>1. r.urn \in Urns /\ r.of # NONE /\ held[c][r.urn] = r.of
      BY <1>0, <2>3, RowFacts DEF PutsHeld
    <3> QED
      BY <1>0, <2>1, <2>2, <3>1
  <2> QED
    BY <2>1, <2>3 DEF PutsHeld
<1>5. CASE WroteRow(c)
  <2>1. NewRow(c).urn = Cur(c).urn /\ NewRow(c).of = held[c][Cur(c).urn]
    BY <1>5, NewRowFacts DEF WroteRow
  <2>2. held'[c] = held[c] /\ \A r \in put'[c] : r \in put[c] \/ r = NewRow(c)
    BY <1>5 DEF WroteRow, SameSession
  <2> QED
    BY <2>1, <2>2 DEF PutsHeld
<1>6. CASE ReadTheAssets(c)
  <2>1. todo[c] # <<>> /\ Cur(c).op \in {"exact", "patterns"} /\ put'[c] = put[c]
    BY <1>6 DEF ReadTheAssets, ReadOn, Going, SameWrites
  <2>2. job[c].kind = "resolve"
    BY <2>1, CurOk, OpKinds
  <2>3. \A r \in put[c] : r.source # "scan"
    BY <2>2 DEF Accounted, PutAccounted, ScansOf, Scanners
  <2> QED
    BY <2>1, <2>3 DEF PutsHeld
<1> QED
  BY <1>1, <1>2, <1>3, <1>4, <1>5, <1>6 DEF OwnStep

----------------------------------------------------------------------------
(* The scan rows of an asset that a step leaves as they are.               *)
ScanRow(r, u) == r.urn = u /\ r.source = "scan"
SameScanRows(c, u) == \A r : ScanRow(r, u) => (r \in put'[c] <=> r \in put[c])
Calm(c, u) ==
  /\ job' = job /\ met' = met /\ rows' = rows /\ cut[c] \subseteq cut'[c] /\ left[c] \subseteq left'[c]
  /\ held'[c][u] = held[c][u] /\ SameScanRows(c, u)

(* Whether a scan is alone is known from the history.                      *)
LEMMA SameAlone ==
  ASSUME job' = job, met' = met
  PROVE  \A c, u : Alone(c, u)' <=> Alone(c, u)
BY DEF Alone, ScansOf, Scanners

(* Where it is calm, what was done stays done,                             *)
LEMMA CalmFacts ==
  ASSUME NEW c \in Calls, NEW u, Calm(c, u)
  PROVE  /\ \A found : Cleared(c, u, found) => Cleared(c, u, found)'
         /\ \A l : Bears(c, u, l) => Bears(c, u, l)'
<1>1. Alone(c, u)' <=> Alone(c, u)
  BY SameAlone DEF Calm
<1>2. Foreign(c, u)' \subseteq Foreign(c, u)
  BY DEF Foreign, Calm
<1>3. ASSUME NEW found, Cleared(c, u, found) PROVE Cleared(c, u, found)'
  <2>1. (Alone(c, u) => Foreign(c, u) = {})'
    BY <1>1, <1>2, <1>3 DEF Cleared
  <2>2. \A r \in put'[c] : r.urn = u /\ r.source = "scan" => r.label \in DOMAIN found
    BY <1>3 DEF Cleared, Calm, SameScanRows, ScanRow
  <2> QED
    BY <2>1, <2>2 DEF Cleared
<1>4. ASSUME NEW l, Bears(c, u, l) PROVE Bears(c, u, l)'
  <2>1. PICK r \in Kept(c, u) : Shows(r, u, l, "scan")
    BY <1>4 DEF Bears
  <2>2. r \in put[c] => r \in put'[c]
    BY <2>1 DEF Shows, Calm, SameScanRows, ScanRow
  <2>3. r \in left[c] => r \in left'[c]
    BY DEF Calm
  <2>4. r \in Kept(c, u)'
    BY <1>1, <2>1, <2>2, <2>3 DEF Kept
  <2> QED
    BY <2>1, <2>4 DEF Bears, Shows
<1> QED
  BY <1>3, <1>4

(* a finished scan stays finished.                                         *)
LEMMA CalmAfter ==
  ASSUME NEW c \in Calls, AfterBlock(c), scans'[c] = scans[c],
         \A s \in scans[c] : ~Touches(todo'[c], s.urn) => ~Touches(todo[c], s.urn) /\ Calm(c, s.urn)
  PROVE  AfterBlock(c)'
<1> SUFFICES ASSUME NEW s \in scans[c], ~Touches(todo'[c], s.urn)
             PROVE  /\ Cleared(c, s.urn, s.found)'
                    /\ \A l \in DOMAIN s.found : Bears(c, s.urn, l)'
  BY DEF AfterBlock
<1>1. Calm(c, s.urn) /\ Cleared(c, s.urn, s.found) /\ \A l \in DOMAIN s.found : Bears(c, s.urn, l)
  BY DEF AfterBlock
<1> QED
  BY <1>1, CalmFacts

(* A plan that does not begin in the middle of a scan asks nothing.        *)
LEMMA NotMidInBlock ==
  ASSUME NEW c \in Calls, todo'[c] \in Seq(Statement), NotMid(todo'[c])
  PROVE  InBlock(c)'
<1> SUFFICES ASSUME NEW j \in DOMAIN todo'[c], Ends(todo'[c], 1, j), Cur(c)'.op # "remove"
             PROVE  FALSE
  BY DEF InBlock
<1>1. todo'[c] # <<>> /\ Cur(c)' = todo'[c][1] /\ j \in Nat
  BY DEF Cur
<1>2. CASE j = 1
  BY <1>1, <1>2 DEF Ends, NotMid
<1>3. CASE j # 1
  <2>1. 1 \in 1 .. (j - 1)
    BY <1>1, <1>3 DEF Ends
  <2>2. Scanning(todo'[c][1])
    BY <2>1 DEF Ends
  <2> QED
    BY <1>1, <2>2 DEF Scanning, NotMid
<1> QED
  BY <1>2, <1>3

(* After a statement of no block no block is under way.                    *)
LEMMA RestNotMid ==
  ASSUME TypeOK, NEW c \in Calls, Plan(c), todo[c] # <<>>, job[c].kind # "unlabel", ~Scanning(Cur(c))
  PROVE  NotMid(Rest(c)) /\ NotMid(Tail(todo[c]))
<1>1. todo[c] \in Seq(Statement) /\ Cur(c) = todo[c][1] /\ Cur(c) \in Statement
  BY CurFacts
<1>2. NotMid(Tail(todo[c])) /\ Tail(todo[c]) \in Seq(Statement)
  BY <1>1, BlocksTail, TailAt DEF Plan
<1>3. CASE Cur(c).op # "upsert"
  BY <1>2, <1>3 DEF Rest
<1>4. CASE Cur(c).op = "upsert"
  <2> DEFINE a == _absorb(Cur(c))
             tl == Tail(todo[c])
  <2>1. Cur(c).found \in Findings /\ job[c].kind = "discover"
    BY <1>4, CurOk, OpKinds DEF StmtOk
  <2>2. a \in Seq(Statement) /\ Quiet(a)
    BY <1>1, <2>1, AbsorbFacts
  <2>3. Rest(c) = a \o tl
    BY <1>4 DEF Rest
  <2> HIDE DEF a, tl
  <2>4. tl \in Seq(Statement) /\ NotMid(tl)
    BY <1>2 DEF tl
  <2>5. CASE a = <<>>
    <3>1. a \o tl = tl
      BY <2>4, <2>5
    <3> QED
      BY <1>2, <2>3, <2>4, <3>1
  <2>6. CASE a # <<>>
    <3>1. 1 \in DOMAIN a /\ (a \o tl)[1] = a[1]
      BY <2>2, <2>4, <2>6
    <3>2. ~ScanPut(a[1]) /\ a[1].op # "touch"
      BY <2>2, <3>1 DEF Quiet, Scanning
    <3> QED
      BY <1>2, <2>3, <3>1, <3>2 DEF NotMid
  <2> QED
    BY <2>5, <2>6
<1> QED
  BY <1>3, <1>4

(* A call left alone keeps what its scan has done.                         *)
LEMMA SameBlocks ==
  ASSUME NEW d \in Calls, SameCall(d), SameTables, job' = job, met' = met
  PROVE  /\ InBlock(d) => InBlock(d)'
         /\ AfterBlock(d) => AfterBlock(d)'
         /\ SeesScans(d) => SeesScans(d)'
<1>0. /\ rows' = rows /\ put'[d] = put[d] /\ cut'[d] = cut[d] /\ held'[d] = held[d] /\ left'[d] = left[d]
      /\ scans'[d] = scans[d] /\ todo'[d] = todo[d] /\ seen'[d] = seen[d] /\ Cur(d)' = Cur(d)
  BY DEF SameCall, SameTables, SameWrites, SameSession, SameAnswer, SamePlace, Cur
<1>1. \A u : Calm(d, u)
  BY <1>0 DEF Calm, SameScanRows
<1>2. ASSUME InBlock(d) PROVE InBlock(d)'
  <2> SUFFICES ASSUME NEW j \in DOMAIN todo[d], Ends(todo[d], 1, j), Cur(d).op # "remove"
               PROVE  /\ Cleared(d, todo[d][j].urn, todo[d][j].found)'
                      /\ \A l \in DOMAIN todo[d][j].found :
                           \/ \E k \in 1..(j - 1) : todo[d][k].labels = {l}
                           \/ Bears(d, todo[d][j].urn, l)'
    BY <1>0 DEF InBlock
  <2>. PICK u, found : u = todo[d][j].urn /\ found = todo[d][j].found
    OBVIOUS
  <2>1. /\ Cleared(d, u, found)
        /\ \A l \in DOMAIN found : (\E k \in 1..(j - 1) : todo[d][k].labels = {l}) \/ Bears(d, u, l)
    BY <1>2 DEF InBlock
  <2>2. Cleared(d, u, found)' /\ \A l : Bears(d, u, l) => Bears(d, u, l)'
    BY <1>1, <2>1, CalmFacts
  <2>3. u = todo'[d][j].urn /\ found = todo'[d][j].found
    BY <1>0
  <2>4. Cleared(d, todo[d][j].urn, todo[d][j].found)'
    BY <2>2, <2>3 DEF Cleared, Foreign
  <2>5. \A l : Bears(d, u, l)' => Bears(d, todo[d][j].urn, l)'
    BY <2>3 DEF Bears, Kept
  <2> QED
    BY <2>1, <2>2, <2>4, <2>5
<1>3. ASSUME AfterBlock(d) PROVE AfterBlock(d)'
  BY <1>0, <1>1, <1>3, CalmAfter
<1>4. ASSUME SeesScans(d) PROVE SeesScans(d)'
  <2>1. VisibleRows(d)' = VisibleRows(d) /\ Scanners' = Scanners
    BY <1>0 DEF VisibleRows, Scanners
  <2>2. Alone(d, Cur(d).urn)' <=> Alone(d, Cur(d).urn)
    BY <1>0, SameAlone DEF Alone, ScansOf, Scanners
  <2> QED
    BY <1>0, <1>4, <2>1, <2>2 DEF SeesScans
<1> QED
  BY <1>2, <1>3, <1>4

(* Before a SELECT nothing has been seen.                                  *)
LEMMA NoneSeen ==
  ASSUME NEW c \in Calls, seen'[c] = NONE
  PROVE  SeesScans(c)'
BY DEF SeesScans

(* A scan that has begun to write ends in one touch.                       *)
LEMMA BlockOf ==
  ASSUME TypeOK, NEW c \in Calls, Plan(c), todo[c] # <<>>, job[c].kind # "unlabel", Scanning(Cur(c))
  PROVE  \E j \in DOMAIN todo[c] :
           /\ j \in Nat /\ j >= 2 /\ Ends(todo[c], 1, j) /\ todo[c][j].urn = Cur(c).urn
           /\ ScanPut(Cur(c)) => \E l \in DOMAIN todo[c][j].found : Cur(c).labels = {l}
           /\ \A m \in DOMAIN Tail(todo[c]) : Ends(Tail(todo[c]), 1, m) => m = j - 1
           /\ j - 1 \in DOMAIN Tail(todo[c]) /\ Tail(todo[c])[j - 1] = todo[c][j]
<1> DEFINE t == todo[c]
<1>1. t \in Seq(Statement) /\ Cur(c) = t[1] /\ 1 \in DOMAIN t /\ Blocks(t)
  BY CurFacts DEF Plan
<1> HIDE DEF t
<1>2. PICK j \in DOMAIN t : Ends(t, 1, j)
  BY <1>1 DEF Blocks
<1>3. j \in Nat /\ j >= 2
  <2>1. t[1].op # "touch"
    BY <1>1 DEF Scanning, ScanPut
  <2>2. 1 <= j /\ j # 1 /\ j \in Nat
    BY <1>1, <1>2, <2>1 DEF Ends
  <2> QED
    BY <2>2
<1>4. 1 \in 1 .. (j - 1)
  BY <1>3
<1>5. t[1].urn = t[j].urn /\ (ScanPut(t[1]) => \E l \in DOMAIN t[j].found : t[1].labels = {l})
  BY <1>2, <1>4 DEF Ends
<1>6. t # <<>> /\ Tail(t) \in Seq(Statement) /\ Len(t) \in Nat /\ DOMAIN t = 1 .. Len(t)
      /\ DOMAIN Tail(t) = 1 .. (Len(t) - 1) /\ j - 1 \in DOMAIN Tail(t) /\ Tail(t)[j - 1] = t[j]
  <2>1. t # <<>>
    BY DEF t
  <2>2. /\ Tail(t) \in Seq(Statement) /\ Len(t) \in Nat /\ DOMAIN t = 1 .. Len(t)
        /\ DOMAIN Tail(t) = 1 .. (Len(t) - 1)
        /\ \A i \in DOMAIN t : i # 1 => i - 1 \in DOMAIN Tail(t) /\ t[i] = Tail(t)[i - 1]
    BY <1>1, <2>1, TailAt
  <2>3. j # 1
    BY <1>3
  <2> QED
    BY <2>1, <2>2, <2>3
<1>7. 1 + 1 \in DOMAIN t /\ 1 \in DOMAIN Tail(t)
  BY <1>3, <1>6
<1>8. ASSUME NEW m \in DOMAIN Tail(t), Ends(Tail(t), 1, m) PROVE m = j - 1
  <2>0. m \in Nat /\ m + 1 \in DOMAIN t
    BY <1>6
  <2>1. Ends(t, 1 + 1, m + 1) /\ m + 1 \in DOMAIN t /\ m \in Nat
    <3>1. Ends(Tail(t), 1, m) <=> Ends(t, 1 + 1, m + 1)
      BY <1>1, <1>6, <1>7, EndsTail
    <3> QED
      BY <1>8, <2>0, <3>1
  <2>2. Ends(t, 1, m + 1)
    BY <1>1, <1>7, <2>1, EndsNext
  <2>3. m + 1 = j
    BY <1>1, <1>2, <1>3, <2>1, <2>2, EndsUnique
  <2> QED
    BY <2>1, <2>3
<1> QED
  BY <1>1, <1>2, <1>3, <1>5, <1>6, <1>8 DEF t

(* What the rest of a scan still has to be: the scan's rows in place, and  *)
(* each label either written or still to be.                               *)

(* The next statement of the same block.                                   *)
LEMMA InBlockTail ==
  ASSUME TypeOK, NEW c \in Calls, Plan(c), todo[c] # <<>>, job[c].kind # "unlabel", Scanning(Cur(c)),
         NEW j \in DOMAIN todo[c], todo'[c] = Tail(todo[c]),
         \A m \in DOMAIN Tail(todo[c]) : Ends(Tail(todo[c]), 1, m) => m = j - 1,
         Tail(todo[c])[j - 1] = todo[c][j],
         NEW u, NEW found, u = todo[c][j].urn, found = todo[c][j].found,
         Cleared(c, u, found)',
         \A l \in DOMAIN found : (\E k \in 1 .. (j - 2) : Tail(todo[c])[k].labels = {l}) \/ Bears(c, u, l)'
  PROVE  InBlock(c)'
<1> SUFFICES ASSUME NEW m \in DOMAIN todo'[c], Ends(todo'[c], 1, m)
             PROVE  /\ Cleared(c, todo[c][m].urn, todo[c][m].found)'
                    /\ \A l \in DOMAIN todo'[c][m].found :
                         \/ \E k \in 1..(m - 1) : todo'[c][k].labels = {l}
                         \/ Bears(c, todo[c][m].urn, l)'
  BY DEF InBlock
<1>1. m = j - 1 /\ todo'[c][m] = todo[c][j]
  BY CurFacts
<1>2. todo'[c][m].urn = u /\ todo'[c][m].found = found
  BY <1>1
<1>3. 1 .. (m - 1) = 1 .. (j - 2)
  <2>1. j \in Nat
    BY CurFacts
  <2> QED
    BY <1>1, <2>1
<1>4. \A l \in DOMAIN found : (\E k \in 1 .. (m - 1) : todo'[c][k].labels = {l}) \/ Bears(c, u, l)'
  BY <1>3
<1>5. Cleared(c, todo[c][m].urn, todo[c][m].found)'
  BY <1>2 DEF Cleared, Foreign
<1>6. \A l : Bears(c, u, l)' => Bears(c, todo[c][m].urn, l)'
  BY <1>2 DEF Bears, Kept
<1> QED
  BY <1>2, <1>4, <1>5, <1>6

Scanned(c) == InBlock(c) /\ AfterBlock(c) /\ SeesScans(c)

(* A statement that is no upsert leaves the tail.                          *)
LEMMA RestTail ==
  ASSUME NEW c \in Calls, Advanced(c), Cur(c).op # "upsert"
  PROVE  todo'[c] = Tail(todo[c])
BY DEF Advanced, Rest

(* Where no row is written it is calm.                                     *)
LEMMA CalmQuiet ==
  ASSUME NEW c \in Calls, job' = job, met' = met, rows' = rows, SameWrites(c), left[c] \subseteq left'[c], NEW u,
         held'[c][u] = held[c][u]
  PROVE  Calm(c, u)
BY DEF Calm, SameWrites, SameScanRows

(* The removal that opens a scan.                                          *)
LEMMA RemovedScanned ==
  ASSUME TypeOK, NEW c \in Calls, Plan(c), Pending(c), Accounted(c), Scanned(c), PutsHeld(c), Own(c),
         Removed(c), job[c].kind # "unlabel"
  PROVE  Scanned(c)'
<1>. PICK v : v = Cur(c).urn
  OBVIOUS
<1>0. /\ todo[c] # <<>> /\ Cur(c).op = "remove" /\ Advanced(c) /\ seen[c] # NONE
      /\ put'[c] = put[c] \ Gone(c) /\ cut'[c] = cut[c] \union (Gone(c) \intersect rows)
      /\ SameUrns(c) /\ SameSession(c) /\ SameAnswer(c) /\ job' = job /\ met' = met /\ rows' = rows
  BY DEF Removed, Going, Own, SameTables
<1>1. Scanning(Cur(c)) /\ job[c].kind \in {"scan", "discover"} /\ todo'[c] = Tail(todo[c])
  BY <1>0, CurOk, OpKinds, RestTail DEF Scanning
<1>2. c \in Scanners
  BY <1>1 DEF Scanners
<1>3. PICK j \in DOMAIN todo[c] :
           /\ j \in Nat /\ j >= 2 /\ Ends(todo[c], 1, j) /\ todo[c][j].urn = Cur(c).urn
           /\ \A m \in DOMAIN Tail(todo[c]) : Ends(Tail(todo[c]), 1, m) => m = j - 1
           /\ Tail(todo[c])[j - 1] = todo[c][j]
  BY <1>0, <1>1, BlockOf
<1>. PICK found : found = todo[c][j].found
  OBVIOUS
<1>4. \A r \in Gone(c) : r.urn = v /\ r.source \in Cur(c).sources
  BY <1>0, SeenRows DEF Gone
<1>5. ASSUME NEW r \in VisibleRows(c), Alone(c, v) \/ r \in put[c], r.urn = v, r.source = "scan", r.of = held[c][v]
      PROVE  r \in Gone(c)
  BY <1>0, <1>2, <1>5 DEF Scanned, SeesScans, Gone
<1>6. Alone(c, v)' <=> Alone(c, v)
  BY <1>0, SameAlone
<1>7. Cleared(c, v, found)'
  <2>1. ASSUME Alone(c, v), NEW r \in Foreign(c, v)' PROVE FALSE
    <3>1. r \in rows /\ r \notin cut'[c] /\ r.urn = v /\ r.source = "scan" /\ r.of = held[c][v]
      BY <1>0, <2>1 DEF Foreign, SameSession
    <3>2. r \in VisibleRows(c)
      BY <1>0, <3>1 DEF VisibleRows
    <3>3. r \in Gone(c)
      BY <1>5, <2>1, <3>1, <3>2
    <3> QED
      BY <1>0, <3>1, <3>3
  <2>2. ASSUME NEW r \in put'[c], r.urn = v, r.source = "scan" PROVE FALSE
    <3>1. r \in put[c] /\ r \notin Gone(c) /\ r \in VisibleRows(c)
      BY <1>0 DEF VisibleRows
    <3>2. r.of = held[c][v]
      BY <2>2, <3>1 DEF PutsHeld
    <3> QED
      BY <1>5, <2>2, <3>1, <3>2
  <2> QED
    BY <1>6, <2>1, <2>2 DEF Cleared
<1>8. \A l \in DOMAIN found : \E k \in 1 .. (j - 2) : Tail(todo[c])[k].labels = {l}
  <2> SUFFICES ASSUME NEW l \in DOMAIN found
               PROVE  \E k \in 1 .. (j - 2) : Tail(todo[c])[k].labels = {l}
    OBVIOUS
  <2>1. todo[c] \in Seq(Statement) /\ Cur(c) = todo[c][1] /\ 1 \in DOMAIN todo[c] /\ Blocks(todo[c])
    BY <1>0, <1>1, CurFacts DEF Plan
  <2>2. PICK k \in (1 + 1) .. (j - 1) : todo[c][k].labels = {l}
    <3>1. todo[c][1].op = "remove" /\ Ends(todo[c], 1, j)
      BY <1>0, <1>3, <2>1
    <3>2. \A m \in DOMAIN todo[c][j].found : \E k \in (1 + 1) .. (j - 1) : todo[c][k].labels = {m}
      BY <2>1, <3>1 DEF Blocks
    <3> QED
      BY <3>2
  <2>3. k \in DOMAIN todo[c] /\ k # 1 /\ k - 1 \in 1 .. (j - 2)
    BY <1>3, <2>1, <2>2
  <2>4. todo[c][k] = Tail(todo[c])[k - 1]
    BY <1>0, <2>1, <2>3, TailAt
  <2> QED
    BY <2>2, <2>3, <2>4
<1>9. InBlock(c)'
  <2>1. \A l \in DOMAIN found : (\E k \in 1 .. (j - 2) : Tail(todo[c])[k].labels = {l}) \/ Bears(c, v, l)'
    BY <1>8
  <2>2. v = todo[c][j].urn
    BY <1>3
  <2> QED
    BY <1>0, <1>1, <1>3, <1>7, <2>1, <2>2, InBlockTail
<1>10. ASSUME NEW s \in scans[c], ~Touches(todo'[c], s.urn)
       PROVE  ~Touches(todo[c], s.urn) /\ Calm(c, s.urn)
  <2>1. Touches(todo[c], v)
    BY <1>0, <1>1, ScanningTouches
  <2>2. \A u : Touches(todo[c], u) => Touches(todo'[c], u)
    BY <1>0, <1>1, TouchesRest
  <2>3. ~Touches(todo[c], s.urn) /\ s.urn # v
    BY <1>10, <2>1, <2>2
  <2>4. SameScanRows(c, s.urn)
    BY <1>0, <1>4, <2>3 DEF SameScanRows, ScanRow
  <2> QED
    BY <1>0, <2>3, <2>4 DEF Calm, SameAnswer, SameSession
<1>11. AfterBlock(c)'
  BY <1>0, <1>10, CalmAfter DEF Scanned, SameSession
<1>12. SeesScans(c)'
  BY <1>0, NoneSeen DEF Advanced
<1> QED
  BY <1>9, <1>11, <1>12 DEF Scanned

(* A row of a scan is written, or left.                                    *)
LEMMA PutScanned ==
  ASSUME TypeOK, NEW c \in Calls, Plan(c), Scanned(c), Own(c), Going(c, {"put"}), ScanPut(Cur(c)), Advanced(c),
         job[c].kind # "unlabel", SameSession(c), cut[c] \subseteq cut'[c], left[c] \subseteq left'[c],
         \A u : u # Cur(c).urn => SameScanRows(c, u),
         NEW l0 \in Labels, Cur(c).labels = {l0},
         NEW v, v = Cur(c).urn,
         \A r \in put'[c] : ScanRow(r, v) => r \in put[c] \/ r.label = l0,
         \A l : Bears(c, v, l) => Bears(c, v, l)', Bears(c, v, l0)'
  PROVE  Scanned(c)'
<1>0. todo[c] # <<>> /\ Cur(c).op = "put" /\ job' = job /\ met' = met /\ rows' = rows
  BY DEF Going, Own, SameTables
<1>1. Scanning(Cur(c)) /\ todo'[c] = Tail(todo[c])
  BY <1>0, RestTail DEF Scanning
<1>2. PICK j \in DOMAIN todo[c] :
           /\ j \in Nat /\ j >= 2 /\ Ends(todo[c], 1, j) /\ todo[c][j].urn = Cur(c).urn
           /\ \E l \in DOMAIN todo[c][j].found : Cur(c).labels = {l}
           /\ \A m \in DOMAIN Tail(todo[c]) : Ends(Tail(todo[c]), 1, m) => m = j - 1
           /\ Tail(todo[c])[j - 1] = todo[c][j]
  BY <1>0, <1>1, BlockOf
<1>. PICK found : found = todo[c][j].found
  OBVIOUS
<1>3. l0 \in DOMAIN found
  <2>1. PICK l \in DOMAIN found : Cur(c).labels = {l}
    BY <1>2
  <2>2. l = l0
    BY <2>1
  <2> QED
    BY <2>1, <2>2
<1>4. /\ Cleared(c, v, found)
      /\ \A l \in DOMAIN found : (\E k \in 1 .. (j - 1) : todo[c][k].labels = {l}) \/ Bears(c, v, l)
  BY <1>0, <1>2 DEF Scanned, InBlock
<1>5. Cleared(c, v, found)'
  <2>1. Alone(c, v)' <=> Alone(c, v)
    BY <1>0, SameAlone
  <2>2. Foreign(c, v)' \subseteq Foreign(c, v)
    BY <1>0 DEF Foreign, SameSession
  <2>3. \A r \in put'[c] : r.urn = v /\ r.source = "scan" => r.label \in DOMAIN found
    BY <1>3, <1>4 DEF Cleared, ScanRow
  <2> QED
    BY <1>4, <2>1, <2>2, <2>3 DEF Cleared
<1>6. ASSUME NEW l \in DOMAIN found
      PROVE  (\E k \in 1 .. (j - 2) : Tail(todo[c])[k].labels = {l}) \/ Bears(c, v, l)'
  <2>1. CASE Bears(c, v, l)
    BY <2>1
  <2>2. CASE \E k \in 1 .. (j - 1) : todo[c][k].labels = {l}
    <3>1. PICK k \in 1 .. (j - 1) : todo[c][k].labels = {l}
      BY <2>2
    <3>2. todo[c] \in Seq(Statement) /\ Cur(c) = todo[c][1] /\ 1 \in DOMAIN todo[c]
      BY <1>0, CurFacts
    <3>3. CASE k = 1
      <4>1. {l} = {l0}
        BY <3>1, <3>2, <3>3
      <4>2. l = l0
        BY <4>1
      <4> QED
        BY <4>2
    <3>4. CASE k # 1
      <4>0. j \in 1 .. Len(todo[c]) /\ Len(todo[c]) \in Nat /\ DOMAIN todo[c] = 1 .. Len(todo[c])
        BY <1>2, <3>2
      <4>1. k \in DOMAIN todo[c] /\ k - 1 \in 1 .. (j - 2)
        BY <3>4, <4>0
      <4>2. todo[c][k] = Tail(todo[c])[k - 1]
        BY <1>0, <3>2, <3>4, <4>1, TailAt
      <4> QED
        BY <3>1, <4>1, <4>2
    <3> QED
      BY <3>3, <3>4
  <2> QED
    BY <1>4, <2>1, <2>2
<1>7. InBlock(c)'
  BY <1>0, <1>1, <1>2, <1>5, <1>6, InBlockTail
<1>8. ASSUME NEW s \in scans[c], ~Touches(todo'[c], s.urn)
      PROVE  ~Touches(todo[c], s.urn) /\ Calm(c, s.urn)
  <2>1. Touches(todo[c], v)
    BY <1>0, <1>1, ScanningTouches
  <2>2. \A u : Touches(todo[c], u) => Touches(todo'[c], u)
    BY <1>0, <1>1, TouchesRest
  <2>3. ~Touches(todo[c], s.urn) /\ s.urn # v
    BY <1>8, <2>1, <2>2
  <2> QED
    BY <1>0, <2>3 DEF Calm, SameSession
<1>9. AfterBlock(c)'
  BY <1>0, <1>8, CalmAfter DEF Scanned, SameSession
<1>10. SeesScans(c)'
  BY NoneSeen DEF Advanced
<1> QED
  BY <1>7, <1>9, <1>10 DEF Scanned

(* A job that is no scan.                                                  *)
LEMMA NoScanner ==
  ASSUME NEW c \in Calls, Plan(c)', Accounted(c)', job'[c].kind \in {"label", "unlabel", "drop", "resolve"}
  PROVE  Scanned(c)'
<1>1. c \notin Scanners'
  BY DEF Scanners
<1>2. scans'[c] = {}
  BY <1>1 DEF Accounted, ScanAccounted, ScansOf, Scanners
<1>3. \A i \in DOMAIN todo'[c] : todo'[c][i].op # "touch"
  <2> SUFFICES ASSUME NEW i \in DOMAIN todo'[c] PROVE todo'[c][i].op # "touch"
    OBVIOUS
  <2>1. StmtOk(todo'[c][i], job'[c])
    BY DEF Plan, StmtsOk
  <2>2. todo'[c][i].op \in KindOps(job'[c].kind)
    BY <2>1 DEF StmtOk
  <2>3. CASE job'[c].kind \in {"label", "unlabel"}
    BY <2>2, <2>3 DEF KindOps
  <2>4. CASE job'[c].kind \in {"drop", "resolve"}
    BY <2>2, <2>4 DEF KindOps
  <2> QED
    BY <2>3, <2>4
<1>4. InBlock(c)'
  BY <1>3 DEF InBlock, Ends
<1>5. AfterBlock(c)'
  BY <1>2 DEF AfterBlock
<1>6. SeesScans(c)'
  BY <1>1 DEF SeesScans
<1> QED
  BY <1>4, <1>5, <1>6 DEF Scanned

(* A statement that is no part of a scan.                                  *)
LEMMA FreeScanned ==
  ASSUME TypeOK, NEW c \in Calls, Plan(c), Scanned(c), todo[c] # <<>>, Advanced(c), job[c].kind # "unlabel",
         ~Scanning(Cur(c)), Cur(c).op # "touch", scans'[c] = scans[c], \A s \in scans[c] : Calm(c, s.urn)
  PROVE  Scanned(c)'
<1>1. todo'[c] = Rest(c) /\ seen'[c] = NONE
  BY DEF Advanced
<1>2. NotMid(Rest(c)) /\ Rest(c) \in Seq(Statement)
  BY RestNotMid, RestType
<1>3. InBlock(c)'
  BY <1>1, <1>2, NotMidInBlock
<1>4. \A u : Touches(todo[c], u) => Touches(Rest(c), u)
  BY TouchesRest
<1>5. AfterBlock(c)'
  BY <1>1, <1>4, CalmAfter DEF Scanned
<1>6. SeesScans(c)'
  BY <1>1, NoneSeen
<1> QED
  BY <1>3, <1>5, <1>6 DEF Scanned

(* The rows of a statement selected.                                       *)
LEMMA SelectedRowsScanned ==
  ASSUME TypeOK, NEW c \in Calls, Plan(c), Scanned(c), Own(c), SelectedRows(c), job[c].kind # "unlabel"
  PROVE  Scanned(c)'
<1>. PICK v : v = Cur(c).urn
  OBVIOUS
<1>0. /\ todo[c] # <<>> /\ Cur(c).op \in {"put", "remove"} /\ SameWrites(c) /\ SameAnswer(c) /\ todo'[c] = todo[c]
      /\ scans'[c] = scans[c] /\ held'[c] = held[c] /\ job' = job /\ met' = met /\ rows' = rows
      /\ seen'[c] = {r \in VisibleRows(c) : /\ r.urn = v /\ r.of = held[c][v]
                                            /\ r.label \in Cur(c).labels /\ r.source \in Cur(c).sources}
  BY DEF SelectedRows, Selected, Going, Own, SameTables
<1>1. \A u : Calm(c, u)
  BY <1>0, CalmQuiet DEF SameAnswer
<1>2. AfterBlock(c)'
  BY <1>0, <1>1, CalmAfter DEF Scanned
<1>3. InBlock(c)'
  <2> SUFFICES ASSUME NEW j \in DOMAIN todo[c], Ends(todo[c], 1, j), Cur(c).op # "remove"
               PROVE  /\ Cleared(c, todo[c][j].urn, todo[c][j].found)'
                      /\ \A l \in DOMAIN todo[c][j].found :
                           \/ \E k \in 1..(j - 1) : todo[c][k].labels = {l}
                           \/ Bears(c, todo[c][j].urn, l)'
    BY <1>0 DEF InBlock, Cur
  <2>. PICK u, found : u = todo[c][j].urn /\ found = todo[c][j].found
    OBVIOUS
  <2>1. /\ Cleared(c, u, found)
        /\ \A l \in DOMAIN found : (\E k \in 1..(j - 1) : todo[c][k].labels = {l}) \/ Bears(c, u, l)
    BY DEF Scanned, InBlock
  <2>2. Cleared(c, u, found)' /\ \A l : Bears(c, u, l) => Bears(c, u, l)'
    BY <1>1, <2>1, CalmFacts
  <2>3. u = todo'[c][j].urn /\ found = todo'[c][j].found
    BY <1>0
  <2>4. Cleared(c, todo[c][j].urn, todo[c][j].found)'
    BY <2>2, <2>3 DEF Cleared, Foreign
  <2>5. \A l : Bears(c, u, l)' => Bears(c, todo[c][j].urn, l)'
    BY <2>3 DEF Bears, Kept
  <2> QED
    BY <2>1, <2>2, <2>4, <2>5
<1>4. SeesScans(c)'
  <2>0. Cur(c)' = Cur(c) /\ VisibleRows(c)' = VisibleRows(c) /\ (Alone(c, v)' <=> Alone(c, v))
    BY <1>0, SameAlone DEF Cur, VisibleRows, SameWrites
  <2>1. VisibleRows(c) \subseteq Row
    BY DEF TypeOK, VisibleRows
  <2>2. ASSUME Cur(c).op = "remove", NEW r \in VisibleRows(c), r.urn = v, r.source = "scan", r.of = held[c][v]
        PROVE  \E o \in seen'[c] : Same(r, o)
    <3>1. Cur(c).sources = {"scan"} /\ Cur(c).labels = Labels
      BY <1>0, <2>2, CurOk DEF StmtOk
    <3>2. r.label \in Labels
      BY <2>1, RowFacts
    <3>3. r \in seen'[c]
      BY <1>0, <2>2, <3>1, <3>2
    <3> QED
      BY <3>3 DEF Same
  <2>3. ASSUME ScanPut(Cur(c)), Alone(c, v), NEW r \in seen'[c] PROVE r \in put'[c]
    <3>1. r \in VisibleRows(c) /\ r.urn = v /\ r.source = "scan" /\ r.of = held[c][v]
      BY <1>0, <2>3 DEF ScanPut
    <3>2. PICK j \in DOMAIN todo[c] : Ends(todo[c], 1, j) /\ todo[c][j].urn = Cur(c).urn
      BY <1>0, <2>3, BlockOf DEF Scanning
    <3>3. Cur(c).op # "remove"
      BY <2>3 DEF ScanPut
    <3>4. Foreign(c, v) = {}
      BY <2>3, <3>2, <3>3 DEF Scanned, InBlock, Cleared
    <3>5. r \notin rows \ cut[c]
      BY <3>1, <3>4 DEF Foreign
    <3> QED
      BY <1>0, <3>1, <3>5 DEF VisibleRows, SameWrites
  <2> SUFFICES /\ Cur(c).op = "remove" =>
                    \A r \in VisibleRows(c) :
                      r.urn = v /\ r.source = "scan" /\ r.of = held[c][v] => \E o \in seen'[c] : Same(r, o)
               /\ ScanPut(Cur(c)) /\ Alone(c, v) => seen'[c] \subseteq put'[c]
    <3>1. Cur(c)'.urn = v /\ held'[c] = held[c] /\ (Alone(c, Cur(c).urn)' <=> Alone(c, v))
      BY <1>0, <2>0 DEF Alone, ScansOf, Scanners
    <3> QED
      BY <2>0, <3>1 DEF SeesScans
  <2> QED
    BY <2>2, <2>3
<1> QED
  BY <1>2, <1>3, <1>4 DEF Scanned

(* An asset loaded.                                                        *)
LEMMA SelectedAssetScanned ==
  ASSUME TypeOK, NEW c \in Calls, Plan(c), Accounted(c), Scanned(c), Own(c), SelectedAsset(c)
  PROVE  Scanned(c)'
<1>0. /\ todo[c] # <<>> /\ Cur(c).op \in Looking /\ SameWrites(c) /\ SameAnswer(c) /\ todo'[c] = todo[c]
      /\ scans'[c] = scans[c] /\ job' = job /\ met' = met /\ rows' = rows
      /\ held'[c] = [held[c] EXCEPT ![Cur(c).urn] = Asset(c, Cur(c).urn)]
  BY DEF SelectedAsset, Selected, Going, Own, SameTables
<1>1. todo[c] \in Seq(Statement) /\ Cur(c) = todo[c][1] /\ NotMid(todo[c])
  BY <1>0, CurFacts DEF NotMid, ScanPut, Looking
<1>2. InBlock(c)'
  BY <1>0, <1>1, NotMidInBlock
<1>3. ASSUME NEW s \in scans[c] PROVE Calm(c, s.urn)
  <2>1. s.urn \in Urns /\ held[c] \in [Urns -> Ids]
    BY DEF TypeOK, Scan
  <2>2. held[c][s.urn] = Asset(c, s.urn)
    BY DEF Accounted, ScanAccounted
  <2>3. CASE s.urn = Cur(c).urn
    <3>1. held'[c][s.urn] = held[c][s.urn]
      BY <1>0, <2>1, <2>2, <2>3
    <3> QED
      BY <1>0, <3>1, CalmQuiet DEF SameAnswer
  <2>4. CASE s.urn # Cur(c).urn
    <3>1. held'[c][s.urn] = held[c][s.urn]
      BY <1>0, <2>1, <2>4
    <3> QED
      BY <1>0, <3>1, CalmQuiet DEF SameAnswer
  <2> QED
    BY <2>3, <2>4
<1>4. AfterBlock(c)'
  BY <1>0, <1>3, CalmAfter DEF Scanned
<1>5. SeesScans(c)'
  <2>1. Cur(c)' = Cur(c)
    BY <1>0 DEF Cur
  <2> QED
    BY <1>0, <2>1 DEF SeesScans, ScanPut, Looking
<1> QED
  BY <1>2, <1>4, <1>5 DEF Scanned

(* A sample brings a block to come.                                        *)
LEMMA SampledScanned ==
  ASSUME TypeOK, NEW c \in Calls, Plan(c), Scanned(c), Own(c), Sampled(c)
  PROVE  Scanned(c)'
<1>0. /\ todo[c] # <<>> /\ Cur(c).op = "sample" /\ SameWrites(c) /\ SameAnswer(c) /\ held'[c] = held[c]
      /\ scans'[c] = scans[c] /\ seen'[c] = seen[c] /\ job' = job /\ met' = met /\ rows' = rows
  BY DEF Sampled, Going, Own, SameTables
<1>1. Cur(c).found \in Findings /\ job[c].kind = "discover" /\ Cur(c).urn \in Urns
  BY <1>0, SampledTodo, CurFacts
<1>2. seen'[c] = NONE
  BY <1>0 DEF Plan, SeenOk, Looking
<1>3. \A u : Calm(c, u)
  BY <1>0, CalmQuiet DEF SameAnswer
<1>4. \A u : Touches(todo[c], u) => Touches(todo'[c], u)
  BY SampledTraced
<1>5. AfterBlock(c)'
  BY <1>0, <1>3, <1>4, CalmAfter DEF Scanned
<1> DEFINE b == apply_scan(Cur(c).urn, Cur(c).found)
           tl == Tail(todo[c])
<1>6. NotMid(tl) /\ tl \in Seq(Statement)
  <2>1. ~Scanning(Cur(c)) /\ todo[c] \in Seq(Statement)
    BY <1>0, CurFacts DEF Scanning, ScanPut
  <2> QED
    BY <1>0, <1>1, <2>1, RestNotMid, TailAt
<1>7. b \in Seq(Statement) /\ NotMid(b) /\ b # <<>>
  <2>1. IsScan(b, Cur(c).urn, Cur(c).found)
    BY <1>1, ScanShape
  <2> HIDE DEF b
  <2>2. b # <<>> /\ NotMid(b)
    BY <1>1, <2>1, ScanStmts
  <2> QED
    BY <2>1, <2>2 DEF IsScan
<1>8. todo'[c] = b \o tl \/ todo'[c] = tl
  BY DEF Sampled
<1> HIDE DEF b, tl
<1>9. todo'[c] \in Seq(Statement) /\ NotMid(todo'[c])
  <2>1. CASE todo'[c] = tl
    BY <1>6, <2>1
  <2>2. CASE todo'[c] = b \o tl
    <3>1. b \o tl \in Seq(Statement) /\ b \o tl # <<>> /\ (b \o tl)[1] = b[1]
      BY <1>6, <1>7
    <3> QED
      BY <1>7, <2>2, <3>1 DEF NotMid
  <2> QED
    BY <1>8, <2>1, <2>2
<1>10. InBlock(c)'
  BY <1>9, NotMidInBlock
<1> QED
  BY <1>2, <1>5, <1>10, NoneSeen DEF Scanned

(* A touch ends the block.                                                 *)
LEMMA TouchedScanned ==
  ASSUME TypeOK, NEW c \in Calls, Plan(c), Scanned(c), Own(c), Touched(c)
  PROVE  Scanned(c)'
<1>. PICK v, m : v = Cur(c).urn /\ m = Made(c)
  OBVIOUS
<1>0. /\ todo[c] # <<>> /\ Cur(c).op = "touch" /\ Advanced(c) /\ SameWrites(c) /\ SameAnswer(c)
      /\ held'[c] = held[c] /\ scans'[c] = {s \in scans[c] : s.urn # v} \union {m}
      /\ job' = job /\ met' = met /\ rows' = rows
  BY DEF Touched, Going, Own, SameTables
<1>1. job[c].kind \in {"scan", "discover"} /\ ~Scanning(Cur(c)) /\ todo'[c] = Tail(todo[c])
  BY <1>0, CurOk, OpKinds, RestTail DEF Scanning, ScanPut
<1>2. NotMid(todo'[c]) /\ todo'[c] \in Seq(Statement)
  BY <1>0, <1>1, RestNotMid, CurFacts, TailAt
<1>3. \A u : Calm(c, u)
  BY <1>0, CalmQuiet DEF SameAnswer
<1>4. m.urn = v /\ m.found = Cur(c).found
  BY DEF Made
<1>5. Cleared(c, v, m.found) /\ \A l \in DOMAIN m.found : Bears(c, v, l)
  <2>1. 1 \in DOMAIN todo[c] /\ Cur(c) = todo[c][1]
    BY <1>0, CurFacts
  <2>2. Ends(todo[c], 1, 1)
    <3>1. 1 .. (1 - 1) = {}
      OBVIOUS
    <3> QED
      BY <1>0, <2>1, <3>1 DEF Ends
  <2>3. /\ Cleared(c, todo[c][1].urn, todo[c][1].found)
        /\ \A l \in DOMAIN todo[c][1].found :
             \/ \E k \in 1 .. (1 - 1) : todo[c][k].labels = {l}
             \/ Bears(c, todo[c][1].urn, l)
    BY <1>0, <2>1, <2>2 DEF Scanned, InBlock
  <2>4. 1 .. (1 - 1) = {}
    OBVIOUS
  <2> QED
    BY <1>4, <2>1, <2>3, <2>4
<1>6. ASSUME NEW s \in scans'[c], ~Touches(todo'[c], s.urn)
      PROVE  Cleared(c, s.urn, s.found)' /\ \A l \in DOMAIN s.found : Bears(c, s.urn, l)'
  <2>1. CASE s = m
    BY <1>3, <1>4, <1>5, <2>1, CalmFacts
  <2>2. CASE s # m
    <3>1. s \in scans[c] /\ s.urn # v
      BY <1>0, <2>2
    <3>2. ~Touches(todo[c], s.urn)
      BY <1>0, <1>1, <1>6, <3>1, TouchesRest
    <3>3. Cleared(c, s.urn, s.found) /\ \A l \in DOMAIN s.found : Bears(c, s.urn, l)
      BY <3>1, <3>2 DEF Scanned, AfterBlock
    <3> QED
      BY <1>3, <3>3, CalmFacts
  <2> QED
    BY <2>1, <2>2
<1>7. AfterBlock(c)'
  BY <1>6 DEF AfterBlock
<1>8. InBlock(c)'
  BY <1>2, NotMidInBlock
<1> QED
  BY <1>0, <1>7, <1>8, NoneSeen DEF Scanned, Advanced

(* A label put.                                                            *)
LEMMA WroteScanned ==
  ASSUME TypeOK, NEW c \in Calls, Plan(c), Scanned(c), Own(c), WroteRow(c), job[c].kind # "unlabel"
  PROVE  Scanned(c)'
<1>. PICK v, row, old : v = Cur(c).urn /\ row = NewRow(c) /\ old = Old(c, NewRow(c))
  OBVIOUS
<1>0. /\ Going(c, {"put"}) /\ todo[c] # <<>> /\ Cur(c).op = "put" /\ seen[c] # NONE /\ Advanced(c)
      /\ put'[c] = (put[c] \ old) \union {row} /\ cut[c] \subseteq cut'[c] /\ SameSession(c) /\ SameAnswer(c)
      /\ job' = job /\ met' = met /\ rows' = rows
  BY DEF WroteRow, Going, Own, SameTables
<1>1. PICK l0 \in Labels, x \in DOMAIN Precedence :
        /\ Cur(c).labels = {l0} /\ row.urn = v /\ row.label = l0 /\ row.source = x
        /\ x = "scan" <=> ScanPut(Cur(c))
  BY <1>0, NewRowFacts
<1>2. \A r \in old : Key(r) = Key(row) /\ r.urn = v /\ r.label = l0 /\ r.source = x
  BY <1>1, KeyFacts DEF Old
<1>3. CASE ~ScanPut(Cur(c))
  <2>1. \A u : SameScanRows(c, u)
    BY <1>0, <1>1, <1>2, <1>3 DEF SameScanRows, ScanRow
  <2>2. \A u : Calm(c, u)
    BY <1>0, <2>1 DEF Calm, SameAnswer, SameSession
  <2>3. ~Scanning(Cur(c))
    BY <1>0, <1>3 DEF Scanning
  <2> QED
    BY <1>0, <2>2, <2>3, FreeScanned DEF SameSession
<1>4. CASE ScanPut(Cur(c))
  <2>1. \A u : u # Cur(c).urn => SameScanRows(c, u)
    BY <1>0, <1>1, <1>2 DEF SameScanRows, ScanRow
  <2>2. \A r \in put'[c] : ScanRow(r, v) => r \in put[c] \/ r.label = l0
    BY <1>0, <1>1
  <2>3. Alone(c, v)' <=> Alone(c, v)
    BY <1>0, SameAlone
  <2>4. row \in Kept(c, v)' /\ Shows(row, v, l0, "scan")
    BY <1>0, <1>1, <1>4 DEF Kept, Shows
  <2>5. Bears(c, v, l0)'
    BY <2>4 DEF Bears, Shows
  <2>6. ASSUME NEW l, Bears(c, v, l) PROVE Bears(c, v, l)'
    <3>1. PICK r \in Kept(c, v) : Shows(r, v, l, "scan")
      BY <2>6 DEF Bears
    <3>2. CASE r \in old
      <4>1. l = l0
        BY <1>2, <3>1, <3>2 DEF Shows
      <4> QED
        BY <2>5, <4>1
    <3>3. CASE r \notin old
      <4>1. r \in Kept(c, v)'
        BY <1>0, <2>3, <3>1, <3>3 DEF Kept, SameAnswer
      <4> QED
        BY <3>1, <4>1 DEF Bears, Shows
    <3> QED
      BY <3>2, <3>3
  <2>7. left[c] \subseteq left'[c]
    BY <1>0 DEF SameAnswer
  <2> QED
    BY <1>0, <1>1, <1>4, <2>1, <2>2, <2>5, <2>6, <2>7, PutScanned
<1> QED
  BY <1>3, <1>4

(* A label found there.                                                    *)
LEMMA LeftScanned ==
  ASSUME TypeOK, NEW c \in Calls, Plan(c), Scanned(c), Own(c), LeftRow(c), job[c].kind # "unlabel"
  PROVE  Scanned(c)'
<1>. PICK v, row : v = Cur(c).urn /\ row = NewRow(c)
  OBVIOUS
<1>0. /\ Going(c, {"put"}) /\ todo[c] # <<>> /\ Cur(c).op = "put" /\ seen[c] # NONE /\ Advanced(c)
      /\ SameWrites(c) /\ SameSession(c) /\ row \in seen[c] /\ left'[c] = left[c] \union {row}
      /\ job' = job /\ met' = met /\ rows' = rows
  BY DEF LeftRow, Going, Own, SameTables
<1>1. PICK l0 \in Labels, x \in DOMAIN Precedence :
        /\ Cur(c).labels = {l0} /\ row.urn = v /\ row.label = l0 /\ row.source = x
        /\ x = "scan" <=> ScanPut(Cur(c))
  BY <1>0, NewRowFacts
<1>2. \A u : Calm(c, u)
  BY <1>0, CalmQuiet DEF SameSession
<1>3. CASE ~ScanPut(Cur(c))
  <2>1. ~Scanning(Cur(c))
    BY <1>0, <1>3 DEF Scanning
  <2> QED
    BY <1>0, <1>2, <2>1, FreeScanned DEF SameSession
<1>4. CASE ScanPut(Cur(c))
  <2>1. c \in Scanners
    <3>1. job[c].kind \in {"label", "scan", "discover"} /\ StmtOk(Cur(c), job[c])
      BY <1>0, CurOk, OpKinds
    <3>2. job[c].kind # "label"
      <4>1. PICK y \in DOMAIN Precedence : Cur(c).sources = {y} /\ (y = "manual" <=> job[c].kind = "label")
        BY <1>0, <3>1 DEF StmtOk, PutOk
      <4>2. y = "scan"
        BY <1>4, <4>1 DEF ScanPut
      <4> QED
        BY <4>1, <4>2
    <3> QED
      BY <3>1, <3>2 DEF Scanners
  <2>2. Alone(c, v)' <=> Alone(c, v)
    BY <1>0, SameAlone
  <2>3. row \in Kept(c, v)'
    <3>1. CASE Alone(c, v)
      <4>1. seen[c] \subseteq put[c]
        BY <1>0, <1>4, <2>1, <3>1 DEF Scanned, SeesScans
      <4> QED
        BY <1>0, <2>2, <3>1, <4>1 DEF Kept, SameWrites
    <3>2. CASE ~Alone(c, v)
      BY <1>0, <2>2, <3>2 DEF Kept
    <3> QED
      BY <3>1, <3>2
  <2>4. Bears(c, v, l0)'
    BY <1>1, <1>4, <2>3 DEF Bears, Shows
  <2>5. \A l : Bears(c, v, l) => Bears(c, v, l)'
    BY <1>2, CalmFacts
  <2>6. /\ \A u : u # Cur(c).urn => SameScanRows(c, u)
        /\ \A r \in put'[c] : ScanRow(r, v) => r \in put[c] \/ r.label = l0
        /\ cut[c] \subseteq cut'[c] /\ left[c] \subseteq left'[c]
    BY <1>0 DEF SameScanRows, SameWrites
  <2> QED
    BY <1>0, <1>1, <1>4, <2>4, <2>5, <2>6, PutScanned
<1> QED
  BY <1>3, <1>4

(* An asset inserted.                                                      *)
LEMMA InsertedScanned ==
  ASSUME TypeOK, NEW c \in Calls, Plan(c), Pending(c), Accounted(c), Scanned(c), Own(c), Inserted(c),
         job[c].kind \in {"scan", "discover"}
  PROVE  Scanned(c)'
<1>0. /\ todo[c] # <<>> /\ Cur(c).op \in Looking /\ seen[c] # NONE /\ seen[c] = {} /\ Advanced(c)
      /\ SameWrites(c) /\ SameAnswer(c) /\ scans'[c] = scans[c] /\ held'[c] = [held[c] EXCEPT ![Cur(c).urn] = c]
      /\ job' = job /\ met' = met /\ rows' = rows
  BY DEF Inserted, Going, Looking, Own, SameTables
<1>1. held[c][Cur(c).urn] = NONE
  BY <1>0 DEF Plan, SeenOk
<1>2. ASSUME NEW s \in scans[c] PROVE Calm(c, s.urn)
  <2>1. s.urn \in added[c] \union touched[c] /\ held[c][s.urn] = Asset(c, s.urn)
    BY DEF Accounted, ScanAccounted
  <2>2. dropped[c] = {} /\ c # NONE
    BY CatalogAssumption DEF Pending
  <2>3. Asset(c, s.urn) # NONE
    BY <2>1, <2>2 DEF Pending, Asset
  <2>4. s.urn # Cur(c).urn /\ s.urn \in Urns /\ held[c] \in [Urns -> Ids]
    BY <1>1, <2>1, <2>3 DEF TypeOK, Scan
  <2>5. held'[c][s.urn] = held[c][s.urn]
    BY <1>0, <2>4
  <2> QED
    BY <1>0, <2>5, CalmQuiet DEF SameAnswer
<1>3. ~Scanning(Cur(c)) /\ Cur(c).op # "touch"
  BY <1>0 DEF Looking, Scanning, ScanPut
<1> QED
  BY <1>0, <1>2, <1>3, FreeScanned

(* Every step of a call keeps what its scan has done.                      *)
LEMMA OwnScanned ==
  ASSUME TypeOK, NEW c \in Calls, Plan(c), Pending(c), Accounted(c), Scanned(c), PutsHeld(c), Own(c), OwnStep(c),
         Plan(c)', Accounted(c)'
  PROVE  Scanned(c)'
<1>0. job' = job /\ job[c].kind \in {"label", "unlabel", "drop", "scan", "discover", "resolve"}
  BY DEF Own, TypeOK, Request
<1>1. CASE job[c].kind \in {"label", "unlabel", "drop", "resolve"}
  BY <1>0, <1>1, NoScanner
<1>2. CASE job[c].kind \in {"scan", "discover"}
  <2>0. job[c].kind # "unlabel"
    BY <1>2
  <2>1. CASE Aborted(c)
    <3>1. todo'[c] = <<>> /\ scans'[c] = {} /\ seen'[c] = NONE
      BY <2>1 DEF Aborted, Shut
    <3> QED
      BY <3>1, NoneSeen DEF Scanned, InBlock, AfterBlock
  <2>2. CASE SelectedRows(c)
    BY <2>0, <2>2, SelectedRowsScanned
  <2>3. CASE SelectedAsset(c)
    BY <2>3, SelectedAssetScanned
  <2>4. CASE Used(c)
    <3>1. /\ todo[c] # <<>> /\ Cur(c).op \in Looking /\ Advanced(c) /\ SameWrites(c) /\ SameSession(c)
          /\ SameAnswer(c) /\ job' = job /\ met' = met /\ rows' = rows
      BY <2>4 DEF Used, Going, Own, SameTables
    <3>2. \A s \in scans[c] : Calm(c, s.urn)
      BY <3>1, CalmQuiet DEF SameSession, SameAnswer
    <3>3. ~Scanning(Cur(c)) /\ Cur(c).op # "touch"
      BY <3>1 DEF Looking, Scanning, ScanPut
    <3> QED
      BY <2>0, <3>1, <3>2, <3>3, FreeScanned DEF SameSession
  <2>5. CASE Inserted(c)
    BY <1>2, <2>5, InsertedScanned
  <2>6. CASE WroteRow(c)
    BY <2>0, <2>6, WroteScanned
  <2>7. CASE LeftRow(c)
    BY <2>0, <2>7, LeftScanned
  <2>8. CASE Removed(c)
    BY <2>0, <2>8, RemovedScanned
  <2>9. CASE Touched(c)
    BY <2>9, TouchedScanned
  <2>10. CASE Sampled(c)
    BY <2>10, SampledScanned
  <2>11. CASE Dropped(c) \/ ReadTheAssets(c) \/ ReadTheLabels(c)
    <3>1. todo[c] # <<>> /\ Cur(c).op \in {"drop", "exact", "patterns", "labels"}
      BY <2>11 DEF Dropped, ReadTheAssets, ReadTheLabels, Going
    <3> QED
      BY <1>2, <3>1, CurOk, OpKinds
  <2> QED
    BY <2>1, <2>2, <2>3, <2>4, <2>5, <2>6, <2>7, <2>8, <2>9, <2>10, <2>11 DEF OwnStep
<1> QED
  BY <1>0, <1>1, <1>2

(* No step before the commit disturbs a committed scan.                    *)
LEMMA OwnLastScan ==
  ASSUME TypeOK, LastScanOk, NEW c \in Calls, Own(c), OwnStep(c)
  PROVE  LastScanOk'
<1>0. lastScan' = lastScan /\ rows' = rows /\ met' = met /\ job' = job
  BY DEF Own, SameTables
<1>1. pc[c] = "run" /\ left[c] \subseteq left'[c]
  BY DEF OwnStep, Aborted, Shut, SelectedRows, SelectedAsset, Selected, Used, Inserted, WroteRow, LeftRow, Removed,
     Touched, Dropped, Sampled, ReadTheAssets, ReadTheLabels, ReadOn, Advanced, Going, SameAnswer
<1>2. \A u \in Urns : \A s \in lastScan[u] : s.by \in Calls
  <2>1. \A u \in Urns : lastScan[u] \subseteq [found : Findings \union {<<>>}, by : Calls]
    BY DEF TypeOK
  <2> QED
    BY <2>1
<1>3. \A d \in Calls : pc[d] = "done" => pc'[d] = "done"
  BY <1>1 DEF Own, SameCall, SamePlace
<1>4. \A d \in Calls : left[d] \subseteq left'[d]
  BY <1>1 DEF Own, SameCall, SameAnswer
<1>5. (\A u \in Urns : \A s, o \in lastScan[u] : o = s)' /\ (\A u \in Urns : \A s \in lastScan[u] : pc[s.by] = "done")'
  BY <1>0, <1>2, <1>3 DEF LastScanOk
<1>6. LastLabelsStand'
  <2> SUFFICES ASSUME NEW u \in Urns, NEW s \in lastScan[u], NEW l \in DOMAIN s.found
               PROVE  \E r \in rows \union left'[s.by] : Shows(r, u, l, "scan")
    BY <1>0 DEF LastLabelsStand, Shows
  <2>1. PICK r \in rows \union left[s.by] : Shows(r, u, l, "scan")
    BY DEF LastScanOk, LastLabelsStand
  <2>2. s.by \in Calls
    BY <1>2
  <2> QED
    BY <1>4, <2>1, <2>2
<1>7. StaleLabelsGo'
  BY <1>0 DEF LastScanOk, StaleLabelsGo, ScanLabels, ScansOf, Scanners
<1> QED
  BY <1>5, <1>6, <1>7 DEF LastScanOk

----------------------------------------------------------------------------
(* Whole and Complete: runs and resolutions.                               *)

(* What is not done first is still to be done.                             *)
LEMMA RestKeeps ==
  ASSUME TypeOK, NEW c \in Calls, Plan(c), todo[c] # <<>>, NEW k \in DOMAIN todo[c], k # 1
  PROVE  /\ \E m \in DOMAIN Rest(c) : Rest(c)[m] = todo[c][k]
         /\ \E m \in DOMAIN Tail(todo[c]) : Tail(todo[c])[m] = todo[c][k]
<1> DEFINE t == todo[c]
           tl == Tail(t)
<1>1. t \in Seq(Statement) /\ Cur(c) = t[1]
  BY CurFacts
<1>2. tl \in Seq(Statement) /\ k - 1 \in DOMAIN tl /\ t[k] = tl[k - 1]
  BY <1>1, TailAt
<1>3. CASE Cur(c).op # "upsert"
  BY <1>2, <1>3 DEF Rest
<1>4. CASE Cur(c).op = "upsert"
  <2> DEFINE a == _absorb(Cur(c))
  <2>. PICK n : n = k - 1
    OBVIOUS
  <2>1. Rest(c) = a \o tl
    BY <1>4 DEF Rest
  <2>2. a \in Seq(Statement)
    <3>1. Cur(c).found \in Findings /\ job[c].kind = "discover"
      BY <1>4, CurOk, OpKinds DEF StmtOk
    <3> QED
      BY <1>1, <3>1, CurFacts, AbsorbFacts
  <2>3. tl \in Seq(Statement) /\ n \in DOMAIN tl /\ tl[n] = t[k]
    BY <1>2
  <2> HIDE DEF a, tl, t
  <2>4. Len(a) + n \in DOMAIN (a \o tl) /\ (a \o tl)[Len(a) + n] = tl[n]
    <3>1. /\ DOMAIN tl = 1 .. Len(tl) /\ Len(tl) \in Nat /\ Len(a) \in Nat
          /\ DOMAIN (a \o tl) = 1 .. (Len(a) + Len(tl))
          /\ \A i \in 1 .. Len(tl) : (a \o tl)[Len(a) + i] = tl[i]
      BY <2>2, <2>3, ConcatAt
    <3> QED
      BY <2>3, <3>1
  <2>5. (\E m \in DOMAIN Rest(c) : Rest(c)[m] = t[k]) /\ (\E m \in DOMAIN tl : tl[m] = t[k])
    BY <2>1, <2>3, <2>4
  <2> QED
    BY <2>5 DEF t, tl
<1> QED
  BY <1>2, <1>3, <1>4

(* What the source asserts of an asset follows its upsert.                 *)
LEMMA AbsorbImports ==
  ASSUME NEW s \in Statement, s.found \in Findings
  PROVE  /\ _absorb(s) \in Seq(Statement)
         /\ \A l \in s.labels : \E i \in DOMAIN _absorb(s) : Imports(_absorb(s)[i], s.urn, l)
         /\ s.scan => \E i \in DOMAIN _absorb(s) : _absorb(s)[i].op = "sample" /\ _absorb(s)[i].urn = s.urn
<1>. PICK j : j = [kind |-> "discover"]
  OBVIOUS
<1>1. j.kind = "discover"
  OBVIOUS
<1>2. _absorb(s) \in Seq(Statement)
  BY <1>1, AbsorbFacts
<1>3. \A l \in s.labels : \E i \in DOMAIN _absorb(s) :
              /\ _absorb(s)[i].op = "put" /\ _absorb(s)[i].urn = s.urn
              /\ _absorb(s)[i].labels = {l} /\ _absorb(s)[i].sources = {"imported"}
  BY <1>1, AbsorbFacts
<1>4. s.scan => \E i \in DOMAIN _absorb(s) : _absorb(s)[i].op = "sample" /\ _absorb(s)[i].urn = s.urn
  BY <1>1, AbsorbFacts
<1> QED
  BY <1>2, <1>3, <1>4 DEF Imports

(* What an upsert leads to.                                                *)
LEMMA AbsorbedNext ==
  ASSUME TypeOK, NEW c \in Calls, Plan(c), todo[c] # <<>>, job[c].kind = "discover", Advanced(c),
         NEW a \in Listing, Cur(c) = upsert_asset(a)
  PROVE  Absorbed(c, a)'
<1>1. /\ Cur(c).op = "upsert" /\ Cur(c).urn = a.urn /\ Cur(c).labels = a.imported /\ Cur(c).scan = a.scan
      /\ Cur(c).found \in Findings /\ Cur(c) \in Statement /\ todo[c] \in Seq(Statement)
  BY UpsertFacts, CurFacts
<1> DEFINE b == _absorb(Cur(c))
           tl == Tail(todo[c])
<1>2. /\ b \in Seq(Statement)
      /\ \A l \in a.imported : \E i \in DOMAIN b : Imports(b[i], a.urn, l)
      /\ a.scan => \E i \in DOMAIN b : b[i].op = "sample" /\ b[i].urn = a.urn
  BY <1>1, AbsorbImports
<1>3. tl \in Seq(Statement)
  BY <1>1, TailAt
<1>4. todo'[c] = b \o tl
  BY <1>1 DEF Advanced, Rest
<1> HIDE DEF b, tl
<1>5. \A i \in DOMAIN b : i \in DOMAIN todo'[c] /\ todo'[c][i] = b[i]
  <2>1. /\ DOMAIN b = 1 .. Len(b) /\ Len(b) \in Nat /\ Len(tl) \in Nat
        /\ DOMAIN (b \o tl) = 1 .. (Len(b) + Len(tl)) /\ \A i \in 1 .. Len(b) : (b \o tl)[i] = b[i]
    BY <1>2, <1>3, ConcatAt
  <2> QED
    BY <1>4, <2>1
<1>6. \A l \in a.imported : Asserted(c, a.urn, l)'
  <2> SUFFICES ASSUME NEW l \in a.imported PROVE Asserted(c, a.urn, l)'
    OBVIOUS
  <2>1. PICK i \in DOMAIN b : Imports(b[i], a.urn, l)
    BY <1>2
  <2>2. i \in DOMAIN todo'[c] /\ todo'[c][i] = b[i]
    BY <1>5
  <2> QED
    BY <2>1, <2>2 DEF Asserted, Imports
<1>7. a.scan => ScanDue(c, a.urn)'
  BY <1>2, <1>5 DEF ScanDue, Sampling
<1> QED
  BY <1>6, <1>7 DEF Absorbed

(* A statement stays on the list until it is the first and is run.         *)
LEMMA StmtStays ==
  ASSUME TypeOK, NEW c \in Calls, Plan(c), OwnStep(c), pc'[c] = "run", NEW k \in DOMAIN todo[c],
         k # 1 \/ todo'[c] = todo[c]
  PROVE  \E m \in DOMAIN todo'[c] : todo'[c][m] = todo[c][k]
<1>1. CASE todo'[c] = todo[c]
  BY <1>1
<1>2. CASE k # 1 /\ todo'[c] # todo[c]
  <2>1. todo[c] \in Seq(Statement)
    BY DEF TypeOK
  <2>2. todo[c] # <<>>
    BY <2>1
  <2>3. todo'[c] = Rest(c) \/ Sampled(c)
    BY <1>2 DEF OwnStep, Aborted, SelectedRows, SelectedAsset, Selected, Used, Inserted, WroteRow, LeftRow, Removed,
       Touched, Dropped, ReadTheAssets, ReadTheLabels, ReadOn, Advanced
  <2>4. CASE todo'[c] = Rest(c)
    BY <1>2, <2>2, <2>4, RestKeeps
  <2>5. CASE Sampled(c)
    <3> DEFINE tl == Tail(todo[c])
               b == apply_scan(Cur(c).urn, Cur(c).found)
    <3>1. PICK m \in DOMAIN tl : tl[m] = todo[c][k]
      BY <1>2, <2>2, RestKeeps
    <3>2. todo'[c] = b \o tl \/ todo'[c] = tl
      BY <2>5 DEF Sampled
    <3>3. tl \in Seq(Statement) /\ b \in Seq(Statement)
      BY <2>1, <2>2, <2>5, SampledTodo, CurFacts, ScanShape, TailAt DEF IsScan
    <3> HIDE DEF tl, b
    <3>4. Len(b) + m \in DOMAIN (b \o tl) /\ (b \o tl)[Len(b) + m] = tl[m]
      <4>1. /\ DOMAIN tl = 1 .. Len(tl) /\ Len(tl) \in Nat /\ Len(b) \in Nat
            /\ DOMAIN (b \o tl) = 1 .. (Len(b) + Len(tl))
            /\ \A n \in 1 .. Len(tl) : (b \o tl)[Len(b) + n] = tl[n]
        BY <3>3, ConcatAt
      <4> QED
        BY <3>1, <4>1
    <3> QED
      BY <3>1, <3>2, <3>4
  <2> QED
    BY <2>3, <2>4, <2>5
<1> QED
  BY <1>1, <1>2

(* A row the source asserts, while a discovery goes on.                    *)
LEMMA AssertedOn ==
  ASSUME TypeOK, NEW c \in Calls, Plan(c), job[c].kind = "discover", OwnStep(c), pc'[c] = "run",
         NEW u, NEW l, Asserted(c, u, l)
  PROVE  Asserted(c, u, l)'
<1>1. CASE \E r \in put[c] \union left[c] : Shows(r, u, l, "imported")
  <2>1. PICK r \in put[c] \union left[c] : Shows(r, u, l, "imported")
    BY <1>1
  <2>2. left[c] \subseteq left'[c]
    BY DEF OwnStep, Aborted, Shut, SelectedRows, SelectedAsset, Selected, Used, Inserted, WroteRow, LeftRow, Removed,
       Touched, Dropped, Sampled, ReadTheAssets, ReadTheLabels, ReadOn, SameAnswer
  <2>3. CASE WroteRow(c)
    <3>1. put'[c] = (put[c] \ Old(c, NewRow(c))) \union {NewRow(c)}
      BY <2>3 DEF WroteRow
    <3>2. \A o \in Old(c, NewRow(c)) : Key(o) = Key(NewRow(c))
      BY DEF Old
    <3>3. r \in Old(c, NewRow(c)) => Shows(NewRow(c), u, l, "imported")
      BY <2>1, <3>2, KeyFacts DEF Shows
    <3> QED
      BY <2>1, <2>2, <3>1, <3>3 DEF Asserted, Shows
  <2>4. CASE Removed(c)
    <3>1. todo[c] # <<>> /\ Cur(c).op = "remove" /\ seen[c] # NONE /\ put'[c] = put[c] \ Gone(c)
      BY <2>4 DEF Removed, Going
    <3>2. Cur(c).sources = {"scan"}
      BY <3>1, CurOk DEF StmtOk
    <3>3. r \notin Gone(c)
      <4>1. r.source = "imported"
        BY <2>1 DEF Shows
      <4>2. r \in Gone(c) => r.source \in Cur(c).sources
        BY <3>1, SeenRows DEF Gone
      <4> QED
        BY <3>2, <4>1, <4>2
    <3> QED
      BY <2>1, <2>2, <3>1, <3>3 DEF Asserted, Shows
  <2>5. CASE ~WroteRow(c) /\ ~Removed(c)
    <3>1. put'[c] = put[c]
      BY <2>5 DEF OwnStep, Aborted, SelectedRows, SelectedAsset, Selected, Used, Inserted, LeftRow,
         Touched, Dropped, Sampled, ReadTheAssets, ReadTheLabels, ReadOn, SameWrites
    <3> QED
      BY <2>1, <2>2, <3>1 DEF Asserted, Shows
  <2> QED
    BY <2>3, <2>4, <2>5
<1>2. CASE \E k \in DOMAIN todo[c] : Imports(todo[c][k], u, l)
  <2>1. PICK k \in DOMAIN todo[c] : Imports(todo[c][k], u, l)
    BY <1>2
  <2>2. todo[c] # <<>> /\ todo[c] \in Seq(Statement)
    BY <2>1 DEF TypeOK
  <2>3. Cur(c) = todo[c][1]
    BY <2>2, CurFacts
  <2>4. CASE k # 1 \/ todo'[c] = todo[c]
    <3>1. PICK m \in DOMAIN todo'[c] : todo'[c][m] = todo[c][k]
      BY <2>4, StmtStays
    <3> QED
      BY <2>1, <3>1 DEF Asserted, Imports
  <2>6. CASE k = 1 /\ todo'[c] # todo[c]
    <3>1. /\ Cur(c).op = "put" /\ Cur(c).urn = u /\ Cur(c).labels = {l} /\ Cur(c).sources = {"imported"}
      BY <2>1, <2>3, <2>6 DEF Imports
    <3>2. WroteRow(c) \/ LeftRow(c)
      BY <2>6, <3>1 DEF OwnStep, Aborted, SelectedRows, SelectedAsset, Selected, Used, Inserted, Removed,
         Touched, Dropped, Sampled, ReadTheAssets, ReadTheLabels, Going, Looking
    <3>3. Going(c, {"put"}) /\ seen[c] # NONE
      BY <3>2 DEF WroteRow, LeftRow
    <3>4. PICK m \in Labels, x \in DOMAIN Precedence :
            /\ Cur(c).labels = {m} /\ Cur(c).sources = {x}
            /\ NewRow(c).urn = Cur(c).urn /\ NewRow(c).label = m /\ NewRow(c).source = x
      BY <3>3, NewRowFacts
    <3>5. m = l /\ x = "imported"
      <4>1. {m} = {l} /\ {x} = {"imported"}
        BY <3>1, <3>4
      <4> QED
        BY <4>1
    <3>6. Shows(NewRow(c), u, l, "imported")
      BY <3>1, <3>4, <3>5 DEF Shows
    <3>7. NewRow(c) \in put'[c] \union left'[c]
      BY <3>2 DEF WroteRow, LeftRow
    <3> QED
      BY <3>6, <3>7 DEF Asserted, Shows
  <2> QED
    BY <2>4, <2>6
<1> QED
  BY <1>1, <1>2 DEF Asserted

(* What a scan is to do, while a discovery goes on.                        *)
LEMMA ScanDueOn ==
  ASSUME TypeOK, NEW c \in Calls, Plan(c), OwnStep(c), pc'[c] = "run", NEW u, ScanDue(c, u)
  PROVE  ScanDue(c, u)'
<1>0. ~Aborted(c)
  BY DEF Aborted
<1>1. CASE u \in errors[c]
  <2>1. errors[c] \subseteq errors'[c]
    BY <1>0 DEF OwnStep, SelectedRows, SelectedAsset, Selected, Used, Inserted, WroteRow, LeftRow, Removed,
       Touched, Dropped, Sampled, ReadTheAssets, ReadTheLabels, ReadOn, SameSession
  <2> QED
    BY <1>1, <2>1 DEF ScanDue
<1>2. CASE Traced(c, u)
  <2>1. CASE SelectedRows(c) \/ SelectedAsset(c)
    <3>1. todo'[c] = todo[c] /\ scans'[c] = scans[c]
      BY <2>1 DEF SelectedRows, SelectedAsset, Selected
    <3> QED
      BY <1>2, <3>1 DEF ScanDue, Traced, Rescanned
  <2>2. CASE Sampled(c)
    BY <1>2, <2>2, SampledTraced DEF ScanDue
  <2>3. CASE Touched(c)
    <3>1. todo[c] # <<>> /\ Cur(c).op = "touch" /\ todo'[c] = Rest(c)
      BY <2>3 DEF Touched, Going, Advanced
    <3>2. scans'[c] = {s \in scans[c] : s.urn # Cur(c).urn} \union {Made(c)} /\ Made(c).urn = Cur(c).urn
      BY <2>3 DEF Touched, Made
    <3>3. CASE u = Cur(c).urn
      <4>1. Made(c) \in scans'[c] /\ Made(c).urn = u
        BY <3>2, <3>3
      <4>2. \E s \in scans'[c] : s.urn = u
        BY <4>1
      <4> QED
        BY <4>2 DEF ScanDue, Traced, Rescanned
    <3>4. CASE u # Cur(c).urn /\ Touches(todo[c], u)
      <4>1. Touches(todo'[c], u)
        BY <3>1, <3>4, TouchesRest
      <4> QED
        BY <4>1 DEF ScanDue, Traced
    <3>5. CASE u # Cur(c).urn /\ Rescanned(c, u) # {}
      <4>1. \E s \in scans[c] : s.urn = u
        BY <3>5 DEF Rescanned
      <4>2. \E s \in scans'[c] : s.urn = u
        BY <3>2, <3>5, <4>1
      <4> QED
        BY <4>2 DEF ScanDue, Traced, Rescanned
    <3> QED
      BY <1>2, <3>3, <3>4, <3>5 DEF Traced
  <2>4. CASE \/ Used(c) \/ Inserted(c) \/ WroteRow(c) \/ LeftRow(c) \/ Removed(c) \/ Dropped(c)
             \/ ReadTheAssets(c) \/ ReadTheLabels(c)
    <3>1. todo[c] # <<>> /\ Cur(c).op # "touch" /\ Advanced(c) /\ scans'[c] = scans[c]
      BY <2>4 DEF Used, Inserted, WroteRow, LeftRow, Removed, Dropped, ReadTheAssets, ReadTheLabels, ReadOn,
         SameSession, Going, Looking
    <3> QED
      BY <1>2, <3>1, TracedRest DEF ScanDue
  <2> QED
    BY <1>0, <2>1, <2>2, <2>3, <2>4 DEF OwnStep
<1>3. CASE Sampling(c, u)
  <2>1. PICK k \in DOMAIN todo[c] : todo[c][k].op = "sample" /\ todo[c][k].urn = u
    BY <1>3 DEF Sampling
  <2>2. CASE k # 1 \/ todo'[c] = todo[c]
    <3>1. PICK m \in DOMAIN todo'[c] : todo'[c][m] = todo[c][k]
      BY <2>2, StmtStays
    <3> QED
      BY <2>1, <3>1 DEF ScanDue, Sampling
  <2>3. CASE k = 1 /\ todo'[c] # todo[c]
    <3>1. todo[c] # <<>> /\ Cur(c) = todo[c][1] /\ Cur(c).urn \in Urns /\ todo[c] \in Seq(Statement)
      <4>1. todo[c] # <<>>
        BY <2>1 DEF TypeOK
      <4> QED
        BY <4>1, CurFacts
    <3>2. Cur(c).op = "sample" /\ Cur(c).urn = u
      BY <2>1, <2>3, <3>1
    <3>3. Sampled(c)
      BY <1>0, <2>3, <3>2 DEF OwnStep, SelectedRows, SelectedAsset, Selected, Used, Inserted, WroteRow, LeftRow, Removed,
         Touched, Dropped, ReadTheAssets, ReadTheLabels, Going, Looking
    <3>4. CASE errors'[c] = errors[c] \union {Cur(c).urn}
      BY <3>2, <3>4 DEF ScanDue
    <3>5. CASE todo'[c] = apply_scan(Cur(c).urn, Cur(c).found) \o Tail(todo[c])
      <4>1. Cur(c).found \in Findings
        BY <3>3, SampledTodo
      <4> DEFINE b == apply_scan(Cur(c).urn, Cur(c).found)
                 tl == Tail(todo[c])
      <4>2. IsScan(b, Cur(c).urn, Cur(c).found)
        BY <3>1, <4>1, ScanShape
      <4>3. b \in Seq(Statement) /\ tl \in Seq(Statement) /\ Touches(b, u)
        <5>1. b \in Seq(Statement) /\ tl \in Seq(Statement)
          BY <3>1, <4>2, TailAt DEF IsScan
        <5>. HIDE DEF b, tl
        <5>2. Touches(b, Cur(c).urn)
          BY <3>1, <4>1, <4>2, ScanStmts
        <5> QED
          BY <3>2, <5>1, <5>2
      <4>4. todo'[c] = b \o tl
        BY <3>5
      <4> HIDE DEF b, tl
      <4>5. Touches(b \o tl, u)
        BY <4>3, TouchesConcat
      <4>6. Touches(todo'[c], u)
        BY <4>4, <4>5
      <4> QED
        BY <4>6 DEF ScanDue, Traced
    <3> QED
      BY <3>3, <3>4, <3>5 DEF Sampled
  <2> QED
    BY <2>2, <2>3
<1> QED
  BY <1>1, <1>2, <1>3 DEF ScanDue

(* Every step of a discovery run keeps it whole.                           *)
LEMMA OwnWhole ==
  ASSUME TypeOK, NEW c \in Calls, Plan(c), Whole(c), job' = job, OwnStep(c)
  PROVE  Whole(c)'
<1> SUFFICES ASSUME job[c].kind = "discover", pc'[c] = "run", NEW i \in DOMAIN job[c].assets
             PROVE  \/ \E k \in DOMAIN todo'[c] : todo'[c][k] = upsert_asset(job[c].assets[i])
                    \/ Absorbed(c, job[c].assets[i])'
  BY DEF Whole
<1>0. pc[c] = "run"
  BY DEF OwnStep, Aborted, SelectedRows, SelectedAsset, Used, Inserted, WroteRow, LeftRow, Removed,
     Touched, Dropped, Sampled, ReadTheAssets, ReadTheLabels, Going
<1>. PICK a : a = job[c].assets[i]
  OBVIOUS
<1>1. a \in Listing
  <2>1. job[c] \in Request
    BY DEF TypeOK
  <2>2. job[c].assets \in Seq(Listing)
    BY <2>1 DEF Request
  <2> QED
    BY <2>2
<1>2. CASE Absorbed(c, a)
  <2>1. \A l \in a.imported : Asserted(c, a.urn, l)'
    BY <1>2, AssertedOn DEF Absorbed
  <2>2. a.scan => ScanDue(c, a.urn)'
    BY <1>2, ScanDueOn DEF Absorbed
  <2>3. Absorbed(c, a)'
    BY <2>1, <2>2 DEF Absorbed
  <2> QED
    BY <2>3
<1>3. CASE \E k \in DOMAIN todo[c] : todo[c][k] = upsert_asset(a)
  <2>1. PICK k \in DOMAIN todo[c] : todo[c][k] = upsert_asset(a)
    BY <1>3
  <2>2. CASE k # 1 \/ todo'[c] = todo[c]
    BY <2>1, <2>2, StmtStays
  <2>3. CASE k = 1 /\ todo'[c] # todo[c]
    <3>1. todo[c] # <<>> /\ Cur(c) = todo[c][1]
      <4>1. todo[c] # <<>>
        BY <2>1 DEF TypeOK
      <4> QED
        BY <4>1, CurFacts
    <3>2. Cur(c) = upsert_asset(a) /\ Cur(c).op = "upsert"
      BY <1>1, <2>1, <2>3, <3>1, UpsertFacts
    <3>3. Advanced(c)
      BY <2>3, <3>2 DEF OwnStep, Aborted, SelectedRows, SelectedAsset, Selected, Used, Inserted, WroteRow, LeftRow, Removed,
         Touched, Dropped, Sampled, ReadTheAssets, ReadTheLabels, Going, Looking
    <3> QED
      BY <1>1, <3>1, <3>2, <3>3, AbsorbedNext
  <2> QED
    BY <2>2, <2>3
<1> QED
  BY <1>0, <1>2, <1>3 DEF Whole

(* Every step of a resolution keeps it complete: what has been there all   *)
(* the while stays under the asset that is read.                           *)
LEMMA OwnComplete ==
  ASSUME TypeOK, TablesConsistent, NEW c \in Calls, Plan(c), Complete(c), SameTables, job' = job, OwnStep(c)
  PROVE  Complete(c)'
<1> SUFFICES ASSUME job[c].kind = "resolve", pc'[c] \in {"run", "done"}
             PROVE  Complete(c)'
  BY DEF Complete
<1>0. ~Aborted(c)
  BY DEF Aborted
<1>1. pc[c] = "run" /\ pc'[c] = pc[c]
  BY <1>0 DEF OwnStep, SelectedRows, SelectedAsset, Selected, Used, Inserted, WroteRow, LeftRow, Removed,
     Touched, Dropped, Sampled, ReadTheAssets, ReadTheLabels, ReadOn, Advanced, Going
<1>2. todo[c] # <<>>
  BY <1>0 DEF OwnStep, SelectedRows, SelectedAsset, Used, Inserted, WroteRow, LeftRow, Removed,
     Touched, Dropped, Sampled, ReadTheAssets, ReadTheLabels, Going
<1>3. Cur(c).op \in {"exact", "patterns", "labels"} /\ Cur(c).op # "upsert"
  BY <1>2, CurOk, OpKinds
<1>4. (ReadTheAssets(c) /\ Cur(c).op # "labels") \/ (ReadTheLabels(c) /\ Cur(c).op = "labels")
  BY <1>0, <1>3 DEF OwnStep, SelectedRows, SelectedAsset, Used, Inserted, WroteRow, LeftRow, Removed,
     Touched, Dropped, Sampled, ReadTheAssets, ReadTheLabels, Going, Looking
<1>. PICK t \in Seq(Statement) : t = todo[c]
  BY DEF TypeOK
<1>. PICK u : u = Cur(c).urn
  OBVIOUS
<1>. PICK j : j = job[c]
  OBVIOUS
<1>5. /\ t # <<>> /\ Cur(c) = t[1] /\ u \in Urns /\ Tail(t) \in Seq(Statement)
      /\ \A i \in DOMAIN Tail(t) : i + 1 \in DOMAIN t /\ Tail(t)[i] = t[i + 1]
      /\ \A i \in DOMAIN t : i # 1 => i - 1 \in DOMAIN Tail(t) /\ t[i] = Tail(t)[i - 1]
      /\ 1 \in DOMAIN t
  BY <1>2, CurFacts, TailAt
<1>6. todo'[c] = Tail(t)
  BY <1>3, <1>4 DEF ReadTheAssets, ReadTheLabels, ReadOn, Advanced, Rest
<1>7. \A i \in DOMAIN t : i # 1 => \E k \in DOMAIN todo'[c] : todo'[c][k] = t[i]
  <2> SUFFICES ASSUME NEW i \in DOMAIN t, i # 1 PROVE \E k \in DOMAIN todo'[c] : todo'[c][k] = t[i]
    OBVIOUS
  <2>1. i - 1 \in DOMAIN Tail(t) /\ Tail(t)[i - 1] = t[i]
    BY <1>5
  <2>. PICK n : n = i - 1
    OBVIOUS
  <2>2. n \in DOMAIN todo'[c] /\ todo'[c][n] = t[i]
    BY <1>6, <2>1
  <2> QED
    BY <2>2
<1>8. \A i \in DOMAIN t : t[i].op \in {"exact", "patterns"} => t[i].urn = j.urn
  BY <1>1 DEF Complete
<1>9. steady[c] \subseteq rows /\ steady'[c] = steady[c] /\ rows' = rows
  BY <1>1 DEF Complete, SameTables
<1>10. ASSUME NEW r \in steady[c], r.urn \in Covering[j.urn] \union {j.urn}
       PROVE  Answered(c, r)' \/ ToRead(c, r)'
  <2>0. r \in Row /\ r \in rows /\ r.urn \in Urns /\ r.label \in Labels /\ r.of = assets[r.urn]
    <3>1. r \in rows /\ r \in Row
      BY <1>9 DEF TypeOK
    <3> QED
      BY <3>1, RowFacts DEF TablesConsistent
  <2>1. Answered(c, r) \/ ToRead(c, r)
    BY <1>1, <1>10 DEF Complete
  <2>2. CASE ReadTheAssets(c) /\ Cur(c).op # "labels"
    <3>1. answer'[c] = answer[c]
      BY <2>2 DEF ReadTheAssets
    <3>2. CASE Answered(c, r)
      BY <3>1, <3>2 DEF Answered
    <3>3. CASE ToRead(c, r)
      <4>1. Reads(todo'[c], r.urn)
        <5>1. PICK i \in DOMAIN t : t[i].op = "labels" /\ t[i].urn = r.urn
          BY <3>3 DEF ToRead, Reads
        <5>2. i # 1
          BY <1>5, <2>2, <5>1
        <5> QED
          BY <1>7, <5>1, <5>2 DEF Reads
      <4>2. held'[c][r.urn] = held[c][r.urn] \/ held'[c][r.urn] = r.of
        BY <2>0, <2>2 DEF ReadTheAssets
      <4>3. CASE held[c][r.urn] = r.of
        BY <4>1, <4>2, <4>3 DEF ToRead
      <4>4. CASE r.urn = j.urn /\ Has(t, "exact")
        <5>1. PICK i \in DOMAIN t : t[i].op = "exact"
          BY <4>4 DEF Has
        <5>2. CASE i # 1
          <6>1. Has(todo'[c], "exact")
            BY <1>7, <5>1, <5>2 DEF Has
          <6> QED
            BY <4>1, <4>4, <6>1 DEF ToRead
        <5>3. CASE i = 1
          <6>1. Cur(c).op = "exact" /\ Cur(c).urn = j.urn
            BY <1>5, <1>8, <5>1, <5>3
          <6>2. held'[c][r.urn] = r.of
            BY <2>0, <2>2, <4>4, <6>1 DEF ReadTheAssets
          <6> QED
            BY <4>1, <6>2 DEF ToRead
        <5> QED
          BY <5>2, <5>3
      <4>5. CASE r.urn \in Covering[j.urn] /\ Has(t, "patterns")
        <5>1. PICK i \in DOMAIN t : t[i].op = "patterns"
          BY <4>5 DEF Has
        <5>2. CASE i # 1
          <6>1. Has(todo'[c], "patterns")
            BY <1>7, <5>1, <5>2 DEF Has
          <6> QED
            BY <4>1, <4>5, <6>1 DEF ToRead
        <5>3. CASE i = 1
          <6>1. Cur(c).op = "patterns" /\ Cur(c).urn = j.urn
            BY <1>5, <1>8, <5>1, <5>3
          <6>2. held'[c][r.urn] = r.of
            BY <2>0, <2>2, <4>5, <6>1 DEF ReadTheAssets
          <6> QED
            BY <4>1, <6>2 DEF ToRead
        <5> QED
          BY <5>2, <5>3
      <4> QED
        BY <3>3, <4>3, <4>4, <4>5 DEF ToRead
    <3> QED
      BY <2>1, <3>2, <3>3
  <2>3. CASE ReadTheLabels(c) /\ Cur(c).op = "labels"
    <3> DEFINE R == {o \in rows : o.urn = Cur(c).urn /\ o.of = held[c][Cur(c).urn]}
    <3>1. answer'[c] = _merge_labels(answer[c], R) /\ held'[c] = held[c]
      BY <2>3 DEF ReadTheLabels
    <3>2. R \in SUBSET Row /\ answer[c] \in [Labels -> Nat]
      BY DEF TypeOK
    <3>3. r \in R <=> r.urn = u /\ r.of = held[c][u]
      BY <2>0
    <3> HIDE DEF R
    <3>. PICK g : g = answer'[c]
      OBVIOUS
    <3>4. /\ g \in [Labels -> Nat] /\ \A l \in Labels : g[l] >= answer[c][l]
          /\ \A o \in R : g[o.label] > 0 /\ (o.source = "manual" => g[o.label] >= o.level)
      BY <3>1, <3>2, MergeFacts
    <3>5. CASE Answered(c, r)
      <4>1. /\ answer[c][r.label] \in Nat /\ g[r.label] \in Nat /\ r.level \in Nat
            /\ g[r.label] >= answer[c][r.label] /\ answer[c][r.label] > 0
        <5>1. r.level \in Nat
          BY <2>0, CatalogAssumption DEF Row
        <5> QED
          BY <2>0, <3>2, <3>4, <3>5, <5>1 DEF Answered
      <4>2. r.source = "manual" => answer[c][r.label] >= r.level
        BY <3>5 DEF Answered
      <4>3. g[r.label] > 0 /\ (r.source = "manual" => g[r.label] >= r.level)
        BY <4>1, <4>2
      <4> QED
        BY <4>3 DEF Answered
    <3>6. CASE ToRead(c, r)
      <4>1. \A i \in DOMAIN t : t[i].op = "labels"
        <5>1. Resolving(t) /\ t[1].op = "labels"
          BY <1>5, <2>3 DEF Plan
        <5>2. \A i \in DOMAIN t : i # 1 => 1 < i
          OBVIOUS
        <5> QED
          BY <1>5, <5>1, <5>2 DEF Resolving
      <4>2. ~Has(t, "exact") /\ ~Has(t, "patterns")
        BY <4>1 DEF Has
      <4>3. held[c][r.urn] = r.of
        BY <3>6, <4>2 DEF ToRead
      <4>4. PICK i \in DOMAIN t : t[i].op = "labels" /\ t[i].urn = r.urn
        BY <3>6 DEF ToRead, Reads
      <4>5. CASE i = 1
        <5>1. r.urn = u
          BY <1>5, <4>4, <4>5
        <5>2. r \in R
          BY <3>3, <4>3, <5>1
        <5> QED
          BY <3>4, <5>2 DEF Answered
      <4>6. CASE i # 1
        <5>1. Reads(todo'[c], r.urn)
          BY <1>7, <4>4, <4>6 DEF Reads
        <5> QED
          BY <3>1, <4>3, <5>1 DEF ToRead
      <4> QED
        BY <4>5, <4>6
    <3> QED
      BY <2>1, <3>5, <3>6
  <2> QED
    BY <1>4, <2>2, <2>3
<1>11. \A i \in DOMAIN todo'[c] : todo'[c][i].op \in {"exact", "patterns"} => todo'[c][i].urn = j.urn
  BY <1>5, <1>6, <1>8
<1> QED
  BY <1>9, <1>10, <1>11 DEF Complete

(* A run left alone stays whole.                                           *)
LEMMA SameWhole ==
  ASSUME NEW d \in Calls, SameCall(d), job' = job, Whole(d)
  PROVE  Whole(d)'
<1>1. /\ todo'[d] = todo[d] /\ put'[d] = put[d] /\ left'[d] = left[d] /\ errors'[d] = errors[d]
      /\ scans'[d] = scans[d] /\ pc'[d] = pc[d]
  BY DEF SameCall, SamePlace, SameWrites, SameSession, SameAnswer
<1>2. \A a : Absorbed(d, a) => Absorbed(d, a)'
  BY <1>1 DEF Absorbed, Asserted, ScanDue, Sampling, Traced, Rescanned
<1> QED
  BY <1>1, <1>2 DEF Whole

(* A resolution left alone stays complete.                                 *)
LEMMA SameComplete ==
  ASSUME NEW d \in Calls, SameCall(d), SameTables, job' = job, Complete(d)
  PROVE  Complete(d)'
BY DEF SameCall, SamePlace, SameSession, SameAnswer, SameTables, Complete, Answered, ToRead

----------------------------------------------------------------------------
(* The invariant.                                                          *)

(* The inductive invariant, call by call and between calls.                *)
Working(c) ==
  /\ Plan(c) /\ Pending(c) /\ Accounted(c) /\ PutsHeld(c) /\ Scanned(c)
  /\ Whole(c) /\ Complete(c)
Inv ==
  /\ TypeOK /\ TablesConsistent /\ LastScanOk
  /\ \A c \in Calls : Working(c)
  /\ \A c, d \in Calls : c # d => Apart(c, d)

(* The tables are as they were.                                            *)
LEMMA OwnTables ==
  ASSUME TablesConsistent, SameTables
  PROVE  TablesConsistent'
BY DEF TablesConsistent, SameTables

(* A step of one call keeps what holds of another.                         *)
LEMMA SameWorking ==
  ASSUME NEW d \in Calls, SameCall(d), SameTables, job' = job, met' = met, Working(d)
  PROVE  Working(d)'
<1>1. Plan(d)' /\ Pending(d)' /\ Accounted(d)' /\ PutsHeld(d)'
  BY SamePlan, SamePending, SameAccounted, SamePutsHeld DEF Working
<1>2. Scanned(d)'
  BY SameBlocks DEF Working, Scanned
<1>3. Whole(d)' /\ Complete(d)'
  BY SameWhole, SameComplete DEF Working
<1> QED
  BY <1>1, <1>2, <1>3 DEF Working

(* A call's own step keeps what holds of it.                               *)
LEMMA OwnWorking ==
  ASSUME TypeOK, TablesConsistent, NEW c \in Calls, Working(c), Own(c), OwnStep(c)
  PROVE  Working(c)'
<1>1. SameTables /\ job' = job /\ met' = met
  BY DEF Own
<1>2. Plan(c) /\ Pending(c) /\ Accounted(c) /\ PutsHeld(c) /\ Scanned(c) /\ Whole(c) /\ Complete(c)
  BY DEF Working
<1>3. Plan(c)'
  BY <1>1, <1>2, OwnPlan
<1>4. Pending(c)'
  BY <1>2, OwnPending
<1>5. Accounted(c)'
  BY <1>2, OwnAccounted
<1>6. PutsHeld(c)'
  BY <1>2, OwnPutsHeld
<1>7. Scanned(c)'
  BY <1>2, <1>3, <1>5, OwnScanned
<1>8. Whole(c)'
  BY <1>1, <1>2, OwnWhole
<1>9. Complete(c)'
  BY <1>1, <1>2, OwnComplete
<1> QED
  BY <1>3, <1>4, <1>5, <1>6, <1>7, <1>8, <1>9 DEF Working

(* A step of a call keeps the invariant.                                   *)
LEMMA OwnInv ==
  ASSUME Inv, NEW c \in Calls, Own(c), OwnStep(c), Shaped'
  PROVE  Inv'
<1>0. TypeOK /\ TablesConsistent /\ LastScanOk /\ Working(c) /\ Plan(c)
  BY DEF Inv, Working
<1>1. TypeOK'
  BY <1>0, TypeKept
<1>2. TablesConsistent'
  BY <1>0, OwnTables DEF Own
<1>3. LastScanOk'
  BY <1>0, OwnLastScan
<1>4. ASSUME NEW d \in Calls PROVE Working(d)'
  <2>1. Working(d)
    BY DEF Inv
  <2>2. CASE d = c
    BY <1>0, <2>2, OwnWorking
  <2>3. CASE d # c
    BY <2>1, <2>3, SameWorking DEF Own
  <2> QED
    BY <2>2, <2>3
<1>5. \A b, d \in Calls : b # d => Apart(b, d)'
  <2>1. \A d \in Calls : Pending(d)
    BY DEF Inv, Working
  <2>2. \A b, d \in Calls : b # d => Apart(b, d)
    BY DEF Inv
  <2> QED
    BY <1>0, <2>1, <2>2, OwnApart
<1> QED
  BY <1>1, <1>2, <1>3, <1>4, <1>5 DEF Inv

----------------------------------------------------------------------------
(* A call begins.                                                          *)

Begun(c) ==
  /\ pc[c] = "idle" /\ pc'[c] = "run" /\ todo'[c] = Program(job[c])
  /\ \A d \in Calls : d # c => pc'[d] = pc[d] /\ todo'[d] = todo[d] /\ steady'[d] = steady[d]
  /\ steady'[c] = (IF job[c].kind = "resolve" THEN rows ELSE {})
  /\ \A d \in Calls : met[d] \subseteq met'[d] \/ d = c
  /\ \A d \in Calls : pc[d] \notin {"run", "idle"} => met'[d] = met[d]
  /\ \A b, d \in Calls : b # d /\ pc'[b] = "run" /\ pc'[d] = "run" /\ d \in Scanners /\ (b = c \/ d = c) => d \in met'[b]
  /\ \A d \in Calls : SameWrites(d) /\ SameUrns(d) /\ SameSession(d) /\ SameAnswer(d) /\ seen'[d] = seen[d]
  /\ assets' = assets /\ rows' = rows /\ lastScan' = lastScan /\ job' = job

(* What a call begins with.                                                *)
LEMMA BeginStep ==
  ASSUME TypeOK, NEW c \in Calls, Begin(c)
  PROVE  Begun(c)
<1>1. /\ pc[c] = "idle" /\ pc'[c] = "run" /\ todo'[c] = Program(job[c])
      /\ \A d \in Calls : d # c => pc'[d] = pc[d] /\ todo'[d] = todo[d] /\ steady'[d] = steady[d]
      /\ steady'[c] = (IF job[c].kind = "resolve" THEN rows ELSE {})
      /\ assets' = assets /\ rows' = rows /\ lastScan' = lastScan /\ job' = job
  BY DEF Begin, TypeOK
<1>2. \A d \in Calls : SameWrites(d) /\ SameUrns(d) /\ SameSession(d) /\ SameAnswer(d) /\ seen'[d] = seen[d]
  BY DEF Begin, pending, SameWrites, SameUrns, SameSession, SameAnswer
<1>3. /\ met'[c] = Scanners \intersect Open
      /\ \A d \in Calls : d # c => met'[d] = IF d \in Open THEN met[d] \union (Scanners \intersect {c}) ELSE met[d]
  <2>. DEFINE A == Scanners \intersect Open
              B == Scanners \intersect {c}
              O == Open
  <2>1. met' = [d \in Calls |-> CASE d = c -> A [] d \in O -> met[d] \union B [] OTHER -> met[d]]
    BY DEF Begin
  <2>2. c \notin O
    BY <1>1 DEF Open
  <2>. HIDE DEF A, B, O
  <2>3. met'[c] = A
    BY <2>1, <2>2
  <2>4. \A d \in Calls : d # c => met'[d] = IF d \in O THEN met[d] \union B ELSE met[d]
    BY <2>1
  <2> QED
    BY <2>3, <2>4 DEF A, B, O
<1>4. \A d \in Calls : met[d] \subseteq met'[d] \/ d = c
  BY <1>3
<1>5. \A d \in Calls : pc[d] \notin {"run", "idle"} => met'[d] = met[d]
  BY <1>1, <1>3 DEF Open
<1>6. \A b, d \in Calls : b # d /\ pc'[b] = "run" /\ pc'[d] = "run" /\ d \in Scanners /\ (b = c \/ d = c) => d \in met'[b]
  BY <1>1, <1>3 DEF Open
<1> QED
  BY <1>1, <1>2, <1>4, <1>5, <1>6 DEF Begun

(* TypeOK.                                                                 *)
LEMMA BeginType ==
  ASSUME TypeOK, NEW c \in Calls, Begin(c)
  PROVE  TypeOK'
<1>1. Program(job[c]) \in Seq(Statement)
  BY ProgramStarts DEF TypeOK, Starts
<1>2. /\ pc' \in [Calls -> {"idle", "run", "done", "failed"}] /\ todo' \in [Calls -> Seq(Statement)]
      /\ steady' \in [Calls -> SUBSET Row]
  BY <1>1 DEF Begin, TypeOK
<1>3. met' \in [Calls -> SUBSET Calls]
  <2>1. Scanners \subseteq Calls /\ met \in [Calls -> SUBSET Calls]
    BY DEF Scanners, TypeOK
  <2> QED
    BY <2>1 DEF Begin
<1>4. UNCHANGED <<assets, rows, lastScan, put, cut, added, dropped, touched, job, seen, held, errors, answer, scans, left>>
  BY DEF Begin, pending
<1> QED
  BY <1>2, <1>3, <1>4 DEF TypeOK

(* Plan: the statements of its job.                                        *)
LEMMA BegunPlan ==
  ASSUME TypeOK, NEW c \in Calls, Begun(c), NEW d \in Calls, Plan(d)
  PROVE  Plan(d)'
<1>1. CASE d # c
  <2>1. SameCall(d) /\ job' = job
    BY <1>1 DEF Begun, SameCall, SamePlace
  <2> QED
    BY <2>1, SamePlan
<1>2. CASE d = c
  <2>1. Starts(todo'[c], job[c]) /\ job' = job /\ seen'[c] = NONE /\ pc'[c] = "run"
    <3>1. job[c] \in Request
      BY DEF TypeOK
    <3> QED
      BY <1>2, <3>1, ProgramStarts DEF Begun, Plan, Closed
  <2> QED
    BY <1>2, <2>1 DEF Plan, Closed, SeenOk, Starts
<1> QED
  BY <1>1, <1>2

(* Pending.                                                                *)
LEMMA BegunPending ==
  ASSUME NEW c \in Calls, Begun(c), NEW d \in Calls, Pending(d)
  PROVE  Pending(d)'
<1>1. SameWrites(d) /\ SameUrns(d) /\ rows' = rows /\ assets' = assets /\ job' = job
  BY DEF Begun
<1>2. \A u : Asset(d, u)' = Asset(d, u)
  BY <1>1 DEF Asset, SameUrns
<1> QED
  BY <1>1, <1>2 DEF Pending, SameWrites, SameUrns

(* Apart: each of two calls under way meets the scans of the other.        *)
LEMMA BegunApart ==
  ASSUME NEW c \in Calls, Begun(c), NEW b \in Calls, NEW d \in Calls, b # d, Apart(b, d)
  PROVE  Apart(b, d)'
<1>1. /\ put'[b] = put[b] /\ cut'[b] = cut[b] /\ put'[d] = put[d] /\ cut'[d] = cut[d]
      /\ dropped'[d] = dropped[d]
  BY DEF Begun, SameWrites, SameUrns
<1>2. Reserved(b)' = Reserved(b) /\ Reserved(d)' = Reserved(d)
  BY DEF Begun, SameUrns, Reserved
<1>3. Scanners' = Scanners
  BY DEF Begun, Scanners
<1>4. pc'[b] = "run" /\ pc'[d] = "run" /\ d \in Scanners => d \in met'[b]
  <2>1. CASE b = c \/ d = c
    BY <2>1 DEF Begun
  <2>2. CASE b # c /\ d # c
    BY <2>2 DEF Begun, Apart
  <2> QED
    BY <2>1, <2>2
<1> QED
  BY <1>1, <1>2, <1>3, <1>4 DEF Apart

(* Accounted.                                                              *)
LEMMA BegunAccounted ==
  ASSUME NEW c \in Calls, Begun(c), NEW d \in Calls, Plan(d), Accounted(d), PutsHeld(d)
  PROVE  Accounted(d)' /\ PutsHeld(d)'
<1>1. /\ SameWrites(d) /\ SameUrns(d) /\ SameSession(d) /\ assets' = assets /\ job' = job
  BY DEF Begun
<1>2. PutsHeld(d)'
  BY <1>1 DEF PutsHeld, SameWrites, SameSession
<1>3. CASE d = c
  <2>1. put[d] = {} /\ cut[d] = {} /\ scans[d] = {}
    BY <1>3 DEF Begun, Plan, Closed
  <2> QED
    BY <1>1, <1>2, <2>1 DEF Accounted, SameWrites, SameSession
<1>4. CASE d # c
  <2>1. todo'[d] = todo[d] /\ scans'[d] = scans[d] /\ put'[d] = put[d] /\ cut'[d] = cut[d]
    BY <1>1, <1>4 DEF Begun, SameWrites, SameSession
  <2>2. \A u : Asset(d, u)' = Asset(d, u)
    BY <1>1 DEF Asset, SameUrns
  <2>3. \A u : Traced(d, u)' <=> Traced(d, u)
    BY <2>1 DEF Traced, Rescanned
  <2>4. \A u : Detached(d, u)' <=> Detached(d, u)
    BY <1>1 DEF Detached, SameUrns
  <2>5. \A u : ScansOf(u)' = ScansOf(u)
    BY <1>1 DEF ScansOf, Scanners
  <2>6. \A r : PutAccounted(d, r) => PutAccounted(d, r)'
    BY <2>3, <2>5 DEF PutAccounted
  <2>7. \A r : CutAccounted(d, r) => CutAccounted(d, r)'
    BY <1>1, <2>3, <2>4 DEF CutAccounted
  <2>8. \A s : ScanAccounted(d, s) => ScanAccounted(d, s)'
    BY <1>1, <2>1, <2>2, <2>5 DEF ScanAccounted, SameUrns, SameSession
  <2> QED
    BY <1>2, <2>1, <2>6, <2>7, <2>8 DEF Accounted
<1> QED
  BY <1>3, <1>4

(* A scan that is no longer alone promises less.                           *)
LEMMA LessAlone ==
  ASSUME NEW d \in Calls, job' = job, rows' = rows, SameWrites(d), held'[d] = held[d], left'[d] = left[d],
         met[d] \subseteq met'[d]
  PROVE  /\ \A u : Alone(d, u)' => Alone(d, u)
         /\ \A u, found : Cleared(d, u, found) => Cleared(d, u, found)'
         /\ \A u, l : Bears(d, u, l) => Bears(d, u, l)'
<1>1. \A u : ScansOf(u)' = ScansOf(u)
  BY DEF ScansOf, Scanners
<1>2. \A u : Alone(d, u)' => Alone(d, u)
  BY <1>1 DEF Alone
<1>3. put'[d] = put[d] /\ cut'[d] = cut[d]
  BY DEF SameWrites
<1>4. \A u : Foreign(d, u)' = Foreign(d, u)
  BY <1>3 DEF Foreign
<1>5. \A u, found : Cleared(d, u, found) => Cleared(d, u, found)'
  BY <1>2, <1>3, <1>4 DEF Cleared
<1>6. \A u : Kept(d, u) \subseteq Kept(d, u)'
  BY <1>2, <1>3 DEF Kept
<1>7. \A u, l : Bears(d, u, l) => Bears(d, u, l)'
  BY <1>6 DEF Bears, Shows
<1> QED
  BY <1>2, <1>5, <1>7

(* Scanned: a scan that begins ends what another was alone in.             *)
LEMMA BegunScanned ==
  ASSUME TypeOK, NEW c \in Calls, Begun(c), NEW d \in Calls, Plan(d), Scanned(d)
  PROVE  Scanned(d)'
<1>0. SameWrites(d) /\ held'[d] = held[d] /\ scans'[d] = scans[d] /\ left'[d] = left[d] /\ seen'[d] = seen[d]
      /\ rows' = rows /\ job' = job
  BY DEF Begun, SameSession, SameAnswer
<1>1. CASE d = c
  <2>1. seen'[d] = NONE /\ scans'[d] = {}
    BY <1>0, <1>1 DEF Begun, Plan, Closed
  <2>2. todo'[d] \in Seq(Statement) /\ NotMid(todo'[d])
    <3>1. job[c] \in Request
      BY DEF TypeOK
    <3>2. Starts(todo'[d], job[c])
      BY <1>1, <3>1, ProgramStarts DEF Begun
    <3> QED
      BY <3>2 DEF Starts, NotMid, Scanning
  <2>3. InBlock(d)'
    BY <2>2, NotMidInBlock
  <2>4. AfterBlock(d)'
    BY <2>1 DEF AfterBlock
  <2>5. SeesScans(d)'
    BY <2>1, NoneSeen
  <2> QED
    BY <2>3, <2>4, <2>5 DEF Scanned
<1>2. CASE d # c
  <2>1. todo'[d] = todo[d] /\ met[d] \subseteq met'[d]
    BY <1>2 DEF Begun
  <2>2. /\ \A u : Alone(d, u)' => Alone(d, u)
        /\ \A u, found : Cleared(d, u, found) => Cleared(d, u, found)'
        /\ \A u, l : Bears(d, u, l) => Bears(d, u, l)'
    BY <1>0, <2>1, LessAlone
  <2>3. Cur(d)' = Cur(d)
    BY <2>1 DEF Cur
  <2>4. InBlock(d)'
    <3> SUFFICES ASSUME NEW j \in DOMAIN todo[d], Ends(todo[d], 1, j), Cur(d).op # "remove"
                 PROVE  /\ Cleared(d, todo[d][j].urn, todo[d][j].found)'
                        /\ \A l \in DOMAIN todo[d][j].found :
                             \/ \E k \in 1..(j - 1) : todo[d][k].labels = {l}
                             \/ Bears(d, todo[d][j].urn, l)'
      BY <2>1, <2>3 DEF InBlock
    <3>. PICK u, found : u = todo[d][j].urn /\ found = todo[d][j].found
      OBVIOUS
    <3>1. /\ Cleared(d, u, found)
          /\ \A l \in DOMAIN found : (\E k \in 1..(j - 1) : todo[d][k].labels = {l}) \/ Bears(d, u, l)
      BY DEF Scanned, InBlock
    <3>2. /\ Cleared(d, u, found)'
          /\ \A l \in DOMAIN found : (\E k \in 1..(j - 1) : todo[d][k].labels = {l}) \/ Bears(d, u, l)'
      BY <2>2, <3>1
    <3>3. Cleared(d, todo[d][j].urn, todo[d][j].found)' <=> Cleared(d, u, found)'
      BY <2>1 DEF Cleared, Foreign
    <3>4. \A l : Bears(d, todo[d][j].urn, l)' <=> Bears(d, u, l)'
      BY <2>1 DEF Bears
    <3> QED
      BY <3>2, <3>3, <3>4
  <2>5. AfterBlock(d)'
    <3> SUFFICES ASSUME NEW s \in scans[d], ~Touches(todo[d], s.urn)
                 PROVE  Cleared(d, s.urn, s.found)' /\ \A l \in DOMAIN s.found : Bears(d, s.urn, l)'
      BY <1>0, <2>1 DEF AfterBlock
    <3>1. Cleared(d, s.urn, s.found) /\ \A l \in DOMAIN s.found : Bears(d, s.urn, l)
      BY DEF Scanned, AfterBlock
    <3> QED
      BY <2>2, <3>1
  <2>6. SeesScans(d)'
    <3>1. VisibleRows(d)' = VisibleRows(d) /\ put'[d] = put[d]
      BY <1>0 DEF VisibleRows, SameWrites
    <3>2. Scanners' = Scanners
      BY <1>0 DEF Scanners
    <3>. PICK u, s : u = Cur(d).urn /\ s = Cur(d)
      OBVIOUS
    <3>3. Alone(d, u)' => Alone(d, u)
      BY <2>2
    <3> SUFFICES ASSUME d \in Scanners, todo[d] # <<>>, seen[d] # NONE
                 PROVE  /\ s.op = "remove" =>
                             \A r \in VisibleRows(d) :
                               /\ Alone(d, u)' \/ r \in put[d]
                               /\ r.urn = u /\ r.source = "scan" /\ r.of = held[d][u]
                               => \E o \in seen[d] : Same(r, o)
                        /\ ScanPut(s) /\ Alone(d, u)' => seen[d] \subseteq put[d]
      BY <1>0, <2>1, <2>3, <3>1, <3>2 DEF SeesScans, Alone, ScansOf
    <3> QED
      BY <3>3 DEF Scanned, SeesScans
  <2> QED
    BY <2>4, <2>5, <2>6 DEF Scanned
<1> QED
  BY <1>1, <1>2

(* Whole and Complete: all is still to be done.                            *)
LEMMA BegunWhole ==
  ASSUME TypeOK, NEW c \in Calls, Begun(c), NEW d \in Calls, Whole(d), Complete(d)
  PROVE  Whole(d)' /\ Complete(d)'
<1>0. /\ put'[d] = put[d] /\ left'[d] = left[d] /\ errors'[d] = errors[d] /\ scans'[d] = scans[d]
      /\ held'[d] = held[d] /\ answer'[d] = answer[d] /\ rows' = rows /\ job' = job
  BY DEF Begun, SameSession, SameAnswer, SameWrites
<1>1. CASE d # c
  <2>1. todo'[d] = todo[d] /\ pc'[d] = pc[d] /\ steady'[d] = steady[d]
    BY <1>1 DEF Begun
  <2>2. \A a : Absorbed(d, a) => Absorbed(d, a)'
    BY <1>0, <2>1 DEF Absorbed, Asserted, ScanDue, Sampling, Traced, Rescanned
  <2>3. Whole(d)'
    BY <1>0, <2>1, <2>2 DEF Whole
  <2>4. Complete(d)'
    BY <1>0, <2>1 DEF Complete, Answered, ToRead
  <2> QED
    BY <2>3, <2>4
<1>2. CASE d = c
  <2>1. Starts(todo'[c], job[c])
    <3>1. job[c] \in Request
      BY DEF TypeOK
    <3> QED
      BY <3>1, ProgramStarts DEF Begun
  <2>2. Whole(d)'
    BY <1>0, <1>2, <2>1 DEF Whole, Starts
  <2>3. Complete(d)'
    <3> SUFFICES ASSUME job[c].kind = "resolve"
                 PROVE  Complete(c)'
      BY <1>0, <1>2 DEF Complete
    <3>1. steady'[c] = rows
      BY DEF Begun
    <3>2. /\ Has(todo'[c], "exact") /\ Has(todo'[c], "patterns")
          /\ \A u \in Covering[job[c].urn] \union {job[c].urn} : Reads(todo'[c], u)
          /\ \A i \in DOMAIN todo'[c] : todo'[c][i].op \in {"exact", "patterns"} => todo'[c][i].urn = job[c].urn
      BY <2>1 DEF Starts, Reads
    <3>3. \A r \in rows : r.urn \in Covering[job[c].urn] \union {job[c].urn} => ToRead(c, r)'
      BY <1>0, <3>2 DEF ToRead
    <3> QED
      BY <1>0, <3>1, <3>2, <3>3 DEF Complete
  <2> QED
    BY <2>2, <2>3
<1> QED
  BY <1>1, <1>2

(* The last scans: their calls are done, and meet nobody any more.         *)
LEMMA BegunLastScan ==
  ASSUME TypeOK, LastScanOk, NEW c \in Calls, Begun(c)
  PROVE  LastScanOk'
<1>0. /\ lastScan' = lastScan /\ rows' = rows /\ job' = job /\ pc[c] = "idle"
      /\ \A d \in Calls : d # c => pc'[d] = pc[d]
      /\ \A d \in Calls : left'[d] = left[d] /\ (pc[d] \notin {"run", "idle"} => met'[d] = met[d])
  BY DEF Begun, SameAnswer
<1>1. \A u \in Urns : \A s \in lastScan[u] : s.by \in Calls /\ pc[s.by] = "done"
  BY DEF TypeOK, LastScanOk
<1>2. \A u \in Urns : \A s \in lastScan[u] : pc'[s.by] = "done" /\ met'[s.by] = met[s.by] /\ left'[s.by] = left[s.by]
  <2> SUFFICES ASSUME NEW u \in Urns, NEW s \in lastScan[u]
               PROVE pc'[s.by] = "done" /\ met'[s.by] = met[s.by] /\ left'[s.by] = left[s.by]
    OBVIOUS
  <2>1. s.by \in Calls /\ pc[s.by] = "done" /\ s.by # c
    BY <1>0, <1>1
  <2> QED
    BY <1>0, <2>1
<1>3. LastLabelsStand'
  BY <1>0, <1>2 DEF LastScanOk, LastLabelsStand
<1>4. StaleLabelsGo'
  <2>1. \A u : ScansOf(u)' = ScansOf(u) /\ ScanLabels(u)' = ScanLabels(u)
    BY <1>0 DEF ScansOf, Scanners, ScanLabels
  <2> QED
    BY <1>0, <1>2, <2>1 DEF LastScanOk, StaleLabelsGo
<1> QED
  BY <1>0, <1>2, <1>3, <1>4 DEF LastScanOk

(* The beginning of a call keeps the invariant.                            *)
LEMMA BeginInv ==
  ASSUME Inv, NEW c \in Calls, Begin(c)
  PROVE  Inv'
<1>0. TypeOK /\ TablesConsistent /\ LastScanOk
  BY DEF Inv
<1>1. Begun(c) /\ TypeOK'
  BY <1>0, BeginStep, BeginType
<1>2. TablesConsistent'
  BY <1>0, <1>1 DEF TablesConsistent, Begun
<1>3. LastScanOk'
  BY <1>0, <1>1, BegunLastScan
<1>4. ASSUME NEW d \in Calls PROVE Working(d)'
  <2>1. Plan(d) /\ Pending(d) /\ Accounted(d) /\ PutsHeld(d) /\ Scanned(d) /\ Whole(d) /\ Complete(d)
    BY DEF Inv, Working
  <2>2. Plan(d)' /\ Pending(d)' /\ Accounted(d)' /\ PutsHeld(d)' /\ Scanned(d)' /\ Whole(d)' /\ Complete(d)'
    BY <1>0, <1>1, <2>1, BegunPlan, BegunPending, BegunAccounted, BegunScanned, BegunWhole
  <2> QED
    BY <2>2 DEF Working
<1>5. \A b, d \in Calls : b # d => Apart(b, d)'
  BY <1>1, BegunApart DEF Inv
<1> QED
  BY <1>1, <1>2, <1>3, <1>4, <1>5 DEF Inv

----------------------------------------------------------------------------
(* A call commits.                                                         *)

Committed(c) ==
  /\ pc[c] = "run" /\ todo[c] = <<>> /\ pc'[c] = "done" /\ Shut(c)
  /\ \A d \in Calls : d # c => SameCall(d)
  /\ rows' = VisibleRows(c) /\ assets' = [u \in Urns |-> Asset(c, u)]
  /\ \A u \in Urns :
       lastScan'[u] = IF Rescanned(c, u) # {}
                      THEN {[found |-> s.found, by |-> c] : s \in Rescanned(c, u)}
                      ELSE IF Detached(c, u) THEN {} ELSE lastScan[u]
  /\ \A d \in Calls : steady'[d] = IF pc[d] = "run" THEN steady[d] \intersect rows' ELSE steady[d]
  /\ job' = job /\ met' = met

(* What a commit does.                                                     *)
LEMMA CommitStep ==
  ASSUME TypeOK, NEW c \in Calls, Commit(c)
  PROVE  Committed(c)
<1>1. pc[c] = "run" /\ todo[c] = <<>> /\ Close(c, "done") /\ UNCHANGED <<answer, left>>
      /\ rows' = VisibleRows(c) /\ assets' = [u \in Urns |-> Asset(c, u)] /\ job' = job /\ met' = met
  BY DEF Commit
<1>2. Shut(c) /\ pc'[c] = "done" /\ \A d \in Calls : d # c => SameCall(d)
  BY <1>1, CloseShuts
<1>3. \A u \in Urns :
       lastScan'[u] = IF Rescanned(c, u) # {}
                      THEN {[found |-> s.found, by |-> c] : s \in Rescanned(c, u)}
                      ELSE IF Detached(c, u) THEN {} ELSE lastScan[u]
  BY DEF Commit
<1>4. \A d \in Calls : steady'[d] = IF pc[d] = "run" THEN steady[d] \intersect rows' ELSE steady[d]
  BY DEF Commit
<1> QED
  BY <1>1, <1>2, <1>3, <1>4 DEF Committed

(* TypeOK.                                                                 *)
LEMMA CommitType ==
  ASSUME TypeOK, NEW c \in Calls, Commit(c)
  PROVE  TypeOK'
<1>0. SharedType /\ Shaped /\ \A d \in Calls : CallType(d)
  BY TypeParts
<1>1. Committed(c)
  BY CommitStep
<1>2. Shaped'
  BY <1>0, CloseShaped DEF Commit
<1>3. ASSUME NEW d \in Calls PROVE CallType(d)'
  <2>1. CASE d # c
    BY <1>0, <1>1, <2>1, SameCallType DEF Committed
  <2>2. CASE d = c
    <3>1. held'[c] \in [Urns -> Ids] /\ <<>> \in Seq(Statement)
      BY <1>1 DEF Committed, Shut, Ids
    <3> QED
      BY <1>0, <1>1, <2>2, <3>1 DEF Committed, Shut, SameAnswer, CallType
  <2> QED
    BY <2>1, <2>2
<1>4. SharedType'
  <2>1. assets' \in [Urns -> Ids] /\ rows' \subseteq Row /\ job' \in [Calls -> Request] /\ met' \in [Calls -> SUBSET Calls]
    <3>1. \A u \in Urns : Asset(c, u) \in Ids
      BY AssetType
    <3>2. assets' \in [Urns -> Ids]
      BY <1>1, <3>1 DEF Committed
    <3>3. rows' \subseteq Row
      BY <1>0, <1>1 DEF Committed, SharedType, CallType, VisibleRows
    <3>4. job' = job /\ met' = met
      BY <1>1 DEF Committed
    <3> QED
      BY <1>0, <3>2, <3>3, <3>4 DEF SharedType
  <2>2. steady' \in [Calls -> SUBSET Row]
    BY <1>0 DEF Commit, SharedType
  <2>3. ASSUME NEW u \in Urns PROVE lastScan'[u] \subseteq [found : Findings \union {<<>>}, by : Calls]
    <3>1. \A s \in Rescanned(c, u) : s.found \in Findings \union {<<>>}
      BY <1>0 DEF CallType, Scan, Rescanned
    <3>2. lastScan[u] \subseteq [found : Findings \union {<<>>}, by : Calls]
      BY <1>0 DEF SharedType
    <3>3. {[found |-> s.found, by |-> c] : s \in Rescanned(c, u)} \subseteq [found : Findings \union {<<>>}, by : Calls]
      BY <3>1
    <3> QED
      BY <1>1, <3>2, <3>3 DEF Committed
  <2>4. lastScan' = [u \in Urns |-> lastScan'[u]]
    BY DEF Commit
  <2>5. lastScan' \in [Urns -> SUBSET [found : Findings \union {<<>>}, by : Calls]]
    BY <2>3, <2>4
  <2> QED
    BY <2>1, <2>2, <2>5 DEF SharedType
<1> QED
  BY <1>2, <1>3, <1>4, TypeOfParts

(* The tables stay consistent.                                             *)
LEMMA CommitTables ==
  ASSUME TypeOK, TablesConsistent, NEW c \in Calls, Pending(c), Committed(c)
  PROVE  TablesConsistent'
<1>1. ASSUME NEW r \in VisibleRows(c) PROVE r.of = assets'[r.urn]
  <2>1. r.urn \in Urns
    <3>1. VisibleRows(c) \subseteq Row
      <4>1. rows \subseteq Row /\ put[c] \subseteq Row
        BY DEF TypeOK
      <4> QED
        BY <4>1 DEF VisibleRows
    <3> QED
      BY <3>1, RowFacts
  <2>2. r.of = Asset(c, r.urn)
    BY OldOf
  <2> QED
    BY <2>1, <2>2 DEF Committed
<1>2. ASSUME NEW r \in VisibleRows(c), NEW o \in VisibleRows(c), Key(o) = Key(r) PROVE o = r
  <2>1. /\ \A x, y \in put[c] : Key(y) = Key(x) => y = x
        /\ \A x \in put[c], y \in rows : Key(y) = Key(x) => y \in cut[c]
    BY DEF Pending
  <2>2. \A x, y \in rows : Key(y) = Key(x) => y = x
    BY DEF TablesConsistent
  <2> QED
    BY <1>2, <2>1, <2>2 DEF VisibleRows
<1> QED
  BY <1>1, <1>2 DEF TablesConsistent, Committed

(* An asset is to another call what it was, unless the commit is about it. *)
LEMMA CommitAsset ==
  ASSUME NEW c \in Calls, Committed(c), NEW d \in Calls, d # c, NEW u \in Urns, u \notin added[c] \union dropped[c]
  PROVE  Asset(d, u)' = Asset(d, u)
<1>1. added'[d] = added[d] /\ dropped'[d] = dropped[d]
  BY DEF Committed, SameCall, SameUrns
<1>2. assets'[u] = assets[u]
  BY DEF Committed, Asset
<1> QED
  BY <1>1, <1>2 DEF Asset

(* Pending: another call's writes fit the new tables, being apart.         *)
LEMMA CommitPending ==
  ASSUME TypeOK, NEW c \in Calls, Pending(c), Committed(c), NEW d \in Calls, d # c, Pending(d), Apart(c, d), Apart(d, c)
  PROVE  Pending(d)'
<1>0. /\ put'[d] = put[d] /\ cut'[d] = cut[d] /\ added'[d] = added[d] /\ dropped'[d] = dropped[d]
      /\ touched'[d] = touched[d] /\ job' = job
      /\ rows' = (rows \ cut[c]) \union put[c]
  BY DEF Committed, SameCall, SameUrns, SameWrites, VisibleRows
<1>1. \A r \in put[c] \union cut[c], o \in put[d] \union cut[d] : Key(r) # Key(o)
  BY DEF Apart
<1>2. cut[d] \subseteq rows'
  BY <1>0, <1>1 DEF Pending
<1>3. ASSUME NEW r \in put[d] PROVE r.of = Asset(d, r.urn)'
  <2>1. r \in Row /\ r.urn \in Urns /\ r.of # NONE /\ r.of = Asset(d, r.urn)
    <3>1. r \in Row
      BY DEF TypeOK
    <3> QED
      BY <3>1, RowFacts DEF Pending
  <2>2. r.urn \notin dropped[c]
    BY DEF Apart
  <2>3. CASE r.urn \notin added[c]
    BY <2>1, <2>2, <2>3, CommitAsset
  <2>4. CASE r.urn \in added[c]
    <3>1. assets[r.urn] = NONE
      BY <2>4 DEF Pending
    <3>2. r.urn \notin dropped[d] /\ r.urn \in added[d]
      BY <2>1, <3>1 DEF Asset
    <3> QED
      BY <2>1, <1>0, <3>2 DEF Asset
  <2> QED
    BY <2>3, <2>4
<1>4. \A r \in put[d], o \in rows' : Key(o) = Key(r) => o \in cut[d]
  BY <1>0, <1>1 DEF Pending
<1>5. ASSUME NEW u \in added[d] PROVE assets'[u] = NONE
  <2>1. u \in Urns /\ assets[u] = NONE /\ u \notin added[c]
    BY DEF TypeOK, Pending, Apart, Reserved
  <2> QED
    BY <2>1 DEF Committed, Asset
<1>6. \A u \in dropped[d] : \A r \in rows' : r.urn = u => r \in cut[d]
  BY <1>0 DEF Pending, Apart
<1>7. ASSUME NEW u \in touched[d] PROVE Asset(d, u)' # NONE
  <2>1. u \in Urns /\ Asset(d, u) # NONE /\ u \notin added[c] \union dropped[c]
    BY DEF TypeOK, Pending, Apart, Reserved
  <2>2. Asset(d, u)' = Asset(d, u)
    BY <2>1, CommitAsset
  <2> QED
    BY <2>1, <2>2
<1> QED
  BY <1>0, <1>2, <1>3, <1>4, <1>5, <1>6, <1>7 DEF Pending

(* A session that is closed has none.                                      *)
LEMMA ShutPending ==
  ASSUME NEW c \in Calls, Shut(c)
  PROVE  Pending(c)'
BY DEF Pending, Shut

(* Apart.                                                                  *)
LEMMA CommitApart ==
  ASSUME NEW c \in Calls, Committed(c), NEW b \in Calls, NEW d \in Calls, b # d, Apart(b, d)
  PROVE  Apart(b, d)'
<1>1. /\ put'[c] = {} /\ cut'[c] = {} /\ added'[c] = {} /\ dropped'[c] = {} /\ touched'[c] = {} /\ pc'[c] # "run"
  BY DEF Committed, Shut
<1>2. Reserved(c)' = {}
  BY <1>1 DEF Reserved
<1>3. CASE b = c \/ d = c
  BY <1>1, <1>2, <1>3 DEF Apart
<1>4. CASE b # c /\ d # c
  <2>1. SameCall(b) /\ SameCall(d) /\ job' = job /\ met' = met
    BY <1>4 DEF Committed
  <2> QED
    BY <2>1, SameApart
<1> QED
  BY <1>3, <1>4

(* Plan.                                                                   *)
LEMMA CommitPlan ==
  ASSUME NEW c \in Calls, Committed(c), NEW d \in Calls, Plan(d)
  PROVE  Plan(d)'
<1>1. CASE d # c
  BY <1>1, SamePlan DEF Committed
<1>2. CASE d = c
  <2>1. todo'[d] = <<>> /\ seen'[d] = NONE
    BY <1>2 DEF Committed, Shut
  <2>2. Closed(d)' /\ SeenOk(d)'
    BY <1>2 DEF Committed, Shut, Closed, SeenOk
  <2> QED
    BY <2>1, <2>2, EmptyPlan DEF Plan
<1> QED
  BY <1>1, <1>2

(* Accounted.                                                              *)
LEMMA CommitAccounted ==
  ASSUME TypeOK, NEW c \in Calls, Committed(c), NEW d \in Calls, Accounted(d), PutsHeld(d), c # d => Apart(c, d)
  PROVE  Accounted(d)' /\ PutsHeld(d)'
<1>1. CASE d = c
  BY <1>1 DEF Committed, Shut, Accounted, PutsHeld
<1>2. CASE d # c
  <2>0. SameCall(d) /\ job' = job
    BY <1>2 DEF Committed
  <2>1. /\ todo'[d] = todo[d] /\ scans'[d] = scans[d] /\ put'[d] = put[d] /\ cut'[d] = cut[d]
        /\ SameUrns(d) /\ SameSession(d)
    BY <2>0 DEF SameCall, SamePlace, SameWrites, SameSession
  <2>2. PutsHeld(d)'
    BY <2>0, SamePutsHeld
  <2>3. \A u : Traced(d, u)' <=> Traced(d, u)
    BY <2>1 DEF Traced, Rescanned
  <2>4. \A u : Detached(d, u)' <=> Detached(d, u)
    BY <2>0, <2>1 DEF Detached, SameUrns
  <2>5. \A u : ScansOf(u)' = ScansOf(u)
    BY <2>0 DEF ScansOf, Scanners
  <2>6. \A r : PutAccounted(d, r) => PutAccounted(d, r)'
    BY <2>3, <2>5 DEF PutAccounted
  <2>7. \A r : CutAccounted(d, r) => CutAccounted(d, r)'
    BY <2>0, <2>3, <2>4 DEF CutAccounted
  <2>8. ASSUME NEW s \in scans[d], ScanAccounted(d, s) PROVE ScanAccounted(d, s)'
    <3>1. s.urn \in Urns /\ s.urn \in added[d] \union touched[d]
      BY <2>8 DEF ScanAccounted, TypeOK
    <3>2. s.urn \notin added[c] \union dropped[c]
      BY <1>2, <3>1 DEF Apart, Reserved
    <3>3. Asset(d, s.urn)' = Asset(d, s.urn)
      BY <1>2, <3>1, <3>2, CommitAsset
    <3> QED
      BY <2>1, <2>5, <2>8, <3>3 DEF ScanAccounted, SameUrns, SameSession
  <2> QED
    BY <2>1, <2>2, <2>6, <2>7, <2>8 DEF Accounted
<1> QED
  BY <1>1, <1>2

(* What a commit adds under an asset tells every scan of it under way.     *)
LEMMA ForeignCommit ==
  ASSUME TypeOK, NEW c \in Calls, Committed(c), Accounted(c), NEW d \in Calls, d # c, Apart(d, c), pc[d] = "run",
         NEW r \in put[c], r.source = "scan"
  PROVE  ~Alone(d, r.urn)
<1>1. c \in ScansOf(r.urn)
  BY DEF Accounted, PutAccounted
<1>2. c \in met[d]
  BY <1>1 DEF Apart, Committed, ScansOf
<1> QED
  BY <1>1, <1>2 DEF Alone

(* Scanned: what a scan has cleared stays clear, unless another scan       *)
(* commits, which it has met.                                              *)
LEMMA CommitScanned ==
  ASSUME TypeOK, NEW c \in Calls, Committed(c), Accounted(c), NEW d \in Calls, Plan(d), Scanned(d),
         c # d => Apart(d, c) /\ Apart(c, d)
  PROVE  Scanned(d)'
<1>1. CASE d = c
  <2>1. todo'[c] = <<>> /\ scans'[c] = {} /\ seen'[c] = NONE
    BY DEF Committed, Shut
  <2>2. InBlock(c)'
    BY <2>1 DEF InBlock
  <2>3. AfterBlock(c)'
    BY <2>1 DEF AfterBlock
  <2>4. SeesScans(c)'
    BY <2>1, NoneSeen
  <2> QED
    BY <1>1, <2>2, <2>3, <2>4 DEF Scanned
<1>2. CASE d # c
  <2>1. /\ put'[d] = put[d] /\ cut'[d] = cut[d] /\ held'[d] = held[d] /\ left'[d] = left[d]
        /\ scans'[d] = scans[d] /\ todo'[d] = todo[d] /\ seen'[d] = seen[d] /\ Cur(d)' = Cur(d)
        /\ job' = job /\ met' = met /\ rows' = (rows \ cut[c]) \union put[c]
    BY <1>2 DEF Committed, VisibleRows, SameCall, SameWrites, SameSession, SameAnswer, SamePlace, Cur
  <2>2. /\ \A u : ScansOf(u)' = ScansOf(u)
        /\ \A u : Alone(d, u)' <=> Alone(d, u)
    BY <2>1, SameAlone DEF ScansOf, Scanners
  <2>3. ASSUME pc[d] = "run"
        PROVE  /\ \A u, found : Cleared(d, u, found) => Cleared(d, u, found)'
               /\ \A u, l : Bears(d, u, l) => Bears(d, u, l)'
    <3>1. \A r \in put[c] : r.source = "scan" => ~Alone(d, r.urn)
      BY <1>2, <2>3, ForeignCommit
    <3>2. ASSUME NEW u, Alone(d, u) PROVE Foreign(d, u)' \subseteq Foreign(d, u)
      BY <2>1, <3>1, <3>2 DEF Foreign
    <3>3. \A u, found : Cleared(d, u, found) => Cleared(d, u, found)'
      BY <2>1, <2>2, <3>2 DEF Cleared
    <3>4. \A u : Kept(d, u)' = Kept(d, u)
      BY <2>1, <2>2 DEF Kept
    <3>5. \A u, l : Bears(d, u, l) => Bears(d, u, l)'
      BY <3>4 DEF Bears, Shows
    <3> QED
      BY <3>3, <3>5
  <2>4. /\ todo[d] # <<>> => pc[d] = "run"
        /\ scans[d] # {} => pc[d] = "run"
    BY DEF Plan, Closed
  <2>5. InBlock(d)'
    <3> SUFFICES ASSUME NEW j \in DOMAIN todo[d], Ends(todo[d], 1, j), Cur(d).op # "remove"
                 PROVE  /\ Cleared(d, todo[d][j].urn, todo[d][j].found)'
                        /\ \A l \in DOMAIN todo[d][j].found :
                             \/ \E k \in 1..(j - 1) : todo[d][k].labels = {l}
                             \/ Bears(d, todo[d][j].urn, l)'
      BY <2>1 DEF InBlock
    <3>. PICK u, found : u = todo[d][j].urn /\ found = todo[d][j].found
      OBVIOUS
    <3>1. /\ Cleared(d, u, found)
          /\ \A l \in DOMAIN found : (\E k \in 1..(j - 1) : todo[d][k].labels = {l}) \/ Bears(d, u, l)
      BY DEF Scanned, InBlock
    <3>2. pc[d] = "run"
      BY <2>4
    <3>3. /\ Cleared(d, u, found)'
          /\ \A l \in DOMAIN found : (\E k \in 1..(j - 1) : todo[d][k].labels = {l}) \/ Bears(d, u, l)'
      BY <2>3, <3>1, <3>2
    <3>4. Cleared(d, todo[d][j].urn, todo[d][j].found)' <=> Cleared(d, u, found)'
      BY <2>1 DEF Cleared, Foreign, Alone, ScansOf
    <3>5. \A l : Bears(d, todo[d][j].urn, l)' <=> Bears(d, u, l)'
      BY <2>1 DEF Bears
    <3> QED
      BY <3>3, <3>4, <3>5
  <2>6. AfterBlock(d)'
    <3> SUFFICES ASSUME NEW s \in scans[d], ~Touches(todo[d], s.urn)
                 PROVE  Cleared(d, s.urn, s.found)' /\ \A l \in DOMAIN s.found : Bears(d, s.urn, l)'
      BY <2>1 DEF AfterBlock
    <3>1. Cleared(d, s.urn, s.found) /\ \A l \in DOMAIN s.found : Bears(d, s.urn, l)
      BY DEF Scanned, AfterBlock
    <3> QED
      BY <2>3, <2>4, <3>1
  <2>7. SeesScans(d)'
    <3>1. Scanners' = Scanners
      BY <2>1 DEF Scanners
    <3>. PICK u, s : u = Cur(d).urn /\ s = Cur(d)
      OBVIOUS
    <3> SUFFICES ASSUME d \in Scanners, todo[d] # <<>>, seen[d] # NONE
                 PROVE  /\ s.op = "remove" =>
                             \A r \in VisibleRows(d)' :
                               /\ Alone(d, u)' \/ r \in put[d]
                               /\ r.urn = u /\ r.source = "scan" /\ r.of = held[d][u]
                               => \E o \in seen[d] : Same(r, o)
                        /\ ScanPut(s) /\ Alone(d, u)' => seen[d] \subseteq put[d]
      BY <2>1, <3>1 DEF SeesScans, Alone, ScansOf
    <3>2. Alone(d, u)' <=> Alone(d, u)
      BY <2>2
    <3>3. ASSUME s.op = "remove", NEW r \in VisibleRows(d)', Alone(d, u) \/ r \in put[d], r.urn = u, r.source = "scan",
                 r.of = held[d][u]
          PROVE  \E o \in seen[d] : Same(r, o)
      <4>1. r \in VisibleRows(d)
        <5>1. r \in put[d] \/ (r \in rows \ cut[d]) \/ r \in put[c]
          BY <2>1, <3>3 DEF VisibleRows
        <5>2. r \in put[c] => ~Alone(d, u) /\ r \notin put[d]
          <6> SUFFICES ASSUME r \in put[c] PROVE ~Alone(d, u) /\ r \notin put[d]
            OBVIOUS
          <6>1. ~Alone(d, r.urn)
            BY <1>2, <2>4, <3>3, ForeignCommit
          <6>2. r \notin put[d]
            BY <1>2 DEF Apart
          <6> QED
            BY <3>3, <6>1, <6>2
        <5> QED
          BY <3>3, <5>1, <5>2 DEF VisibleRows
      <4> QED
        BY <3>3, <4>1 DEF Scanned, SeesScans
    <3>4. ScanPut(s) /\ Alone(d, u) => seen[d] \subseteq put[d]
      BY DEF Scanned, SeesScans
    <3> QED
      BY <3>2, <3>3, <3>4
  <2> QED
    BY <2>5, <2>6, <2>7 DEF Scanned
<1> QED
  BY <1>1, <1>2

(* Whole and Complete.                                                     *)
LEMMA CommitWhole ==
  ASSUME NEW c \in Calls, Committed(c), NEW d \in Calls, Whole(d), Complete(d)
  PROVE  Whole(d)' /\ Complete(d)'
<1>0. job' = job /\ steady'[d] = IF pc[d] = "run" THEN steady[d] \intersect rows' ELSE steady[d]
  BY DEF Committed
<1>1. CASE d # c
  <2>1. SameCall(d)
    BY <1>1 DEF Committed
  <2>2. Whole(d)'
    BY <1>0, <2>1, SameWhole
  <2>3. /\ todo'[d] = todo[d] /\ pc'[d] = pc[d] /\ held'[d] = held[d] /\ answer'[d] = answer[d]
    BY <2>1 DEF SameCall, SamePlace, SameSession, SameAnswer
  <2>4. \A r : (Answered(d, r) \/ ToRead(d, r)) => (Answered(d, r) \/ ToRead(d, r))'
    BY <1>0, <2>3 DEF Answered, ToRead
  <2>5. steady'[d] \subseteq steady[d] /\ (pc[d] = "run" => steady'[d] \subseteq rows')
    BY <1>0
  <2>6. Complete(d)'
    BY <1>0, <2>3, <2>4, <2>5 DEF Complete
  <2> QED
    BY <2>2, <2>6
<1>2. CASE d = c
  <2>1. pc'[c] = "done" /\ todo'[c] = <<>> /\ answer'[c] = answer[c] /\ pc[c] = "run" /\ todo[c] = <<>>
    BY DEF Committed, Shut, SameAnswer
  <2>2. Whole(c)'
    BY <2>1 DEF Whole
  <2>3. \A r : ~ToRead(c, r)
    BY <2>1 DEF ToRead, Reads
  <2>4. \A r : Answered(c, r) => Answered(c, r)'
    BY <2>1 DEF Answered
  <2>5. steady'[c] \subseteq steady[c]
    BY <1>0, <1>2
  <2>6. Complete(c)'
    BY <1>0, <1>2, <2>1, <2>3, <2>4, <2>5 DEF Complete
  <2> QED
    BY <1>2, <2>2, <2>6
<1> QED
  BY <1>1, <1>2

(* The statements of a call that commits are done, its scans with them.    *)
LEMMA CommitTraces ==
  ASSUME NEW c \in Calls, Committed(c), Accounted(c), NEW u, Rescanned(c, u) = {}
  PROVE  /\ \A r \in put[c] : ~ScanRow(r, u)
         /\ ~Detached(c, u) => \A r \in cut[c] : ~ScanRow(r, u)
<1>1. ~Traced(c, u)
  BY DEF Committed, Traced, Touches
<1> QED
  BY <1>1 DEF Accounted, PutAccounted, CutAccounted, ScanRow

(* An earlier scan of an asset the commit is not about still stands.       *)
LEMMA OldScanStands ==
  ASSUME TypeOK, LastScanOk, NEW c \in Calls, Committed(c), Accounted(c), NEW u \in Urns, NEW s \in lastScan[u],
         Rescanned(c, u) = {}, ~Detached(c, u)
  PROVE  /\ pc'[s.by] = "done" /\ s.by \in Calls
         /\ \A l \in DOMAIN s.found : \E r \in rows' \union left'[s.by] : Shows(r, u, l, "scan")
         /\ met[s.by] \intersect ScansOf(u) = {} => ScanLabels(u)' = DOMAIN s.found
<1>1. s.by \in Calls /\ pc[s.by] = "done" /\ s.by # c
  BY DEF TypeOK, LastScanOk, Committed
<1>2. pc'[s.by] = "done" /\ left'[s.by] = left[s.by]
  BY <1>1 DEF Committed, SameCall, SamePlace, SameAnswer
<1>3. \A r : ScanRow(r, u) => (r \in rows' <=> r \in rows)
  BY CommitTraces DEF Committed, VisibleRows
<1>4. ASSUME NEW l \in DOMAIN s.found
      PROVE  \E r \in rows' \union left'[s.by] : Shows(r, u, l, "scan")
  <2>1. PICK r \in rows \union left[s.by] : Shows(r, u, l, "scan")
    BY DEF LastScanOk, LastLabelsStand
  <2>2. ScanRow(r, u)
    BY <2>1 DEF ScanRow, Shows
  <2> QED
    BY <1>2, <1>3, <2>1, <2>2
<1>5. ScanLabels(u)' = ScanLabels(u)
  BY <1>3 DEF ScanLabels, ScanRow
<1> QED
  BY <1>1, <1>2, <1>4, <1>5 DEF LastScanOk, StaleLabelsGo

(* And the scan it brings stands alone.                                    *)
LEMMA NewScanStands ==
  ASSUME TypeOK, TablesConsistent, NEW c \in Calls, Committed(c), Pending(c), Accounted(c), Scanned(c),
         NEW u \in Urns, NEW q \in Rescanned(c, u)
  PROVE  /\ \A l \in DOMAIN q.found : \E r \in rows' \union left'[c] : Shows(r, u, l, "scan")
         /\ Alone(c, u) => ScanLabels(u)' = DOMAIN q.found
         /\ \A o \in Rescanned(c, u) : o = q
<1>1. q \in scans[c] /\ q.urn = u /\ ScanAccounted(c, q)
  BY DEF Rescanned, Accounted
<1>2. Cleared(c, u, q.found) /\ \A l \in DOMAIN q.found : Bears(c, u, l)
  BY <1>1 DEF Scanned, AfterBlock, Committed, Touches
<1>3. rows' = (rows \ cut[c]) \union put[c] /\ left'[c] = left[c]
  BY DEF Committed, VisibleRows, Shut, SameAnswer
<1>4. ASSUME NEW l \in DOMAIN q.found PROVE \E r \in rows' \union left'[c] : Shows(r, u, l, "scan")
  BY <1>2, <1>3 DEF Bears, Kept
<1>5. ASSUME Alone(c, u) PROVE ScanLabels(u)' = DOMAIN q.found
  <2>1. ASSUME NEW r \in rows', r.urn = u, r.source = "scan" PROVE r \in put[c]
    <3> SUFFICES ASSUME r \in rows \ cut[c] PROVE FALSE
      BY <1>3, <2>1
    <3>1. r.of = Asset(c, u)
      BY <2>1, AssetSeen
    <3>2. r \in Foreign(c, u)
      BY <1>1, <2>1, <3>1 DEF Foreign, ScanAccounted
    <3> QED
      BY <1>2, <1>5, <3>2 DEF Cleared
  <2>2. ASSUME NEW r \in rows', r.urn = u, r.source = "scan" PROVE r.label \in DOMAIN q.found
    BY <1>2, <2>1, <2>2 DEF Cleared
  <2>3. ASSUME NEW l \in DOMAIN q.found PROVE \E r \in rows' : r.urn = u /\ r.source = "scan" /\ r.label = l
    BY <1>2, <1>3, <1>5 DEF Bears, Kept, Shows
  <2> QED
    BY <2>2, <2>3 DEF ScanLabels
<1>6. \A o \in Rescanned(c, u) : o = q
  BY <1>1 DEF Rescanned, ScanAccounted
<1> QED
  BY <1>4, <1>5, <1>6

(* The last scans stand, the new and the old.                              *)
LEMMA CommitLastScan ==
  ASSUME TypeOK, TablesConsistent, LastScanOk, NEW c \in Calls, Committed(c), Pending(c), Accounted(c), Scanned(c)
  PROVE  LastScanOk'
<1>1. ASSUME NEW u \in Urns
      PROVE  /\ \A s, o \in lastScan'[u] : o = s
             /\ \A s \in lastScan'[u] :
                  /\ pc'[s.by] = "done"
                  /\ \A l \in DOMAIN s.found : \E r \in rows' \union left'[s.by] : Shows(r, u, l, "scan")
                  /\ met[s.by] \intersect ScansOf(u) = {} => ScanLabels(u)' = DOMAIN s.found
  <2>1. CASE Rescanned(c, u) # {}
    <3>1. PICK q \in Rescanned(c, u) : TRUE
      BY <2>1
    <3>2. /\ \A l \in DOMAIN q.found : \E r \in rows' \union left'[c] : Shows(r, u, l, "scan")
          /\ Alone(c, u) => ScanLabels(u)' = DOMAIN q.found
          /\ \A o \in Rescanned(c, u) : o = q
      BY NewScanStands
    <3>3. lastScan'[u] = {[found |-> q.found, by |-> c]}
      BY <2>1, <3>2 DEF Committed
    <3>4. pc'[c] = "done"
      BY DEF Committed
    <3> QED
      BY <3>2, <3>3, <3>4 DEF Alone
  <2>2. CASE Rescanned(c, u) = {} /\ Detached(c, u)
    BY <2>2 DEF Committed
  <2>3. CASE Rescanned(c, u) = {} /\ ~Detached(c, u)
    <3>1. lastScan'[u] = lastScan[u]
      BY <2>3 DEF Committed
    <3>2. \A s, o \in lastScan[u] : o = s
      BY DEF LastScanOk
    <3> QED
      BY <2>3, <3>1, <3>2, OldScanStands
  <2> QED
    BY <2>1, <2>2, <2>3
<1>2. met' = met /\ \A u : ScansOf(u)' = ScansOf(u)
  BY DEF Committed, ScansOf, Scanners
<1>3. LastLabelsStand'
  BY <1>1 DEF LastLabelsStand, Shows
<1>4. StaleLabelsGo'
  BY <1>1, <1>2 DEF StaleLabelsGo
<1> QED
  BY <1>1, <1>3, <1>4 DEF LastScanOk

(* A commit keeps the invariant.                                           *)
LEMMA CommitInv ==
  ASSUME Inv, NEW c \in Calls, Commit(c)
  PROVE  Inv'
<1>0. TypeOK /\ TablesConsistent /\ LastScanOk
  BY DEF Inv
<1>1. Committed(c) /\ TypeOK'
  BY <1>0, CommitStep, CommitType
<1>2. Plan(c) /\ Pending(c) /\ Accounted(c) /\ PutsHeld(c) /\ Scanned(c) /\ Whole(c) /\ Complete(c)
  BY DEF Inv, Working
<1>3. TablesConsistent'
  BY <1>0, <1>1, <1>2, CommitTables
<1>4. LastScanOk'
  BY <1>0, <1>1, <1>2, CommitLastScan
<1>5. ASSUME NEW d \in Calls PROVE Working(d)'
  <2>1. Plan(d) /\ Pending(d) /\ Accounted(d) /\ PutsHeld(d) /\ Scanned(d) /\ Whole(d) /\ Complete(d)
    BY DEF Inv, Working
  <2>2. c # d => Apart(c, d) /\ Apart(d, c)
    BY DEF Inv
  <2>3. Plan(d)' /\ Whole(d)' /\ Complete(d)'
    BY <1>1, <2>1, CommitPlan, CommitWhole
  <2>4. Accounted(d)' /\ PutsHeld(d)'
    BY <1>0, <1>1, <2>1, <2>2, CommitAccounted
  <2>5. Scanned(d)'
    BY <1>0, <1>1, <1>2, <2>1, <2>2, CommitScanned
  <2>6. Pending(d)'
    <3>1. CASE d = c
      BY <1>1, <3>1, ShutPending DEF Committed
    <3>2. CASE d # c
      BY <1>0, <1>1, <1>2, <2>1, <2>2, <3>2, CommitPending
    <3> QED
      BY <3>1, <3>2
  <2> QED
    BY <2>3, <2>4, <2>5, <2>6 DEF Working
<1>6. \A b, d \in Calls : b # d => Apart(b, d)'
  BY <1>1, CommitApart DEF Inv
<1> QED
  BY <1>1, <1>3, <1>4, <1>5, <1>6 DEF Inv

----------------------------------------------------------------------------
(* The theorems.                                                           *)

(* TypeOK at the start.                                                    *)
LEMMA InitType == Init => TypeOK
<1> SUFFICES ASSUME Init PROVE TypeOK
  OBVIOUS
<1>1. assets \in [Urns -> Ids] /\ rows \subseteq Row
  BY CatalogAssumption DEF Init, Ids
<1>2. job \in [Calls -> Request]
  <2>1. job \in [Calls -> UNION {Jobs[c] : c \in Calls}] /\ \A c \in Calls : job[c] \in Jobs[c]
    BY DEF Init
  <2>2. \A c \in Calls : job[c] \in Request
    BY <2>1, CatalogAssumption
  <2> QED
    BY <2>1, <2>2
<1>3. pc \in [Calls -> {"idle", "run", "done", "failed"}] /\ seen = [c \in Calls |-> seen[c]]
  BY DEF Init
<1>4. todo \in [Calls -> Seq(Statement)] /\ held \in [Calls -> [Urns -> Ids]]
  BY DEF Init, Ids
<1>5. /\ put \in [Calls -> SUBSET Row] /\ cut \in [Calls -> SUBSET Row]
      /\ added \in [Calls -> SUBSET Urns] /\ dropped \in [Calls -> SUBSET Urns]
      /\ touched \in [Calls -> SUBSET Urns] /\ errors \in [Calls -> SUBSET Urns]
      /\ met \in [Calls -> SUBSET Calls]
      /\ steady \in [Calls -> SUBSET Row] /\ left \in [Calls -> SUBSET Row]
      /\ scans \in [Calls -> SUBSET Scan]
      /\ lastScan \in [Urns -> SUBSET [found : Findings \union {<<>>}, by : Calls]]
  BY DEF Init
<1>6. answer \in [Calls -> [Labels -> Nat]]
  BY DEF Init
<1> QED
  BY <1>1, <1>2, <1>3, <1>4, <1>5, <1>6 DEF TypeOK

(* The invariant at the start.                                             *)
LEMMA InitInv == Init => Inv
<1> SUFFICES ASSUME Init PROVE Inv
  OBVIOUS
<1>1. TypeOK
  BY InitType
<1>2. TablesConsistent
  BY CatalogAssumption DEF Init, TablesConsistent
<1>3. LastScanOk
  BY DEF Init, LastScanOk, LastLabelsStand, StaleLabelsGo
<1>4. \A c, d \in Calls : c # d => Apart(c, d)
  BY DEF Init, Apart, Reserved
<1>5. ASSUME NEW c \in Calls PROVE Working(c)
  <2>1. /\ pc[c] = "idle" /\ todo[c] = <<>> /\ seen[c] = NONE /\ put[c] = {} /\ cut[c] = {} /\ added[c] = {}
        /\ dropped[c] = {} /\ touched[c] = {} /\ errors[c] = {} /\ scans[c] = {}
    BY DEF Init
  <2>2. Plan(c)
    BY <2>1, EmptyPlan DEF Plan, Closed, SeenOk
  <2>3. Pending(c) /\ Accounted(c) /\ PutsHeld(c)
    BY <2>1 DEF Pending, Accounted, PutsHeld
  <2>4. Scanned(c)
    BY <2>1 DEF Scanned, InBlock, AfterBlock, SeesScans
  <2>5. Whole(c) /\ Complete(c)
    BY <2>1 DEF Whole, Complete
  <2> QED
    BY <2>2, <2>3, <2>4, <2>5 DEF Working
<1> QED
  BY <1>1, <1>2, <1>3, <1>4, <1>5 DEF Inv

(* And where nothing happens.                                              *)
LEMMA QuietInv == Inv /\ UNCHANGED vars => Inv'
<1> SUFFICES ASSUME Inv, UNCHANGED vars PROVE Inv'
  OBVIOUS
<1>1. SameTables /\ job' = job /\ met' = met /\ \A d \in Calls : SameCall(d)
  BY DEF vars, SameTables, SameCall, SameWrites, SameUrns, SameSession, SameAnswer, SamePlace
<1>2. TypeOK'
  BY DEF Inv, TypeOK, vars
<1>3. TablesConsistent'
  BY <1>1, OwnTables DEF Inv
<1>4. LastScanOk'
  BY <1>1 DEF vars, Inv, LastScanOk, LastLabelsStand, StaleLabelsGo, ScanLabels, ScansOf, Scanners
<1>5. \A d \in Calls : Working(d)'
  BY <1>1, SameWorking DEF Inv
<1>6. \A b, d \in Calls : b # d => Apart(b, d)'
  BY <1>1, SameApart DEF Inv
<1> QED
  BY <1>2, <1>3, <1>4, <1>5, <1>6 DEF Inv

(* Every step keeps it.                                                    *)
LEMMA NextInv == Inv /\ [Next]_vars => Inv'
<1> SUFFICES ASSUME Inv, [Next]_vars PROVE Inv'
  OBVIOUS
<1>1. CASE UNCHANGED vars
  BY <1>1, QuietInv
<1>2. CASE Next
  <2>1. PICK c \in Calls : Begin(c) \/ Commit(c) \/ (Own(c) /\ OwnStep(c) /\ Shaped')
    BY <1>2, Stepping DEF Inv
  <2> QED
    BY <2>1, BeginInv, CommitInv, OwnInv
<1> QED
  BY <1>1, <1>2

(* It always holds.                                                        *)
LEMMA InvHolds == Spec => []Inv
BY InitInv, NextInv, PTL DEF Spec

(* The state of the catalog and of every call stays well typed, in the     *)
(* database and in the sessions.                                           *)
THEOREM CatalogTypeCorrect == Spec => []TypeOK
<1>1. Inv => TypeOK
  BY DEF Inv
<1> QED
  BY <1>1, InvHolds, PTL

(* Whatever runs beside it, a committed scan stands: its labels are on the *)
(* asset, or were found there and left; the earlier scan's are gone if no  *)
(* other scan of the asset was under way; and the tables keep one row per  *)
(* key and no row without its asset (apply_scan and set_classification,    *)
(* under row locks and constraints).                                       *)
THEOREM ScansStand == Spec => []LastScanStands
<1>1. Inv => LastScanStands
  BY DEF Inv, LastScanOk, LastScanStands
<1> QED
  BY <1>1, InvHolds, PTL

(* A resolution, although it is several statements, misses no label that   *)
(* was on a covering asset from its beginning to its end, and a manual     *)
(* confidence is not lost to a scan's (resolve_resource, _merge_labels).   *)
THEOREM ResolutionsAreComplete == Spec => []ResolvedIsComplete
<1>1. Inv => ResolvedIsComplete
  <2> SUFFICES ASSUME Inv, NEW c \in Calls, job[c].kind = "resolve", pc[c] = "done", NEW r \in steady[c],
                      r.urn \in Covering[job[c].urn] \union {job[c].urn}
               PROVE  Answered(c, r)
    BY DEF ResolvedIsComplete, Answered
  <2>1. Complete(c) /\ Closed(c)
    BY DEF Inv, Working, Plan
  <2>2. todo[c] = <<>>
    BY <2>1 DEF Closed
  <2>3. ~ToRead(c, r)
    BY <2>2 DEF ToRead, Reads
  <2> QED
    BY <2>1, <2>3 DEF Complete
<1> QED
  BY <1>1, InvHolds, PTL

(* A call ends by its own commit or its own failure.                       *)
LEMMA EndsByCommit ==
  ASSUME Inv, Next, NEW c \in Calls, pc[c] = "run", pc'[c] = "done"
  PROVE  Committed(c)
<1>1. PICK d \in Calls : Begin(d) \/ Commit(d) \/ (Own(d) /\ OwnStep(d) /\ Shaped')
  BY Stepping DEF Inv
<1>2. TypeOK
  BY DEF Inv
<1>3. CASE Begin(d)
  <2>1. Begun(d)
    BY <1>2, <1>3, BeginStep
  <2> QED
    BY <2>1 DEF Begun
<1>4. CASE Commit(d)
  <2>1. Committed(d)
    BY <1>2, <1>4, CommitStep
  <2>2. d = c
    BY <2>1 DEF Committed, SameCall, SamePlace
  <2> QED
    BY <2>1, <2>2
<1>5. CASE Own(d) /\ OwnStep(d)
  <2>1. CASE d # c
    BY <1>5, <2>1 DEF Own, SameCall, SamePlace
  <2>2. CASE d = c
    <3>1. pc'[d] = "failed" \/ pc'[d] = pc[d]
      BY <1>5 DEF OwnStep, Aborted, SelectedRows, SelectedAsset, Selected, Used, Inserted, WroteRow, LeftRow, Removed,
         Touched, Dropped, Sampled, ReadTheAssets, ReadTheLabels, ReadOn, Advanced
    <3> QED
      BY <2>2, <3>1
  <2> QED
    BY <2>1, <2>2
<1> QED
  BY <1>1, <1>3, <1>4, <1>5

(* A manual row goes by the commit of a call that is about its asset.      *)
LEMMA AssertionsStandStep ==
  ASSUME Inv, Next, NEW r \in Assertions, r \notin Assertions'
  PROVE  \E c \in Calls : /\ pc[c] = "run" /\ pc'[c] = "done"
                          /\ job[c].kind \in {"label", "unlabel", "drop"} /\ job[c].urn = r.urn
<1>1. r \in rows /\ r.source = "manual" /\ r \notin rows'
  BY DEF Assertions
<1>2. PICK d \in Calls : Begin(d) \/ Commit(d) \/ (Own(d) /\ OwnStep(d) /\ Shaped')
  BY Stepping DEF Inv
<1>3. TypeOK
  BY DEF Inv
<1>4. CASE Begin(d)
  <2>1. Begun(d)
    BY <1>3, <1>4, BeginStep
  <2> QED
    BY <1>1, <2>1 DEF Begun
<1>5. CASE Commit(d)
  <2>1. Committed(d)
    BY <1>3, <1>5, CommitStep
  <2>2. r \in cut[d]
    BY <1>1, <2>1 DEF Committed, VisibleRows
  <2>3. CutAccounted(d, r)
    BY <2>2 DEF Inv, Working, Accounted
  <2> QED
    BY <1>1, <2>1, <2>3 DEF Committed, CutAccounted
<1>6. CASE Own(d) /\ OwnStep(d)
  BY <1>1, <1>6 DEF Own, SameTables
<1> QED
  BY <1>2, <1>4, <1>5, <1>6

(* No scan and no discovery run, whatever it runs beside, takes a row that *)
(* was asserted by hand: only a call about that asset does, when it        *)
(* commits.                                                                *)
THEOREM HumansAreHeard == Spec => HumanAssertionsStand
<1> DEFINE Heard ==
      \A r \in Assertions :
        \/ r \in Assertions'
        \/ \E c \in Calls :
             /\ pc[c] = "run" /\ pc'[c] = "done"
             /\ job[c].kind \in {"label", "unlabel", "drop"} /\ job[c].urn = r.urn
<1>1. Inv /\ [Next]_vars => [Heard]_vars
  <2> SUFFICES ASSUME Inv, Next PROVE Heard
    BY DEF vars
  <2> QED
    BY AssertionsStandStep
<1> QED
  BY <1>1, InvHolds, PTL DEF Spec, HumanAssertionsStand

(* What a discovery run has done when it commits.                          *)
LEMMA RunWhole ==
  ASSUME Inv, Next, NEW c \in Calls, job[c].kind = "discover", pc[c] = "run", pc'[c] = "done",
         NEW i \in DOMAIN job[c].assets, NEW a, a = job[c].assets[i]
  PROVE  /\ Wrote(c, a.urn) => assets'[a.urn] # NONE
         /\ \A l \in a.imported : \E r \in rows' \union left[c] : Shows(r, a.urn, l, "imported")
         /\ a.scan /\ a.urn \notin errors[c] => Rescanned(c, a.urn) # {}
<1>1. Committed(c) /\ TypeOK /\ Pending(c) /\ Whole(c)
  BY EndsByCommit DEF Inv, Working
<1>2. todo[c] = <<>> /\ rows' = (rows \ cut[c]) \union put[c]
  BY <1>1 DEF Committed, VisibleRows
<1>3. Absorbed(c, a)
  BY <1>1, <1>2 DEF Whole
<1>4. \A l \in a.imported : \E r \in rows' \union left[c] : Shows(r, a.urn, l, "imported")
  BY <1>2, <1>3 DEF Absorbed, Asserted
<1>5. a.scan /\ a.urn \notin errors[c] => Rescanned(c, a.urn) # {}
  BY <1>2, <1>3 DEF Absorbed, ScanDue, Sampling, Traced, Touches
<1>6. ASSUME Wrote(c, a.urn) PROVE assets'[a.urn] # NONE
  <2>1. a.urn \in Urns
    <3>1. job[c].assets \in Seq(Listing)
      BY <1>1 DEF TypeOK, Request
    <3>2. a \in Listing
      BY <3>1
    <3> QED
      BY <3>2 DEF Listing
  <2>2. Asset(c, a.urn) # NONE
    <3>1. CASE a.urn \in added[c]
      <4>1. dropped[c] = {}
        BY <1>1 DEF Pending
      <4> QED
        BY <3>1, <4>1, CatalogAssumption DEF Asset
    <3>2. CASE a.urn \in touched[c]
      BY <1>1, <3>2 DEF Pending
    <3>3. CASE \E r \in put[c] : r.urn = a.urn
      <4>1. PICK r \in put[c] : r.urn = a.urn
        BY <3>3
      <4>2. r \in Row /\ r.of # NONE
        <5>1. r \in Row
          BY <1>1 DEF TypeOK
        <5> QED
          BY <5>1, RowFacts
      <4> QED
        BY <1>1, <4>1, <4>2 DEF Pending
    <3> QED
      BY <1>6, <3>1, <3>2, <3>3 DEF Wrote
  <2> QED
    BY <1>1, <2>1, <2>2 DEF Committed
<1> QED
  BY <1>4, <1>5, <1>6

(* A discovery run is in the catalog as a whole when it commits: every     *)
(* label the source asserts is written or was found, and every asset       *)
(* without an error has been scanned.                                      *)
THEOREM RunsAreNeverHalved == Spec => RunsAreWhole
<1> DEFINE Everything ==
      \A c \in Calls :
       /\ job[c].kind = "discover" /\ pc[c] = "run" /\ pc'[c] = "done"
       => \A i \in DOMAIN job[c].assets :
            LET a == job[c].assets[i]
            IN  /\ Wrote(c, a.urn) => assets'[a.urn] # NONE
                /\ \A l \in a.imported :
                     \E r \in rows' \union left[c] : Shows(r, a.urn, l, "imported")
                /\ a.scan /\ a.urn \notin errors[c] => Rescanned(c, a.urn) # {}
<1>1. Inv /\ [Next]_vars => [Everything]_vars
  <2> SUFFICES ASSUME Inv, Next PROVE Everything
    BY DEF vars
  <2> QED
    BY RunWhole
<1> QED
  BY <1>1, InvHolds, PTL DEF Spec, RunsAreWhole
============================================================================
