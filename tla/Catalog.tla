------------------------------- MODULE Catalog -------------------------------
(***************************************************************************)
(* The data catalog: CatalogService and DiscoveryService                   *)
(* (control_plane/catalog/service.py, discovery.py) as the handlers of     *)
(* api/v1/catalog.py call them, several requests at a time.                *)
(*                                                                         *)
(* A request is a transaction that runs the statements of its job.  A      *)
(* write is a SELECT and then, in a flush, an INSERT, UPDATE or DELETE of  *)
(* what the SELECT saw.  Reads see what is committed and the transaction's *)
(* own writes (READ COMMITTED); a written row is locked to the end of the  *)
(* transaction.  A flush that fails rolls the transaction back; discovery  *)
(* catches the error, and the run fails with it all the same, since every  *)
(* later statement of its session is refused, the audit record's too.      *)
(*                                                                         *)
(* An asset is known by the call that registered it, a row of              *)
(* asset_classifications by asset, label and source and the call that      *)
(* inserted it.  Confidences are small integers.                           *)
(***************************************************************************)
EXTENDS Integers, FiniteSetsExt, SequencesExt

CONSTANTS Calls, NONE,
          Urns,      \* registrable names, patterns among them
          Covering,  \* urn -> the other urns whose pattern covers it
          Labels,
          Levels,    \* confidences
          Seeded,    \* urns registered at the start
          SeedRows,  \* and their rows
          Jobs       \* call -> the jobs it may have

VARIABLES assets,    \* urn -> who registered it, or NONE: as committed
          rows,      \* asset_classifications, as committed
          job, pc,   \* call -> what it is about, and where it is
          todo,      \* call -> the statements left
          seen,      \* call -> what its last SELECT saw, or NONE before it
          held,      \* call -> urn -> the asset it has loaded, or NONE
          put, cut,  \* call -> rows written and rows deleted, uncommitted
          added, dropped, touched,  \* call -> urns inserted, deleted, updated
          errors,    \* call -> assets for which a discovery run has an error
          answer,    \* call -> label -> confidence, of a resolution
          met,       \* call -> scans that were open at the same time (history)
          steady,    \* resolution -> rows that were there since it began (history)
          left,      \* call -> rows it found as it would write them, and left (history)
          scans,     \* call -> what it has scanned (history)
          lastScan   \* urn -> the last scan committed, as a set of one (history)

tables  == <<assets, rows, lastScan, steady>>
pending == <<put, cut, added, dropped, touched>>
session == <<held, errors, scans>>
vars == <<assets, rows, lastScan, steady, put, cut, added, dropped, touched, job, pc, todo, seen,
          held, errors, answer, met, scans, left>>

----------------------------------------------------------------------------
Precedence == [manual |-> 40, imported |-> 30, scan |-> 20]

Row == [urn : Urns, of : Calls \union {"seed"}, label : Labels, source : DOMAIN Precedence,
        level : Levels, by : Calls \union {"seed"}]

Key(row) == <<row.urn, row.of, row.label, row.source>>
Same(row, other) == Key(row) = Key(other) /\ row.by = other.by

(* What a call may be about.  A scan's findings map labels to the          *)
(* confidence of the best finding that passed the threshold.               *)
Findings == UNION {[found -> Levels] : found \in SUBSET Labels}
Listing  == [urn : Urns, imported : SUBSET Labels, scan : BOOLEAN, found : Findings]
Request  == [kind : {"label", "unlabel", "drop", "scan", "discover", "resolve"},
             urn : Urns, label : Labels, sources : SUBSET DOMAIN Precedence, level : Levels,
             found : Findings, assets : Seq(Listing)]

ASSUME CatalogAssumption ==
  /\ {NONE, "seed"} \intersect Calls = {} /\ NONE # "seed"
  /\ Covering \in [Urns -> SUBSET Urns] /\ IsFiniteSet(Urns) /\ IsFiniteSet(Labels)
  /\ Levels \subseteq Nat \ {0} /\ Levels # {} /\ IsFiniteSet(Levels)
  /\ \A c \in Calls : Jobs[c] \subseteq Request
  /\ Seeded \subseteq Urns /\ SeedRows \subseteq Row
  /\ \A r \in SeedRows : /\ r.urn \in Seeded /\ r.of = "seed"
                         /\ \A o \in SeedRows : Key(o) = Key(r) => o = r

(* Jobs as statements.                                                     *)
Stmt(op, urn) == [op |-> op, urn |-> urn, labels |-> Labels, sources |-> {}, level |-> 0,
                  found |-> <<>>, scan |-> FALSE]
Put(urn, label, source, level) ==
  [Stmt("put", urn) EXCEPT !.labels = {label}, !.sources = {source}, !.level = level]

(* One statement for each member of a set, in the order it is iterated.    *)
ForEach(stmts) == [i \in DOMAIN SetToSeq(DOMAIN stmts) |-> stmts[SetToSeq(DOMAIN stmts)[i]]]

(* Mutant: what no longer appears in the data stays asserted. *)
BugKeepsOldScan(urn, found) ==
  ForEach([l \in DOMAIN found |-> Put(urn, l, "scan", found[l])])
  \o <<[Stmt("touch", urn) EXCEPT !.found = found]>>

(* Mutant: the replacement takes everybody's rows with it. *)
BugClearsAllSources(urn, found) ==
  <<[Stmt("remove", urn) EXCEPT !.sources = DOMAIN Precedence]>> \o BugKeepsOldScan(urn, found)

(* Mutant: the new rows are written first, and go with the old ones. *)
BugClearsLast(urn, found) ==
  ForEach([l \in DOMAIN found |-> Put(urn, l, "scan", found[l])])
  \o <<[Stmt("remove", urn) EXCEPT !.sources = {"scan"}],
       [Stmt("touch", urn) EXCEPT !.found = found]>>

apply_scan(urn, found) ==
  <<[Stmt("remove", urn) EXCEPT !.sources = {"scan"}]>>
  \o ForEach([l \in DOMAIN found |-> Put(urn, l, "scan", found[l])])
  \o <<[Stmt("touch", urn) EXCEPT !.found = found]>>

upsert_asset(asset) ==
  [Stmt("upsert", asset.urn) EXCEPT !.labels = asset.imported, !.scan = asset.scan,
                                    !.found = asset.found]

(* What follows the upsert of a listed asset.                              *)
_absorb(s) ==
  ForEach([l \in s.labels |-> Put(s.urn, l, "imported", Max(Levels))])
  \o IF s.scan THEN <<[Stmt("sample", s.urn) EXCEPT !.found = s.found]>> ELSE <<>>

resolve(urn) ==
  <<Stmt("exact", urn), Stmt("patterns", urn)>>
  \o ForEach([p \in Covering[urn] |-> Stmt("labels", p)]) \o <<Stmt("labels", urn)>>

Program(j) ==
  CASE j.kind = "label"    -> <<Stmt("need", j.urn), Put(j.urn, j.label, "manual", j.level)>>
    [] j.kind = "unlabel"  -> <<Stmt("need", j.urn),
                                [Stmt("remove", j.urn) EXCEPT !.labels = {j.label},
                                                              !.sources = j.sources]>>
    [] j.kind = "drop"     -> <<Stmt("need", j.urn), Stmt("drop", j.urn)>>
    [] j.kind = "scan"     -> <<Stmt("find", j.urn)>> \o apply_scan(j.urn, j.found)
    [] j.kind = "discover" -> [i \in DOMAIN j.assets |-> upsert_asset(j.assets[i])]
    [] j.kind = "resolve"  -> resolve(j.urn)

----------------------------------------------------------------------------
(* What a call sees, and what it has to wait for.                          *)

VisibleRows(c) == (rows \ cut[c]) \union put[c]

Asset(c, urn) ==
  IF urn \in dropped[c] THEN NONE ELSE IF urn \in added[c] THEN c ELSE assets[urn]

Others(c) == Calls \ {c}
RowsFree(c, keys) == \A d \in Others(c) : \A r \in put[d] \union cut[d] : Key(r) \notin keys
AssetFree(c, urn) == \A d \in Others(c) : urn \notin added[d] \union dropped[d] \union touched[d]

(* The foreign key: a row cannot come under an asset that is being         *)
(* deleted, nor an asset go under which a row has come.                    *)
(* Mutant: no constraint. *)
BugNoForeignKey(c, urn) == TRUE

ParentStays(c, urn)  == \A d \in Others(c) : urn \notin dropped[d]
ParentUnused(c, urn) == \A d \in Others(c) : \A r \in put[d] : r.urn = urn => r \in rows

Cur(c)  == Head(todo[c])
Ready(c, ops) == pc[c] = "run" /\ todo[c] # <<>> /\ Cur(c).op \in ops
Looked(c, ops) == Ready(c, ops) /\ seen[c] # NONE

Advance(c) ==
  /\ todo' = [todo EXCEPT ![c] =
        IF Cur(c).op = "upsert" THEN _absorb(Cur(c)) \o Tail(@) ELSE Tail(@)]
  /\ seen' = [seen EXCEPT ![c] = NONE] /\ UNCHANGED pc

----------------------------------------------------------------------------
Init ==
  /\ assets = [u \in Urns |-> IF u \in Seeded THEN "seed" ELSE NONE]
  /\ rows = SeedRows
  /\ job \in {f \in [Calls -> UNION {Jobs[c] : c \in Calls}] : \A c \in Calls : f[c] \in Jobs[c]}
  /\ pc = [c \in Calls |-> "idle"] /\ todo = [c \in Calls |-> <<>>]
  /\ seen = [c \in Calls |-> NONE] /\ held = [c \in Calls |-> [u \in Urns |-> NONE]]
  /\ put = [c \in Calls |-> {}] /\ cut = [c \in Calls |-> {}]
  /\ added = [c \in Calls |-> {}] /\ dropped = [c \in Calls |-> {}]
  /\ touched = [c \in Calls |-> {}]
  /\ errors = [c \in Calls |-> {}]
  /\ answer = [c \in Calls |-> [l \in Labels |-> 0]]
  /\ met = [c \in Calls |-> {}] /\ steady = [c \in Calls |-> {}] /\ left = [c \in Calls |-> {}]
  /\ scans = [c \in Calls |-> {}] /\ lastScan = [u \in Urns |-> {}]

Open     == {c \in Calls : pc[c] = "run"}
Scanners == {c \in Calls : job[c].kind \in {"scan", "discover"}}

Begin(c) ==
  /\ pc[c] = "idle"
  /\ pc' = [pc EXCEPT ![c] = "run"]
  /\ todo' = [todo EXCEPT ![c] = Program(job[c])]
  /\ met' = [d \in Calls |-> CASE d = c -> Scanners \intersect Open
                               [] d \in Open -> met[d] \union (Scanners \intersect {c})
                               [] OTHER -> met[d]]
  /\ steady' = [steady EXCEPT ![c] = IF job[c].kind = "resolve" THEN rows ELSE {}]
  /\ UNCHANGED <<assets, rows, lastScan, pending, job, seen, held, errors, answer, scans, left>>

(* The session is closed. *)
Close(c, how) ==
  /\ pc' = [pc EXCEPT ![c] = how] /\ todo' = [todo EXCEPT ![c] = <<>>]
  /\ seen' = [seen EXCEPT ![c] = NONE] /\ held' = [held EXCEPT ![c] = [u \in Urns |-> NONE]]
  /\ put' = [put EXCEPT ![c] = {}] /\ cut' = [cut EXCEPT ![c] = {}]
  /\ added' = [added EXCEPT ![c] = {}] /\ dropped' = [dropped EXCEPT ![c] = {}]
  /\ touched' = [touched EXCEPT ![c] = {}]
  /\ errors' = [errors EXCEPT ![c] = {}] /\ scans' = [scans EXCEPT ![c] = {}]

(* The transaction is rolled back; so is a discovery run, in the end.      *)
Abort(c) == Close(c, "failed")

(* get_asset, or the rows a write is about. *)
Select(c) ==
  /\ Ready(c, {"need", "find", "upsert", "put", "remove"}) /\ seen[c] = NONE
  /\ LET s == Cur(c)
     IN  IF s.op \in {"put", "remove"}
         THEN /\ seen' = [seen EXCEPT ![c] =
                   {r \in VisibleRows(c) :
                      /\ r.urn = s.urn /\ r.of = held[c][s.urn]
                      /\ r.label \in s.labels /\ r.source \in s.sources}]
              /\ UNCHANGED held
         ELSE /\ held' = [held EXCEPT ![c][s.urn] = Asset(c, s.urn)]
              /\ seen' = [seen EXCEPT ![c] = {Asset(c, s.urn)} \ {NONE}]
  /\ UNCHANGED <<tables, pending, job, pc, todo, errors, answer, met, scans, left>>

(* The asset is there: 404 if it must be and is not; upsert_asset updates  *)
(* its columns.                                                            *)
UseAsset(c) ==
  /\ Looked(c, {"need", "find", "upsert"})
  /\ Cur(c).op = "need" \/ seen[c] # {}
  /\ LET urn == Cur(c).urn
     IN  CASE seen[c] = {} -> Abort(c)
           [] seen[c] # {} /\ Cur(c).op # "upsert" -> Advance(c) /\ UNCHANGED <<pending, session>>
           [] OTHER -> \E changed \in BOOLEAN :
                         /\ changed => AssetFree(c, urn)
                         /\ IF changed /\ Asset(c, urn) # held[c][urn] THEN Abort(c)
                            ELSE /\ touched' = [touched EXCEPT ![c] =
                                      @ \union {u \in {urn} : changed}]
                                 /\ Advance(c)
                                 /\ UNCHANGED <<put, cut, added, dropped, session>>
  /\ UNCHANGED <<tables, job, answer, met, left>>

(* It is not, and is inserted: the urn is unique. *)
InsertAsset(c) ==
  /\ Looked(c, {"find", "upsert"}) /\ seen[c] = {}
  /\ LET urn == Cur(c).urn
     IN  /\ AssetFree(c, urn)
         /\ IF assets[urn] # NONE THEN Abort(c)
            ELSE /\ added' = [added EXCEPT ![c] = @ \union {urn}]
                 /\ held' = [held EXCEPT ![c][urn] = c]
                 /\ Advance(c)
                 /\ UNCHANGED <<put, cut, dropped, touched, errors, scans>>
  /\ UNCHANGED <<tables, job, answer, met, left>>

(* set_classification: UPDATE by primary key of the row it saw, or INSERT  *)
(* where it saw none.                                                      *)
NewRow(c) ==
  [urn |-> Cur(c).urn, of |-> held[c][Cur(c).urn], label |-> CHOOSE l \in Cur(c).labels : TRUE,
   source |-> CHOOSE x \in Cur(c).sources : TRUE, level |-> Cur(c).level,
   by |-> IF seen[c] = {} THEN c ELSE (CHOOSE r \in seen[c] : TRUE).by]

PutRow(c) ==
  /\ Looked(c, {"put"})
  /\ LET row == NewRow(c)
         old == {r \in VisibleRows(c) : Key(r) = Key(row)}
     IN  /\ RowsFree(c, {Key(row)})
         /\ seen[c] = {} => ParentStays(c, row.urn)
         /\ IF \/ seen[c] # {} /\ \A r \in old : ~Same(r, row)
               \/ seen[c] = {} /\ (old # {} \/ Asset(c, row.urn) # held[c][row.urn])
            THEN Abort(c)
            ELSE /\ put' = [put EXCEPT ![c] = (@ \ old) \union {row}]
                 /\ cut' = [cut EXCEPT ![c] = @ \union (old \intersect rows)]
                 /\ Advance(c)
                 /\ UNCHANGED <<added, dropped, touched, session>>
  /\ UNCHANGED <<tables, job, answer, met, left>>

(* A row that already is as it would be written is not, and not locked.    *)
LeaveRow(c) ==
  /\ Looked(c, {"put"}) /\ NewRow(c) \in seen[c]
  /\ left' = [left EXCEPT ![c] = @ \union {NewRow(c)}]
  /\ Advance(c)
  /\ UNCHANGED <<tables, pending, session, job, answer, met>>

(* DELETE of the rows the statement saw, those that are still there; a     *)
(* label to be detached must be.                                           *)
RemoveRows(c) ==
  /\ Looked(c, {"remove"})
  /\ RowsFree(c, {Key(r) : r \in seen[c]})
  /\ LET gone == {r \in VisibleRows(c) : \E o \in seen[c] : Same(r, o)}
     IN  IF gone = {} /\ job[c].kind = "unlabel" THEN Abort(c)
         ELSE /\ put' = [put EXCEPT ![c] = @ \ gone]
              /\ cut' = [cut EXCEPT ![c] = @ \union (gone \intersect rows)]
              /\ Advance(c)
              /\ UNCHANGED <<added, dropped, touched, session>>
  /\ UNCHANGED <<tables, job, answer, met, left>>

(* apply_scan sets last_scanned_at. *)
Touch(c) ==
  /\ Ready(c, {"touch"})
  /\ LET urn == Cur(c).urn
     IN  /\ AssetFree(c, urn)
         /\ IF Asset(c, urn) # held[c][urn] THEN Abort(c)
            ELSE /\ touched' = [touched EXCEPT ![c] = @ \union ({urn} \ added[c])]
                 /\ scans' = [scans EXCEPT ![c] =
                      {s \in @ : s.urn # urn} \union {[urn |-> urn, found |-> Cur(c).found]}]
                 /\ Advance(c)
                 /\ UNCHANGED <<put, cut, added, dropped, held, errors>>
  /\ UNCHANGED <<tables, job, answer, met, left>>

(* delete_asset, its rows with it. *)
DropAsset(c) ==
  /\ Ready(c, {"drop"})
  /\ LET urn  == Cur(c).urn
         mine == {r \in rows : r.urn = urn /\ r.of = held[c][urn]}
     IN  /\ AssetFree(c, urn) /\ ParentUnused(c, urn) /\ RowsFree(c, {Key(r) : r \in mine})
         /\ IF Asset(c, urn) = held[c][urn]
            THEN /\ dropped' = [dropped EXCEPT ![c] = @ \union {urn}]
                 /\ cut' = [cut EXCEPT ![c] = @ \union mine]
            ELSE UNCHANGED <<dropped, cut>>
  /\ Advance(c)
  /\ UNCHANGED <<tables, put, added, touched, job, held, errors, answer, met, scans, left>>

(* Mutant: an adapter's failure is passed over in silence. *)
BugSwallowsError(c) ==
  /\ Ready(c, {"sample"})
  /\ todo' = [todo EXCEPT ![c] = Tail(@)]
  /\ UNCHANGED <<tables, pending, job, pc, seen, session, answer, met, left>>

(* _sample_and_classify: the sample comes, or the adapter fails, which is  *)
(* the asset's error and not the run's.                                    *)
Sample(c) ==
  /\ Ready(c, {"sample"})
  /\ \/ /\ todo' = [todo EXCEPT ![c] = apply_scan(Cur(c).urn, Cur(c).found) \o Tail(@)]
        /\ UNCHANGED errors
     \/ /\ todo' = [todo EXCEPT ![c] = Tail(@)]
        /\ errors' = [errors EXCEPT ![c] = @ \union {Cur(c).urn}]
  /\ UNCHANGED <<tables, pending, job, pc, seen, held, answer, met, scans, left>>

----------------------------------------------------------------------------
(* Resolution: the asset, the patterns that cover it, and then the rows of *)
(* each, every one a statement of its own.                                 *)

ReadAssets(c) ==
  /\ Ready(c, {"exact", "patterns"})
  /\ LET urns == IF Cur(c).op = "exact" THEN {Cur(c).urn} ELSE Covering[Cur(c).urn]
     IN  held' = [held EXCEPT ![c] = [u \in Urns |-> IF u \in urns THEN assets[u] ELSE @[u]]]
  /\ Advance(c)
  /\ UNCHANGED <<tables, pending, job, errors, answer, met, scans, left>>

(* The strongest source's row of a label, the surest of those.             *)
Winner(records) ==
  CHOOSE r \in records : \A o \in records :
    \/ Precedence[r.source] > Precedence[o.source]
    \/ Precedence[r.source] = Precedence[o.source] /\ r.level >= o.level

(* Mutant: the last row read wins, by the order of the query. *)
BugLastRowWins(labels, records) ==
  [l \in Labels |->
     LET mine == {r \in records : r.label = l}
         scan == {r \in mine : r.source = "scan"}
     IN  IF mine = {} THEN labels[l]
         ELSE (CHOOSE r \in IF scan = {} THEN mine ELSE scan : TRUE).level]

_merge_labels(labels, records) ==
  [l \in Labels |->
     LET mine == {r \in records : r.label = l}
     IN  IF mine = {} THEN labels[l] ELSE Max({labels[l], Winner(mine).level})]

ReadLabels(c) ==
  /\ Ready(c, {"labels"})
  /\ LET urn == Cur(c).urn
     IN  answer' = [answer EXCEPT ![c] =
                      _merge_labels(@, {r \in rows : r.urn = urn /\ r.of = held[c][urn]})]
  /\ Advance(c)
  /\ UNCHANGED <<tables, pending, job, held, errors, met, scans, left>>

----------------------------------------------------------------------------
(* The end of a request: the audit record, and the commit.                 *)

Rescanned(c, urn) == {s \in scans[c] : s.urn = urn}

Detached(c, urn) == urn \in dropped[c] \/ (job[c].kind = "unlabel" /\ job[c].urn = urn)

Commit(c) ==
  /\ pc[c] = "run" /\ todo[c] = <<>>
  /\ Close(c, "done")
  /\ rows' = VisibleRows(c)
  /\ assets' = [u \in Urns |-> Asset(c, u)]
  /\ lastScan' = [u \in Urns |->
        IF Rescanned(c, u) # {}
        THEN {[found |-> s.found, by |-> c] : s \in Rescanned(c, u)}
        ELSE IF Detached(c, u) THEN {} ELSE lastScan[u]]
  /\ steady' = [d \in Calls |-> IF pc[d] = "run" THEN steady[d] \intersect rows' ELSE steady[d]]
  /\ UNCHANGED <<job, answer, met, left>>

(* A deadlock, a lost connection, a dead process. *)
Fail(c) ==
  /\ pc[c] = "run" /\ job[c].kind # "resolve"
  /\ Abort(c)
  /\ UNCHANGED <<tables, job, answer, met, left>>

Next ==
  \E c \in Calls :
    \/ Begin(c) \/ Select(c) \/ UseAsset(c) \/ InsertAsset(c) \/ PutRow(c) \/ LeaveRow(c)
    \/ RemoveRows(c) \/ Touch(c) \/ DropAsset(c) \/ Sample(c) \/ ReadAssets(c) \/ ReadLabels(c)
    \/ Commit(c) \/ Fail(c)

Spec == Init /\ [][Next]_vars

----------------------------------------------------------------------------
(* Properties.                                                             *)

Ids == Calls \union {"seed", NONE}

(* What was asserted by hand changes only when a call that is about just   *)
(* that commits: no scan and no discovery touches it, whenever it runs     *)
(* ("Nothing a human asserted is overwritten", discovery.py:20).           *)
Assertions == {r \in rows : r.source = "manual"}
HumanAssertionsStand ==
  [][\A r \in Assertions :
       \/ r \in Assertions'
       \/ \E c \in Calls :
            /\ pc[c] = "run" /\ pc'[c] = "done"
            /\ job[c].kind \in {"label", "unlabel", "drop"} /\ job[c].urn = r.urn]_vars

(* Every label the last committed scan of an asset found is on it, in      *)
(* whatever order two scans' statements fell; unless the scan found that   *)
(* row there already, wrote and locked nothing, and a call that commits    *)
(* between the two took it.                                                *)
Shows(r, u, l, source) == r.urn = u /\ r.label = l /\ r.source = source
LastLabelsStand ==
  \A u \in Urns : \A s \in lastScan[u] : \A l \in DOMAIN s.found :
    \E r \in rows \union left[s.by] : Shows(r, u, l, "scan")

(* And no other label of an earlier one, where no second scan of the asset *)
(* was under way (service.py:264: replaced wholesale).                     *)
ScanLabels(u) == {r.label : r \in {r \in rows : r.urn = u /\ r.source = "scan"}}
ScansOf(u) == {c \in Scanners : job[c].kind = "scan" => job[c].urn = u}
StaleLabelsGo ==
  \A u \in Urns : \A s \in lastScan[u] :
    met[s.by] \intersect ScansOf(u) = {} => ScanLabels(u) = DOMAIN s.found

(* What the schema promises and two sessions could break between them: one *)
(* row per asset, label and source, and no row without its asset.          *)
TablesConsistent ==
  \A r \in rows : r.of = assets[r.urn] /\ \A o \in rows : Key(o) = Key(r) => o = r

(* What scans leave in the tables, whatever runs beside them. *)
LastScanStands == LastLabelsStand /\ StaleLabelsGo /\ TablesConsistent

(* A resolution is not one statement, and misses nothing for it: a label   *)
(* that a covering asset bore all the while is in the answer, and a manual *)
(* row's confidence is not lost to a scan's (service.py:442).              *)
ResolvedIsComplete ==
  \A c \in Calls : job[c].kind = "resolve" /\ pc[c] = "done" =>
    \A r \in steady[c] : r.urn \in Covering[job[c].urn] \union {job[c].urn} =>
      /\ answer[c][r.label] > 0
      /\ r.source = "manual" => answer[c][r.label] >= r.level

(* A discovery run is in the catalog as a whole or not at all, except for  *)
(* what it reports: every asset it listed is registered and bears what the *)
(* source asserts of it when the run commits, and one without an error has *)
(* been scanned.  What it found there already and left as it was, another  *)
(* call may have taken since.                                              *)
Wrote(c, urn) == urn \in added[c] \union touched[c] \/ \E r \in put[c] : r.urn = urn
RunsAreWhole ==
  [][\A c \in Calls :
       /\ job[c].kind = "discover" /\ pc[c] = "run" /\ pc'[c] = "done"
       => \A i \in DOMAIN job[c].assets :
            LET a == job[c].assets[i]
            IN  /\ Wrote(c, a.urn) => assets'[a.urn] # NONE
                /\ \A l \in a.imported :
                     \E r \in rows' \union left[c] : Shows(r, a.urn, l, "imported")
                /\ a.scan /\ a.urn \notin errors[c] => Rescanned(c, a.urn) # {}]_vars
=============================================================================
