--------------------------- MODULE PoliciesProofs ---------------------------
(***************************************************************************)
(* What the module PolicyCache promises of the engine caches, for any      *)
(* number of processes, decisions and writes, any TTL and any bound on a   *)
(* load; and what Administration promises of the stored policy, its        *)
(* history and its trail, of API keys and of locks, for any number of      *)
(* requests and keys, any scopes and any mix of calls; and what Matching   *)
(* promises of match trees, for any documents and requests.                *)
(***************************************************************************)
EXTENDS PolicyCache, Administration, Matching, FiniteSetTheorems, WellFoundedInduction, TLAPS

----------------------------------------------------------------------------
(* The engine caches.                                                      *)

(* A load in flight belongs to a process, is not too old, and what it read *)
(* was the newest set when it read it.                                     *)
LoadsAreRecent ==
  \A r \in Readers : rpc[r] = "loading" =>
    /\ rproc[r] \in Procs
    /\ now - loadedAt[r] <= MaxLoad
    /\ loaded[r] < version => committedAt[loaded[r] + 1] >= loadedAt[r]

(* No engine is kept for longer than the TTL from now, and none outlives   *)
(* its successor's commit by more than the TTL and a load.                 *)
EnginesExpire ==
  \A p \in Procs : cache[p].engine # NONE =>
    /\ cache[p].expires_at <= now + TTL
    /\ cache[p].engine < version =>
         cache[p].expires_at <= committedAt[cache[p].engine + 1] + TTL + MaxLoad

(* The inductive invariant behind StalenessBounded.                        *)
Aging == TypeOK /\ LoadsAreRecent /\ EnginesExpire

(* Until it commits, a write that no load overlaps finds nothing in its    *)
(* process that could bring the old set back; from then on everything      *)
(* there is at least as new as the write.                                  *)
NothingOlder(p, v) ==
  /\ cache[p].engine # NONE => cache[p].engine >= v
  /\ \A r \in Readers : rpc[r] = "loading" /\ rproc[r] = p => loaded[r] >= v

WritesTakeEffect ==
  \A w \in Writers : ~overlapped[w] =>
    /\ wpc[w] \in {"written", "done"} => wproc[w] \in Procs
    /\ wpc[w] = "written" =>
         /\ cache[wproc[w]].engine = NONE
         /\ \A r \in Readers : rpc[r] = "loading" => rproc[r] # wproc[w]
    /\ wpc[w] = "done" => NothingOlder(wproc[w], wrote[w])

----------------------------------------------------------------------------
(* PolicyCache keeps its types.                                            *)
THEOREM CacheTypeCorrect == Spec => []TypeOK
<1>1. Init => TypeOK
  BY TimeAssumption DEF Init, TypeOK, Versions, Empty
<1>2. TypeOK /\ [Next]_vars => TypeOK'
  <2> SUFFICES ASSUME TypeOK, [Next]_vars PROVE TypeOK'
    OBVIOUS
  <2> USE TimeAssumption DEF TypeOK, Versions
  <2>1. ASSUME NEW r \in Readers, NEW p \in Procs, Hit(r, p) PROVE TypeOK'
    BY <2>1 DEF Hit, writerVars
  <2>2. ASSUME NEW r \in Readers, NEW p \in Procs, Load(r, p) PROVE TypeOK'
    BY <2>2 DEF Load
  <2>3. ASSUME NEW r \in Readers, Install(r) PROVE TypeOK'
    <3>1. [engine |-> loaded[r], expires_at |-> Deadline]
            \in [engine : 0 .. version \union {NONE}, expires_at : 0 .. MaxTime + TTL]
      BY DEF Deadline
    <3>2. cache' \in [Procs -> [engine : 0 .. version \union {NONE}, expires_at : 0 .. MaxTime + TTL]]
      BY <2>3, <3>1 DEF Install
    <3> QED
      BY <2>3, <3>2 DEF Install, writerVars
  <2>4. ASSUME NEW w \in Writers, NEW p \in Procs, Write(w, p) PROVE TypeOK'
    BY <2>4 DEF Write, readerVars, invalidate_engine_cache, Empty
  <2>5. ASSUME NEW w \in Writers, Commit(w) PROVE TypeOK'
    BY <2>5 DEF Commit, readerVars
  <2>6. ASSUME NEW w \in Writers, Rollback(w) PROVE TypeOK'
    BY <2>6 DEF Rollback, readerVars
  <2>7. CASE Tick
    BY <2>7 DEF Tick, readerVars, writerVars
  <2>8. CASE UNCHANGED vars
    BY <2>8 DEF vars
  <2> QED
    BY <2>1, <2>2, <2>3, <2>4, <2>5, <2>6, <2>7, <2>8 DEF Next
<1> QED
  BY <1>1, <1>2, PTL DEF Spec

(* Loads and engines stay as young as the invariant says.                  *)
LEMMA AgingHolds == Spec => []Aging
<1>1. Init => LoadsAreRecent /\ EnginesExpire
  BY TimeAssumption DEF Init, LoadsAreRecent, EnginesExpire, Empty
<1>2. TypeOK /\ TypeOK' /\ LoadsAreRecent /\ EnginesExpire /\ [Next]_vars
        => LoadsAreRecent' /\ EnginesExpire'
  <2> SUFFICES ASSUME TypeOK, TypeOK', LoadsAreRecent, EnginesExpire, [Next]_vars
               PROVE LoadsAreRecent' /\ EnginesExpire'
    OBVIOUS
  <2> USE TimeAssumption DEF TypeOK, Versions, LoadsAreRecent, EnginesExpire
  <2>1. ASSUME NEW r \in Readers, NEW p \in Procs, Hit(r, p)
        PROVE LoadsAreRecent' /\ EnginesExpire'
    BY <2>1 DEF Hit
  <2>2. ASSUME NEW r \in Readers, NEW p \in Procs, Load(r, p)
        PROVE LoadsAreRecent' /\ EnginesExpire'
    BY <2>2 DEF Load
  <2>3. ASSUME NEW r \in Readers, Install(r) PROVE LoadsAreRecent' /\ EnginesExpire'
    <3>1. LoadsAreRecent'
      BY <2>3 DEF Install
    <3> DEFINE old == loaded[r]
    <3>2. old \in 0 .. version /\ loadedAt[r] \in 0 .. now /\ now \in Nat /\ now - loadedAt[r] <= MaxLoad
      BY <2>3 DEF Install
    <3>3. old < version => committedAt[old + 1] \in Nat /\ committedAt[old + 1] >= loadedAt[r]
      BY <2>3, <3>2 DEF Install
    <3>4. ASSUME NEW p \in Procs, cache'[p].engine # NONE
          PROVE  /\ cache'[p].expires_at <= now + TTL
                 /\ cache'[p].engine < version =>
                      cache'[p].expires_at <= committedAt[cache'[p].engine + 1] + TTL + MaxLoad
      <4>1. CASE p = rproc[r]
        <5>1. cache'[p].engine = old /\ cache'[p].expires_at = now + TTL
          BY <2>3, <4>1 DEF Install, Deadline
        <5>2. version \in Nat /\ TTL \in Nat /\ MaxLoad \in Nat
          OBVIOUS
        <5> HIDE DEF old, TypeOK, LoadsAreRecent, EnginesExpire
        <5> QED
          BY <5>1, <5>2, <3>2, <3>3
      <4>2. CASE p # rproc[r]
        BY <2>3, <3>4, <4>2 DEF Install
      <4> QED
        BY <4>1, <4>2
    <3>5. UNCHANGED <<version, committedAt, now>>
      BY <2>3 DEF Install
    <3> QED
      BY <3>1, <3>4, <3>5
  <2>4. ASSUME NEW w \in Writers, NEW p \in Procs, Write(w, p)
        PROVE LoadsAreRecent' /\ EnginesExpire'
    BY <2>4 DEF Write, readerVars, invalidate_engine_cache, Empty
  <2>5. ASSUME NEW w \in Writers, Commit(w) PROVE LoadsAreRecent' /\ EnginesExpire'
    <3>1. \A v \in 0 .. version + 1 : committedAt'[v] = IF v <= version THEN committedAt[v] ELSE now
      BY <2>5 DEF Commit
    <3>2. LoadsAreRecent'
      <4> SUFFICES ASSUME NEW r \in Readers, rpc[r] = "loading"
                   PROVE  /\ rproc[r] \in Procs
                          /\ now - loadedAt[r] <= MaxLoad
                          /\ loaded[r] < version + 1 => committedAt'[loaded[r] + 1] >= loadedAt[r]
        BY <2>5 DEF Commit, readerVars
      <4> DEFINE v == loaded[r]
                 t == loadedAt[r]
      <4>1. v \in 0 .. version /\ t \in 0 .. now /\ now \in Nat /\ version \in Nat
        OBVIOUS
      <4>2. /\ rproc[r] \in Procs
            /\ now - t <= MaxLoad
            /\ v < version => committedAt[v + 1] >= t
        OBVIOUS
      <4> HIDE DEF v, t, TypeOK, LoadsAreRecent, EnginesExpire
      <4>3. v + 1 \in 0 .. version + 1
        BY <4>1
      <4>4. v < version + 1 => committedAt'[v + 1] >= t
        <5>1. CASE v < version
          <6>1. committedAt'[v + 1] = committedAt[v + 1]
            BY <3>1, <4>1, <4>3, <5>1
          <6> QED
            BY <4>2, <5>1, <6>1
        <5>2. CASE v = version
          <6>1. committedAt'[v + 1] = now
            BY <3>1, <4>1, <4>3, <5>2
          <6> QED
            BY <4>1, <6>1
        <5> QED
          BY <4>1, <5>1, <5>2
      <4> QED
        BY <4>2, <4>4 DEF v, t
    <3>3. ASSUME NEW p \in Procs, cache[p].engine # NONE
          PROVE  /\ cache[p].expires_at <= now + TTL
                 /\ cache[p].engine < version + 1 =>
                      cache[p].expires_at <= committedAt'[cache[p].engine + 1] + TTL + MaxLoad
      <4> DEFINE e == cache[p].engine
                 d == cache[p].expires_at
      <4>1. e \in 0 .. version /\ d \in Nat /\ now \in Nat /\ version \in Nat
        BY <3>3
      <4>2. TTL \in Nat /\ MaxLoad \in Nat
        OBVIOUS
      <4>3. d <= now + TTL /\ (e < version => d <= committedAt[e + 1] + TTL + MaxLoad)
        BY <3>3
      <4>4. e + 1 \in 0 .. version + 1
        <5> HIDE DEF e, d, TypeOK, LoadsAreRecent, EnginesExpire
        <5> QED
          BY <4>1
      <4> HIDE DEF e, d, TypeOK, EnginesExpire, LoadsAreRecent
      <4>5. e < version + 1 => d <= committedAt'[e + 1] + TTL + MaxLoad
        <5>1. CASE e < version
          <6>1. committedAt'[e + 1] = committedAt[e + 1]
            BY <3>1, <4>1, <4>4, <5>1
          <6> QED
            BY <4>3, <5>1, <6>1
        <5>2. CASE e = version
          <6>1. committedAt'[e + 1] = now
            BY <3>1, <4>1, <4>4, <5>2
          <6> QED
            BY <4>1, <4>2, <4>3, <6>1
        <5> QED
          BY <4>1, <5>1, <5>2
      <4> QED
        BY <4>3, <4>5 DEF e, d
    <3>4. EnginesExpire'
      BY <2>5, <3>3 DEF Commit
    <3> QED
      BY <3>2, <3>4
  <2>6. ASSUME NEW w \in Writers, Rollback(w) PROVE LoadsAreRecent' /\ EnginesExpire'
    BY <2>6 DEF Rollback, readerVars
  <2>7. CASE Tick
    BY <2>7 DEF Tick, readerVars
  <2>8. CASE UNCHANGED vars
    BY <2>8 DEF vars
  <2> QED
    BY <2>1, <2>2, <2>3, <2>4, <2>5, <2>6, <2>7, <2>8 DEF Next
<1> QED
  BY CacheTypeCorrect, <1>1, <1>2, PTL DEF Spec, Aging

(* The TTL and the time a load takes bound how long an edit stays          *)
(* invisible, in every process.                                            *)
THEOREM EditsSurface == Spec => []StalenessBounded
<1>1. Aging => StalenessBounded
  <2> SUFFICES ASSUME Aging, NEW p \in Procs, Warm(p), cache[p].engine < version
               PROVE  now - committedAt[cache[p].engine + 1] < TTL + MaxLoad
    BY DEF StalenessBounded
  <2> DEFINE e == cache[p].engine
             d == cache[p].expires_at
  <2>1. e \in 0 .. version /\ d \in Nat /\ now < d
    BY TimeAssumption DEF Aging, TypeOK, Warm
  <2>2. e + 1 \in 0 .. version /\ version \in Nat
    BY <2>1 DEF Aging, TypeOK, Versions
  <2>3. committedAt[e + 1] \in Nat /\ now \in Nat
    BY <2>2 DEF Aging, TypeOK
  <2>4. d <= committedAt[e + 1] + TTL + MaxLoad
    BY DEF Aging, EnginesExpire, Warm
  <2> HIDE DEF e, d
  <2> QED
    BY <2>1, <2>3, <2>4, TimeAssumption DEF e
<1> QED
  BY AgingHolds, <1>1, PTL

(* A write no load overlapped is seen in its own process at once.          *)
THEOREM WritersSeeTheirWrites == Spec => []OwnWritesVisible
<1>1. Init => WritesTakeEffect
  BY DEF Init, WritesTakeEffect
<1>2. TypeOK /\ TypeOK' /\ WritesTakeEffect /\ [Next]_vars => WritesTakeEffect'
  <2> SUFFICES ASSUME TypeOK, TypeOK', WritesTakeEffect, [Next]_vars PROVE WritesTakeEffect'
    OBVIOUS
  <2> USE TimeAssumption DEF TypeOK, Versions, WritesTakeEffect, NothingOlder, Loading
  <2>1. ASSUME NEW r \in Readers, NEW p \in Procs, Hit(r, p)
        PROVE WritesTakeEffect'
    BY <2>1 DEF Hit, writerVars
  <2>2. ASSUME NEW r \in Readers, NEW p \in Procs, Load(r, p) PROVE WritesTakeEffect'
    <3>1. \A w \in Writers : ~overlapped'[w] => ~overlapped[w] /\ ~(wpc[w] = "written" /\ wproc[w] = p)
      BY <2>2 DEF Load, Uncommitted
    <3>2. \A q \in Readers : rpc'[q] = "loading" =>
            \/ q = r /\ rproc'[q] = p /\ loaded'[q] = version
            \/ rpc[q] = "loading" /\ rproc'[q] = rproc[q] /\ loaded'[q] = loaded[q]
      BY <2>2 DEF Load
    <3>3. UNCHANGED <<cache, wpc, wproc, wrote>>
      BY <2>2 DEF Load
    <3>4. \A w \in Writers : wrote[w] <= version
      OBVIOUS
    <3>5. version \in Nat /\ \A w \in Writers : wrote[w] \in Nat
      OBVIOUS
    <3> HIDE DEF TypeOK
    <3> QED
      BY <3>1, <3>2, <3>3, <3>4, <3>5
  <2>3. ASSUME NEW r \in Readers, Install(r) PROVE WritesTakeEffect'
    <3>1. \A p \in Procs : cache'[p].engine = IF p = rproc[r] THEN loaded[r] ELSE cache[p].engine
      BY <2>3 DEF Install
    <3>2. \A q \in Readers : rpc'[q] = "loading" => rpc[q] = "loading" /\ q # r
      BY <2>3 DEF Install
    <3>3. UNCHANGED <<wpc, wproc, wrote, overlapped, rproc, loaded>> /\ rpc[r] = "loading"
      BY <2>3 DEF Install, writerVars
    <3>4. ASSUME NEW w \in Writers, ~overlapped[w]
          PROVE  /\ wpc[w] = "written" =>
                      /\ cache'[wproc[w]].engine = NONE
                      /\ \A q \in Readers : rpc'[q] = "loading" => rproc[q] # wproc[w]
                 /\ wpc[w] = "done" => NothingOlder(wproc[w], wrote[w])'
      <4> HIDE DEF TypeOK
      <4> QED
        BY <3>1, <3>2, <3>3, <3>4
    <3> QED
      BY <3>3, <3>4
  <2>4. ASSUME NEW v \in Writers, NEW p \in Procs, Write(v, p) PROVE WritesTakeEffect'
    <3>1. \A q \in Procs : cache'[q].engine = IF q = p THEN NONE ELSE cache[q].engine
      BY <2>4 DEF Write, invalidate_engine_cache, Empty
    <3>2. \A w \in Writers : w # v =>
            wpc'[w] = wpc[w] /\ wproc'[w] = wproc[w] /\ overlapped'[w] = overlapped[w]
      BY <2>4 DEF Write
    <3>3. /\ wpc'[v] = "written" /\ wproc'[v] = p
          /\ ~overlapped'[v] => \A r \in Readers : rpc[r] = "loading" => rproc[r] # p
      BY <2>4 DEF Write
    <3>4. UNCHANGED <<rpc, rproc, loaded, wrote>>
      BY <2>4 DEF Write, readerVars
    <3> HIDE DEF TypeOK
    <3> QED
      BY <3>1, <3>2, <3>3, <3>4
  <2>5. ASSUME NEW v \in Writers, Commit(v) PROVE WritesTakeEffect'
    BY <2>5 DEF Commit, readerVars
  <2>6. ASSUME NEW v \in Writers, Rollback(v) PROVE WritesTakeEffect'
    BY <2>6 DEF Rollback, readerVars
  <2>7. CASE Tick
    BY <2>7 DEF Tick, readerVars, writerVars
  <2>8. CASE UNCHANGED vars
    BY <2>8 DEF vars
  <2> QED
    BY <2>1, <2>2, <2>3, <2>4, <2>5, <2>6, <2>7, <2>8 DEF Next
<1>3. TypeOK /\ WritesTakeEffect => OwnWritesVisible
  BY DEF TypeOK, WritesTakeEffect, OwnWritesVisible, NothingOlder, Warm
<1> QED
  BY CacheTypeCorrect, <1>1, <1>2, <1>3, PTL DEF Spec

----------------------------------------------------------------------------
(* The stored policy, API keys and locks.                                  *)

MaybeRow == Rows \union {NOROW}
Callers  == Keys \union {CLI}
Kinds    == {"nothing", "put", "delete"}
KeyRows  == [stored : BOOLEAN, revoked : BOOLEAN, expired : BOOLEAN, legacy : BOOLEAN, used : BOOLEAN]
Notes    == {"", "created", "switched", "updated"}

AdminTypeOK ==
  /\ policy \in MaybeRow
  /\ versions \subseteq [row : Rows, by : Callers, note : Notes]
  /\ keys \in [Keys -> KeyRows]
  /\ trail \in Seq([op : Ops, by : Requests, kind : Kinds, row : MaybeRow])
  /\ ids \in Nat
  /\ at \in [Requests -> {"idle", "authenticate", "read", "flush", "seal", "return",
                          "commit", "done"}]
  /\ call \in [Requests -> Calls \union {NoCall}]
  /\ seen \in [Requests -> MaybeRow]
  /\ write \in [Requests -> [kind : Kinds, row : MaybeRow, note : Notes]]
  /\ dirty \in [Requests -> BOOLEAN]
  /\ held \in [Requests -> SUBSET ({KeyRow(k) : k \in Keys} \union {PolicyRow, Stream})]
  /\ sealed \in [Requests -> Seq([op : Ops, by : Requests, kind : Kinds, row : MaybeRow])]
  /\ answer \in [Requests -> {"none", "ok", "refused", "failed"}]

(* A request that has flushed a write and not yet committed it. *)
Pending(r) == at[r] \in {"seal", "return", "commit"} /\ write[r].kind # "nothing"

(* Each step follows the one before it.                                    *)
StepsInOrder ==
  \A r \in Requests :
    /\ at[r] # "idle" => call[r] \in Calls
    /\ at[r] \in {"idle", "authenticate", "read"} => held[r] = {}
    /\ at[r] \in {"idle", "authenticate", "read", "flush"} => write[r].kind = "nothing"
    /\ at[r] \in {"idle", "authenticate", "read", "flush", "seal"} =>
         sealed[r] = <<>> /\ answer[r] = "none"
    /\ at[r] = "flush" /\ seen[r] = NOROW =>
         ~Deletes(call[r]) /\ call[r].op \notin {"update", "set_enabled"}
    /\ at[r] \in {"return", "commit"} =>
         \/ sealed[r] = <<Event(r)>>
         \/ sealed[r] = <<>> /\ (write[r].kind # "put" \/ call[r].by = CLI)
    /\ call[r].op = "decide" /\ answer[r] = "ok" => r \in decisions

(* A lock has one holder, and a write that is pending holds the policy row. *)
LocksExclude ==
  /\ \A r, q \in Requests : r # q => held[r] \intersect held[q] = {}
  /\ \A r \in Requests : Pending(r) => PolicyRow \in held[r]

(* The rows there have been are older than the ids still to come, and of   *)
(* the stored policy nobody has seen more than is stored.                  *)
NothingNewer ==
  /\ policy # NOROW => policy.id <= ids /\ policy.version >= 1
  /\ \A r \in Requests : seen[r] # NOROW =>
       /\ seen[r].id <= ids
       /\ policy # NOROW /\ seen[r].id = policy.id =>
            /\ seen[r].version <= policy.version
            /\ seen[r].version = policy.version => seen[r].text = policy.text
  /\ \A i \in 1 .. Len(trail) : trail[i].kind = "put" =>
       /\ trail[i].row \in Rows
       /\ trail[i].row.id <= ids
       /\ policy # NOROW /\ trail[i].row.id = policy.id => trail[i].row.version <= policy.version

(* What a pending write will find when it commits: a create no policy, and *)
(* no trace of its id; an update the version before its own.               *)
Creates(r) ==
  /\ policy = NOROW
  /\ write[r].row.id = ids /\ write[r].row.version = 1
  /\ \A q \in Requests : seen[q] # NOROW => seen[q].id < ids
  /\ \A i \in 1 .. Len(trail) : trail[i].kind = "put" => trail[i].row.id < ids

Updates(r) ==
  /\ policy # NOROW
  /\ write[r].row.id = policy.id /\ write[r].row.version = policy.version + 1
  /\ write[r].note = "switched" => write[r].row.text = policy.text

WritesFit ==
  \A r \in Requests : Pending(r) =>
    /\ write[r].row \in Rows
    /\ write[r].kind = "put" => IF write[r].note = "created" THEN Creates(r) ELSE Updates(r)

(* The stored history, without counting. *)
Linear ==
  /\ policy = NOROW => versions = {}
  /\ policy # NOROW =>
       /\ \A v \in versions : v.row.id = policy.id /\ v.row.version \in 1 .. policy.version
       /\ \A v, w \in versions : v.row.version = w.row.version => v = w
       /\ \A n \in 1 .. policy.version : \E v \in versions : v.row.version = n
       /\ \E v \in versions : v.row = policy
       /\ \A v, w \in versions :
            w.note = "switched" /\ w.row.version = v.row.version + 1 => w.row.text = v.row.text

(* The inductive invariant.                                                *)
Ordered ==
  /\ AdminTypeOK
  /\ StepsInOrder
  /\ LocksExclude
  /\ NothingNewer
  /\ WritesFit
  /\ Linear
  /\ TrailFollowsHistory

----------------------------------------------------------------------------
(* A step of a request that is not its commit. *)
Quiet(r) ==
  \/ Arrive(r) \/ Authenticate(r) \/ Reject(r) \/ Read(r) \/ Refuse(r)
  \/ Lock(r) \/ Flush(r) \/ Seal(r) \/ Return(r) \/ Fail(r)

LEMMA StepKinds ==
  ASSUME [AdminNext]_adminVars
  PROVE  \/ UNCHANGED adminVars
         \/ \E k \in Keys : Expire(k)
         \/ \E r \in Requests : CommitRequest(r) \/ Quiet(r)
BY DEF AdminNext, Quiet

(* What a request flushes has the shape of a write. *)
LEMMA WrittenType ==
  ASSUME AdminTypeOK, NEW r \in Requests, call[r] \in Calls
  PROVE  /\ Written(r) \in [kind : Kinds, row : MaybeRow, note : Notes]
         /\ Written(r).kind = "put" => Written(r).row \in Rows
<1> DEFINE c == call[r]
<1>1. c.text \in Texts /\ c.on \in BOOLEAN
  BY CallsAssumption
<1>2. Edited(c, seen[r], ids + 1) \in Rows
  <2>1. CASE seen[r] = NOROW
    BY <1>1, <2>1 DEF Edited, Row, Rows, AdminTypeOK
  <2>2. CASE seen[r] \in Rows
    <3>1. /\ seen[r] # NOROW /\ seen[r].id \in Nat /\ seen[r].version + 1 \in Nat
          /\ seen[r].text \in Texts
      BY <2>2, RowsAssumption DEF Rows
    <3> HIDE DEF c
    <3> QED
      BY <1>1, <3>1 DEF Edited, Row, Rows
  <2> QED
    BY <2>1, <2>2 DEF AdminTypeOK, MaybeRow
<1>3. Nothing \in [kind : Kinds, row : MaybeRow, note : Notes]
  BY DEF Nothing, Kinds, MaybeRow, Notes
<1>4. [kind |-> "delete", row |-> seen[r], note |-> ""] \in [kind : Kinds, row : MaybeRow, note : Notes]
  BY DEF AdminTypeOK, Kinds, Notes
<1>5. [kind |-> "put", row |-> Edited(c, seen[r], ids + 1), note |-> Note(c, seen[r])]
        \in [kind : Kinds, row : MaybeRow, note : Notes]
  BY <1>2 DEF Note, Kinds, MaybeRow, Notes
<1> HIDE DEF c
<1> QED
  BY <1>2, <1>3, <1>4, <1>5 DEF Written, Nothing, c

(* No step of a request but a commit breaks the types. *)
LEMMA QuietTypes ==
  ASSUME Ordered, NEW r \in Requests, Quiet(r)
  PROVE  AdminTypeOK'
<1> USE DEF Ordered, AdminTypeOK, tables, Finish
<1>1. CASE Arrive(r)
  <2>1. call' \in [Requests -> Calls \union {NoCall}]
    BY <1>1 DEF Arrive
  <2>2. at' \in [Requests -> {"idle", "authenticate", "read", "flush", "seal", "return",
                             "commit", "done"}]
    BY <1>1 DEF Arrive
  <2> QED
    BY <1>1, <2>1, <2>2 DEF Arrive
<1>2. CASE Authenticate(r)
  BY <1>2 DEF Authenticate
<1>3. CASE Reject(r)
  BY <1>3 DEF Reject
<1>4. CASE Read(r)
  <2>1. seen' \in [Requests -> MaybeRow]
    BY <1>4 DEF Read, MaybeRow
  <2>2. at' \in [Requests -> {"idle", "authenticate", "read", "flush", "seal", "return",
                             "commit", "done"}]
    BY <1>4 DEF Read, AfterRead
  <2> QED
    BY <1>4, <2>1, <2>2 DEF Read
<1>5. CASE Refuse(r)
  BY <1>5 DEF Refuse
<1>6. CASE Lock(r)
  <2>1. Wants(r) \subseteq {KeyRow(k) : k \in Keys} \union {PolicyRow, Stream}
    BY DEF Wants, Unlocked
  <2> QED
    BY <1>6, <2>1 DEF Lock
<1>7. CASE Flush(r)
  <2>1. Written(r) \in [kind : Kinds, row : MaybeRow, note : Notes]
    BY <1>7, WrittenType DEF Flush, StepsInOrder
  <2>2. write' \in [Requests -> [kind : Kinds, row : MaybeRow, note : Notes]]
    BY <1>7, <2>1 DEF Flush
  <2>3. ids' \in Nat
    BY <1>7 DEF Flush
  <2>4. at' \in [Requests -> {"idle", "authenticate", "read", "flush", "seal", "return",
                             "commit", "done"}]
    BY <1>7 DEF Flush
  <2> QED
    BY <1>7, <2>2, <2>3, <2>4 DEF Flush
<1>8. CASE Seal(r)
  <2>1. Event(r) \in [op : Ops, by : Requests, kind : Kinds, row : MaybeRow]
    BY <1>8, CallsAssumption DEF Seal, Event, StepsInOrder
  <2>2. sealed' \in [Requests -> Seq([op : Ops, by : Requests, kind : Kinds, row : MaybeRow])]
    <3> DEFINE E == [op : Ops, by : Requests, kind : Kinds, row : MaybeRow]
    <3>1. sealed \in [Requests -> Seq(E)] /\ Event(r) \in E
      BY <2>1
    <3>2. sealed' = [sealed EXCEPT ![r] = Append(@, Event(r))]
      BY <1>8 DEF Seal
    <3> HIDE DEF E, AdminTypeOK, Ordered
    <3>3. Append(sealed[r], Event(r)) \in Seq(E)
      BY <3>1
    <3> QED
      BY <3>1, <3>2, <3>3 DEF E
  <2> QED
    BY <1>8, <2>2 DEF Seal
<1>9. CASE Return(r)
  BY <1>9 DEF Return
<1>10. CASE Fail(r)
  BY <1>10 DEF Fail
<1> QED
  BY <1>1, <1>2, <1>3, <1>4, <1>5, <1>6, <1>7, <1>8, <1>9, <1>10 DEF Quiet

(* Each step follows the one before it.                                    *)
LEMMA QuietOrder ==
  ASSUME Ordered, NEW r \in Requests, Quiet(r)
  PROVE  StepsInOrder'
<1> USE DEF Ordered, AdminTypeOK, tables, Finish, StepsInOrder, Event
<1>1. CASE Arrive(r)
  BY <1>1 DEF Arrive
<1>2. CASE Authenticate(r)
  BY <1>2 DEF Authenticate
<1>3. CASE Reject(r)
  BY <1>3 DEF Reject
<1>4. CASE Read(r)
  BY <1>4 DEF Read, AfterRead, Idle, Refuses, Deletes, WritesPolicy
<1>5. CASE Refuse(r)
  BY <1>5 DEF Refuse
<1>6. CASE Lock(r)
  BY <1>6 DEF Lock, Wants
<1>7. CASE Flush(r)
  BY <1>7 DEF Flush
<1>8. CASE Seal(r)
  <2>1. sealed[r] = <<>> /\ sealed' = [sealed EXCEPT ![r] = Append(sealed[r], Event(r))]
    BY <1>8 DEF Seal
  <2> HIDE DEF Event
  <2>2. sealed'[r] = <<Event(r)>> /\ \A q \in Requests \ {r} : sealed'[q] = sealed[q]
    BY <2>1
  <2>3. \A q \in Requests : Event(q)' = Event(q)
    BY <1>8 DEF Seal, Event
  <2> QED
    BY <1>8, <2>2, <2>3 DEF Seal
<1>9. CASE Return(r)
  BY <1>9 DEF Return, CommitsFirst
<1>10. CASE Fail(r)
  BY <1>10 DEF Fail
<1> QED
  BY <1>1, <1>2, <1>3, <1>4, <1>5, <1>6, <1>7, <1>8, <1>9, <1>10 DEF Quiet

(* Whoever flushes a write of the policy has locked its row.               *)
LEMMA FlushIsLocked ==
  ASSUME NEW r \in Requests, Flush(r), Written(r).kind # "nothing"
  PROVE  PolicyRow \in held[r]
<1>1. WritesPolicy(call[r])
  BY DEF Written, Nothing
<1> QED
  BY <1>1 DEF Flush, Wants

(* A lock is taken where nobody holds it, and a pending write keeps its.   *)
LEMMA QuietLocks ==
  ASSUME Ordered, NEW r \in Requests, Quiet(r)
  PROVE  LocksExclude'
<1> DEFINE Apart == \A p, q \in Requests : p # q => held[p] \intersect held[q] = {}
<1> USE DEF Ordered, AdminTypeOK, Finish
<1>1. CASE Lock(r)
  <2>1. \A q \in Requests \ {r} : Wants(r) \intersect held[q] = {}
    BY <1>1 DEF Lock, Waits
  <2>2. /\ held'[r] = held[r] \union Wants(r)
        /\ \A q \in Requests \ {r} : held'[q] = held[q]
        /\ UNCHANGED <<at, write>>
    BY <1>1 DEF Lock
  <2> HIDE DEF AdminTypeOK
  <2> QED
    BY <2>1, <2>2 DEF LocksExclude, Pending
<1>2. CASE Flush(r)
  <2>1. UNCHANGED held /\ \A q \in Requests \ {r} : at'[q] = at[q] /\ write'[q] = write[q]
    BY <1>2 DEF Flush
  <2>2. write'[r] = Written(r)
    BY <1>2 DEF Flush
  <2> QED
    BY <1>2, <2>1, <2>2, FlushIsLocked DEF LocksExclude, Pending
<1>3. CASE ~Lock(r) /\ ~Flush(r)
  <2>1. /\ UNCHANGED write
        /\ \A q \in Requests : held'[q] = held[q] \/ (held'[q] = {} /\ at'[q] = "done")
        /\ \A q \in Requests : Pending(q)' => Pending(q)
    <3> USE DEF Pending, StepsInOrder
    <3>1. CASE Arrive(r)
      BY <3>1 DEF Arrive
    <3>2. CASE Authenticate(r)
      BY <3>2 DEF Authenticate
    <3>3. CASE Reject(r)
      BY <3>3 DEF Reject
    <3>4. CASE Read(r)
      BY <3>4 DEF Read
    <3>5. CASE Refuse(r)
      BY <3>5 DEF Refuse
    <3>6. CASE Seal(r)
      BY <3>6 DEF Seal
    <3>7. CASE Return(r)
      BY <3>7 DEF Return
    <3>8. CASE Fail(r)
      BY <3>8 DEF Fail
    <3> QED
      BY <1>3, <3>1, <3>2, <3>3, <3>4, <3>5, <3>6, <3>7, <3>8 DEF Quiet
  <2> HIDE DEF AdminTypeOK
  <2> QED
    BY <2>1 DEF LocksExclude, Pending
<1> QED
  BY <1>1, <1>2, <1>3

(* What is stored, and what is on the trail, changes at commits only.      *)
LEMMA QuietTables ==
  ASSUME NEW r \in Requests, Quiet(r)
  PROVE  UNCHANGED <<policy, versions, keys, decisions, trail>>
BY DEF Quiet, Arrive, Authenticate, Reject, Read, Refuse, Lock, Flush, Seal, Return, Fail, Finish, tables

(* Only Read sees, and only Flush writes.                                  *)
LEMMA QuietRows ==
  ASSUME Ordered, NEW r \in Requests, Quiet(r), ~Read(r), ~Flush(r)
  PROVE  UNCHANGED <<ids, seen, write>> /\ \A q \in Requests : Pending(q)' => Pending(q)
<1> USE DEF Ordered, AdminTypeOK, Finish, StepsInOrder, Pending, tables
<1>1. CASE Arrive(r)
  BY <1>1 DEF Arrive
<1>2. CASE Authenticate(r)
  BY <1>2 DEF Authenticate
<1>3. CASE Reject(r)
  BY <1>3 DEF Reject
<1>4. CASE Refuse(r)
  BY <1>4 DEF Refuse
<1>5. CASE Lock(r)
  BY <1>5 DEF Lock
<1>6. CASE Seal(r)
  BY <1>6 DEF Seal
<1>7. CASE Return(r)
  BY <1>7 DEF Return
<1>8. CASE Fail(r)
  BY <1>8 DEF Fail
<1> QED
  BY <1>1, <1>2, <1>3, <1>4, <1>5, <1>6, <1>7, <1>8 DEF Quiet

(* What a request reads is what is stored.                                 *)
LEMMA ReadNumbers ==
  ASSUME Ordered, NEW r \in Requests, Read(r)
  PROVE  NothingNewer' /\ WritesFit'
<1>1. UNCHANGED <<policy, trail, ids, write>>
  BY DEF Read, tables
<1>2. /\ seen'[r] = policy \/ seen'[r] = NOROW
      /\ \A q \in Requests \ {r} : seen'[q] = seen[q]
  BY DEF Read, Ordered, AdminTypeOK
<1>3. \A q \in Requests : Pending(q)' => Pending(q)
  BY DEF Read, Pending, Ordered, AdminTypeOK, StepsInOrder
<1>4. policy # NOROW => policy.id \in Nat /\ policy.version \in Nat /\ ids \in Nat
  BY DEF Ordered, AdminTypeOK, MaybeRow, Rows
<1>5. NothingNewer'
  BY <1>1, <1>2, <1>4 DEF Ordered, NothingNewer
<1>6. WritesFit'
  BY <1>1, <1>2, <1>3 DEF Ordered, WritesFit, Creates, Updates
<1> QED
  BY <1>5, <1>6

(* A flush takes the next id, or the version after the stored one.         *)
LEMMA FlushNumbers ==
  ASSUME Ordered, NEW r \in Requests, Flush(r)
  PROVE  NothingNewer' /\ WritesFit'
<1> DEFINE w == Written(r)
<1> USE DEF Ordered
<1>1. /\ UNCHANGED <<policy, trail, seen>>
      /\ ids' = IF w.note = "created" THEN ids + 1 ELSE ids
      /\ write'[r] = w
      /\ \A q \in Requests \ {r} : write'[q] = write[q] /\ at'[q] = at[q]
  BY DEF Flush, AdminTypeOK
<1>2. call[r] \in Calls
  BY DEF Flush, StepsInOrder
<1>3. /\ w \in [kind : Kinds, row : MaybeRow, note : Notes]
      /\ w.kind = "put" => w.row \in Rows
  BY <1>2, WrittenType
<1>4. ids \in Nat /\ policy \in MaybeRow /\ \A q \in Requests : seen[q] \in MaybeRow
  BY DEF AdminTypeOK
<1>5. \A i \in 1 .. Len(trail) : trail[i].kind = "put" => trail[i].row \in Rows
  BY DEF NothingNewer
<1>6. \A x \in Rows : x.id \in Nat /\ x.version \in Nat
  BY DEF Rows
<1> HIDE DEF w
<1>7. NothingNewer'
  BY <1>1, <1>4, <1>5, <1>6 DEF NothingNewer, MaybeRow
<1>8. ASSUME NEW q \in Requests, q # r, Pending(q)'
      PROVE  /\ write'[q].row \in Rows
             /\ write'[q].kind = "put" => IF write'[q].note = "created" THEN Creates(q)' ELSE Updates(q)'
  <2>1. Pending(q)
    BY <1>1, <1>8 DEF Pending
  <2>2. PolicyRow \in held[q]
    BY <2>1 DEF LocksExclude
  <2>3. PolicyRow \notin held[r]
    BY <1>8, <2>2 DEF LocksExclude
  <2>4. w.kind = "nothing"
    BY <2>3, FlushIsLocked DEF w
  <2>5. w.note # "created"
    BY <2>4 DEF w, Written, Nothing
  <2>6. ids' = ids
    BY <1>1, <2>5
  <2> QED
    BY <1>1, <1>8, <2>1, <2>6 DEF WritesFit, Creates, Updates
<1>9. ASSUME w.kind # "nothing" PROVE w.row \in Rows
  <2>1. CASE w.kind = "put"
    BY <1>3, <2>1
  <2>2. CASE w.kind # "put"
    <3>1. Deletes(call[r]) /\ w.row = seen[r]
      BY <1>9, <2>2 DEF w, Written, Nothing
    <3>2. seen[r] # NOROW
      BY <3>1 DEF Flush, StepsInOrder
    <3> QED
      BY <1>4, <3>1, <3>2 DEF MaybeRow
  <2> QED
    BY <2>1, <2>2
<1>10. ASSUME w.kind = "put", w.note = "created" PROVE Creates(r)'
  <2>1. policy = NOROW
    BY <1>10 DEF Flush, Accepted, w
  <2>2. w.row.id = ids + 1 /\ w.row.version = 1
    BY <1>10 DEF w, Written, Note, Edited, Row, Nothing
  <2>3. \A q \in Requests : seen[q] # NOROW => seen[q].id < ids + 1
    BY <1>4, <1>6 DEF NothingNewer, MaybeRow
  <2>4. \A i \in 1 .. Len(trail) : trail[i].kind = "put" => trail[i].row.id < ids + 1
    BY <1>4, <1>5, <1>6 DEF NothingNewer
  <2> QED
    BY <1>1, <1>10, <2>1, <2>2, <2>3, <2>4 DEF Creates
<1>11. ASSUME w.kind = "put", w.note # "created" PROVE Updates(r)'
  <2>1. /\ policy # NOROW /\ policy.id = w.row.id
        /\ \A v \in versions : v.row.version # w.row.version
    BY <1>11 DEF Flush, Accepted, w
  <2>2. /\ seen[r] # NOROW
        /\ w.row.id = seen[r].id /\ w.row.version = seen[r].version + 1
        /\ w.note = "switched" => w.row.text = seen[r].text
    BY <1>11 DEF w, Written, Note, Edited, Row, Nothing
  <2>3. seen[r].version \in Nat /\ policy.version \in Nat
    BY <1>4, <1>6, <2>1, <2>2 DEF MaybeRow
  <2>4. /\ seen[r].version <= policy.version
        /\ seen[r].version = policy.version => seen[r].text = policy.text
    BY <2>1, <2>2 DEF NothingNewer
  <2>5. \A n \in 1 .. policy.version : n # w.row.version
    BY <2>1 DEF Linear
  <2>6. seen[r].version = policy.version
    BY <2>2, <2>3, <2>4, <2>5
  <2> QED
    BY <1>1, <2>1, <2>2, <2>4, <2>6 DEF Updates
<1>12. ASSUME Pending(r)'
       PROVE  /\ write'[r].row \in Rows
              /\ write'[r].kind = "put" => IF write'[r].note = "created" THEN Creates(r)' ELSE Updates(r)'
  <2>1. w.kind # "nothing"
    BY <1>1, <1>12 DEF Pending
  <2> QED
    BY <1>1, <1>9, <1>10, <1>11, <2>1
<1>13. WritesFit'
  BY <1>8, <1>12, Zenon DEF WritesFit
<1> QED
  BY <1>7, <1>13

(* No step but a commit breaks the invariant.                              *)
LEMMA QuietOrdered ==
  ASSUME Ordered, NEW r \in Requests, Quiet(r)
  PROVE  Ordered'
<1>1. AdminTypeOK' /\ StepsInOrder' /\ LocksExclude'
  BY QuietTypes, QuietOrder, QuietLocks
<1>2. UNCHANGED <<policy, versions, trail>>
  BY QuietTables
<1>3. Linear' /\ TrailFollowsHistory'
  BY <1>2 DEF Ordered, Linear, TrailFollowsHistory, Edits
<1>4. NothingNewer' /\ WritesFit'
  <2>1. CASE Read(r)
    BY <2>1, ReadNumbers
  <2>2. CASE Flush(r)
    BY <2>2, FlushNumbers
  <2>3. CASE ~Read(r) /\ ~Flush(r)
    <3>1. UNCHANGED <<ids, seen, write>> /\ \A q \in Requests : Pending(q)' => Pending(q)
      BY <2>3, QuietRows
    <3>2. NothingNewer'
      BY <1>2, <3>1 DEF Ordered, NothingNewer
    <3>3. WritesFit'
      BY <1>2, <3>1 DEF Ordered, WritesFit, Creates, Updates
    <3> QED
      BY <3>2, <3>3
  <2> QED
    BY <2>1, <2>2, <2>3
<1> QED
  BY <1>1, <1>3, <1>4 DEF Ordered

----------------------------------------------------------------------------
(* The commit of a request.                                                *)

(* What a commit leaves of a key, column by column.                        *)
LEMMA KeyWritten ==
  ASSUME AdminTypeOK, NEW r \in Requests, NEW k \in Keys
  PROVE  /\ UpdatedKey(r, k) \in KeyRows
         /\ keys[k].revoked => UpdatedKey(r, k).revoked
         /\ ~keys[k].legacy => ~UpdatedKey(r, k).legacy
<1>1. keys[k] \in KeyRows
  BY DEF AdminTypeOK
<1> QED
  BY <1>1 DEF UpdatedKey, KeyRows

LEMMA CommitTypes ==
  ASSUME Ordered, NEW r \in Requests, CommitRequest(r)
  PROVE  AdminTypeOK'
<1> USE DEF Ordered, AdminTypeOK, Finish
<1>1. write[r].kind = "put" \/ write[r].kind = "delete" => write[r].row \in Rows
  BY DEF CommitRequest, WritesFit, Pending
<1>2. policy' \in MaybeRow
  BY <1>1 DEF CommitRequest, Changed, MaybeRow
<1>3. call[r].by \in Callers
  BY CallsAssumption DEF CommitRequest, StepsInOrder, Callers
<1>4. [row |-> write[r].row, by |-> call[r].by, note |-> write[r].note] \in
        [row : MaybeRow, by : Callers, note : Notes]
  BY <1>3
<1>5. versions' \subseteq [row : Rows, by : Callers, note : Notes]
  <2>1. CASE write[r].kind = "put"
    <3>1. versions' = versions \union {[row |-> write[r].row, by |-> call[r].by, note |-> write[r].note]}
      BY <2>1 DEF CommitRequest, History
    <3>2. [row |-> write[r].row, by |-> call[r].by, note |-> write[r].note]
            \in [row : Rows, by : Callers, note : Notes]
      BY <1>1, <1>3, <2>1
    <3> QED
      BY <3>1, <3>2
  <2>2. CASE write[r].kind # "put"
    BY <2>2 DEF CommitRequest, History
  <2> QED
    BY <2>1, <2>2
<1>6. keys' \in [Keys -> KeyRows]
  BY KeyWritten DEF CommitRequest
<1>7. trail' \in Seq([op : Ops, by : Requests, kind : Kinds, row : MaybeRow])
  <2> DEFINE E == [op : Ops, by : Requests, kind : Kinds, row : MaybeRow]
  <2>1. trail \in Seq(E) /\ sealed[r] \in Seq(E) /\ trail' = trail \o sealed[r]
    BY DEF CommitRequest
  <2> HIDE DEF E, AdminTypeOK
  <2>2. trail' \in Seq(E)
    BY <2>1
  <2> QED
    BY <2>2 DEF E
<1>8. /\ at' = [at EXCEPT ![r] = "done"] /\ held' = [held EXCEPT ![r] = {}]
      /\ dirty' = [dirty EXCEPT ![r] = FALSE]
      /\ answer' = [answer EXCEPT ![r] = IF @ = "none" THEN "ok" ELSE @]
      /\ UNCHANGED <<ids, call, seen, write, sealed>>
  BY DEF CommitRequest
<1>9. answer' \in [Requests -> {"none", "ok", "refused", "failed"}]
  BY <1>8
<1> QED
  BY <1>2, <1>5, <1>6, <1>7, <1>8, <1>9

LEMMA CommitOrder ==
  ASSUME Ordered, NEW r \in Requests, CommitRequest(r)
  PROVE  StepsInOrder' /\ LocksExclude'
<1> USE DEF Ordered, AdminTypeOK
<1>1. /\ at[r] = "commit"
      /\ at' = [at EXCEPT ![r] = "done"] /\ held' = [held EXCEPT ![r] = {}]
      /\ answer' = [answer EXCEPT ![r] = IF @ = "none" THEN "ok" ELSE @]
      /\ UNCHANGED <<ids, call, seen, write, sealed>>
      /\ decisions' = IF call[r].op = "decide" THEN decisions \union {r} ELSE decisions
  BY DEF CommitRequest, Finish
<1>2. \A q \in Requests : Event(q)' = Event(q)
  BY <1>1 DEF Event
<1>3. StepsInOrder'
  <2>1. call[r] \in Calls
    BY <1>1 DEF StepsInOrder
  <2>2. /\ at'[r] = "done" /\ call'[r] = call[r]
        /\ call[r].op = "decide" => r \in decisions'
    BY <1>1
  <2>3. \A q \in Requests \ {r} : at'[q] = at[q] /\ held'[q] = held[q] /\ answer'[q] = answer[q]
    BY <1>1
  <2>4. decisions \subseteq decisions'
    BY <1>1
  <2> HIDE DEF AdminTypeOK
  <2> QED
    BY <1>1, <1>2, <2>1, <2>2, <2>3, <2>4 DEF StepsInOrder
<1>4. LocksExclude'
  BY <1>1 DEF LocksExclude, Pending
<1> QED
  BY <1>3, <1>4

(* The trail grows by the record the request sealed, if it sealed one.     *)
LEMMA CommitAppends ==
  ASSUME Ordered, NEW r \in Requests, CommitRequest(r)
  PROVE  /\ Len(trail) \in Nat /\ Len(trail) <= Len(trail')
         /\ \A i \in 1 .. Len(trail) : trail'[i] = trail[i]
         /\ \A i \in 1 .. Len(trail') : i \notin 1 .. Len(trail) =>
              i = Len(trail) + 1 /\ trail'[i] = Event(r)
         /\ write[r].kind = "put" /\ call[r].by # CLI =>
              Len(trail) + 1 \in 1 .. Len(trail') /\ trail'[Len(trail) + 1] = Event(r)
<1> DEFINE E == [op : Ops, by : Requests, kind : Kinds, row : MaybeRow]
<1>1. trail \in Seq(E) /\ sealed[r] \in Seq(E) /\ trail' = trail \o sealed[r]
  BY DEF CommitRequest, Ordered, AdminTypeOK
<1>2. \/ sealed[r] = <<Event(r)>>
      \/ sealed[r] = <<>> /\ (write[r].kind # "put" \/ call[r].by = CLI)
  BY DEF CommitRequest, Ordered, StepsInOrder
<1> HIDE DEF E
<1>3. CASE sealed[r] = <<Event(r)>>
  BY <1>1, <1>3
<1>4. CASE sealed[r] = <<>> /\ (write[r].kind # "put" \/ call[r].by = CLI)
  BY <1>1, <1>4
<1> QED
  BY <1>2, <1>3, <1>4

(* The three kinds of commit: one that leaves the policy alone, one that   *)
(* takes it away, and one that puts the row it flushed in its place.       *)
Leaves(r) == UNCHANGED <<policy, versions>> /\ write[r].kind # "put"
Removes(r) == policy' = NOROW /\ versions' = {} /\ write[r].kind # "put"
Puts(r) ==
  /\ write[r].kind = "put"
  /\ write[r].row \in Rows
  /\ policy' = write[r].row
  /\ versions' = versions \union {[row |-> write[r].row, by |-> call[r].by, note |-> write[r].note]}
  /\ IF write[r].note = "created" THEN Creates(r) ELSE Updates(r)

LEMMA CommitKinds ==
  ASSUME Ordered, NEW r \in Requests, CommitRequest(r)
  PROVE  Leaves(r) \/ Removes(r) \/ Puts(r)
<1> USE DEF Ordered
<1>1. CASE write[r].kind = "put"
  BY <1>1 DEF CommitRequest, Changed, History, Puts, WritesFit, Pending
<1>2. CASE write[r].kind = "delete"
  <2>1. write[r].row \in Rows
    BY <1>2 DEF CommitRequest, WritesFit, Pending
  <2>2. CASE policy # NOROW /\ policy.id = write[r].row.id
    BY <1>2, <2>2 DEF CommitRequest, Changed, History, Linear, Removes
  <2>3. CASE ~(policy # NOROW /\ policy.id = write[r].row.id)
    BY <1>2, <2>3 DEF CommitRequest, Changed, History, Linear, Leaves
  <2> QED
    BY <2>2, <2>3
<1>3. CASE write[r].kind = "nothing"
  BY <1>3 DEF CommitRequest, Changed, History, Leaves
<1> QED
  BY <1>1, <1>2, <1>3 DEF AdminTypeOK, Kinds

(* A put leaves nothing newer than what it puts.                           *)
LEMMA CommitNumbers ==
  ASSUME Ordered, NEW r \in Requests, CommitRequest(r)
  PROVE  NothingNewer' /\ WritesFit'
<1> DEFINE row == write[r].row
<1> USE DEF Ordered
<1>1. /\ ids' = ids /\ seen' = seen /\ write' = write /\ ids \in Nat
      /\ at[r] = "commit" /\ at'[r] = "done"
      /\ \A q \in Requests \ {r} : at'[q] = at[q]
  BY DEF CommitRequest, Finish, AdminTypeOK
<1>2. ASSUME NEW i \in 1 .. Len(trail'), trail'[i].kind = "put"
      PROVE  \/ i \in 1 .. Len(trail) /\ trail'[i] = trail[i]
             \/ i = Len(trail) + 1 /\ write[r].kind = "put" /\ trail'[i].row = row
  <2>1. CASE i \in 1 .. Len(trail)
    BY <2>1, CommitAppends
  <2>2. CASE i \notin 1 .. Len(trail)
    <3>1. i = Len(trail) + 1 /\ trail'[i] = Event(r)
      BY <2>2, CommitAppends
    <3> QED
      BY <1>2, <3>1 DEF Event
  <2> QED
    BY <2>1, <2>2
<1>3. \A x \in Rows : x.id \in Nat /\ x.version \in Nat
  BY DEF Rows
<1>4. policy \in MaybeRow /\ \A q \in Requests : seen[q] \in MaybeRow
  BY DEF AdminTypeOK
<1> HIDE DEF row
<1>5. CASE write[r].kind # "put"
  <2>1. \A i \in 1 .. Len(trail') : trail'[i].kind = "put" => i \in 1 .. Len(trail) /\ trail'[i] = trail[i]
    BY <1>2, <1>5
  <2>2. policy' = policy \/ policy' = NOROW
    BY <1>5, CommitKinds DEF Leaves, Removes, Puts
  <2>3. NothingNewer'
    BY <1>1, <2>1, <2>2 DEF NothingNewer
  <2>4. ASSUME NEW q \in Requests, Pending(q)' PROVE Pending(q) /\ policy' = policy
    <3>1. q # r /\ Pending(q)
      BY <1>1, <2>4 DEF Pending
    <3>2. PolicyRow \notin held[r]
      BY <3>1 DEF LocksExclude
    <3>3. write[r].kind = "nothing"
      BY <1>1, <3>2 DEF LocksExclude, Pending
    <3> QED
      BY <3>1, <3>3 DEF CommitRequest, Changed
  <2>5. WritesFit'
    <3> SUFFICES ASSUME NEW q \in Requests, Pending(q)'
                 PROVE  /\ write'[q].row \in Rows
                        /\ write'[q].kind = "put" =>
                             IF write'[q].note = "created" THEN Creates(q)' ELSE Updates(q)'
      BY DEF WritesFit
    <3>1. Pending(q) /\ policy' = policy
      BY <2>4
    <3> QED
      BY <1>1, <2>1, <3>1 DEF WritesFit, Creates, Updates
  <2> QED
    BY <2>3, <2>5
<1>6. CASE write[r].kind = "put"
  <2>1. Puts(r)
    BY <1>6, CommitKinds DEF Leaves, Removes
  <2>2. policy' = row /\ row \in Rows /\ policy' # NOROW
    BY <2>1, RowsAssumption DEF Puts, row
  <2>3. ASSUME write[r].note = "created" PROVE NothingNewer'
    <3>1. Creates(r)
      BY <2>1, <2>3 DEF Puts
    <3>2. row.id = ids /\ row.version = 1
      BY <3>1 DEF Creates, row
    <3>3. ASSUME NEW q \in Requests, seen[q] # NOROW
          PROVE  seen[q].id <= ids /\ seen[q].id # row.id
      BY <1>1, <1>3, <1>4, <3>1, <3>2, <3>3 DEF Creates, MaybeRow
    <3>4. ASSUME NEW i \in 1 .. Len(trail'), trail'[i].kind = "put"
          PROVE  /\ trail'[i].row \in Rows
                 /\ trail'[i].row.id <= ids
                 /\ trail'[i].row.id = row.id => trail'[i].row.version <= row.version
      <4>1. CASE i \in 1 .. Len(trail) /\ trail'[i] = trail[i]
        <5>1. trail[i].row \in Rows /\ trail[i].row.id < ids
          BY <3>1, <3>4, <4>1 DEF NothingNewer, Creates
        <5> QED
          BY <1>1, <1>3, <3>2, <4>1, <5>1
      <4>2. CASE trail'[i].row = row
        BY <1>1, <1>3, <2>2, <3>2, <4>2
      <4> QED
        BY <1>2, <3>4, <4>1, <4>2
    <3>5. row.id <= ids /\ row.version >= 1
      BY <1>1, <3>2
    <3> QED
      BY <1>1, <2>2, <3>3, <3>4, <3>5 DEF NothingNewer
  <2>4. ASSUME write[r].note # "created" PROVE NothingNewer'
    <3>1. Updates(r)
      BY <2>1, <2>4 DEF Puts
    <3>2. /\ row.id = policy.id /\ row.version = policy.version + 1 /\ policy # NOROW
          /\ policy \in Rows
      BY <1>4, <3>1 DEF Updates, row, MaybeRow
    <3>3. row.id <= ids /\ row.version >= 1
      BY <1>3, <3>2 DEF NothingNewer
    <3>4. ASSUME NEW q \in Requests, seen[q] # NOROW
          PROVE  /\ seen[q].id <= ids
                 /\ seen[q].id = row.id =>
                      /\ seen[q].version <= row.version
                      /\ seen[q].version = row.version => seen[q].text = row.text
      <4>1. seen[q].version \in Nat /\ policy.version \in Nat
        BY <1>3, <1>4, <3>2, <3>4 DEF MaybeRow
      <4>2. seen[q].id <= ids /\ (seen[q].id = policy.id => seen[q].version <= policy.version)
        BY <3>2, <3>4 DEF NothingNewer
      <4> QED
        BY <3>2, <4>1, <4>2
    <3>5. ASSUME NEW i \in 1 .. Len(trail'), trail'[i].kind = "put"
          PROVE  /\ trail'[i].row \in Rows
                 /\ trail'[i].row.id <= ids
                 /\ trail'[i].row.id = row.id => trail'[i].row.version <= row.version
      <4>1. CASE i \in 1 .. Len(trail) /\ trail'[i] = trail[i]
        <5>1. /\ trail[i].row \in Rows /\ trail[i].row.id <= ids
              /\ trail[i].row.id = policy.id => trail[i].row.version <= policy.version
          BY <3>2, <3>5, <4>1 DEF NothingNewer
        <5>2. trail[i].row.version \in Nat /\ policy.version \in Nat
          BY <1>3, <3>2, <5>1
        <5> QED
          BY <3>2, <4>1, <5>1, <5>2
      <4>2. CASE trail'[i].row = row
        BY <1>3, <2>2, <3>3, <4>2
      <4> QED
        BY <1>2, <3>5, <4>1, <4>2
    <3> QED
      BY <1>1, <2>2, <3>3, <3>4, <3>5 DEF NothingNewer
  <2>5. NothingNewer'
    BY <2>3, <2>4
  <2>6. PolicyRow \in held[r]
    BY <1>1, <1>6 DEF LocksExclude, Pending
  <2>7. \A q \in Requests : ~Pending(q)'
    BY <1>1, <2>6 DEF LocksExclude, Pending
  <2> QED
    BY <2>5, <2>7 DEF WritesFit
<1> QED
  BY <1>5, <1>6

(* A put adds the version after the newest, or the first one of a policy   *)
(* that has no history.                                                    *)
LEMMA CommitLinear ==
  ASSUME Ordered, NEW r \in Requests, CommitRequest(r)
  PROVE  Linear'
<1> DEFINE row == write[r].row
           new == [row |-> row, by |-> call[r].by, note |-> write[r].note]
<1> USE DEF Ordered
<1>1. CASE Leaves(r)
  BY <1>1 DEF Leaves, Linear
<1>2. CASE Removes(r)
  BY <1>2 DEF Removes, Linear
<1>3. CASE Puts(r)
  <2>1. /\ policy' = row /\ row \in Rows /\ policy' # NOROW
        /\ versions' = versions \union {new}
        /\ new.row = row /\ new.note = write[r].note
    BY <1>3, RowsAssumption DEF Puts
  <2>2. row.version \in Nat
    BY <2>1 DEF Rows
  <2> HIDE DEF row, new
  <2>3. ASSUME write[r].note = "created" PROVE Linear'
    <3>1. versions' = {new} /\ row.version = 1
      BY <1>3, <2>1, <2>3 DEF Puts, Creates, Linear, row
    <3> QED
      BY <2>1, <2>3, <3>1 DEF Linear
  <2>4. ASSUME write[r].note # "created" PROVE Linear'
    <3>1. /\ policy # NOROW /\ policy \in Rows
          /\ row.id = policy.id /\ row.version = policy.version + 1
          /\ write[r].note = "switched" => row.text = policy.text
      BY <1>3, <2>4 DEF Puts, Updates, row, AdminTypeOK, MaybeRow
    <3>2. policy.version \in Nat
      BY <3>1 DEF Rows
    <3>3. \A v \in versions : v.row.id = policy.id /\ v.row.version \in 1 .. policy.version
      BY <3>1 DEF Linear
    <3>4. \A v, w \in versions : v.row.version = w.row.version => v = w
      BY <3>1 DEF Linear
    <3>5. \A n \in 1 .. policy.version : \E v \in versions : v.row.version = n
      BY <3>1 DEF Linear
    <3>6. PICK u \in versions : u.row = policy
      BY <3>1 DEF Linear
    <3>7. \A v, w \in versions :
            w.note = "switched" /\ w.row.version = v.row.version + 1 => w.row.text = v.row.text
      BY <3>1 DEF Linear
    <3>8. \A v \in versions' : v.row.id = row.id /\ v.row.version \in 1 .. row.version
      BY <2>1, <3>1, <3>2, <3>3
    <3>9. \A v, w \in versions' : v.row.version = w.row.version => v = w
      BY <2>1, <3>1, <3>2, <3>3, <3>4
    <3>10. \A n \in 1 .. row.version : \E v \in versions' : v.row.version = n
      <4> SUFFICES ASSUME NEW n \in 1 .. row.version PROVE \E v \in versions' : v.row.version = n
        OBVIOUS
      <4>1. n \in 1 .. policy.version \/ n = row.version
        BY <3>1, <3>2
      <4> QED
        BY <2>1, <3>5, <4>1
    <3>11. \A v, w \in versions' :
             w.note = "switched" /\ w.row.version = v.row.version + 1 => w.row.text = v.row.text
      <4> SUFFICES ASSUME NEW v \in versions', NEW w \in versions',
                          w.note = "switched", w.row.version = v.row.version + 1
                   PROVE  w.row.text = v.row.text
        BY Zenon
      <4>1. CASE v \in versions /\ w \in versions
        BY <3>7, <4>1
      <4>2. CASE v = new
        <5>1. w.row.version \in 1 .. row.version /\ v.row.version = row.version
          BY <2>1, <3>8, <4>2
        <5> QED
          BY <2>2, <5>1
      <4>3. CASE v \in versions /\ w = new
        <5>1. v.row.version = policy.version
          BY <2>1, <3>1, <3>2, <3>3, <4>3
        <5>2. v = u
          BY <3>4, <3>6, <4>3, <5>1
        <5> QED
          BY <2>1, <3>1, <3>6, <4>3, <5>2
      <4> QED
        BY <2>1, <4>1, <4>2, <4>3
    <3>12. \E v \in versions' : v.row = row
      BY <2>1
    <3> QED
      BY <2>1, <3>8, <3>9, <3>10, <3>11, <3>12 DEF Linear
  <2> QED
    BY <2>3, <2>4
<1> QED
  BY <1>1, <1>2, <1>3, CommitKinds

(* A version and its record are committed together, after every record of  *)
(* an older one.                                                           *)
LEMMA CommitTrail ==
  ASSUME Ordered, NEW r \in Requests, CommitRequest(r)
  PROVE  TrailFollowsHistory'
<1> DEFINE row == write[r].row
           n == Len(trail)
<1> USE DEF Ordered
<1>1. /\ n \in Nat /\ n <= Len(trail')
      /\ \A i \in 1 .. n : trail'[i] = trail[i]
      /\ \A i \in 1 .. Len(trail') : i \notin 1 .. n => i = n + 1 /\ trail'[i] = Event(r)
      /\ write[r].kind = "put" /\ call[r].by # CLI => n + 1 \in 1 .. Len(trail') /\ trail'[n + 1] = Event(r)
  BY CommitAppends
<1>2. \A i \in 1 .. n : i \in 1 .. Len(trail')
  <2>1. Len(trail') \in Nat
    BY CommitTypes DEF AdminTypeOK
  <2> HIDE DEF n
  <2> QED
    BY <1>1, <2>1
<1>3. CASE Removes(r)
  BY <1>3 DEF Removes, TrailFollowsHistory, Edits
<1>4. CASE Leaves(r)
  <2>1. Event(r).kind # "put"
    BY <1>4 DEF Leaves, Event
  <2>2. policy' = policy /\ versions' = versions
    BY <1>4 DEF Leaves
  <2>3. \A i : i \in Edits' <=> i \in Edits
    BY <1>1, <1>2, <2>1, <2>2 DEF Edits
  <2>4. \A i \in Edits : trail'[i] = trail[i]
    BY <1>1 DEF Edits
  <2> QED
    BY <2>2, <2>3, <2>4 DEF TrailFollowsHistory
<1>5. CASE Puts(r)
  <2>1. /\ policy' = row /\ row \in Rows /\ policy' # NOROW
        /\ versions' = versions \union {[row |-> row, by |-> call[r].by, note |-> write[r].note]}
        /\ Event(r).kind = "put" /\ Event(r).row = row
        /\ write[r].kind = "put"
    BY <1>5, RowsAssumption DEF Puts, Event
  <2>2. \A i \in 1 .. Len(trail') : i \in Edits' <=> trail'[i].kind = "put" /\ trail'[i].row.id = row.id
    BY <2>1 DEF Edits
  <2>3. /\ \A i \in Edits' : i \in 1 .. n => i \in Edits /\ trail[i].row.version < row.version
        /\ \A i \in Edits : i \in 1 .. n /\ i \in Edits'
        /\ versions # {} => policy # NOROW
    <3>1. CASE write[r].note = "created"
      <4>1. Creates(r)
        BY <1>5, <3>1 DEF Puts
      <4>2. ASSUME NEW i \in 1 .. n, trail[i].kind = "put" PROVE trail[i].row.id # row.id
        <5>1. trail[i].row.id < ids /\ trail[i].row.id \in Nat /\ row.id = ids
          BY <4>1, <4>2 DEF Creates, NothingNewer, Rows
        <5> QED
          BY <5>1 DEF AdminTypeOK
      <4>3. policy = NOROW /\ versions = {}
        BY <4>1 DEF Creates, Linear
      <4> QED
        BY <1>1, <2>2, <4>2, <4>3 DEF Edits
    <3>2. CASE write[r].note # "created"
      <4>1. Updates(r)
        BY <1>5, <3>2 DEF Puts
      <4>2. policy # NOROW /\ policy \in Rows /\ row.id = policy.id /\ row.version = policy.version + 1
        BY <4>1 DEF Updates, AdminTypeOK, MaybeRow
      <4>3. ASSUME NEW i \in 1 .. n, trail[i].kind = "put", trail[i].row.id = row.id
            PROVE  trail[i].row.version < row.version
        <5>1. trail[i].row.version <= policy.version /\ trail[i].row.version \in Nat
          BY <4>2, <4>3 DEF NothingNewer, Rows
        <5>2. policy.version \in Nat
          BY <4>2 DEF Rows
        <5> QED
          BY <4>2, <5>1, <5>2
      <4> HIDE DEF row
      <4> QED
        BY <1>1, <1>2, <2>2, <4>2, <4>3 DEF Edits
    <3> QED
      BY <3>1, <3>2
  <2>4. \A i \in Edits' : i \notin 1 .. n => i = n + 1 /\ trail'[i].row = row
    BY <1>1, <2>1 DEF Edits
  <2>5. Edits' \subseteq Int /\ Edits \subseteq Int
    BY DEF Edits
  <2> HIDE DEF row
  <2>6. ASSUME NEW i \in Edits', NEW j \in Edits', i < j
        PROVE  trail'[i].row.version < trail'[j].row.version
    <3>1. CASE j \in 1 .. n
      <4>1. i \in 1 .. n
        <5>1. i \in 1 .. Len(trail') /\ j \in Int /\ j <= n
          BY <2>5, <3>1 DEF Edits
        <5> HIDE DEF n
        <5> QED
          BY <1>1, <2>4, <2>6, <5>1
      <4>2. i \in Edits /\ j \in Edits
        BY <2>3, <3>1, <4>1
      <4> QED
        BY <1>1, <2>6, <3>1, <4>1, <4>2 DEF TrailFollowsHistory
    <3>2. CASE j \notin 1 .. n
      <4>1. j = n + 1 /\ trail'[j].row = row
        BY <2>4, <3>2
      <4>2. i \in 1 .. n
        BY <2>4, <2>6, <4>1, <1>1, <2>5
      <4>3. trail'[i] = trail[i] /\ trail[i].row.version < row.version
        BY <1>1, <2>3, <4>2
      <4> QED
        BY <4>1, <4>3
    <3> QED
      BY <3>1, <3>2
  <2>7. ASSUME NEW v \in versions', v.by # CLI
        PROVE  \E i \in Edits' : trail'[i].row = v.row
    <3>1. CASE v \in versions
      <4>1. PICK i \in Edits : trail[i].row = v.row
        BY <2>7, <3>1 DEF TrailFollowsHistory
      <4>2. i \in Edits' /\ trail'[i] = trail[i]
        BY <1>1, <2>3
      <4> QED
        BY <4>1, <4>2
    <3>2. CASE v \notin versions
      <4>1. v.by = call[r].by /\ v.row = row
        BY <2>1, <3>2
      <4>2. n + 1 \in 1 .. Len(trail') /\ trail'[n + 1] = Event(r)
        BY <1>1, <2>1, <2>7, <4>1
      <4>3. n + 1 \in Edits' /\ trail'[n + 1].row = row
        BY <2>1, <2>2, <4>2
      <4> QED
        BY <4>1, <4>3
    <3> QED
      BY <3>1, <3>2
  <2> QED
    BY <2>6, <2>7 DEF TrailFollowsHistory
<1> QED
  BY <1>3, <1>4, <1>5, CommitKinds

(* A key that expires is all that changes. *)
LEMMA ExpireOrdered ==
  ASSUME Ordered, NEW k \in Keys, Expire(k)
  PROVE  Ordered'
<1>1. UNCHANGED <<policy, versions, decisions, trail, ids, at, call, seen, write, dirty, held, sealed, answer>>
  BY DEF Expire, sessions
<1>2. keys' \in [Keys -> KeyRows]
  <2>1. keys[k] \in KeyRows
    BY DEF Ordered, AdminTypeOK
  <2>2. [keys[k] EXCEPT !.expired = TRUE] \in KeyRows
    BY <2>1 DEF KeyRows
  <2>3. keys' = [keys EXCEPT ![k] = [keys[k] EXCEPT !.expired = TRUE]]
    BY DEF Expire
  <2> QED
    BY <2>2, <2>3 DEF Ordered, AdminTypeOK
<1>3. AdminTypeOK'
  BY <1>1, <1>2 DEF Ordered, AdminTypeOK
<1>4. StepsInOrder' /\ LocksExclude'
  BY <1>1 DEF Ordered, StepsInOrder, LocksExclude, Pending, Event
<1>5. NothingNewer' /\ WritesFit'
  BY <1>1 DEF Ordered, NothingNewer, WritesFit, Pending, Creates, Updates
<1>6. Linear' /\ TrailFollowsHistory'
  BY <1>1 DEF Ordered, Linear, TrailFollowsHistory, Edits
<1> QED
  BY <1>3, <1>4, <1>5, <1>6 DEF Ordered

LEMMA StutterOrdered ==
  ASSUME Ordered, UNCHANGED adminVars
  PROVE  Ordered'
<1>1. AdminTypeOK' /\ StepsInOrder' /\ LocksExclude'
  BY DEF Ordered, AdminTypeOK, StepsInOrder, LocksExclude, Pending, Event, adminVars, tables, sessions
<1>2. NothingNewer' /\ WritesFit'
  BY DEF Ordered, NothingNewer, WritesFit, Pending, Creates, Updates, adminVars, tables, sessions
<1>3. Linear' /\ TrailFollowsHistory'
  BY DEF Ordered, Linear, TrailFollowsHistory, Edits, adminVars, tables, sessions
<1> QED
  BY <1>1, <1>2, <1>3 DEF Ordered

----------------------------------------------------------------------------
(* The inductive invariant holds of every behaviour. *)
LEMMA OrderedHolds == AdminSpec => []Ordered
<1>1. AdminInit => Ordered
  <2> SUFFICES ASSUME AdminInit PROVE Ordered
    OBVIOUS
  <2>1. \/ policy = NOROW /\ ids = 0 /\ versions = {}
        \/ /\ policy # NOROW /\ policy \in Rows /\ policy.id = 1 /\ policy.version = 1 /\ ids = 1
           /\ versions = {[row |-> policy, by |-> CLI, note |-> "created"]}
    <3>1. Row(1, 1, "a", TRUE) \in Rows
      BY DEF Row, Rows, Texts
    <3>2. Row(1, 1, "a", TRUE) # NOROW
      BY <3>1, RowsAssumption
    <3>3. Row(1, 1, "a", TRUE).id = 1 /\ Row(1, 1, "a", TRUE).version = 1
      BY DEF Row
    <3>4. /\ policy = NOROW \/ policy = Row(1, 1, "a", TRUE)
          /\ ids = IF policy = NOROW THEN 0 ELSE 1
          /\ versions = IF policy = NOROW THEN {} ELSE {[row |-> policy, by |-> CLI, note |-> "created"]}
      BY DEF AdminInit
    <3> QED
      BY <3>1, <3>2, <3>3, <3>4
  <2>2. policy \in MaybeRow /\ ids \in Nat
    BY <2>1 DEF MaybeRow
  <2>3. versions \subseteq [row : Rows, by : Callers, note : Notes]
    <3>1. policy \in Rows => [row |-> policy, by |-> CLI, note |-> "created"]
                               \in [row : Rows, by : Callers, note : Notes]
      BY DEF Callers, Notes
    <3> QED
      BY <2>1, <3>1
  <2>4. keys \in [Keys -> KeyRows]
    BY DEF AdminInit, KeyRows
  <2>5. AdminTypeOK
    <3>1. Nothing \in [kind : Kinds, row : MaybeRow, note : Notes]
      BY DEF Nothing, Kinds, Notes, MaybeRow
    <3>2. write \in [Requests -> [kind : Kinds, row : MaybeRow, note : Notes]]
      BY <3>1 DEF AdminInit
    <3>3. seen \in [Requests -> MaybeRow]
      BY DEF AdminInit, MaybeRow
    <3> QED
      BY <2>2, <2>3, <2>4, <3>2, <3>3 DEF AdminInit, AdminTypeOK
  <2>6. StepsInOrder /\ LocksExclude /\ WritesFit
    BY DEF AdminInit, StepsInOrder, LocksExclude, WritesFit, Pending, Nothing, NoCall
  <2>7. NothingNewer
    BY <2>1 DEF AdminInit, NothingNewer
  <2>8. Linear /\ TrailFollowsHistory
    <3>1. Linear
      <4>1. CASE policy = NOROW
        BY <2>1, <4>1 DEF Linear
      <4>2. CASE policy # NOROW
        <5>1. \A v \in versions : v = [row |-> policy, by |-> CLI, note |-> "created"]
          BY <2>1, <4>2
        <5>2. /\ policy.id = 1 /\ policy.version = 1
              /\ [row |-> policy, by |-> CLI, note |-> "created"] \in versions
          BY <2>1, <4>2
        <5>3. /\ \A v \in versions : v.row = policy /\ v.note = "created"
              /\ \E v \in versions : v.row = policy
          <6>1. [row |-> policy, by |-> CLI, note |-> "created"].row = policy
            OBVIOUS
          <6>2. [row |-> policy, by |-> CLI, note |-> "created"].note = "created"
            OBVIOUS
          <6> QED
            BY <5>1, <5>2, <6>1, <6>2
        <5> QED
          BY <4>2, <5>1, <5>2, <5>3 DEF Linear
      <4> QED
        BY <4>1, <4>2
    <3>2. trail = <<>> /\ Edits = {}
      BY DEF AdminInit, Edits
    <3>3. \A v \in versions : v.by = CLI
      BY <2>1
    <3> QED
      BY <3>1, <3>2, <3>3 DEF TrailFollowsHistory
  <2> QED
    BY <2>5, <2>6, <2>7, <2>8 DEF Ordered
<1>2. Ordered /\ [AdminNext]_adminVars => Ordered'
  <2> SUFFICES ASSUME Ordered, [AdminNext]_adminVars PROVE Ordered'
    OBVIOUS
  <2>1. CASE UNCHANGED adminVars
    BY <2>1, StutterOrdered
  <2>2. ASSUME NEW k \in Keys, Expire(k) PROVE Ordered'
    BY <2>2, ExpireOrdered
  <2>3. ASSUME NEW r \in Requests, Quiet(r) PROVE Ordered'
    BY <2>3, QuietOrdered
  <2>4. ASSUME NEW r \in Requests, CommitRequest(r) PROVE Ordered'
    BY <2>4, CommitTypes, CommitOrder, CommitNumbers, CommitLinear, CommitTrail DEF Ordered
  <2> QED
    BY <2>1, <2>2, <2>3, <2>4, StepKinds
<1> QED
  BY <1>1, <1>2, PTL DEF AdminSpec

(* Administration keeps its types.                                         *)
THEOREM AdministrationTypeCorrect == AdminSpec => []AdminTypeOK
<1>1. Ordered => AdminTypeOK
  BY DEF Ordered
<1> QED
  BY <1>1, OrderedHolds, PTL

(* Linear, counted. *)
LEMMA LinearIsLinear ==
  ASSUME Ordered
  PROVE  HistoryIsLinear
<1>1. ASSUME policy # NOROW, NEW n \in 1 .. policy.version
      PROVE  Cardinality({v \in versions : v.row.version = n}) = 1
  <2>1. PICK u \in versions : u.row.version = n
    BY <1>1 DEF Ordered, Linear
  <2>2. {v \in versions : v.row.version = n} = {u}
    BY <1>1, <2>1 DEF Ordered, Linear
  <2> QED
    BY <2>2, FS_Singleton
<1>2. policy # NOROW => policy.version \in Nat
  BY DEF Ordered, AdminTypeOK, MaybeRow, Rows
<1>3. policy # NOROW => \A v \in versions : v.row.id = policy.id /\ v.row.version <= policy.version
  BY <1>2 DEF Ordered, Linear
<1> QED
  BY <1>1, <1>3 DEF Ordered, Linear, HistoryIsLinear

(* However requests overlap, fail and die: the history of the stored       *)
(* policy is complete and linear, the trail has it in that order, and no   *)
(* decision that was answered is missing.                                  *)
THEOREM RecordsAlwaysAgree == AdminSpec => []RecordsAgree
<1>1. Ordered => RecordsAgree
  <2> SUFFICES ASSUME Ordered PROVE RecordsAgree
    OBVIOUS
  <2>1. TrailFollowsHistory /\ AnsweredDecisionsExist
    BY DEF Ordered, StepsInOrder, AnsweredDecisionsExist
  <2> QED
    BY <2>1, LinearIsLinear DEF RecordsAgree
<1> QED
  BY <1>1, OrderedHolds, PTL

(* A revocation stands, and no digest falls back to the old scheme,        *)
(* although requests write back rows that they read before.                *)
THEOREM RevocationsStand == AdminSpec => RevocationStands
<1> DEFINE Stands == \A k \in Keys :
                       /\ keys[k].revoked => keys'[k].revoked
                       /\ keys[k].stored /\ ~keys[k].legacy => ~keys'[k].legacy
<1>1. Ordered /\ [AdminNext]_adminVars => [Stands]_adminVars
  <2> SUFFICES ASSUME Ordered, [AdminNext]_adminVars PROVE UNCHANGED adminVars \/ Stands
    OBVIOUS
  <2>1. ASSUME NEW k \in Keys, Expire(k) PROVE Stands
    BY <2>1 DEF Expire, Ordered, AdminTypeOK, KeyRows
  <2>2. ASSUME NEW r \in Requests, Quiet(r) PROVE Stands
    BY <2>2, QuietTables
  <2>3. ASSUME NEW r \in Requests, CommitRequest(r) PROVE Stands
    BY <2>3, KeyWritten DEF CommitRequest, Ordered
  <2> QED
    BY <2>1, <2>2, <2>3, StepKinds
<1> QED
  BY <1>1, OrderedHolds, PTL DEF AdminSpec, RevocationStands

----------------------------------------------------------------------------
(* Deadlocks.  Locks are taken in the order: api_keys rows as they are     *)
(* numbered, the policies row, the stream.  Only a request that seals      *)
(* before it has flushed takes a row after the stream.                     *)
Climbs ==
  \A r \in Requests :
    /\ at[r] = "flush" =>
         /\ Stream \notin held[r]
         /\ PolicyRow \in held[r] => Unlocked(r) = {}
         /\ \A j \in Keys, k \in Unlocked(r) : KeyRow(j) \in held[r] => j < k
    /\ at[r] = "seal" /\ dirty[r] => Idle(call[r], seen[r])

(* The locks a request may have to wait for. *)
LEMMA WantsOne ==
  ASSUME NEW r \in Requests, NEW l \in Wants(r)
  PROVE  \/ \E k \in Unlocked(r) : /\ l = KeyRow(k)
                                   /\ \A j \in Unlocked(r) : k <= j
                                   /\ at[r] = "flush" \/ (at[r] = "seal" /\ Stream \in held[r])
         \/ l = PolicyRow /\ at[r] = "flush" /\ PolicyRow \notin held[r]
              /\ ~\E k \in Unlocked(r) : \A j \in Unlocked(r) : k <= j
         \/ l = Stream /\ at[r] = "seal" /\ Stream \notin held[r]
BY DEF Wants

(* A request takes one lock at a time. *)
LEMMA OneAtATime ==
  ASSUME NEW r \in Requests, NEW l \in Wants(r), NEW m \in Wants(r)
  PROVE  l = m
<1>1. \A a, b \in Unlocked(r) :
        (\A j \in Unlocked(r) : a <= j) /\ (\A j \in Unlocked(r) : b <= j) => a = b
  <2>1. Unlocked(r) \subseteq Keys /\ \A k \in Keys : k \in Int
    BY KeysAssumption DEF Unlocked
  <2> QED
    BY <2>1
<1> QED
  BY <1>1, WantsOne

(* A request writes two keys at most, and one of them comes first.         *)
LEMMA SomeKeyFirst ==
  ASSUME NEW r \in Requests, Unlocked(r) # {}
  PROVE  \E k \in Unlocked(r) : \A j \in Unlocked(r) : k <= j
<1>1. Unlocked(r) \subseteq {call[r].by, call[r].target} /\ Unlocked(r) \subseteq Int
  <2>1. Unlocked(r) \subseteq {call[r].by, call[r].target} /\ Unlocked(r) \subseteq Keys
    BY DEF Unlocked
  <2>2. \A k \in Keys : k \in Int
    BY KeysAssumption
  <2> QED
    BY <2>1, <2>2
<1> DEFINE U == Unlocked(r)
           a == call[r].by
           b == call[r].target
<1> HIDE DEF U, a, b
<1>2. U \subseteq {a, b} /\ U \subseteq Int /\ U # {}
  BY <1>1 DEF U, a, b
<1>3. CASE a \in U /\ b \in U
  BY <1>2, <1>3 DEF U
<1>4. CASE ~(a \in U /\ b \in U)
  BY <1>2, <1>4 DEF U
<1> QED
  BY <1>3, <1>4

(* Some element of a set of keys is the largest.                           *)
LEMMA LargestKey ==
  ASSUME NEW W, W \subseteq Keys, W # {}
  PROVE  \E m \in W : \A k \in W : ~(m < k)
<1> DEFINE above(k) == {j \in Keys : k < j}
           T == {above(k) : k \in W}
<1>1. T \subseteq SUBSET Keys /\ T # {}
  OBVIOUS
<1>2. IsWellFoundedOn(StrictSubsetOrdering(Keys), SUBSET Keys)
  BY KeysAssumption, FS_StrictSubsetOrderingWellFounded, FS_FiniteSubsetsOfFinite
<1>3. PICK x \in T : \A y \in T : <<y, x>> \notin StrictSubsetOrdering(Keys)
  <2> HIDE DEF T
  <2> QED
    BY <1>1, <1>2, WFMin
<1>4. PICK m \in W : x = above(m)
  OBVIOUS
<1>5. ASSUME NEW k \in W, m < k PROVE FALSE
  <2>1. k \in Int /\ m \in Int /\ \A j \in Keys : j \in Int
    BY KeysAssumption
  <2>2. \A j \in Int : k < j => m < j
    BY <1>5, <2>1
  <2>3. k \in above(m) /\ k \notin above(k)
    BY <1>5, <2>1
  <2>4. above(k) \subseteq above(m)
    BY <2>1, <2>2
  <2>5. <<above(k), above(m)>> \in StrictSubsetOrdering(Keys)
    <3>1. above(k) \in SUBSET Keys /\ above(m) \in SUBSET Keys /\ above(k) # above(m)
      BY <2>3
    <3> HIDE DEF above
    <3> QED
      BY <2>4, <3>1 DEF StrictSubsetOrdering
  <2> QED
    BY <1>3, <1>4, <2>5
<1> QED
  BY <1>5

LEMMA InitClimbs == AdminInit => Climbs
BY DEF AdminInit, Climbs

(* A request takes its key rows in their order, before the policy's, and   *)
(* has nothing left to mark as used once it has flushed.                   *)
LEMMA StepClimbs ==
  ASSUME Ordered, Climbs, [AdminNext]_adminVars
  PROVE  Climbs'
<1> USE DEF Ordered, AdminTypeOK, Finish
<1> DEFINE Same(q) == /\ at'[q] = at[q] /\ dirty'[q] = dirty[q] /\ call'[q] = call[q]
                      /\ held'[q] = held[q] /\ seen'[q] = seen[q]
           Fine(q) == /\ at[q] = "flush" =>
                           /\ Stream \notin held[q]
                           /\ PolicyRow \in held[q] => Unlocked(q) = {}
                           /\ \A j \in Keys, k \in Unlocked(q) : KeyRow(j) \in held[q] => j < k
                      /\ at[q] = "seal" /\ dirty[q] => Idle(call[q], seen[q])
<1>1. ASSUME NEW q \in Requests, Same(q) PROVE Fine(q)'
  BY <1>1 DEF Climbs, Unlocked
<1>2. ASSUME NEW r \in Requests, Lock(r) PROVE Climbs'
  <2>1. \A q \in Requests \ {r} : Same(q)
    BY <1>2 DEF Lock
  <2>2. /\ UNCHANGED <<at, call, seen, dirty>>
        /\ held'[r] = held[r] \union Wants(r)
    BY <1>2 DEF Lock
  <2>3. \A k \in Unlocked(r)' : k \in Unlocked(r) /\ KeyRow(k) \notin Wants(r) /\ k \in Keys
    BY <2>2 DEF Unlocked
  <2>4. ASSUME at[r] = "flush" PROVE Fine(r)'
    <3>1. Stream \notin Wants(r)
      BY <2>4, WantsOne DEF PolicyRow, KeyRow, Stream
    <3>2. Stream \notin held'[r]
      BY <2>2, <2>4, <3>1 DEF Climbs
    <3>3. PolicyRow \in Wants(r) => Unlocked(r) = {}
      BY <2>4, SomeKeyFirst, WantsOne DEF PolicyRow, KeyRow, Stream
    <3>4. PolicyRow \in held'[r] => Unlocked(r)' = {}
      BY <2>2, <2>3, <2>4, <3>3 DEF Climbs
    <3>5. ASSUME NEW j \in Keys, NEW k \in Unlocked(r)', KeyRow(j) \in held'[r] PROVE j < k
      <4>1. k \in Unlocked(r) /\ k \in Keys /\ KeyRow(k) \notin Wants(r)
        BY <2>3, <3>5
      <4>2. CASE KeyRow(j) \in held[r]
        BY <2>4, <4>1, <4>2 DEF Climbs
      <4>3. CASE KeyRow(j) \in Wants(r)
        <5>1. j <= k
          BY <4>1, <4>3, WantsOne DEF PolicyRow, KeyRow, Stream
        <5>2. j # k /\ j \in Int /\ k \in Int
          BY <4>1, <4>3, KeysAssumption
        <5> QED
          BY <5>1, <5>2
      <4> QED
        BY <2>2, <3>5, <4>2, <4>3
    <3> QED
      BY <2>2, <2>4, <3>2, <3>4, <3>5
  <2>5. ASSUME at[r] # "flush" PROVE Fine(r)'
    BY <2>2, <2>5 DEF Climbs
  <2> HIDE DEF Fine, Same
  <2>6. \A q \in Requests : Fine(q)'
    BY <1>1, <2>1, <2>4, <2>5
  <2> QED
    BY <2>6 DEF Climbs, Fine
<1>3. ASSUME NEW r \in Requests, Read(r) PROVE Climbs'
  <2>1. \A q \in Requests \ {r} : Same(q)
    BY <1>3 DEF Read
  <2>2. held'[r] = {}
    BY <1>3 DEF Read, StepsInOrder
  <2>3. at'[r] = "seal" => Idle(call'[r], seen'[r])
    BY <1>3 DEF Read, AfterRead, Idle, WritesPolicy
  <2>4. Fine(r)'
    BY <2>2, <2>3
  <2> HIDE DEF Fine, Same
  <2>5. \A q \in Requests : Fine(q)'
    BY <1>1, <2>1, <2>4
  <2> QED
    BY <2>5 DEF Climbs, Fine
<1>4. ASSUME NEW r \in Requests, Quiet(r) \/ CommitRequest(r), ~Lock(r), ~Read(r) PROVE Climbs'
  <2>1. /\ \A q \in Requests \ {r} : Same(q)
        /\ at'[r] # "flush" /\ ~(at'[r] = "seal" /\ dirty'[r])
    <3>1. CASE Arrive(r)
      BY <3>1 DEF Arrive
    <3>2. CASE Authenticate(r)
      BY <3>2 DEF Authenticate
    <3>3. CASE Reject(r)
      BY <3>3 DEF Reject
    <3>4. CASE Refuse(r)
      BY <3>4 DEF Refuse
    <3>5. CASE Flush(r)
      BY <3>5 DEF Flush
    <3>6. CASE Seal(r)
      BY <3>6 DEF Seal
    <3>7. CASE Return(r)
      BY <3>7 DEF Return
    <3>8. CASE Fail(r)
      BY <3>8 DEF Fail
    <3>9. CASE CommitRequest(r)
      BY <3>9 DEF CommitRequest
    <3> QED
      BY <1>4, <3>1, <3>2, <3>3, <3>4, <3>5, <3>6, <3>7, <3>8, <3>9 DEF Quiet
  <2>2. Fine(r)'
    BY <2>1
  <2> HIDE DEF Fine, Same
  <2>3. \A q \in Requests : Fine(q)'
    BY <1>1, <2>1, <2>2
  <2> QED
    BY <2>3 DEF Climbs, Fine
<1>5. ASSUME UNCHANGED <<at, dirty, call, held, seen>> PROVE Climbs'
  BY <1>5 DEF Climbs, Unlocked
<1>6. CASE UNCHANGED adminVars
  BY <1>5, <1>6 DEF adminVars, sessions
<1>7. ASSUME NEW k \in Keys, Expire(k) PROVE Climbs'
  BY <1>5, <1>7 DEF Expire, sessions
<1> QED
  BY <1>2, <1>3, <1>4, <1>6, <1>7, StepKinds

(* Requests that wait in a circle wait for keys, each for a larger one     *)
(* than the one before, unless one of them sealed before it flushed.       *)
LEMMA NoCircle ==
  ASSUME Ordered, Climbs, NEW S, S \subseteq Requests, Deadlock(S),
         \A r \in S : ~(at[r] = "seal" /\ dirty[r] /\ Idle(call[r], seen[r]))
  PROVE  FALSE
<1> DEFINE W == {k \in Keys : \E r \in S : KeyRow(k) \in Wants(r)}
<1>1. ASSUME NEW r \in S
      PROVE  r \in Requests /\ Wants(r) # {} /\ \A m \in Wants(r) : \E q \in S : m \in held[q]
  <2>1. PICK q \in S, l \in Wants(r) : l \in held[q]
    BY DEF Deadlock, Waits
  <2> QED
    BY <2>1, OneAtATime
<1>2. ASSUME NEW r \in S, at[r] = "seal" PROVE Unlocked(r) = {}
  BY <1>1, <1>2 DEF Unlocked, Climbs
<1>3. ASSUME NEW r \in S, Stream \in Wants(r) PROVE FALSE
  <2>1. PICK q \in S : Stream \in held[q]
    BY <1>1, <1>3
  <2>2. PICK l \in Wants(q) : TRUE
    BY <1>1
  <2> QED
    BY <1>1, <1>2, <2>1, <2>2, WantsOne DEF Climbs
<1>4. ASSUME NEW r \in S, PolicyRow \in Wants(r) PROVE FALSE
  <2>1. PICK q \in S : PolicyRow \in held[q]
    BY <1>1, <1>4
  <2>2. PICK l \in Wants(q) : TRUE
    BY <1>1
  <2> QED
    BY <1>1, <1>2, <1>3, <2>1, <2>2, WantsOne DEF Climbs
<1>5. \A r \in S : \A l \in Wants(r) :
        at[r] = "flush" /\ \E k \in Unlocked(r) : k \in Keys /\ l = KeyRow(k)
  <2> SUFFICES ASSUME NEW r \in S, NEW l \in Wants(r)
               PROVE  at[r] = "flush" /\ \E k \in Unlocked(r) : k \in Keys /\ l = KeyRow(k)
    OBVIOUS
  <2>1. \A k \in Unlocked(r) : k \in Keys
    BY DEF Unlocked
  <2> QED
    BY <1>1, <1>2, <1>3, <1>4, <2>1, WantsOne
<1>6. ASSUME NEW k \in W PROVE \E m \in W : k < m
  <2>1. PICK r \in S : KeyRow(k) \in Wants(r)
    OBVIOUS
  <2>2. PICK q \in S : KeyRow(k) \in held[q]
    BY <1>1, <2>1
  <2>3. PICK l \in Wants(q) : TRUE
    BY <1>1
  <2>4. PICK m \in Unlocked(q) : at[q] = "flush" /\ m \in Keys /\ l = KeyRow(m)
    BY <1>5, <2>3
  <2>5. k < m
    BY <1>1, <2>2, <2>4 DEF Climbs
  <2> QED
    BY <2>3, <2>4, <2>5
<1>7. W # {} /\ W \subseteq Keys
  BY <1>1, <1>5 DEF Deadlock
<1> HIDE DEF W
<1> QED
  BY <1>6, <1>7, LargestKey

(* Requests deadlock only where one of them seals a record before it has   *)
(* flushed anything: a switch or a synchronisation that changes nothing.   *)
THEOREM DeadlocksAreIdle == AdminSpec => []OnlyIdleCallsDeadlock
<1>1. Ordered /\ Climbs => OnlyIdleCallsDeadlock
  BY NoCircle DEF OnlyIdleCallsDeadlock
<1> QED
  BY <1>1, OrderedHolds, InitClimbs, StepClimbs, PTL DEF AdminSpec

----------------------------------------------------------------------------
(* Match trees.  What holds of a tree is shown from its last node to its   *)
(* first, since children come after their parents.                         *)

(* A nonempty set of numbers has a least.                                  *)
LEMMA LeastOf ==
  ASSUME NEW T \in SUBSET Nat, T # {}
  PROVE  \E n \in T : \A m \in T : n <= m
<1>1. PICK n \in T : \A m \in T : ~ (<<m, n>> \in OpToRel(<, Nat))
  BY NatLessThanWellFounded, WFMin
<1>2. \A m \in T : ~ (m < n)
  BY <1>1 DEF OpToRel
<1> QED BY <1>2

(* What holds of a place if it holds of all behind it holds of all places. *)
LEMMA FromTheEnd ==
  ASSUME NEW n \in Nat, NEW S,
         \A i \in 1 .. n : (\A j \in i + 1 .. n : j \in S) => i \in S
  PROVE  \A i \in 1 .. n : i \in S
<1> DEFINE Bad == {d \in Nat : d < n /\ n - d \notin S}
<1> SUFFICES ASSUME NEW k \in 1 .. n, k \notin S PROVE FALSE
  OBVIOUS
<1>1. n - k \in Bad
  BY n - (n - k) = k
<1>2. PICK d \in Bad : \A e \in Bad : d <= e
  <2>1. Bad \in SUBSET Nat /\ Bad # {}
    BY <1>1
  <2> HIDE DEF Bad
  <2> QED
    BY <2>1, LeastOf
<1>3. d \in Nat /\ d < n /\ n - d \notin S
  BY <1>2
<1>4. ASSUME NEW j \in n - d + 1 .. n PROVE j \in S
  <2>1. n - j \in Nat /\ n - j < d /\ n - (n - j) = j /\ n - j < n
    BY <1>3
  <2> QED
    BY <1>2, <1>3, <2>1
<1> QED
  BY <1>3, <1>4

----------------------------------------------------------------------------
(* What settles a node.                                                    *)

Verdicts == {"pass", "fail", "error"}

Outcomes(outcomes, n) ==
  DOMAIN outcomes = 1 .. n /\ \A i \in 1 .. n : outcomes[i] \in Verdicts

(* The first of the outcomes that stop is one of them.                     *)
LEMMA FirstStops ==
  ASSUME NEW n \in Nat, NEW outcomes, DOMAIN outcomes = 1 .. n, NEW stop, NEW otherwise
  PROVE  /\ (\E i \in 1 .. n : outcomes[i] \in stop) =>
              \E i \in 1 .. n : outcomes[i] \in stop /\ First(outcomes, stop, otherwise) = outcomes[i]
         /\ (\A i \in 1 .. n : outcomes[i] \notin stop) => First(outcomes, stop, otherwise) = otherwise
<1> DEFINE stops == {i \in 1 .. n : outcomes[i] \in stop}
<1>1. CASE stops = {}
  BY <1>1 DEF First
<1>2. CASE stops # {}
  <2>1. PICK k \in stops : \A j \in stops : k <= j
    <3>1. stops \in SUBSET Nat
      OBVIOUS
    <3> HIDE DEF stops
    <3> QED
      BY <1>2, <3>1, LeastOf
  <2> DEFINE c == CHOOSE i \in stops : \A j \in stops : i <= j
  <2>2. c \in stops
    <3> HIDE DEF stops
    <3> QED
      BY <2>1
  <2>3. First(outcomes, stop, otherwise) = outcomes[c]
    BY <1>2 DEF First
  <2>4. c \in 1 .. n /\ outcomes[c] \in stop
    BY <2>2
  <2> QED
    BY <1>2, <2>3, <2>4
<1> QED
  BY <1>1, <1>2

(* What comes of the outcomes is the outcome of one of them, or of none.   *)
LEMMA AllOfSettles ==
  ASSUME NEW n \in Nat, NEW outcomes, Outcomes(outcomes, n), NEW explain
  PROVE  /\ AllOf(outcomes, explain) \in Verdicts
         /\ AllOf(outcomes, explain) = "pass" => \A i \in 1 .. n : outcomes[i] = "pass"
         /\ AllOf(outcomes, explain) = "fail" => \E i \in 1 .. n : outcomes[i] = "fail"
         /\ AllOf(outcomes, explain) = "error" => \E i \in 1 .. n : outcomes[i] = "error"
<1>1. CASE explain /\ Occurs("error", outcomes)
  BY <1>1 DEF AllOf, Occurs, Outcomes, Verdicts
<1>2. CASE ~(explain /\ Occurs("error", outcomes))
  <2>1. AllOf(outcomes, explain) = First(outcomes, {"fail", "error"}, "pass")
    BY <1>2 DEF AllOf
  <2>2. CASE \E i \in 1 .. n : outcomes[i] \in {"fail", "error"}
    <3>1. PICK i \in 1 .. n : /\ First(outcomes, {"fail", "error"}, "pass") = outcomes[i]
                              /\ outcomes[i] \in {"fail", "error"}
      BY <2>2, FirstStops DEF Outcomes
    <3> QED
      BY <2>1, <3>1 DEF Verdicts
  <2>3. CASE \A i \in 1 .. n : outcomes[i] \notin {"fail", "error"}
    <3>1. First(outcomes, {"fail", "error"}, "pass") = "pass"
      BY <2>3, FirstStops DEF Outcomes
    <3> QED
      BY <2>1, <2>3, <3>1 DEF Outcomes, Verdicts
  <2> QED
    BY <2>2, <2>3
<1> QED
  BY <1>1, <1>2

LEMMA AnyOfSettles ==
  ASSUME NEW n \in Nat, NEW outcomes, Outcomes(outcomes, n), outcomes = <<>> <=> n = 0, NEW explain
  PROVE  /\ AnyOf(outcomes, explain) \in Verdicts
         /\ AnyOf(outcomes, explain) = "pass" => n = 0 \/ \E i \in 1 .. n : outcomes[i] = "pass"
         /\ AnyOf(outcomes, explain) = "fail" => n # 0 /\ \A i \in 1 .. n : outcomes[i] = "fail"
         /\ AnyOf(outcomes, explain) = "error" => \E i \in 1 .. n : outcomes[i] = "error"
<1>1. CASE n = 0
  BY <1>1 DEF AnyOf, Verdicts
<1>2. CASE n # 0 /\ explain /\ Occurs("error", outcomes)
  BY <1>2 DEF AnyOf, Occurs, Outcomes, Verdicts
<1>3. CASE n # 0 /\ ~(explain /\ Occurs("error", outcomes))
  <2>1. AnyOf(outcomes, explain) = First(outcomes, {"pass", "error"}, "fail")
    BY <1>3 DEF AnyOf
  <2>2. CASE \E i \in 1 .. n : outcomes[i] \in {"pass", "error"}
    <3>1. PICK i \in 1 .. n : /\ First(outcomes, {"pass", "error"}, "fail") = outcomes[i]
                              /\ outcomes[i] \in {"pass", "error"}
      BY <2>2, FirstStops DEF Outcomes
    <3> QED
      BY <2>1, <3>1 DEF Verdicts
  <2>3. CASE \A i \in 1 .. n : outcomes[i] \notin {"pass", "error"}
    <3>1. First(outcomes, {"pass", "error"}, "fail") = "fail"
      BY <2>3, FirstStops DEF Outcomes
    <3> QED
      BY <1>3, <2>1, <2>3, <3>1 DEF Outcomes, Verdicts
  <2> QED
    BY <2>2, <2>3
<1> QED
  BY <1>1, <1>2, <1>3

(* A test that was accepted raises only for a selector that does, or for   *)
(* a number that no float holds.                                           *)
LEMMA TestSettles ==
  ASSUME NEW test, validate_condition(test), NEW v
  PROVE  /\ Outcome(test, v) \in Verdicts
         /\ Outcome(test, v) = "pass" => apply_operator(test.op, v, test.operand)
         /\ Outcome(test, v) = "fail" => ~apply_operator(test.op, v, test.operand)
         /\ Outcome(test, v) = "error" =>
              v = RAISES \/ (test.op \in Comparisons /\ \E x \in Of(v) : Huge(x))
<1>1. CASE Raises(test.op, v, test.operand)
  <2>1. Outcome(test, v) = "error"
    BY <1>1 DEF Outcome
  <2>2. v = RAISES \/ (test.op \in Comparisons /\ Overflows(test.op, v, test.operand))
    <3>1. /\ test.op \in OPERATORS
          /\ test.op = "regex" => Compiles(test.operand)
          /\ test.op \in {"exists", "empty"} => IsBoolean(test.operand)
          /\ test.op \in Comparisons => IsNumeric(test.operand)
          /\ test.op \in Counts => IsNumeric(test.operand)
      BY DEF validate_condition
    <3>2. \/ v = RAISES
          \/ test.op \notin OPERATORS
          \/ test.op \in {"exists", "empty"} /\ ~IsBoolean(test.operand)
          \/ /\ test.op \in Comparisons
             /\ ~IsNumeric(test.operand) \/ Overflows(test.op, v, test.operand)
          \/ test.op \in Counts /\ ~IsNumeric(test.operand)
          \/ test.op = "regex" /\ ~Compiles(test.operand)
      BY <1>1, Zenon DEF Raises
    <3>3. CASE test.op \in Comparisons
                 /\ (~IsNumeric(test.operand) \/ Overflows(test.op, v, test.operand))
      BY <3>1, <3>3
    <3>4. CASE test.op \in {"exists", "empty"} /\ ~IsBoolean(test.operand)
      BY <3>1, <3>4
    <3>5. CASE test.op \in Counts /\ ~IsNumeric(test.operand)
      BY <3>1, <3>5
    <3>6. CASE test.op = "regex" /\ ~Compiles(test.operand)
      BY <3>1, <3>6
    <3> QED
      BY <3>1, <3>2, <3>3, <3>4, <3>5, <3>6
  <2>3. Overflows(test.op, v, test.operand) => \E x \in Of(v) : Huge(x)
    BY DEF Overflows, Of
  <2> QED
    BY <2>1, <2>2, <2>3 DEF Verdicts
<1>2. CASE ~Raises(test.op, v, test.operand)
  BY <1>2 DEF Outcome, Verdicts
<1> QED
  BY <1>1, <1>2

----------------------------------------------------------------------------
(* The canonical form.                                                     *)

CanonicalEntry == [selector : Name, condition : Mapping]
CanonicalNode ==
  [form : {"not"}, child : Nat] \union [form : {"all", "any"}, children : Seq(Nat)]
    \union [form : {"conditions"}, entries : Seq(CanonicalEntry)]

Tested(entry) ==
  /\ entry.selector[1] \in ROOT_SELECTORS /\ entry.condition.tests # <<>>
  /\ \A n \in DOMAIN entry.condition.tests : validate_condition(entry.condition.tests[n])

IsCanonical(nodes) ==
  /\ nodes \in Seq(CanonicalNode) /\ nodes # <<>> /\ IsTree(nodes)
  /\ \A i \in DOMAIN nodes : nodes[i].form = "conditions" =>
       \A k \in DOMAIN nodes[i].entries : Tested(nodes[i].entries[k])

Refined(entry) == [entry EXCEPT !.condition = _normalise_condition(@)]

LEMMA ConditionRefined ==
  ASSUME NEW raw \in Condition
  PROVE  /\ _normalise_condition(raw) \in Mapping
         /\ raw.kind = "mapping" => _normalise_condition(raw) = raw
         /\ raw.kind = "list" => _normalise_condition(raw).tests = <<Test("in", raw)>>
         /\ raw.kind \notin {"mapping", "list"} =>
              _normalise_condition(raw).tests = <<Test("eq", raw)>> /\ raw # MISSING
<1>1. CASE raw.kind = "mapping"
  <2>1. raw \in Mapping
    BY <1>1 DEF Condition, Mapping, Literal, Operand
  <2> QED
    BY <1>1, <2>1 DEF _normalise_condition
<1>2. CASE raw.kind # "mapping"
  <2>1. raw \in Literal /\ raw \in Operand
    BY <1>2 DEF Condition, Mapping, Literal
  <2>2. Test("in", raw) \in Trial /\ Test("eq", raw) \in Trial
    BY <2>1 DEF Test, Trial, OPERATORS
  <2>3. raw # MISSING
    BY <2>1 DEF Operand, MISSING
  <2>4. /\ Tests(<<Test("in", raw)>>) \in Mapping
        /\ Tests(<<Test("eq", raw)>>) \in Mapping
    BY <2>2 DEF Tests, Mapping
  <2> QED
    BY <1>2, <2>3, <2>4 DEF _normalise_condition, Tests
<1> QED
  BY <1>1, <1>2

LEMMA EntryRefined ==
  ASSUME NEW entry \in WrittenEntry
  PROVE  /\ Refined(entry) \in CanonicalEntry
         /\ Refined(entry).selector = entry.selector
         /\ Refined(entry).condition = _normalise_condition(entry.condition)
         /\ entry.condition.kind = "mapping" => Refined(entry) = entry
<1>1. entry.condition \in Condition
  BY DEF WrittenEntry
<1>2. /\ Refined(entry).selector = entry.selector
      /\ Refined(entry).condition = _normalise_condition(entry.condition)
      /\ Refined(entry) = [selector |-> entry.selector, condition |-> _normalise_condition(entry.condition)]
  BY DEF Refined, WrittenEntry
<1>3. Refined(entry) \in CanonicalEntry
  BY <1>1, <1>2, ConditionRefined DEF CanonicalEntry, WrittenEntry
<1> QED
  BY <1>1, <1>2, <1>3, ConditionRefined DEF WrittenEntry

LEMMA EntriesRefined ==
  ASSUME NEW entries \in Seq(WrittenEntry),
         NEW node, node = _validate_conditions(entries), node # Invalid
  PROVE  /\ node = [form |-> "conditions", entries |-> [i \in DOMAIN entries |-> Refined(entries[i])]]
         /\ node.entries \in Seq(CanonicalEntry)
         /\ \A k \in DOMAIN node.entries : Tested(node.entries[k])
         /\ _validate_conditions(node.entries) = node
<1> DEFINE refined == [i \in DOMAIN entries |-> Refined(entries[i])]
<1>0. \A es : _validate_conditions(es) =
        IF \A i \in DOMAIN es : Tested([j \in DOMAIN es |-> Refined(es[j])][i])
        THEN [form |-> "conditions", entries |-> [i \in DOMAIN es |-> Refined(es[i])]]
        ELSE Invalid
  BY DEF _validate_conditions, Tested, Refined
<1>1. node = [form |-> "conditions", entries |-> refined] /\ \A i \in DOMAIN entries : Tested(refined[i])
  BY <1>0
<1>2. refined \in Seq(CanonicalEntry) /\ DOMAIN refined = DOMAIN entries
  <2>1. /\ Len(entries) \in Nat /\ DOMAIN entries = 1 .. Len(entries)
        /\ \A i \in 1 .. Len(entries) : entries[i] \in WrittenEntry
    OBVIOUS
  <2>2. \A i \in 1 .. Len(entries) : refined[i] \in CanonicalEntry
    BY <2>1, EntryRefined
  <2>3. DOMAIN refined = 1 .. Len(entries) /\ refined = [i \in 1 .. Len(entries) |-> refined[i]]
    BY <2>1
  <2> HIDE DEF refined
  <2>4. refined \in [1 .. Len(entries) -> CanonicalEntry]
    BY <2>2, <2>3
  <2> QED
    BY <2>1, <2>3, <2>4
<1>3. \A i \in DOMAIN refined : Refined(refined[i]) = refined[i]
  <2> SUFFICES ASSUME NEW i \in DOMAIN refined PROVE Refined(refined[i]) = refined[i]
    OBVIOUS
  <2>1. refined[i] \in CanonicalEntry
    BY <1>2
  <2> HIDE DEF refined
  <2>2. refined[i] \in WrittenEntry /\ refined[i].condition.kind = "mapping"
    BY <2>1 DEF CanonicalEntry, WrittenEntry, Condition, Mapping
  <2> QED
    BY <2>2, EntryRefined
<1> HIDE DEF refined
<1>4. [i \in DOMAIN refined |-> Refined(refined[i])] = refined
  BY <1>2, <1>3
<1>5. _validate_conditions(refined) = node
  BY <1>0, <1>1, <1>2, <1>4
<1> QED
  BY <1>1, <1>2, <1>5 DEF refined

LEMMA NodeCanonical ==
  ASSUME NEW raw \in Node, NEW node, node = Canonical(raw), node # Invalid
  PROVE  /\ node \in CanonicalNode /\ Canonical(node) = node
         /\ node.form = "conditions" =>
              /\ raw.form \in {"selectors", "conditions"} /\ raw.entries \in Seq(WrittenEntry)
              /\ node.entries = [k \in DOMAIN raw.entries |-> Refined(raw.entries[k])]
              /\ \A k \in DOMAIN node.entries : Tested(node.entries[k])
         /\ node.form # "conditions" =>
              \/ raw.form = "none" /\ node.form = "all" /\ node.children = <<>>
              \/ raw.form \in {"not", "all", "any"} /\ node = raw
<1>1. CASE raw.form = "none"
  <2>1. node = [form |-> "all", children |-> <<>>]
    BY <1>1 DEF Canonical
  <2>2. <<>> \in Seq(Nat)
    OBVIOUS
  <2> QED
    BY <1>1, <2>1, <2>2 DEF CanonicalNode, Canonical
<1>2. CASE raw.form \in {"selectors", "conditions"}
  <2>1. raw.entries \in Seq(WrittenEntry) /\ node = _validate_conditions(raw.entries)
    BY <1>2 DEF Node, Canonical
  <2>2. /\ node = [form |-> "conditions",
                   entries |-> [k \in DOMAIN raw.entries |-> Refined(raw.entries[k])]]
        /\ node.entries \in Seq(CanonicalEntry)
        /\ \A k \in DOMAIN node.entries : Tested(node.entries[k])
        /\ _validate_conditions(node.entries) = node
    BY <2>1, EntriesRefined
  <2>3. node.form = "conditions" /\ Canonical(node) = node
    BY <2>2 DEF Canonical
  <2>4. node.entries = [k \in DOMAIN raw.entries |-> Refined(raw.entries[k])]
    BY <2>2
  <2>5. node \in [form : {"conditions"}, entries : Seq(CanonicalEntry)]
    BY <2>2
  <2> QED
    BY <1>2, <2>1, <2>2, <2>3, <2>4, <2>5 DEF CanonicalNode
<1>3. CASE raw.form \in {"not", "all", "any"}
  <2>1. node = raw
    BY <1>3 DEF Canonical
  <2>2. raw \in CanonicalNode
    BY <1>3 DEF Node, CanonicalNode
  <2> QED
    BY <1>3, <2>1, <2>2 DEF Canonical
<1>4. CASE raw.form \notin {"none", "selectors", "conditions", "not", "all", "any"}
  BY <1>4 DEF Canonical
<1> QED
  BY <1>1, <1>2, <1>3, <1>4

(* What is stored goes through the normaliser unchanged.                   *)
LEMMA Normalised ==
  ASSUME NEW nodes \in Seq(Node), nodes # <<>>, IsTree(nodes),
         NEW s, s = normalise_match(nodes), s # Refused
  PROVE  /\ IsCanonical(s) /\ Len(s) = Len(nodes)
         /\ \A i \in 1 .. Len(s) : s[i] = Canonical(nodes[i]) /\ s[i] # Invalid
         /\ normalise_match(s) = s
<1> DEFINE n == Len(nodes)
           canonical == [i \in DOMAIN nodes |-> Canonical(nodes[i])]
<1>1. n \in Nat /\ DOMAIN nodes = 1 .. n /\ n # 0 /\ \A i \in 1 .. n : nodes[i] \in Node
  OBVIOUS
<1>2. s = canonical /\ \A i \in 1 .. n : canonical[i] # Invalid
  BY <1>1 DEF normalise_match
<1>3. DOMAIN s = 1 .. n /\ \A i \in 1 .. n : s[i] = Canonical(nodes[i]) /\ s[i] # Invalid
  BY <1>1, <1>2
<1> HIDE DEF canonical
<1>4. \A i \in 1 .. n : s[i] \in CanonicalNode /\ Canonical(s[i]) = s[i]
  BY <1>1, <1>3, NodeCanonical
<1>5. s \in Seq(CanonicalNode) /\ Len(s) = n
  <2>1. s = [i \in 1 .. n |-> s[i]]
    BY <1>1, <1>2 DEF canonical
  <2>2. s \in [1 .. n -> CanonicalNode]
    BY <1>4, <2>1
  <2> QED
    BY <1>1, <1>3, <2>2
<1>6. IsTree(s)
  <2> SUFFICES ASSUME NEW i \in 1 .. n
               PROVE  /\ s[i].form = "not" => s[i].child \in i + 1 .. n
                      /\ s[i].form \in {"all", "any"} =>
                           \A k \in DOMAIN s[i].children : s[i].children[k] \in i + 1 .. n
    BY <1>3, <1>5 DEF IsTree
  <2>1. CASE s[i].form = "conditions"
    BY <2>1
  <2>2. CASE nodes[i].form = "none" /\ s[i].form = "all" /\ s[i].children = <<>>
    BY <2>2
  <2>3. CASE nodes[i].form \in {"not", "all", "any"} /\ s[i] = nodes[i]
    BY <1>1, <2>3 DEF IsTree
  <2>4. nodes[i] \in Node /\ s[i] = Canonical(nodes[i]) /\ s[i] # Invalid
    BY <1>1, <1>3
  <2>5. s[i].form # "conditions" =>
          \/ nodes[i].form = "none" /\ s[i].form = "all" /\ s[i].children = <<>>
          \/ nodes[i].form \in {"not", "all", "any"} /\ s[i] = nodes[i]
    BY <2>4, NodeCanonical
  <2> QED
    BY <2>1, <2>2, <2>3, <2>5
<1>7. \A i \in 1 .. n : s[i].form = "conditions" =>
        \A k \in DOMAIN s[i].entries : Tested(s[i].entries[k])
  BY <1>1, <1>3, NodeCanonical
<1>8. normalise_match(s) = s
  <2>1. [i \in DOMAIN s |-> Canonical(s[i])] = s
    <3>1. s = [i \in 1 .. n |-> s[i]]
      BY <1>1, <1>2 DEF canonical
    <3> QED
      BY <1>3, <1>4, <3>1
  <2> QED
    BY <1>3, <2>1 DEF normalise_match
<1>9. s # <<>>
  BY <1>1, <1>5
<1> QED
  BY <1>3, <1>5, <1>6, <1>7, <1>8, <1>9 DEF IsCanonical

----------------------------------------------------------------------------
(* The outcomes of a tree.                                                 *)

(* A function of the places, each from those behind it, exists.            *)
OfThoseBehind(n, V, E) ==
  \A i \in 1 .. n :
    /\ \A f \in [1 .. n -> V] : E[i][f] \in V
    /\ \A f, g \in [1 .. n -> V] : (\A j \in i + 1 .. n : f[j] = g[j]) => E[i][f] = E[i][g]

LEMMA FromBehind ==
  ASSUME NEW n \in Nat, NEW V, NEW v0 \in V, NEW E, OfThoseBehind(n, V, E)
  PROVE  \E f \in [1 .. n -> V] : \A i \in 1 .. n : f[i] = E[i][f]
<1> DEFINE Done(f, k) == \A i \in k + 1 .. n : f[i] = E[i][f]
           T == {k \in Nat : k <= n /\ \E f \in [1 .. n -> V] : Done(f, k)}
<1>1. n \in T
  <2> DEFINE f0 == [i \in 1 .. n |-> v0]
  <2>1. f0 \in [1 .. n -> V]
    OBVIOUS
  <2> HIDE DEF f0
  <2>2. Done(f0, n)
    <3>1. n + 1 .. n = {}
      OBVIOUS
    <3> QED
      BY <3>1
  <2> QED
    BY <2>1, <2>2
<1>2. PICK k \in T : \A m \in T : k <= m
  <2>1. T \in SUBSET Nat /\ T # {}
    BY <1>1
  <2> HIDE DEF T
  <2> QED
    BY <2>1, LeastOf
<1>3. PICK f \in [1 .. n -> V] : Done(f, k)
  BY <1>2
<1>4. k \in Nat /\ k <= n
  BY <1>2
<1>5. CASE k = 0
  BY <1>3, <1>5
<1>6. CASE k # 0
  <2> DEFINE g == [f EXCEPT ![k] = E[k][f]]
  <2>1. k \in 1 .. n /\ k - 1 \in Nat /\ k - 1 <= n
    BY <1>4, <1>6
  <2>2. E[k][f] \in V
    BY <2>1 DEF OfThoseBehind
  <2>3. g \in [1 .. n -> V] /\ g[k] = E[k][f] /\ \A j \in 1 .. n : j # k => g[j] = f[j]
    BY <2>1, <2>2
  <2> HIDE DEF g
  <2>4. ASSUME NEW i \in k .. n PROVE g[i] = E[i][g]
    <3>1. i \in 1 .. n /\ \A j \in i + 1 .. n : g[j] = f[j]
      BY <2>1, <2>3
    <3>2. E[i][f] = E[i][g]
      BY <2>3, <3>1 DEF OfThoseBehind
    <3>3. CASE i = k
      BY <2>3, <3>2, <3>3
    <3>4. CASE i # k
      <4>1. i \in k + 1 .. n
        BY <1>4, <3>4
      <4>2. f[i] = E[i][f]
        BY <1>3, <4>1
      <4> QED
        BY <2>3, <3>1, <3>2, <3>4, <4>2
    <3> QED
      BY <3>3, <3>4
  <2>5. Done(g, k - 1)
    BY <1>4, <2>4
  <2>6. k - 1 \in T
    BY <2>1, <2>3, <2>5
  <2>7. k <= k - 1
    <3> HIDE DEF T
    <3> QED
      BY <1>2, <2>6
  <2> QED
    BY <1>4, <2>7
<1> QED
  BY <1>5, <1>6

(* What passing, failing and raising come to.                              *)
Meets(entries, root) ==
  \A k \in DOMAIN entries : \A t \in DOMAIN entries[k].condition.tests :
    apply_operator(entries[k].condition.tests[t].op, resolve_path(root, entries[k].selector),
                   entries[k].condition.tests[t].operand)

Stumbles(entries, root) ==
  \E k \in DOMAIN entries :
    \/ resolve_path(root, entries[k].selector) = RAISES
    \/ /\ \E t \in DOMAIN entries[k].condition.tests : entries[k].condition.tests[t].op \in Comparisons
       /\ \E x \in Of(resolve_path(root, entries[k].selector)) : Huge(x)

Passes(o, node, root) ==
  /\ node.form = "conditions" => Meets(node.entries, root)
  /\ node.form = "not" => o[node.child] = "fail"
  /\ node.form = "all" => \A k \in DOMAIN node.children : o[node.children[k]] = "pass"
  /\ node.form = "any" =>
       node.children = <<>> \/ \E k \in DOMAIN node.children : o[node.children[k]] = "pass"

Fails(o, node, root) ==
  /\ node.form = "conditions" => ~Meets(node.entries, root)
  /\ node.form = "not" => o[node.child] = "pass"
  /\ node.form = "all" => \E k \in DOMAIN node.children : o[node.children[k]] = "fail"
  /\ node.form = "any" =>
       node.children # <<>> /\ \A k \in DOMAIN node.children : o[node.children[k]] = "fail"

Errs(o, node, root) ==
  /\ node.form = "conditions" => Stumbles(node.entries, root)
  /\ node.form = "not" => o[node.child] = "error"
  /\ node.form \in {"all", "any"} => \E k \in DOMAIN node.children : o[node.children[k]] = "error"

(* An outcome and what it comes to.                                        *)
Settles(outcome, o, node, root) ==
  /\ outcome \in Verdicts
  /\ outcome = "pass" => Passes(o, node, root)
  /\ outcome = "fail" => Fails(o, node, root)
  /\ outcome = "error" => Errs(o, node, root)

LEMMA ConditionsSettle ==
  ASSUME NEW entries \in Seq(CanonicalEntry), \A k \in DOMAIN entries : Tested(entries[k]),
         NEW root, NEW explain
  PROVE  LET outcome == _eval_conditions(entries, root, explain)
         IN  /\ outcome \in Verdicts
             /\ outcome = "pass" => Meets(entries, root)
             /\ outcome = "fail" => ~Meets(entries, root)
             /\ outcome = "error" => Stumbles(entries, root)
<1> DEFINE n == Len(entries)
           tests(k) == entries[k].condition.tests
           observed(k) == resolve_path(root, entries[k].selector)
           each(k) == [t \in DOMAIN tests(k) |-> Outcome(tests(k)[t], observed(k))]
           every == [k \in DOMAIN entries |-> AllOf(each(k), explain)]
           Met(k) == \A t \in DOMAIN tests(k) : apply_operator(tests(k)[t].op, observed(k), tests(k)[t].operand)
           Trip(k) == \/ observed(k) = RAISES
                      \/ /\ \E t \in DOMAIN tests(k) : tests(k)[t].op \in Comparisons
                         /\ \E x \in Of(observed(k)) : Huge(x)
<1>1. n \in Nat /\ DOMAIN entries = 1 .. n
  OBVIOUS
<1>2. ASSUME NEW k \in 1 .. n
      PROVE  /\ every[k] \in Verdicts
             /\ every[k] = "pass" => Met(k)
             /\ every[k] = "fail" => ~Met(k)
             /\ every[k] = "error" => Trip(k)
  <2> DEFINE m == Len(tests(k))
  <2>1. entries[k] \in CanonicalEntry /\ Tested(entries[k])
    BY <1>1
  <2>2. m \in Nat /\ DOMAIN tests(k) = 1 .. m
    BY <2>1 DEF CanonicalEntry, Mapping
  <2>3. \A t \in 1 .. m : validate_condition(tests(k)[t])
    BY <2>1, <2>2 DEF Tested
  <2>4. ASSUME NEW t \in 1 .. m
        PROVE  /\ each(k)[t] \in Verdicts
               /\ each(k)[t] = "pass" => apply_operator(tests(k)[t].op, observed(k), tests(k)[t].operand)
               /\ each(k)[t] = "fail" => ~apply_operator(tests(k)[t].op, observed(k), tests(k)[t].operand)
               /\ each(k)[t] = "error" => \/ observed(k) = RAISES
                                         \/ /\ tests(k)[t].op \in Comparisons
                                            /\ \E x \in Of(observed(k)) : Huge(x)
    <3>1. each(k)[t] = Outcome(tests(k)[t], observed(k))
      BY <2>2
    <3>2. validate_condition(tests(k)[t])
      BY <2>3
    <3> HIDE DEF each, tests, observed
    <3> QED
      BY <3>1, <3>2, TestSettles
  <2>5. DOMAIN each(k) = 1 .. m
    BY <2>2
  <2>6. every[k] = AllOf(each(k), explain)
    BY <1>1
  <2> HIDE DEF each, tests, observed, m, every
  <2>7. Outcomes(each(k), m)
    BY <2>4, <2>5 DEF Outcomes
  <2>8. /\ every[k] \in Verdicts
        /\ every[k] = "pass" => \A t \in 1 .. m : each(k)[t] = "pass"
        /\ every[k] = "fail" => \E t \in 1 .. m : each(k)[t] = "fail"
        /\ every[k] = "error" => \E t \in 1 .. m : each(k)[t] = "error"
    BY <2>2, <2>6, <2>7, AllOfSettles
  <2> QED
    BY <2>2, <2>4, <2>8
<1>3. _eval_conditions(entries, root, explain) = AllOf(every, explain)
  BY DEF _eval_conditions
<1>4. Outcomes(every, n)
  <2>1. DOMAIN every = 1 .. n
    BY <1>1
  <2> HIDE DEF every, n, Met, Trip
  <2> QED
    BY <1>2, <2>1 DEF Outcomes
<1>5. Meets(entries, root) <=> \A k \in 1 .. n : Met(k)
  BY <1>1 DEF Meets
<1>6. Stumbles(entries, root) <=> \E k \in 1 .. n : Trip(k)
  BY <1>1 DEF Stumbles
<1> HIDE DEF every, n, Met, Trip
<1> QED
  BY <1>1, <1>2, <1>3, <1>4, <1>5, <1>6, AllOfSettles

LEMMA NodeSettles ==
  ASSUME NEW s, IsCanonical(s), NEW i \in 1 .. Len(s), NEW root, NEW explain,
         NEW o, \A j \in i + 1 .. Len(s) : o[j] \in Verdicts
  PROVE  Settles(Evaluated(o, s[i], root, explain), o, s[i], root)
<1> DEFINE outcome == Evaluated(o, s[i], root, explain)
<1>1. s[i] \in CanonicalNode /\ DOMAIN s = 1 .. Len(s)
  BY DEF IsCanonical
<1>2. CASE s[i].form = "conditions"
  <2>1. s[i].entries \in Seq(CanonicalEntry)
    BY <1>1, <1>2 DEF CanonicalNode
  <2>2. \A k \in DOMAIN s[i].entries : Tested(s[i].entries[k])
    BY <1>1, <1>2 DEF IsCanonical
  <2>3. outcome = _eval_conditions(s[i].entries, root, explain)
    BY <1>2 DEF Evaluated
  <2>4. /\ outcome \in Verdicts
        /\ outcome = "pass" => Meets(s[i].entries, root)
        /\ outcome = "fail" => ~Meets(s[i].entries, root)
        /\ outcome = "error" => Stumbles(s[i].entries, root)
    BY <2>1, <2>2, <2>3, ConditionsSettle
  <2>5. Settles(outcome, o, s[i], root)
    <3> HIDE DEF outcome
    <3> QED
      BY <1>2, <2>4 DEF Settles, Passes, Fails, Errs
  <2> QED
    BY <2>5
<1>3. CASE s[i].form = "not"
  <2>1. s[i].child \in i + 1 .. Len(s)
    BY <1>1, <1>3 DEF IsCanonical, IsTree
  <2>2. o[s[i].child] \in Verdicts
    BY <2>1
  <2>3. outcome = Negated(o[s[i].child])
    BY <1>3 DEF Evaluated
  <2>4. Settles(outcome, o, s[i], root)
    <3> HIDE DEF outcome
    <3> QED
      BY <1>3, <2>2, <2>3 DEF Settles, Passes, Fails, Errs, Negated, Verdicts
  <2> QED
    BY <2>4
<1>4. CASE s[i].form \in {"all", "any"}
  <2> DEFINE c == s[i].children
             m == Len(c)
             of == [k \in DOMAIN c |-> o[c[k]]]
  <2>1. c \in Seq(Nat)
    BY <1>1, <1>4 DEF CanonicalNode
  <2>2. m \in Nat /\ DOMAIN c = 1 .. m /\ (c = <<>> <=> m = 0)
    BY <2>1
  <2>3. \A k \in 1 .. m : o[c[k]] \in Verdicts
    <3>1. \A k \in DOMAIN c : c[k] \in i + 1 .. Len(s)
      BY <1>1, <1>4 DEF IsCanonical, IsTree
    <3> HIDE DEF c
    <3> QED
      BY <2>2, <3>1
  <2>4. Outcomes(of, m)
    <3> HIDE DEF c
    <3> QED
      BY <2>2, <2>3 DEF Outcomes
  <2>5. of = <<>> <=> m = 0
    <3> HIDE DEF c
    <3>1. of \in Seq(Verdicts) /\ Len(of) = m
      BY <2>2, <2>3
    <3> QED
      BY <3>1
  <2>6. \A k \in 1 .. m : of[k] = o[c[k]]
    BY <2>2
  <2>7. CASE s[i].form = "all"
    <3>1. outcome = AllOf(of, explain)
      BY <2>7 DEF Evaluated
    <3>2. /\ Passes(o, s[i], root) <=> \A k \in 1 .. m : o[c[k]] = "pass"
          /\ Fails(o, s[i], root) <=> \E k \in 1 .. m : o[c[k]] = "fail"
          /\ Errs(o, s[i], root) <=> \E k \in 1 .. m : o[c[k]] = "error"
      BY <2>2, <2>7 DEF Passes, Fails, Errs
    <3>3. Settles(outcome, o, s[i], root)
      <4> HIDE DEF of, m, c, outcome
      <4> QED
        BY <2>2, <2>4, <2>6, <3>1, <3>2, AllOfSettles DEF Settles
    <3> QED
      BY <3>3
  <2>8. CASE s[i].form = "any"
    <3>1. outcome = AnyOf(of, explain)
      BY <2>8 DEF Evaluated
    <3>2. /\ Passes(o, s[i], root) <=> m = 0 \/ \E k \in 1 .. m : o[c[k]] = "pass"
          /\ Fails(o, s[i], root) <=> m # 0 /\ \A k \in 1 .. m : o[c[k]] = "fail"
          /\ Errs(o, s[i], root) <=> \E k \in 1 .. m : o[c[k]] = "error"
      BY <2>2, <2>8 DEF Passes, Fails, Errs
    <3>3. Settles(outcome, o, s[i], root)
      <4> HIDE DEF of, m, c, outcome
      <4> QED
        BY <2>2, <2>4, <2>5, <2>6, <3>1, <3>2, AnyOfSettles DEF Settles
    <3> QED
      BY <3>3
  <2> QED
    BY <1>4, <2>7, <2>8
<1> QED
  BY <1>1, <1>2, <1>3, <1>4 DEF CanonicalNode

(* The outcome of a node depends on the nodes behind it only.              *)
LEMMA OnlyBehind ==
  ASSUME NEW s, IsCanonical(s), NEW i \in 1 .. Len(s), NEW root, NEW explain, NEW f, NEW g,
         \A j \in i + 1 .. Len(s) : f[j] = g[j]
  PROVE  Evaluated(f, s[i], root, explain) = Evaluated(g, s[i], root, explain)
<1>1. s[i] \in CanonicalNode /\ DOMAIN s = 1 .. Len(s)
  BY DEF IsCanonical
<1>2. CASE s[i].form = "conditions"
  BY <1>2 DEF Evaluated
<1>3. CASE s[i].form = "not"
  <2>1. f[s[i].child] = g[s[i].child]
    BY <1>1, <1>3 DEF IsCanonical, IsTree
  <2> QED
    BY <1>3, <2>1 DEF Evaluated
<1>4. CASE s[i].form \in {"all", "any"}
  <2> DEFINE c == s[i].children
  <2>1. \A k \in DOMAIN c : f[c[k]] = g[c[k]]
    BY <1>1, <1>4 DEF IsCanonical, IsTree
  <2>2. [k \in DOMAIN c |-> f[c[k]]] = [k \in DOMAIN c |-> g[c[k]]]
    BY <2>1
  <2> QED
    BY <1>4, <2>2 DEF Evaluated
<1> QED
  BY <1>1, <1>2, <1>3, <1>4 DEF CanonicalNode

(* The outcomes of the nodes, from the last to the first.                  *)
LEMMA OutcomesOf ==
  ASSUME NEW s, IsCanonical(s), NEW root, NEW explain
  PROVE  \E o \in [1 .. Len(s) -> Verdicts] :
           /\ _eval_node(s, root, explain) = o[1]
           /\ \A i \in 1 .. Len(s) : Settles(o[i], o, s[i], root)
<1> DEFINE n == Len(s)
           E == [i \in 1 .. n |-> [f \in [1 .. n -> Verdicts] |-> Evaluated(f, s[i], root, explain)]]
           Is(f) == f = [i \in DOMAIN s |-> Evaluated(f, s[i], root, explain)]
           o == CHOOSE f : Is(f)
<1>1. n \in Nat /\ n # 0 /\ DOMAIN s = 1 .. n
  BY DEF IsCanonical
<1>2. ASSUME NEW i \in 1 .. n, NEW f \in [1 .. n -> Verdicts]
      PROVE  E[i][f] = Evaluated(f, s[i], root, explain) /\ E[i][f] \in Verdicts
  <2>1. E[i][f] = Evaluated(f, s[i], root, explain)
    OBVIOUS
  <2>2. \A j \in i + 1 .. Len(s) : f[j] \in Verdicts
    OBVIOUS
  <2> HIDE DEF E
  <2> QED
    BY <2>1, <2>2, NodeSettles DEF Settles
<1>3. ASSUME NEW i \in 1 .. n, NEW f \in [1 .. n -> Verdicts], NEW g \in [1 .. n -> Verdicts],
             \A j \in i + 1 .. n : f[j] = g[j]
      PROVE  E[i][f] = E[i][g]
  <2>1. Evaluated(f, s[i], root, explain) = Evaluated(g, s[i], root, explain)
    BY <1>3, OnlyBehind
  <2> HIDE DEF E
  <2> QED
    BY <1>2, <2>1
<1>4. PICK f \in [1 .. n -> Verdicts] : \A i \in 1 .. n : f[i] = E[i][f]
  <2>1. "fail" \in Verdicts /\ n \in Nat
    BY <1>1 DEF Verdicts
  <2> HIDE DEF E, n
  <2>2. OfThoseBehind(n, Verdicts, E)
    BY <1>2, <1>3 DEF OfThoseBehind
  <2> QED
    BY <2>1, <2>2, FromBehind
<1>5. Is(f)
  <2>1. \A i \in 1 .. n : f[i] = Evaluated(f, s[i], root, explain)
    <3> HIDE DEF E
    <3> QED
      BY <1>2, <1>4
  <2> QED
    BY <1>1, <2>1
<1>6. Is(o)
  <2> HIDE DEF Is
  <2> QED
    BY <1>5
<1>7. _eval_node(s, root, explain) = o[1]
  BY DEF _eval_node
<1> HIDE DEF o
<1>8. DOMAIN o = 1 .. n /\ \A i \in 1 .. n : o[i] = Evaluated(o, s[i], root, explain)
  BY <1>1, <1>6
<1>9. \A i \in 1 .. n : o[i] \in Verdicts
  <2> DEFINE S == {i \in 1 .. n : o[i] \in Verdicts}
  <2>1. ASSUME NEW i \in 1 .. n, \A j \in i + 1 .. n : j \in S PROVE i \in S
    <3>1. \A j \in i + 1 .. Len(s) : o[j] \in Verdicts
      BY <2>1
    <3> QED
      BY <1>8, <3>1, NodeSettles DEF Settles
  <2>2. \A i \in 1 .. n : i \in S
    <3> HIDE DEF S, n
    <3> QED
      BY <1>1, <2>1, FromTheEnd
  <2> QED
    BY <2>2
<1>10. ASSUME NEW i \in 1 .. n PROVE Settles(o[i], o, s[i], root)
  <2>1. \A j \in i + 1 .. Len(s) : o[j] \in Verdicts
    BY <1>9
  <2>2. Settles(Evaluated(o, s[i], root, explain), o, s[i], root)
    BY <2>1, NodeSettles
  <2> QED
    BY <1>8, <2>2
<1>11. o \in [1 .. n -> Verdicts]
  <2>1. o = [i \in 1 .. n |-> o[i]]
    BY <1>1, <1>6, <1>8
  <2> QED
    BY <1>9, <2>1
<1> QED
  BY <1>7, <1>10, <1>11

(* Bringing a condition to its canonical form keeps what it says.          *)
LEMMA SaysRefined ==
  ASSUME NEW raw \in Condition, NEW v
  PROVE  LET tests == _normalise_condition(raw).tests
         IN  Says(raw, v) <=> \A t \in DOMAIN tests : apply_operator(tests[t].op, v, tests[t].operand)
<1> DEFINE tests == _normalise_condition(raw).tests
<1>1. CASE raw.kind = "mapping"
  BY <1>1, ConditionRefined DEF Says
<1>2. CASE raw.kind = "list"
  <2>1. tests = <<Test("in", raw)>>
    BY <1>2, ConditionRefined
  <2>2. apply_operator("in", v, raw) <=> Some(v, raw)
    BY DEF apply_operator, Patterns, Comparisons, Counts
  <2>3. Says(raw, v) <=> Some(v, raw)
    BY <1>2 DEF Says, Some
  <2> QED
    BY <2>1, <2>2, <2>3 DEF Test
<1>3. CASE raw.kind \notin {"mapping", "list"}
  <2>1. tests = <<Test("eq", raw)>> /\ raw # MISSING
    BY <1>3, ConditionRefined
  <2>2. apply_operator("eq", v, raw) <=> v # MISSING /\ Equal(v, raw)
    BY DEF apply_operator, Patterns, Comparisons, Counts
  <2>3. Says(raw, v) <=> Equal(v, raw)
    BY <1>3 DEF Says
  <2>4. Equal(v, raw) => v # MISSING
    <3>1. raw.kind \in {"scalar", "list"}
      BY <1>3 DEF Condition, Mapping, Literal
    <3> QED
      BY <3>1 DEF Equal, MISSING
  <2> QED
    BY <2>1, <2>2, <2>3, <2>4 DEF Test
<1> QED
  BY <1>1, <1>2, <1>3

LEMMA EntriesMean ==
  ASSUME NEW raw \in Seq(WrittenEntry), NEW entries,
         entries = [k \in DOMAIN raw |-> Refined(raw[k])], NEW root
  PROVE  Meets(entries, root) <=>
           \A k \in DOMAIN raw : Says(raw[k].condition, resolve_path(root, raw[k].selector))
<1>1. ASSUME NEW k \in DOMAIN raw
      PROVE  /\ raw[k].condition \in Condition
             /\ entries[k].selector = raw[k].selector
             /\ entries[k].condition = _normalise_condition(raw[k].condition)
  <2>1. raw[k] \in WrittenEntry
    OBVIOUS
  <2>2. raw[k].condition \in Condition
    BY <2>1 DEF WrittenEntry
  <2>3. entries[k] = Refined(raw[k])
    OBVIOUS
  <2> QED
    BY <2>1, <2>2, <2>3, EntryRefined
<1>2. ASSUME NEW k \in DOMAIN raw
      PROVE  Says(raw[k].condition, resolve_path(root, raw[k].selector)) <=>
               \A t \in DOMAIN entries[k].condition.tests :
                 apply_operator(entries[k].condition.tests[t].op, resolve_path(root, entries[k].selector),
                                entries[k].condition.tests[t].operand)
  BY <1>1, SaysRefined
<1>3. DOMAIN entries = DOMAIN raw
  OBVIOUS
<1> QED
  BY <1>2, <1>3 DEF Meets

StoredFor(nodes, s) ==
  /\ nodes \in Seq(Node) /\ nodes # <<>> /\ IsTree(nodes)
  /\ s = normalise_match(nodes) /\ s # Refused

(* What the words mean is settled wherever the outcome is.                 *)
Agrees(meant, outcome) ==
  /\ outcome = "pass" => meant
  /\ outcome = "fail" => ~meant

AgreeBehind(i, n, means, o) == \A j \in i + 1 .. n : Agrees(means[j], o[j])

LEMMA SettlesAsMeant ==
  ASSUME NEW nodes, NEW s, StoredFor(nodes, s), NEW i \in 1 .. Len(nodes), NEW root, NEW o,
         NEW outcome, Settles(outcome, o, s[i], root),
         NEW means, AgreeBehind(i, Len(nodes), means, o)
  PROVE  Agrees(Meant(means, nodes[i], root), outcome)
<1>1. /\ DOMAIN nodes = 1 .. Len(nodes) /\ DOMAIN s = 1 .. Len(nodes)
      /\ nodes[i] \in Node /\ s[i] = Canonical(nodes[i]) /\ s[i] # Invalid
      /\ s[i] \in CanonicalNode /\ IsTree(s)
  BY Normalised DEF IsCanonical, StoredFor
<1>2. /\ outcome = "pass" => Passes(o, s[i], root)
      /\ outcome = "fail" => Fails(o, s[i], root)
  BY DEF Settles
<1>3. CASE s[i].form = "conditions"
  <2>1. /\ nodes[i].form \in {"selectors", "conditions"} /\ nodes[i].entries \in Seq(WrittenEntry)
        /\ s[i].entries = [k \in DOMAIN nodes[i].entries |-> Refined(nodes[i].entries[k])]
    BY <1>1, <1>3, NodeCanonical
  <2>2. Meets(s[i].entries, root) <=>
          \A k \in DOMAIN nodes[i].entries :
            Says(nodes[i].entries[k].condition, resolve_path(root, nodes[i].entries[k].selector))
    BY <2>1, EntriesMean
  <2>3. Meant(means, nodes[i], root) <=> Meets(s[i].entries, root)
    BY <2>1, <2>2 DEF Meant
  <2> QED
    BY <1>2, <1>3, <2>3 DEF Passes, Fails, Agrees
<1>4. CASE s[i].form # "conditions" /\ nodes[i].form = "none"
  <2>1. s[i].form = "all" /\ s[i].children = <<>>
    BY <1>1, <1>4, NodeCanonical
  <2>2. Meant(means, nodes[i], root) /\ ~Fails(o, s[i], root)
    BY <1>4, <2>1 DEF Fails, Meant
  <2> QED
    BY <1>2, <2>2 DEF Agrees
<1>5. CASE s[i].form # "conditions" /\ nodes[i].form # "none"
  <2>1. nodes[i].form \in {"not", "all", "any"} /\ s[i] = nodes[i]
    BY <1>1, <1>5, NodeCanonical
  <2>2. CASE nodes[i].form = "not"
    <3>1. s[i].child \in i + 1 .. Len(nodes)
      BY <1>1, <2>1, <2>2 DEF IsTree
    <3>2. Meant(means, nodes[i], root) <=> ~means[s[i].child]
      BY <2>1, <2>2 DEF Meant
    <3>3. Agrees(means[s[i].child], o[s[i].child])
      BY <3>1 DEF AgreeBehind
    <3> QED
      BY <1>2, <2>1, <2>2, <3>2, <3>3 DEF Passes, Fails, Agrees
  <2>3. CASE nodes[i].form \in {"all", "any"}
    <3>1. \A k \in DOMAIN s[i].children : s[i].children[k] \in i + 1 .. Len(nodes)
      BY <1>1, <2>1, <2>3 DEF IsTree
    <3>2. \A k \in DOMAIN s[i].children : Agrees(means[s[i].children[k]], o[s[i].children[k]])
      BY <3>1 DEF AgreeBehind
    <3>3. CASE nodes[i].form = "all"
      <4>1. Meant(means, nodes[i], root) <=> \A k \in DOMAIN s[i].children : means[s[i].children[k]]
        BY <2>1, <3>3 DEF Meant
      <4> QED
        BY <1>2, <2>1, <3>2, <3>3, <4>1 DEF Passes, Fails, Agrees
    <3>4. CASE nodes[i].form = "any"
      <4>1. Meant(means, nodes[i], root) <=>
              s[i].children = <<>> \/ \E k \in DOMAIN s[i].children : means[s[i].children[k]]
        BY <2>1, <3>4 DEF Meant
      <4> QED
        BY <1>2, <2>1, <3>2, <3>4, <4>1 DEF Passes, Fails, Agrees
    <3> QED
      BY <2>3, <3>3, <3>4
  <2> QED
    BY <2>1, <2>2, <2>3
<1> QED
  BY <1>3, <1>4, <1>5

(* What the words of a node mean depends on the nodes behind it only.      *)
LEMMA MeantBehind ==
  ASSUME NEW nodes \in Seq(Node), IsTree(nodes), NEW i \in 1 .. Len(nodes), NEW root,
         Canonical(nodes[i]) # Invalid, NEW f, NEW g,
         \A j \in i + 1 .. Len(nodes) : f[j] = g[j]
  PROVE  /\ Meant(f, nodes[i], root) \in BOOLEAN
         /\ Meant(f, nodes[i], root) = Meant(g, nodes[i], root)
<1>1. nodes[i] \in Node /\ DOMAIN nodes = 1 .. Len(nodes)
  OBVIOUS
<1>2. nodes[i].form \in {"none", "selectors", "conditions", "not", "all", "any"}
  BY DEF Canonical
<1>3. CASE nodes[i].form = "none"
  BY <1>3 DEF Meant
<1>4. CASE nodes[i].form \in {"selectors", "conditions"}
  BY <1>4 DEF Meant
<1>5. CASE nodes[i].form = "not"
  <2>1. f[nodes[i].child] = g[nodes[i].child]
    BY <1>1, <1>5 DEF IsTree
  <2> QED
    BY <1>5, <2>1 DEF Meant
<1>6. CASE nodes[i].form \in {"all", "any"}
  <2>1. \A k \in DOMAIN nodes[i].children : f[nodes[i].children[k]] = g[nodes[i].children[k]]
    BY <1>1, <1>6 DEF IsTree
  <2>2. CASE nodes[i].form = "all"
    BY <2>1, <2>2 DEF Meant
  <2>3. CASE nodes[i].form = "any"
    BY <2>1, <2>3 DEF Meant
  <2> QED
    BY <1>6, <2>2, <2>3
<1> QED
  BY <1>2, <1>3, <1>4, <1>5, <1>6

LEMMA MeansAsWritten ==
  ASSUME NEW nodes, NEW s, StoredFor(nodes, s), NEW root, NEW explain
  PROVE  /\ _eval_node(s, root, explain) \in Verdicts
         /\ Agrees(Means(nodes, root), _eval_node(s, root, explain))
         /\ Means(nodes, root) \in BOOLEAN
<1>0. PICK B : B = BOOLEAN
  OBVIOUS
<1> DEFINE n == Len(nodes)
           Is(f) == f = [i \in DOMAIN nodes |-> Meant(f, nodes[i], root)]
           E == [i \in 1 .. n |-> [f \in [1 .. n -> B] |-> Meant(f, nodes[i], root)]]
           means == CHOOSE f : Is(f)
<1>1. n \in Nat /\ n # 0 /\ DOMAIN nodes = 1 .. n /\ nodes \in Seq(Node) /\ IsTree(nodes)
  BY DEF StoredFor
<1>2. IsCanonical(s) /\ Len(s) = n
  BY Normalised DEF StoredFor
<1>3. \A i \in 1 .. Len(nodes) : Canonical(nodes[i]) # Invalid
  BY Normalised DEF StoredFor
<1>4. PICK o \in [1 .. Len(s) -> Verdicts] :
        /\ _eval_node(s, root, explain) = o[1]
        /\ \A i \in 1 .. Len(s) : Settles(o[i], o, s[i], root)
  BY <1>2, OutcomesOf
<1>5. PICK m \in [1 .. n -> B] : \A i \in 1 .. n : m[i] = E[i][m]
  <2>1. ASSUME NEW i \in 1 .. n, NEW f \in [1 .. n -> B]
        PROVE  E[i][f] = Meant(f, nodes[i], root) /\ E[i][f] \in B
    <3>1. E[i][f] = Meant(f, nodes[i], root)
      OBVIOUS
    <3>2. Meant(f, nodes[i], root) \in BOOLEAN
      BY <1>1, <1>3, MeantBehind
    <3> HIDE DEF E
    <3> QED
      BY <1>0, <3>1, <3>2
  <2>2. ASSUME NEW i \in 1 .. n, NEW f \in [1 .. n -> B], NEW g \in [1 .. n -> B],
               \A j \in i + 1 .. n : f[j] = g[j]
        PROVE  E[i][f] = E[i][g]
    <3>1. Meant(f, nodes[i], root) = Meant(g, nodes[i], root)
      <4>1. \A j \in i + 1 .. Len(nodes) : f[j] = g[j]
        BY <2>2
      <4> HIDE DEF E
      <4> QED
        BY <1>1, <1>3, <4>1, MeantBehind
    <3> HIDE DEF E
    <3> QED
      BY <2>1, <3>1
  <2>3. PICK b : b \in B
    BY <1>0
  <2>4. n \in Nat
    BY <1>1
  <2> HIDE DEF E, n
  <2>5. OfThoseBehind(n, B, E)
    BY <2>1, <2>2 DEF OfThoseBehind
  <2> QED
    BY <2>3, <2>4, <2>5, FromBehind
<1>6. Is(m)
  <2>1. \A i \in 1 .. n : m[i] = Meant(m, nodes[i], root)
    BY <1>5
  <2>2. m = [i \in 1 .. n |-> m[i]]
    OBVIOUS
  <2> QED
    BY <1>1, <2>1, <2>2
<1>7. Is(means)
  <2> HIDE DEF Is
  <2> QED
    BY <1>6
<1>8. Means(nodes, root) = means[1]
  BY DEF Means
<1> HIDE DEF means
<1>9. \A i \in 1 .. n : means[i] = Meant(means, nodes[i], root)
  BY <1>1, <1>7
<1>10. \A i \in 1 .. n : Agrees(means[i], o[i])
  <2> DEFINE S == {i \in 1 .. n : Agrees(means[i], o[i])}
  <2>1. ASSUME NEW i \in 1 .. n, \A j \in i + 1 .. n : j \in S PROVE i \in S
    <3>1. AgreeBehind(i, Len(nodes), means, o)
      BY <1>1, <2>1 DEF AgreeBehind
    <3>2. Settles(o[i], o, s[i], root)
      BY <1>2, <1>4
    <3>3. Agrees(Meant(means, nodes[i], root), o[i])
      BY <3>1, <3>2, SettlesAsMeant
    <3> QED
      BY <1>9, <3>3
  <2>2. \A i \in 1 .. n : i \in S
    <3> HIDE DEF S, n
    <3> QED
      BY <1>1, <2>1, FromTheEnd
  <2> QED
    BY <2>2
<1>11. 1 \in 1 .. n
  BY <1>1
<1>12. means[1] \in BOOLEAN
  <2>1. Meant(means, nodes[1], root) \in BOOLEAN
    BY <1>1, <1>3, <1>11, MeantBehind
  <2> QED
    BY <1>9, <1>11, <2>1
<1> QED
  BY <1>2, <1>4, <1>8, <1>10, <1>11, <1>12

----------------------------------------------------------------------------
(* What a selector reads.                                                  *)

Sound(v) == v.kind \in {"scalar", "list", "dict"}

(* A request whose attributes are what JSON holds of them.                 *)
Shaped(request) ==
  /\ \A name \in DOMAIN request.attributes : request.attributes[name] \in Literal
  /\ \A name \in DOMAIN request.about : request.about[name] \in Literal

LEMMA UnderSound ==
  ASSUME NEW T, NEW prefix \in Seq(T), NEW attributes, DOMAIN attributes \subseteq T,
         \A name \in DOMAIN attributes : attributes[name] \in Literal
  PROVE  \A p \in DOMAIN Under(prefix, attributes) : Sound(Under(prefix, attributes)[p])
<1> SUFFICES ASSUME NEW name \in DOMAIN attributes
             PROVE  Sound(Under(prefix, attributes)[prefix \o <<name>>])
  BY DEF Under
<1>1. LET p == prefix \o <<name>> IN p[Len(p)] = name
  <2>1. <<name>> \in Seq(T) /\ Len(<<name>>) = 1 /\ Len(prefix) \in Nat
    OBVIOUS
  <2>2. Len(prefix \o <<name>>) = Len(prefix) + 1
    BY <2>1
  <2>3. (prefix \o <<name>>)[Len(prefix) + 1] = name
    BY <2>1
  <2> QED
    BY <2>2, <2>3
<1>2. Under(prefix, attributes)[prefix \o <<name>>] = attributes[name]
  BY <1>1 DEF Under
<1>3. attributes[name].kind \in {"scalar", "list"}
  BY DEF Literal
<1> QED
  BY <1>2, <1>3 DEF Sound

LEMMA OverSound ==
  ASSUME NEW f, NEW g, \A p \in DOMAIN f : Sound(f[p]), \A p \in DOMAIN g : Sound(g[p])
  PROVE  \A p \in DOMAIN Over(f, g) : Sound(Over(f, g)[p])
<1>1. ASSUME NEW p \in DOMAIN Over(f, g)
      PROVE  /\ p \in DOMAIN f \/ p \in DOMAIN g
             /\ Over(f, g)[p] = IF p \in DOMAIN f THEN f[p] ELSE g[p]
  BY DEF Over
<1> QED
  BY <1>1

LEMMA OwnedSound ==
  ASSUME NEW owner, NEW attributes,
         \A name \in DOMAIN attributes : attributes[name] \in Literal
  PROVE  \A p \in DOMAIN Owned(owner, attributes) : Sound(Owned(owner, attributes)[p])
<1> DEFINE path == <<owner, "attributes">>
           plain == [s \in {path} |-> Dictionary]
           nested == Over(Under(path, attributes), plain)
           rest == IF "attributes" \in DOMAIN attributes THEN <<>> ELSE nested
           T == {owner, "attributes"} \union DOMAIN attributes
<1>1. path \in Seq(T) /\ <<owner>> \in Seq(T)
  OBVIOUS
<1>2. \A p \in DOMAIN plain : Sound(plain[p])
  BY DEF Sound, Dictionary
<1>3. /\ \A p \in DOMAIN Under(path, attributes) : Sound(Under(path, attributes)[p])
      /\ \A p \in DOMAIN Under(<<owner>>, attributes) : Sound(Under(<<owner>>, attributes)[p])
  BY <1>1, UnderSound
<1>4. \A p \in DOMAIN nested : Sound(nested[p])
  <2> HIDE DEF plain, path
  <2> QED
    BY <1>2, <1>3, OverSound
<1>5. \A p \in DOMAIN rest : Sound(rest[p])
  <2>1. DOMAIN <<>> = {}
    OBVIOUS
  <2> HIDE DEF nested
  <2> QED
    BY <1>4, <2>1
<1>6. Owned(owner, attributes) = Over(Under(<<owner>>, attributes), rest)
  BY DEF Owned
<1> HIDE DEF rest
<1> QED
  BY <1>3, <1>5, <1>6, OverSound

LEMMA RootSound ==
  ASSUME NEW request, Shaped(request)
  PROVE  \A p \in DOMAIN selector_root(request) : Sound(selector_root(request)[p])
<1> DEFINE P == Owned("principal", request.attributes)
           R == Owned("resource", request.about)
           F == Fields(request)
<1>1. (\A p \in DOMAIN P : Sound(P[p])) /\ (\A p \in DOMAIN R : Sound(R[p]))
  BY OwnedSound DEF Shaped
<1>2. \A p \in DOMAIN F : Sound(F[p])
  BY DEF Fields, Sound, Dictionary, List, Scalar
<1>3. selector_root(request) = Over(P, Over(R, F))
  BY DEF selector_root
<1> HIDE DEF P, R, F
<1>4. \A p \in DOMAIN Over(R, F) : Sound(Over(R, F)[p])
  BY <1>1, <1>2, OverSound
<1> QED
  BY <1>1, <1>3, <1>4, OverSound

(* A selector is walked as far as there are mappings.                      *)
LEMMA WalksTo ==
  ASSUME NEW root, NEW selector \in Seq(STRING), Walked(root, selector) # {}
  PROVE  \E k \in Walked(root, selector) :
           /\ \A j \in Walked(root, selector) : j <= k
           /\ resolve_path(root, selector) =
                Beneath(root[SubSeq(selector, 1, k)], SubSeq(selector, k + 1, Len(selector)))
<1> DEFINE W == Walked(root, selector)
           n == Len(selector)
           T == {n - k : k \in W}
           c == CHOOSE k \in W : \A j \in W : j <= k
<1>1. n \in Nat /\ W \subseteq 1 .. n
  BY DEF Walked
<1>2. PICK k \in W : \A j \in W : j <= k
  <2> HIDE DEF W, n
  <2>1. T \in SUBSET Nat /\ T # {}
    BY <1>1 DEF W
  <2>2. PICK t \in T : \A u \in T : t <= u
    <3> HIDE DEF T
    <3> QED
      BY <2>1, LeastOf
  <2>3. PICK k \in W : t = n - k
    BY <2>2
  <2>4. \A j \in W : n - k <= n - j
    BY <2>2, <2>3
  <2> QED
    BY <1>1, <2>3, <2>4
<1>3. c \in W /\ \A j \in W : j <= c
  <2> HIDE DEF W
  <2> QED
    BY <1>2
<1>4. resolve_path(root, selector) =
        Beneath(root[SubSeq(selector, 1, c)], SubSeq(selector, c + 1, Len(selector)))
  BY DEF resolve_path
<1> HIDE DEF c
<1> QED
  BY <1>3, <1>4

(* Places apart, nothing is read that raises.                              *)
LEMMA BeneathRaises ==
  ASSUME NEW value, Sound(value), NEW rest \in Seq(STRING), Beneath(value, rest) = RAISES
  PROVE  rest # <<>> /\ rest[1] \in Malformed
<1>1. \A x, names : Attribute(x, names) # RAISES
  BY DEF Attribute, RAISES, Scalar, MISSING
<1>2. RAISES # MISSING /\ value # RAISES
  BY DEF RAISES, MISSING, Sound
<1>3. CASE rest = <<>>
  BY <1>2, <1>3 DEF Beneath
<1>4. CASE rest # <<>> /\ value.kind = "list"
  <2>1. Beneath(value, rest) = Element(value.items, rest[1], Tail(rest))
    BY <1>4 DEF Beneath
  <2>2. rest[1] \notin Malformed => Element(value.items, rest[1], Tail(rest)) # RAISES
    BY <1>1, <1>2 DEF Element
  <2> QED
    BY <1>4, <2>1, <2>2
<1>5. CASE rest # <<>> /\ value.kind # "list"
  BY <1>1, <1>2, <1>5 DEF Beneath
<1> QED
  BY <1>3, <1>4, <1>5

LEMMA RaisesAtPlace ==
  ASSUME NEW request, Shaped(request), NEW selector \in Name,
         resolve_path(selector_root(request), selector) = RAISES
  PROVE  \E k \in DOMAIN selector : selector[k] \in Malformed
<1> DEFINE root == selector_root(request)
<1>1. selector \in Seq(STRING)
  BY DEF Name
<1>2. Walked(root, selector) # {}
  BY DEF resolve_path, RAISES, MISSING
<1>3. PICK k \in Walked(root, selector) :
        Beneath(root[SubSeq(selector, 1, k)], SubSeq(selector, k + 1, Len(selector))) = RAISES
  BY <1>1, <1>2, WalksTo
<1>4. k \in 1 .. Len(selector) /\ SubSeq(selector, 1, k) \in DOMAIN root
  BY <1>1 DEF Walked
<1>5. Sound(root[SubSeq(selector, 1, k)])
  BY <1>4, RootSound
<1> DEFINE rest == SubSeq(selector, k + 1, Len(selector))
<1>6. rest \in Seq(STRING)
  BY <1>1, <1>4
<1>7. rest # <<>> /\ rest[1] \in Malformed
  <2> HIDE DEF rest, root
  <2> QED
    BY <1>3, <1>5, <1>6, BeneathRaises DEF rest
<1>8. k + 1 \in 1 .. Len(selector) /\ rest[1] = selector[k + 1]
  BY <1>1, <1>4, <1>7
<1> QED
  BY <1>1, <1>7, <1>8

(* What an accepted document raises is a place or an overflow.             *)
LEMMA StumblesTrips ==
  ASSUME NEW nodes, NEW s, StoredFor(nodes, s), NEW i \in 1 .. Len(nodes),
         s[i].form = "conditions",
         NEW request \in AccessRequests, Stumbles(s[i].entries, selector_root(request))
  PROVE  Trips(nodes, selector_root(request))
<1> DEFINE root == selector_root(request)
           raw == nodes[i].entries
<1>1. /\ DOMAIN nodes = 1 .. Len(nodes)
      /\ nodes[i] \in Node /\ s[i] = Canonical(nodes[i]) /\ s[i] # Invalid
  BY Normalised DEF IsCanonical, StoredFor
<1>2. /\ nodes[i].form \in {"selectors", "conditions"} /\ raw \in Seq(WrittenEntry)
      /\ s[i].entries = [k \in DOMAIN raw |-> Refined(raw[k])]
  BY <1>1, NodeCanonical
<1>3. PICK k \in DOMAIN raw :
        LET entry == Refined(raw[k])
        IN  \/ resolve_path(root, entry.selector) = RAISES
            \/ /\ \E t \in DOMAIN entry.condition.tests : entry.condition.tests[t].op \in Comparisons
               /\ \E x \in Of(resolve_path(root, entry.selector)) : Huge(x)
  BY <1>2 DEF Stumbles
<1>4. raw[k] \in WrittenEntry
  BY <1>2
<1>5. /\ Refined(raw[k]).selector = raw[k].selector
      /\ Refined(raw[k]).condition = _normalise_condition(raw[k].condition)
  BY <1>4, EntryRefined
<1>6. raw[k].selector \in Name /\ raw[k].condition \in Condition
  BY <1>4 DEF WrittenEntry
<1>7. CASE resolve_path(root, raw[k].selector) = RAISES
  <2>1. Shaped(request)
    BY RequestsAssumption DEF Shaped
  <2>2. \E j \in DOMAIN raw[k].selector : raw[k].selector[j] \in Malformed
    BY <1>6, <1>7, <2>1, RaisesAtPlace
  <2> HIDE DEF root
  <2> QED
    BY <1>1, <1>2, <2>2 DEF Trips, root
<1>8. CASE /\ \E t \in DOMAIN Refined(raw[k]).condition.tests :
                Refined(raw[k]).condition.tests[t].op \in Comparisons
           /\ \E x \in Of(resolve_path(root, raw[k].selector)) : Huge(x)
  <2>1. raw[k].condition.kind = "mapping"
    <3> SUFFICES ASSUME raw[k].condition.kind # "mapping" PROVE FALSE
      OBVIOUS
    <3>1. \/ Refined(raw[k]).condition.tests = <<Test("in", raw[k].condition)>>
          \/ Refined(raw[k]).condition.tests = <<Test("eq", raw[k].condition)>>
      BY <1>5, <1>6, ConditionRefined
    <3> QED
      BY <1>8, <3>1 DEF Test, Comparisons
  <2>2. Refined(raw[k]).condition = raw[k].condition
    BY <1>5, <1>6, <2>1, ConditionRefined
  <2>3. \E t \in DOMAIN raw[k].condition.tests : raw[k].condition.tests[t].op \in Comparisons
    BY <1>8, <2>2
  <2> HIDE DEF root
  <2> QED
    BY <1>1, <1>2, <1>8, <2>1, <2>3 DEF Trips, root
<1> HIDE DEF root
<1> QED
  BY <1>3, <1>5, <1>7, <1>8

LEMMA ErrorTrips ==
  ASSUME NEW nodes, NEW s, StoredFor(nodes, s), NEW request \in AccessRequests, NEW explain,
         _eval_node(s, selector_root(request), explain) = "error"
  PROVE  Trips(nodes, selector_root(request))
<1> DEFINE n == Len(nodes)
           root == selector_root(request)
<1>1. n \in Nat /\ 1 \in 1 .. n
  BY DEF StoredFor
<1>2. IsCanonical(s) /\ Len(s) = n
  BY Normalised DEF StoredFor
<1>3. PICK o \in [1 .. Len(s) -> Verdicts] :
        /\ _eval_node(s, root, explain) = o[1]
        /\ \A i \in 1 .. Len(s) : Settles(o[i], o, s[i], root)
  BY <1>2, OutcomesOf
<1> DEFINE S == {i \in 1 .. n : o[i] = "error" => Trips(nodes, root)}
<1>4. ASSUME NEW i \in 1 .. n, \A j \in i + 1 .. n : j \in S PROVE i \in S
  <2> SUFFICES ASSUME o[i] = "error" PROVE Trips(nodes, root)
    OBVIOUS
  <2>1. Errs(o, s[i], root)
    BY <1>2, <1>3 DEF Settles
  <2>2. s[i] \in CanonicalNode /\ DOMAIN s = 1 .. n /\ IsTree(s)
    BY <1>2 DEF IsCanonical
  <2>3. CASE s[i].form = "conditions"
    BY <2>1, <2>3, StumblesTrips DEF Errs
  <2>4. CASE s[i].form # "conditions"
    <3>1. \E j \in i + 1 .. n : o[j] = "error"
      BY <1>2, <2>1, <2>2, <2>4 DEF Errs, IsTree, CanonicalNode
    <3> QED
      BY <1>4, <3>1
  <2> QED
    BY <2>3, <2>4
<1>5. \A i \in 1 .. n : i \in S
  <2> HIDE DEF S, n
  <2> QED
    BY <1>1, <1>4, FromTheEnd
<1> QED
  BY <1>1, <1>3, <1>5

----------------------------------------------------------------------------
(* What was written, what is stored and what the engine has.               *)
MatchInv ==
  /\ document \in Documents /\ asked \in AccessRequests
  /\ stored \in {NotYet, normalise_match(document)}
  /\ match # NotYet => match = stored /\ stored # Refused
  /\ verdict \in {"none"} \union Verdicts
  /\ verdict # "none" =>
       match # NotYet /\ verdict = _eval_node(match, selector_root(asked), explained)

LEMMA MatchIsAccepted ==
  ASSUME MatchInv, match # NotYet
  PROVE  StoredFor(document, match)
BY DocumentsAssumption DEF MatchInv, StoredFor

THEOREM MatchIsAsStored == MatchSpec => []MatchInv
<1>1. MatchInit => MatchInv
  BY DEF MatchInit, MatchInv
<1>2. MatchInv /\ [MatchNext]_matchVars => MatchInv'
  <2> SUFFICES ASSUME MatchInv, [MatchNext]_matchVars PROVE MatchInv'
    OBVIOUS
  <2>1. CASE Author
    <3>1. match = NotYet
      BY <2>1 DEF Author, MatchInv, NotYet, Refused
    <3> QED
      BY <2>1, <3>1 DEF Author, MatchInv
  <2>2. CASE LoadDocument
    <3>1. stored = normalise_match(document) /\ stored # Refused
      BY <2>2 DEF LoadDocument, MatchInv
    <3>2. normalise_match(stored) = stored
      BY <3>1, Normalised, DocumentsAssumption DEF MatchInv
    <3>3. verdict = "none"
      BY <2>2 DEF LoadDocument, MatchInv
    <3> QED
      BY <2>2, <3>1, <3>2, <3>3 DEF LoadDocument, MatchInv
  <2>3. CASE EvaluateMatch
    <3>1. match # NotYet
      BY <2>3 DEF EvaluateMatch
    <3>2. verdict' \in Verdicts
      BY <2>3, <3>1, MatchIsAccepted, MeansAsWritten DEF EvaluateMatch
    <3> QED
      BY <2>3, <3>1, <3>2 DEF EvaluateMatch, MatchInv
  <2>4. CASE UNCHANGED matchVars
    BY <2>4 DEF matchVars, MatchInv
  <2> QED
    BY <2>1, <2>2, <2>3, <2>4 DEF MatchNext
<1> QED
  BY <1>1, <1>2, PTL DEF MatchSpec

(* What was accepted loads as it was stored, raises only for a malformed   *)
(* place or an overflow, and answers what its author wrote, whether or not *)
(* a trace was asked for.                                                  *)
THEOREM MatchesAsWritten == MatchSpec => []AnswersAsWritten
<1>1. MatchInv => AnswersAsWritten
  <2> SUFFICES ASSUME MatchInv PROVE AnswersAsWritten
    OBVIOUS
  <2> DEFINE meant == Means(document, selector_root(asked))
  <2>1. ASSUME verdict # "none"
        PROVE  /\ Agrees(meant, verdict) /\ meant \in BOOLEAN
               /\ verdict = "error" => Trips(document, selector_root(asked))
    <3>1. match # NotYet /\ verdict = _eval_node(match, selector_root(asked), explained)
      BY <2>1 DEF MatchInv
    <3>2. StoredFor(document, match) /\ asked \in AccessRequests
      BY <3>1, MatchIsAccepted DEF MatchInv
    <3>3. Agrees(meant, verdict) /\ meant \in BOOLEAN
      BY <3>1, <3>2, MeansAsWritten
    <3>4. verdict = "error" => Trips(document, selector_root(asked))
      BY <3>1, <3>2, ErrorTrips
    <3> QED
      BY <3>3, <3>4
  <2>2. match # NotYet => match = stored
    BY DEF MatchInv
  <2>3. verdict \in {"pass", "fail"} => (verdict = "pass") = meant
    <3> HIDE DEF meant
    <3>1. CASE verdict = "pass"
      BY <2>1, <3>1 DEF Agrees
    <3>2. CASE verdict = "fail"
      BY <2>1, <3>2 DEF Agrees
    <3> QED
      BY <3>1, <3>2
  <2> QED
    BY <2>1, <2>2, <2>3 DEF AnswersAsWritten
<1> QED
  BY <1>1, MatchIsAsStored, PTL

----------------------------------------------------------------------------
(* More labels.                                                            *)

(* What a selector reads once a request carries the labels m instead of l: *)
(* every label is still there, or one below it; or every label itself is.  *)
Below(l, m) == \A x \in l : \E y \in m : Descends(y, x)

Sharpened(v, w, all) ==
  \E l, m \in SUBSET AllLabels :
    /\ v = List(Sorted[l]) /\ w = List(Sorted[m]) /\ IsFiniteSet(l) /\ IsFiniteSet(m)
    /\ IF all THEN l \subseteq m ELSE Below(l, m)

LEMMA DescendsFromItself ==
  ASSUME NEW x \in Name
  PROVE  Descends(x, x)
BY DEF Descends, Name

LEMMA TokensMatchBelow ==
  ASSUME NEW x \in Name, NEW y \in Name, Descends(y, x), NEW pattern \in Item,
         _token_matches(x, pattern)
  PROVE  _token_matches(y, pattern)
<1>1. /\ x \in Seq(STRING) /\ y \in Seq(STRING) /\ Len(x) \in Nat /\ Len(y) \in Nat
      /\ DOMAIN x = 1 .. Len(x) /\ DOMAIN y = 1 .. Len(y) /\ Len(x) # 0
      /\ x[1] \notin Tags /\ y[1] \notin Tags
  BY DEF Name
<1>2. Len(x) <= Len(y) /\ \A i \in 1 .. Len(x) : y[i] = x[i]
  BY <1>1 DEF Descends
<1>3. IsString(x) /\ IsString(y) /\ Plain(x) = x /\ Plain(y) = y
  BY <1>1 DEF IsString, Plain, Tags
<1>4. CASE Plain(x) = Plain(pattern)
  <2>1. pattern = x
    <3>1. pattern[1] # "?"
      <4> SUFFICES ASSUME pattern[1] = "?" PROVE FALSE
        OBVIOUS
      <4>1. Plain(pattern)[1] = "#"
        BY DEF Plain, Number
      <4> QED
        BY <1>1, <1>3, <1>4, <4>1 DEF Tags
    <3> QED
      BY <1>3, <1>4, <3>1 DEF Plain
  <2>2. CASE Len(x) = Len(y)
    <3>1. y = x
      BY <1>1, <1>2, <2>2
    <3> QED
      BY <1>4, <3>1 DEF _token_matches
  <2>3. CASE Len(x) # Len(y)
    <3>1. SubSeq(y, 1, Len(x)) = x
      BY <1>1, <1>2
    <3>2. Len(x) < Len(y)
      <4>1. Len(x) \in Nat /\ Len(y) \in Nat
        BY <1>1
      <4>2. Len(x) <= Len(y)
        BY <1>2
      <4> QED
        BY <2>3, <4>1, <4>2
    <3>3. IsString(pattern) /\ Len(pattern) < Len(y) /\ SubSeq(y, 1, Len(pattern)) = pattern
      BY <1>3, <2>1, <3>1, <3>2
    <3> QED
      BY <1>3, <3>3 DEF _token_matches
  <2> QED
    BY <2>2, <2>3
<1>5. CASE /\ IsString(pattern) /\ Len(pattern) < Len(x)
           /\ SubSeq(x, 1, Len(pattern)) = pattern
  <2>1. pattern \in Seq(STRING) /\ Len(pattern) \in Nat
    <3>1. pattern \in Name
      BY <1>5 DEF Item, IsString, Tags
    <3> QED
      BY <3>1 DEF Name
  <2>2. SubSeq(y, 1, Len(pattern)) = SubSeq(x, 1, Len(pattern))
    <3>1. SubSeq(x, 1, Len(pattern)) = [i \in 1 .. Len(pattern) |-> x[i]]
      BY <1>1, <1>5, <2>1
    <3>2. SubSeq(y, 1, Len(pattern)) = [i \in 1 .. Len(pattern) |-> y[i]]
      BY <1>1, <1>2, <1>5, <2>1
    <3> QED
      BY <1>1, <1>2, <1>5, <2>1, <3>1, <3>2
  <2> QED
    BY <1>1, <1>2, <1>3, <1>5, <2>1, <2>2 DEF _token_matches
<1> QED
  BY <1>3, <1>4, <1>5 DEF _token_matches

LEMMA SortedLabels ==
  ASSUME NEW l \in SUBSET AllLabels, IsFiniteSet(l)
  PROVE  /\ Of(List(Sorted[l])) = l /\ l \subseteq Name
         /\ List(Sorted[l]).items = <<>> <=> l = {}
         /\ Len(List(Sorted[l]).items) = Cardinality(l)
<1>1. /\ Sorted[l] \in Seq(Name) /\ Of(List(Sorted[l])) = l /\ AllLabels \subseteq Name
      /\ Len(Sorted[l]) = Cardinality(l)
  BY LabelsAssumption
<1>2. List(Sorted[l]).items = Sorted[l]
  BY DEF List
<1>3. Of(List(Sorted[l])) = {Sorted[l][i] : i \in DOMAIN Sorted[l]}
  BY <1>2 DEF Of
<1>4. Sorted[l] = <<>> <=> l = {}
  <2>1. Sorted[l] = <<>> <=> DOMAIN Sorted[l] = {}
    BY <1>1
  <2> QED
    BY <1>1, <1>3, <2>1
<1> QED
  BY <1>1, <1>2, <1>4

(* A test on labels holds of more of them.                                 *)
LEMMA TestsMonotone ==
  ASSUME NEW all \in BOOLEAN, NEW v, NEW w, Sharpened(v, w, all),
         NEW test, test.operand \in Operand, validate_condition(test),
         test.op \in IF all THEN Tokens \union {"count_gte"} ELSE Tokens,
         apply_operator(test.op, v, test.operand)
  PROVE  apply_operator(test.op, w, test.operand)
<1> DEFINE o == test.operand
<1>1. PICK l, m \in SUBSET AllLabels :
        /\ v = List(Sorted[l]) /\ w = List(Sorted[m]) /\ IsFiniteSet(l) /\ IsFiniteSet(m)
        /\ IF all THEN l \subseteq m ELSE Below(l, m)
  BY DEF Sharpened
<1>2. /\ Of(v) = l /\ Of(w) = m /\ l \subseteq Name /\ m \subseteq Name
      /\ v.items = <<>> <=> l = {}
      /\ w.items = <<>> <=> m = {}
      /\ Len(v.items) = Cardinality(l) /\ Len(w.items) = Cardinality(m)
  BY <1>1, SortedLabels
<1>3. \A x \in l : \E y \in m : Descends(y, x)
  BY <1>1, <1>2, DescendsFromItself DEF Below
<1>4. o.items \in Seq(Item) /\ Of(o) \subseteq Item
  <2>1. o.items \in Seq(Item)
    BY DEF Operand
  <2> QED
    BY <2>1 DEF Of
<1>5. \A x \in l, p \in Of(o) : _token_matches(x, p) => \E y \in m : _token_matches(y, p)
  BY <1>2, <1>3, <1>4, TokensMatchBelow
<1>6. CASE test.op \in {"in", "any_of"}
  <2>1. /\ apply_operator(test.op, v, o) <=> Some(v, o)
        /\ apply_operator(test.op, w, o) <=> Some(w, o)
    BY <1>6 DEF apply_operator, Patterns, Comparisons, Counts
  <2>2. Some(v, o)
    BY <2>1
  <2> HIDE DEF o
  <2>3. Some(w, o)
    BY <1>2, <1>5, <2>2 DEF Some
  <2> QED
    BY <2>1, <2>3 DEF o
<1>7. CASE test.op = "all_of"
  <2>1. /\ apply_operator(test.op, v, o) <=> Every(v, o)
        /\ apply_operator(test.op, w, o) <=> Every(w, o)
    BY <1>7 DEF apply_operator, Patterns, Comparisons, Counts
  <2>2. Every(v, o)
    BY <2>1
  <2> HIDE DEF o
  <2>3. Every(w, o)
    BY <1>2, <1>3, <1>5, <2>2 DEF Every
  <2> QED
    BY <2>1, <2>3 DEF o
<1>8. CASE all /\ test.op = "count_gte"
  <2>1. IsNumeric(o)
    BY <1>8 DEF validate_condition, Counts
  <2>2. Float[The(o)] \in Int
    BY <2>1, FloatsAssumption DEF IsNumeric, Huge, The
  <2>3. Cardinality(l) \in Nat /\ Cardinality(m) \in Nat /\ Cardinality(l) <= Cardinality(m)
    BY <1>1, <1>8, FS_CardinalityType, FS_Subset
  <2>4. /\ apply_operator(test.op, v, o) <=> Cardinality(l) >= Float[The(o)]
        /\ apply_operator(test.op, w, o) <=> Cardinality(m) >= Float[The(o)]
    BY <1>2, <1>8 DEF apply_operator, Compares, Patterns, Comparisons, Counts
  <2> QED
    BY <2>2, <2>3, <2>4
<1> QED
  BY <1>6, <1>7, <1>8 DEF Tokens

(* Another request with the same but its findings: all of them and more,   *)
(* or one below each.                                                      *)
CarriesMore(request, more, all) ==
  /\ more.id = request.id /\ more.type = request.type /\ more.action = request.action
  /\ more.attributes = request.attributes /\ more.about = request.about
  /\ more.urn = request.urn /\ more.kind = request.kind
  /\ more.classifications = request.classifications /\ more.truncated = request.truncated
  /\ more.findings \subseteq AllLabels /\ IsFiniteSet(more.findings)
  /\ IF all THEN request.findings \subseteq more.findings
     ELSE Below(request.findings, more.findings)

LEMMA SharperCarriesMore ==
  ASSUME NEW request \in AccessRequests, NEW label \in MoreLabels,
         NEW out \in SUBSET request.findings, NEW more, more = Sharper(request, label, out),
         NEW all \in BOOLEAN,
         IF all THEN request.findings \subseteq more.findings
         ELSE Below(request.findings, more.findings)
  PROVE  CarriesMore(request, more, all)
<1>1. DOMAIN request = {"id", "type", "action", "attributes", "urn", "kind", "about",
                        "classifications", "findings", "truncated"}
  BY RequestsAssumption
<1>2. /\ more.id = request.id /\ more.type = request.type /\ more.action = request.action
      /\ more.attributes = request.attributes /\ more.about = request.about
      /\ more.urn = request.urn /\ more.kind = request.kind
      /\ more.classifications = request.classifications /\ more.truncated = request.truncated
      /\ more.findings = (request.findings \ out) \union {label}
  BY <1>1 DEF Sharper
<1>3. request.findings \subseteq AllLabels /\ IsFiniteSet(request.findings) /\ label \in AllLabels
  BY LabelsAssumption DEF AllLabels
<1>4. IsFiniteSet((request.findings \ out) \union {label})
  <2>1. IsFiniteSet(request.findings \ out) /\ IsFiniteSet({label})
    BY <1>3, FS_Subset, FS_Singleton
  <2> QED
    BY <2>1, FS_Union
<1> QED
  BY <1>2, <1>3, <1>4 DEF CarriesMore

LEMMA FieldsSharpened ==
  ASSUME NEW request \in AccessRequests, NEW more, NEW all \in BOOLEAN,
         CarriesMore(request, more, all)
  PROVE  /\ DOMAIN Fields(more) = DOMAIN Fields(request)
         /\ \A s \in DOMAIN Fields(request) :
              \/ Fields(more)[s] = Fields(request)[s]
              \/ Sharpened(Fields(request)[s], Fields(more)[s], all)
<1> DEFINE f == request.findings
           g == more.findings
           c == request.classifications
           labels == {<<"findings">>, <<"classifications">>}
<1>1. /\ f \subseteq AllLabels /\ IsFiniteSet(f) /\ c \subseteq AllLabels /\ IsFiniteSet(c)
      /\ g \subseteq AllLabels /\ IsFiniteSet(g) /\ AllLabels \subseteq Name
      /\ more.classifications = c
      /\ IF all THEN f \subseteq g ELSE Below(f, g)
  BY LabelsAssumption DEF AllLabels, CarriesMore
<1>2. Sharpened(List(Sorted[f]), List(Sorted[g]), all)
  BY <1>1 DEF Sharpened
<1>3. Sharpened(List(Sorted[c \union f]), List(Sorted[c \union g]), all)
  <2>1. IsFiniteSet(c \union f) /\ IsFiniteSet(c \union g)
    BY <1>1, FS_Union
  <2>2. IF all THEN c \union f \subseteq c \union g ELSE Below(c \union f, c \union g)
    BY <1>1, DescendsFromItself DEF Below
  <2> HIDE DEF f, g, c
  <2> QED
    BY <1>1, <2>1, <2>2 DEF Sharpened
<1>4. /\ Fields(request)[<<"findings">>] = List(Sorted[f])
      /\ Fields(more)[<<"findings">>] = List(Sorted[g])
      /\ Fields(request)[<<"classifications">>] = List(Sorted[c \union f])
      /\ Fields(more)[<<"classifications">>] = List(Sorted[c \union g])
  BY <1>1 DEF Fields
<1>5. DOMAIN Fields(more) = DOMAIN Fields(request)
  BY DEF Fields
<1>6. ASSUME NEW s \in DOMAIN Fields(request), s \notin labels
      PROVE  Fields(more)[s] = Fields(request)[s]
  BY <1>6 DEF Fields, CarriesMore
<1> HIDE DEF f, g, c
<1> QED
  BY <1>2, <1>3, <1>4, <1>5, <1>6

LEMMA OverSharpened ==
  ASSUME NEW f, NEW g, NEW h, NEW all, DOMAIN h = DOMAIN g,
         \A s \in DOMAIN g : h[s] = g[s] \/ Sharpened(g[s], h[s], all)
  PROVE  /\ DOMAIN Over(f, h) = DOMAIN Over(f, g)
         /\ \A s \in DOMAIN Over(f, g) :
              Over(f, h)[s] = Over(f, g)[s] \/ Sharpened(Over(f, g)[s], Over(f, h)[s], all)
<1>1. /\ DOMAIN Over(f, g) = DOMAIN f \union DOMAIN g
      /\ DOMAIN Over(f, h) = DOMAIN f \union DOMAIN g
  BY DEF Over
<1>2. ASSUME NEW s \in DOMAIN f \union DOMAIN g
      PROVE  /\ Over(f, g)[s] = IF s \in DOMAIN f THEN f[s] ELSE g[s]
             /\ Over(f, h)[s] = IF s \in DOMAIN f THEN f[s] ELSE h[s]
  BY DEF Over
<1> QED
  BY <1>1, <1>2

(* A selector without places reads the same, or more labels.               *)
LEMMA ReadsSharpened ==
  ASSUME NEW request \in AccessRequests, NEW more, NEW all \in BOOLEAN,
         CarriesMore(request, more, all), NEW selector \in Name, ByName(selector)
  PROVE  \/ resolve_path(selector_root(more), selector) = resolve_path(selector_root(request), selector)
         \/ Sharpened(resolve_path(selector_root(request), selector),
                      resolve_path(selector_root(more), selector), all)
<1> DEFINE old == selector_root(request)
           new == selector_root(more)
<1>1. /\ DOMAIN new = DOMAIN old
      /\ \A s \in DOMAIN old : new[s] = old[s] \/ Sharpened(old[s], new[s], all)
  <2> DEFINE P == Owned("principal", request.attributes)
             R == Owned("resource", request.about)
  <2>1. /\ old = Over(P, Over(R, Fields(request)))
        /\ new = Over(P, Over(R, Fields(more)))
    BY DEF selector_root, CarriesMore
  <2> HIDE DEF P, R, old, new
  <2> QED
    BY <2>1, FieldsSharpened, OverSharpened
<1> HIDE DEF old, new
<1>2. Walked(new, selector) = Walked(old, selector)
  BY <1>1 DEF Walked
<1>3. selector \in Seq(STRING) /\ Len(selector) \in Nat /\ DOMAIN selector = 1 .. Len(selector)
  BY DEF Name
<1>4. CASE Walked(old, selector) = {}
  BY <1>2, <1>4 DEF resolve_path, old, new
<1>5. CASE Walked(old, selector) # {}
  <2> DEFINE k == CHOOSE k \in Walked(old, selector) : \A j \in Walked(old, selector) : j <= k
             walked == SubSeq(selector, 1, k)
             rest == SubSeq(selector, k + 1, Len(selector))
  <2>1. /\ resolve_path(old, selector) = Beneath(old[walked], rest)
        /\ resolve_path(new, selector) = Beneath(new[walked], rest)
    BY <1>2, <1>5 DEF resolve_path
  <2>2. k \in Walked(old, selector)
    <3>1. \E i \in Walked(old, selector) : \A j \in Walked(old, selector) : j <= i
      BY <1>3, <1>5, WalksTo
    <3> QED
      BY <3>1
  <2> HIDE DEF k
  <2>3. k \in 1 .. Len(selector) /\ walked \in DOMAIN old
    BY <1>3, <2>2 DEF Walked
  <2>4. CASE new[walked] = old[walked]
    BY <2>1, <2>4 DEF old, new
  <2>5. CASE Sharpened(old[walked], new[walked], all)
    <3>1. rest \in Seq(STRING)
      BY <1>3, <2>3
    <3>2. CASE rest = <<>>
      <4>1. resolve_path(old, selector) = old[walked] /\ resolve_path(new, selector) = new[walked]
        BY <2>1, <3>2 DEF Beneath
      <4> QED
        BY <2>5, <4>1 DEF old, new
    <3>3. CASE rest # <<>>
      <4>1. k + 1 \in 1 .. Len(selector) /\ rest[1] = selector[k + 1]
        BY <1>3, <2>3, <3>1, <3>3
      <4>2. rest[1] \notin DOMAIN Index /\ rest[1] \notin Malformed
        BY <1>3, <4>1 DEF ByName
      <4>3. old[walked].kind = "list" /\ new[walked].kind = "list"
        BY <2>5 DEF Sharpened, List
      <4> HIDE DEF walked, rest
      <4>4. Beneath(old[walked], rest) = MISSING /\ Beneath(new[walked], rest) = MISSING
        BY <3>3, <4>2, <4>3 DEF Beneath, Element
      <4> QED
        BY <2>1, <4>4 DEF old, new
    <3> QED
      BY <3>2, <3>3
  <2> QED
    BY <1>1, <2>3, <2>4, <2>5
<1> QED
  BY <1>4, <1>5

Asks(all) == IF all THEN Tokens \union {"count_gte"} ELSE Tokens

LEMMA EntriesMonotone ==
  ASSUME NEW s, IsCanonical(s), NEW all \in BOOLEAN, Positive(s, Asks(all)),
         NEW request \in AccessRequests, NEW more, CarriesMore(request, more, all),
         NEW i \in 1 .. Len(s), s[i].form = "conditions"
  PROVE  /\ Meets(s[i].entries, selector_root(request)) => Meets(s[i].entries, selector_root(more))
         /\ ~Stumbles(s[i].entries, selector_root(more))
<1> DEFINE entries == s[i].entries
           old(k) == resolve_path(selector_root(request), entries[k].selector)
           new(k) == resolve_path(selector_root(more), entries[k].selector)
           tests(k) == entries[k].condition.tests
<1>1. s[i] \in CanonicalNode /\ DOMAIN s = 1 .. Len(s)
  BY DEF IsCanonical
<1>2. entries \in Seq(CanonicalEntry)
  BY <1>1 DEF CanonicalNode
<1>3. ASSUME NEW k \in DOMAIN entries
      PROVE  /\ entries[k].selector \in Name /\ ByName(entries[k].selector)
             /\ tests(k) \in Seq(Trial)
             /\ \A t \in DOMAIN tests(k) : validate_condition(tests(k)[t]) /\ tests(k)[t].op \in Asks(all)
  <2>1. entries[k] \in CanonicalEntry
    <3> HIDE DEF entries
    <3> QED
      BY <1>2
  <2>2. ByName(entries[k].selector) /\ \A t \in DOMAIN tests(k) : tests(k)[t].op \in Asks(all)
    BY <1>1 DEF Positive
  <2>3. Tested(entries[k])
    BY <1>1 DEF IsCanonical
  <2> HIDE DEF entries
  <2> QED
    BY <2>1, <2>2, <2>3 DEF Tested, CanonicalEntry, Mapping
<1>4. ASSUME NEW k \in DOMAIN entries, NEW t \in DOMAIN tests(k),
             apply_operator(tests(k)[t].op, old(k), tests(k)[t].operand)
      PROVE  apply_operator(tests(k)[t].op, new(k), tests(k)[t].operand)
  <2> DEFINE test == tests(k)[t]
  <2>1. new(k) = old(k) \/ Sharpened(old(k), new(k), all)
    BY <1>3, ReadsSharpened
  <2>2. /\ test.operand \in Operand /\ validate_condition(test)
        /\ test.op \in IF all THEN Tokens \union {"count_gte"} ELSE Tokens
    <3>1. test \in Trial
      <4> HIDE DEF tests
      <4> QED
        BY <1>3
    <3>2. test.operand \in Operand
      <4> HIDE DEF test
      <4> QED
        BY <3>1 DEF Trial
    <3> QED
      BY <1>3, <3>2 DEF Asks
  <2>3. apply_operator(test.op, old(k), test.operand)
    BY <1>4
  <2> HIDE DEF test, old, new
  <2>4. apply_operator(test.op, new(k), test.operand)
    BY <2>1, <2>2, <2>3, TestsMonotone
  <2> QED
    BY <2>4 DEF test
<1>5. ASSUME NEW k \in DOMAIN entries
      PROVE  /\ new(k) # RAISES
             /\ \A t \in DOMAIN tests(k) : tests(k)[t].op \notin Comparisons
  <2>1. Shaped(more)
    BY RequestsAssumption DEF Shaped, CarriesMore
  <2>2. new(k) # RAISES
    BY <1>3, <2>1, RaisesAtPlace DEF ByName
  <2>3. Asks(all) \intersect Comparisons = {}
    BY DEF Asks, Tokens, Comparisons
  <2> HIDE DEF new, tests, entries
  <2> QED
    BY <1>3, <2>2, <2>3
<1>6. Meets(entries, selector_root(request)) => Meets(entries, selector_root(more))
  BY <1>4 DEF Meets
<1>7. ~Stumbles(entries, selector_root(more))
  BY <1>5 DEF Stumbles
<1> QED
  BY <1>6, <1>7

KeptBehind(i, n, o, p) == \A j \in i + 1 .. n : p[j] # "error" /\ (o[j] = "pass" => p[j] = "pass")

(* Nothing raises, and what passed does not fail.                          *)
LEMMA NodeMonotone ==
  ASSUME NEW s, IsCanonical(s), NEW all \in BOOLEAN, Positive(s, Asks(all)),
         NEW request \in AccessRequests, NEW more, CarriesMore(request, more, all),
         NEW i \in 1 .. Len(s), NEW o, NEW p, NEW outcome,
         Settles(outcome, p, s[i], selector_root(more)),
         KeptBehind(i, Len(s), o, p)
  PROVE  /\ outcome # "error"
         /\ Passes(o, s[i], selector_root(request)) => outcome = "pass"
<1> DEFINE root == selector_root(more)
<1>1. s[i] \in CanonicalNode /\ DOMAIN s = 1 .. Len(s)
  BY DEF IsCanonical
<1>2. /\ outcome \in Verdicts
      /\ outcome = "fail" => Fails(p, s[i], root)
      /\ outcome = "error" => Errs(p, s[i], root)
  BY DEF Settles
<1> SUFFICES /\ ~Errs(p, s[i], root)
             /\ Passes(o, s[i], selector_root(request)) => ~Fails(p, s[i], root)
  BY <1>2 DEF Verdicts
<1>3. CASE s[i].form = "conditions"
  BY <1>3, EntriesMonotone DEF Passes, Fails, Errs
<1>4. CASE s[i].form = "not"
  BY <1>1, <1>4 DEF Positive
<1>5. CASE s[i].form \in {"all", "any"}
  <2>1. \A k \in DOMAIN s[i].children : s[i].children[k] \in i + 1 .. Len(s)
    BY <1>1, <1>5 DEF IsCanonical, IsTree
  <2>2. \A k \in DOMAIN s[i].children :
          /\ p[s[i].children[k]] # "error"
          /\ o[s[i].children[k]] = "pass" => p[s[i].children[k]] = "pass"
    BY <2>1 DEF KeptBehind
  <2> HIDE DEF root
  <2>3. ~Errs(p, s[i], root)
    BY <1>5, <2>2 DEF Errs
  <2>4. CASE s[i].form = "all"
    BY <2>2, <2>3, <2>4 DEF Passes, Fails
  <2>5. CASE s[i].form = "any"
    BY <2>2, <2>3, <2>5 DEF Passes, Fails
  <2> QED
    BY <1>5, <2>4, <2>5
<1> QED
  BY <1>1, <1>3, <1>4, <1>5 DEF CanonicalNode

LEMMA MatchMonotone ==
  ASSUME NEW s, IsCanonical(s), NEW all \in BOOLEAN, Positive(s, Asks(all)),
         NEW request \in AccessRequests, NEW more, CarriesMore(request, more, all), NEW explain,
         _eval_node(s, selector_root(request), explain) = "pass"
  PROVE  _eval_node(s, selector_root(more), explain) = "pass"
<1> DEFINE n == Len(s)
<1>1. n \in Nat /\ 1 \in 1 .. n
  BY DEF IsCanonical
<1>2. PICK o \in [1 .. Len(s) -> Verdicts] :
        /\ _eval_node(s, selector_root(request), explain) = o[1]
        /\ \A i \in 1 .. Len(s) : Settles(o[i], o, s[i], selector_root(request))
  BY OutcomesOf
<1>3. PICK p \in [1 .. Len(s) -> Verdicts] :
        /\ _eval_node(s, selector_root(more), explain) = p[1]
        /\ \A i \in 1 .. Len(s) : Settles(p[i], p, s[i], selector_root(more))
  BY OutcomesOf
<1> DEFINE S == {i \in 1 .. n : p[i] # "error" /\ (o[i] = "pass" => p[i] = "pass")}
<1>4. ASSUME NEW i \in 1 .. n, \A j \in i + 1 .. n : j \in S PROVE i \in S
  <2>1. KeptBehind(i, Len(s), o, p)
    BY <1>4 DEF KeptBehind
  <2>2. /\ Settles(p[i], p, s[i], selector_root(more))
        /\ o[i] = "pass" => Passes(o, s[i], selector_root(request))
    BY <1>2, <1>3 DEF Settles
  <2>3. /\ p[i] # "error"
        /\ Passes(o, s[i], selector_root(request)) => p[i] = "pass"
    BY <2>1, <2>2, NodeMonotone
  <2> QED
    BY <2>2, <2>3
<1>5. \A i \in 1 .. n : i \in S
  <2> HIDE DEF S, n
  <2> QED
    BY <1>1, <1>4, FromTheEnd
<1> QED
  BY <1>1, <1>2, <1>3, <1>5

THEOREM MatchesMoreLabels == MatchSpec => []MoreLabelsStillMatch
<1>1. MatchInv => MoreLabelsStillMatch
  <2> SUFFICES ASSUME MatchInv, verdict = "pass" PROVE MoreLabelsStillMatch
    BY DEF MoreLabelsStillMatch
  <2>1. /\ asked \in AccessRequests /\ match # NotYet
        /\ _eval_node(match, selector_root(asked), explained) = "pass"
    BY DEF MatchInv
  <2>2. IsCanonical(match)
    BY <2>1, MatchIsAccepted, Normalised DEF StoredFor
  <2>3. ASSUME NEW label \in MoreLabels, NEW out \in SUBSET asked.findings,
               NEW more, more = Sharper(asked, label, out), NEW all \in BOOLEAN,
               IF all THEN asked.findings \subseteq more.findings
               ELSE Below(asked.findings, more.findings),
               Positive(match, Asks(all))
        PROVE  _eval_node(match, selector_root(more), explained) = "pass"
    <3>1. CarriesMore(asked, more, all)
      BY <2>1, <2>3, SharperCarriesMore
    <3> QED
      BY <2>1, <2>2, <2>3, <3>1, MatchMonotone
  <2> QED
    BY <2>3 DEF MoreLabelsStillMatch, Below, Asks
<1> QED
  BY <1>1, MatchIsAsStored, PTL
=============================================================================
