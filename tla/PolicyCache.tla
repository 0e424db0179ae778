----------------------------- MODULE PolicyCache -----------------------------
(***************************************************************************)
(* The compiled policy engine cached in each process (_EngineCache and     *)
(* PolicyStore.build_engine in control_plane/policy/store.py), decisions   *)
(* that read it, and policy writes, which invalidate it before their       *)
(* transaction commits.                                                    *)
(*                                                                         *)
(* The stored policy set is a version number: every committed write makes  *)
(* the next one.  A decision that misses the cache loads the set with one  *)
(* query; the process runs other requests until the rows arrive.           *)
(***************************************************************************)
EXTENDS Integers

CONSTANTS Procs,    \* control plane processes
          Readers,  \* decisions
          Writers,  \* policy writes: create, update, set_enabled, delete, sync
          NONE,
          TTL,      \* policy_cache_ttl_seconds
          MaxLoad,  \* the longest a load takes from its snapshot to its use
          MaxTime   \* bound on the clock

ASSUME TimeAssumption ==
  TTL \in Nat /\ MaxLoad \in Nat /\ MaxTime \in Nat

VARIABLES version,      \* the committed policy set
          committedAt,  \* version -> when it was committed (history)
          cache,        \* process -> engine and expires_at
          now,          \* the monotonic clock
          rpc, rproc,   \* decision -> where it is, and in which process
          loaded,       \* decision -> the version its query saw
          loadedAt,     \* decision -> when
          wpc, wproc,   \* write -> where it is, and in which process
          wrote,        \* write -> the version it committed
          overlapped    \* write -> did a load run between invalidate and commit?

readerVars == <<rpc, rproc, loaded, loadedAt>>
writerVars == <<wpc, wproc, wrote, overlapped>>
vars == <<version, committedAt, cache, now, rpc, rproc, loaded, loadedAt,
          wpc, wproc, wrote, overlapped>>

----------------------------------------------------------------------------
Versions == Nat
Empty == [engine |-> NONE, expires_at |-> 0]

(* Mutant: an expired engine is still handed out. *)
BugNoTTL(p) == cache[p].engine # NONE

(* _EngineCache.get returns an engine. *)
Warm(p) == cache[p].engine # NONE /\ now < cache[p].expires_at

Loading(p) == {r \in Readers : rpc[r] = "loading" /\ rproc[r] = p}

(* Writes of process p that have invalidated and not yet committed. *)
Uncommitted(p) == {w \in Writers : wpc[w] = "written" /\ wproc[w] = p}

----------------------------------------------------------------------------
Init ==
  /\ version = 0
  /\ committedAt = [v \in {0} |-> 0]
  /\ cache = [p \in Procs |-> Empty]
  /\ now = 0
  /\ rpc = [r \in Readers |-> "idle"]
  /\ rproc = [r \in Readers |-> NONE]
  /\ loaded = [r \in Readers |-> 0]
  /\ loadedAt = [r \in Readers |-> 0]
  /\ wpc = [w \in Writers |-> "idle"]
  /\ wproc = [w \in Writers |-> NONE]
  /\ wrote = [w \in Writers |-> 0]
  /\ overlapped = [w \in Writers |-> FALSE]

(* build_engine on a warm cache. *)
Hit(r, p) ==
  /\ rpc[r] = "idle"
  /\ Warm(p)
  /\ rpc' = [rpc EXCEPT ![r] = "done"]
  /\ rproc' = [rproc EXCEPT ![r] = p]
  /\ UNCHANGED <<version, committedAt, cache, now, loaded, loadedAt, writerVars>>

(* build_engine on a cold one: the query, and its snapshot. *)
Load(r, p) ==
  /\ rpc[r] = "idle"
  /\ ~Warm(p)
  /\ rpc' = [rpc EXCEPT ![r] = "loading"]
  /\ rproc' = [rproc EXCEPT ![r] = p]
  /\ loaded' = [loaded EXCEPT ![r] = version]
  /\ loadedAt' = [loadedAt EXCEPT ![r] = now]
  /\ overlapped' = [w \in Writers |-> overlapped[w] \/ w \in Uncommitted(p)]
  /\ UNCHANGED <<version, committedAt, cache, now, wpc, wproc, wrote>>

Deadline == now + TTL

(* The rows are there: compile, and _EngineCache.set whatever happened to  *)
(* the cache since.                                                        *)
Install(r) ==
  /\ rpc[r] = "loading"
  /\ cache' = [cache EXCEPT ![rproc[r]] = [engine |-> loaded[r], expires_at |-> Deadline]]
  /\ rpc' = [rpc EXCEPT ![r] = "done"]
  /\ UNCHANGED <<version, committedAt, now, rproc, loaded, loadedAt, writerVars>>

(* Mutant: a write that leaves the cache alone. *)
BugNoInvalidate(p) == cache

invalidate_engine_cache(p) == [cache EXCEPT ![p] = Empty]

(* A write: flush the rows, invalidate this process's cache, return to the *)
(* handler, which appends its audit record and whose transaction is still  *)
(* open.                                                                   *)
Write(w, p) ==
  /\ wpc[w] = "idle"
  /\ cache' = invalidate_engine_cache(p)
  /\ wpc' = [wpc EXCEPT ![w] = "written"]
  /\ wproc' = [wproc EXCEPT ![w] = p]
  /\ overlapped' = [overlapped EXCEPT ![w] = Loading(p) # {}]
  /\ UNCHANGED <<version, committedAt, now, readerVars, wrote>>

Commit(w) ==
  /\ wpc[w] = "written"
  /\ version' = version + 1
  /\ committedAt' = [v \in 0 .. version + 1 |-> IF v <= version THEN committedAt[v] ELSE now]
  /\ wpc' = [wpc EXCEPT ![w] = "done"]
  /\ wrote' = [wrote EXCEPT ![w] = version + 1]
  /\ UNCHANGED <<cache, now, readerVars, wproc, overlapped>>

(* The handler fails after the invalidation. *)
Rollback(w) ==
  /\ wpc[w] = "written"
  /\ wpc' = [wpc EXCEPT ![w] = "failed"]
  /\ UNCHANGED <<version, committedAt, cache, now, readerVars, wproc, wrote, overlapped>>

(* Time passes; a load is in flight for MaxLoad at most. *)
Tick ==
  /\ now < MaxTime
  /\ \A r \in Readers : rpc[r] = "loading" => now - loadedAt[r] < MaxLoad
  /\ now' = now + 1
  /\ UNCHANGED <<version, committedAt, cache, readerVars, writerVars>>

Next ==
  \/ \E r \in Readers, p \in Procs : Hit(r, p) \/ Load(r, p)
  \/ \E r \in Readers : Install(r)
  \/ \E w \in Writers, p \in Procs : Write(w, p)
  \/ \E w \in Writers : Commit(w) \/ Rollback(w)
  \/ Tick

Spec == Init /\ [][Next]_vars

----------------------------------------------------------------------------
(* Properties.                                                             *)

TypeOK ==
  /\ version \in Versions
  /\ committedAt \in [0 .. version -> 0 .. MaxTime]
  /\ cache \in [Procs -> [engine : 0 .. version \union {NONE}, expires_at : 0 .. MaxTime + TTL]]
  /\ now \in 0 .. MaxTime
  /\ rpc \in [Readers -> {"idle", "loading", "done"}]
  /\ rproc \in [Readers -> Procs \union {NONE}]
  /\ loaded \in [Readers -> 0 .. version]
  /\ loadedAt \in [Readers -> 0 .. now]
  /\ wpc \in [Writers -> {"idle", "written", "done", "failed"}]
  /\ wproc \in [Writers -> Procs \union {NONE}]
  /\ wrote \in [Writers -> 0 .. version]
  /\ overlapped \in [Writers -> BOOLEAN]

(* The TTL bounds how long an edit stays invisible, whichever process made *)
(* it and however loads and edits overlap: an engine that can still be     *)
(* handed out was superseded less than TTL, and the time a load takes, ago.*)
StalenessBounded ==
  \A p \in Procs : Warm(p) /\ cache[p].engine < version =>
     now - committedAt[cache[p].engine + 1] < TTL + MaxLoad

(* Where no load ran in its process between a write's invalidation and its *)
(* commit, the write is visible there from its commit on.                  *)
OwnWritesVisible ==
  \A w \in Writers : wpc[w] = "done" /\ ~overlapped[w] /\ Warm(wproc[w]) =>
     cache[wproc[w]].engine >= wrote[w]
=============================================================================
