---------------------------- MODULE Administration ----------------------------
(***************************************************************************)
(* Requests that administer the control plane: policies are created,       *)
(* replaced, switched, deleted and synchronised, API keys are issued and   *)
(* revoked, while other requests decide (api/v1/policies.py, api/v1/       *)
(* admin.py, policy/store.py, auth/service.py, api/deps.py, cli.py).       *)
(*                                                                         *)
(* A request is one READ COMMITTED transaction: it authenticates, reads a  *)
(* row, flushes what it writes, seals an audit record and returns.  The    *)
(* answer goes out when the handler returns; get_db commits afterwards.    *)
(* Authentication marks the key as used, which the first flush writes, so  *)
(* that requests of one key queue for its row.  There is one policy key,   *)
(* and one audit stream.                                                   *)
(***************************************************************************)
EXTENDS Integers, Sequences, FiniteSets

CONSTANTS Requests,
          Keys,      \* API keys, numbered as their rows are ordered
          CLI,       \* the caller that has no key: the operator at cpctl
          Calls,     \* what may be asked: [by, op, text, on, target]
          ScopesOf,  \* key -> the scopes it was issued with
          ActsFor,   \* key -> the principals it may decide for; {} is all
          NOROW

ASSUME KeysAssumption == Keys \subseteq Nat \ {0} /\ IsFiniteSet(Keys) /\ CLI = 0

Ops == {"decide", "create", "update", "set_enabled", "delete", "sync", "issue", "revoke"}

(* What a policy can say, and the rows of the policies table. *)
Texts == {c.text : c \in Calls} \union {"a"}
Rows  == [id : Nat, version : Nat, text : Texts, enabled : BOOLEAN]

ASSUME CallsAssumption ==
  Calls \subseteq [by : Keys \union {CLI}, op : Ops, text : Texts, on : BOOLEAN,
                  target : Keys \union {CLI}]
ASSUME RowsAssumption == NOROW \notin Rows

VARIABLES policy,    \* the policies row of the policy key
          versions,  \* the policy_versions rows
          keys,      \* the api_keys rows
          decisions, \* the requests whose decision records are stored
          trail,     \* the audit stream
          ids,       \* how many rows the policies table has ever had
          at,        \* request -> where it is
          call,      \* request -> what was asked
          seen,      \* request -> the policy it read
          write,     \* request -> the row it flushed
          dirty,     \* request -> has its key still to be marked as used?
          held,      \* request -> the row and advisory locks it holds
          sealed,    \* request -> the records it sealed
          answer     \* request -> what the caller was told

tables    == <<policy, versions, keys, decisions, trail, ids>>
sessions  == <<at, call, seen, write, dirty, held, sealed, answer>>
adminVars == <<tables, sessions>>

----------------------------------------------------------------------------
KeyRow(k) == <<"api_keys", k>>
PolicyRow == <<"policies", 1>>  \* the row, or the unique index entry of its key
Stream    == <<"stream", 1>>    \* the advisory lock of the audit stream

NoCall == [by |-> CLI, op |-> "none", text |-> NOROW, on |-> TRUE, target |-> CLI]

Nothing == [kind |-> "nothing", row |-> NOROW, note |-> ""]

Row(id, n, text, on) == [id |-> id, version |-> n, text |-> text, enabled |-> on]

(* require_scope of the endpoints. *)
Scope(op) ==
  IF op = "decide" THEN "decide"
  ELSE IF op \in {"issue", "revoke"} THEN "admin" ELSE "policy:write"

(* scope_satisfies; admin implies everything. *)
scope_satisfies(scopes, required) == "admin" \in scopes \/ required \in scopes

may_act_for(k, principal) == ActsFor[k] = {} \/ principal \in ActsFor[k]

(* What authenticate takes a presented key for. *)
Usable(k) == keys[k].stored /\ ~keys[k].revoked /\ ~keys[k].expired

(* A plaintext is known once the answer of issue_key, which is its only    *)
(* copy, is out.                                                           *)
Known(k) ==
  \/ keys[k].stored
  \/ \E r \in Requests : answer[r] = "ok" /\ call[r].op = "issue" /\ call[r].target = k

Fresh(k) ==
  /\ ~keys[k].stored
  /\ \A r \in Requests : call[r].op = "issue" => call[r].target # k

(* _persist, create and the rest flush before they seal; a switch that     *)
(* finds nothing to do, and a sync that does, have nothing to flush.       *)
Idle(c, row) ==
  \/ c.op = "set_enabled" /\ row.enabled = c.on
  \/ c.op = "sync" /\ row = NOROW /\ c.text = NOROW
  \/ c.op = "sync" /\ row # NOROW /\ row.text = c.text /\ row.enabled

(* Mutant: the record of a policy edit is sealed before it is flushed. *)
BugSealsFirst(c, row) == IF c.op = "update" THEN "seal" ELSE "flush"

AfterRead(c, row) == IF ~Idle(c, row) THEN "flush" ELSE IF c.by = CLI THEN "return" ELSE "seal"

(* PolicyNotFound, PolicyConflict, and no active key of that prefix. *)
Refuses(c) ==
  \/ c.op \in {"update", "set_enabled", "delete"} /\ policy = NOROW
  \/ c.op = "create" /\ policy # NOROW
  \/ c.op = "revoke" /\ (~keys[c.target].stored \/ keys[c.target].revoked)

----------------------------------------------------------------------------
(* Locks.  A flush writes the api_keys rows, in the order of their keys,   *)
(* and then the policies row.                                              *)

WritesPolicy(c) == c.op \in {"create", "update", "set_enabled", "delete", "sync"}

(* The api_keys rows that the next flush of r writes and r has not locked. *)
Unlocked(r) ==
  {k \in Keys : /\ KeyRow(k) \notin held[r]
                /\ \/ dirty[r] /\ k = call[r].by
                   \/ at[r] = "flush" /\ call[r].op = "revoke" /\ k = call[r].target}

(* What r has to lock next before it can go on, if anything: append takes  *)
(* the stream's lock before it flushes, and the flush takes the rows.      *)
Wants(r) ==
  LET first == {KeyRow(k) : k \in {i \in Unlocked(r) : \A j \in Unlocked(r) : i <= j}}
      row   == IF WritesPolicy(call[r]) THEN {PolicyRow} \ held[r] ELSE {}
  IN  CASE at[r] = "flush" -> IF first # {} THEN first ELSE row
        [] at[r] = "seal" -> IF Stream \notin held[r] THEN {Stream} ELSE first
        [] OTHER -> {}

Waits(r, q) == r # q /\ Wants(r) \intersect held[q] # {}

Deadlock(S) == S # {} /\ \A r \in S : \E q \in S : Waits(r, q)

----------------------------------------------------------------------------
AdminInit ==
  /\ policy \in {NOROW, Row(1, 1, "a", TRUE)}
  /\ ids = IF policy = NOROW THEN 0 ELSE 1
  /\ versions = IF policy = NOROW THEN {} ELSE {[row |-> policy, by |-> CLI, note |-> "created"]}
  /\ trail = <<>>
  /\ decisions = {}
  /\ keys = [k \in Keys |-> [stored |-> k = 1, revoked |-> FALSE, expired |-> FALSE,
                             legacy |-> k = 1, used |-> FALSE]]
  /\ at = [r \in Requests |-> "idle"]
  /\ call = [r \in Requests |-> NoCall]
  /\ seen = [r \in Requests |-> NOROW]
  /\ write = [r \in Requests |-> Nothing]
  /\ dirty = [r \in Requests |-> FALSE]
  /\ held = [r \in Requests |-> {}]
  /\ sealed = [r \in Requests |-> <<>>]
  /\ answer = [r \in Requests |-> "none"]

Arrive(r) ==
  /\ at[r] = "idle"
  /\ \E c \in Calls :
        /\ c.by # CLI => Known(c.by)
        /\ c.op = "issue" => Fresh(c.target)
        /\ call' = [call EXCEPT ![r] = c]
        /\ at' = [at EXCEPT ![r] = IF c.by = CLI THEN "read" ELSE "authenticate"]
  /\ UNCHANGED <<tables, seen, write, dirty, held, sealed, answer>>

(* The transaction is over, and with it its locks. *)
Finish(r, told) ==
  /\ at' = [at EXCEPT ![r] = "done"]
  /\ held' = [held EXCEPT ![r] = {}]
  /\ dirty' = [dirty EXCEPT ![r] = FALSE]
  /\ answer' = [answer EXCEPT ![r] = IF @ = "none" THEN told ELSE @]
  /\ UNCHANGED <<call, seen, write, sealed>>

(* get_caller and require_scope, and decide's own check of the principal;  *)
(* a refusal rolls back, and the key is not marked as used.                *)
Admitted(c) ==
  /\ Usable(c.by)
  /\ scope_satisfies(ScopesOf[c.by], Scope(c.op))
  /\ c.op = "decide" => may_act_for(c.by, c.text)

Authenticate(r) ==
  /\ at[r] = "authenticate"
  /\ Admitted(call[r])
  /\ at' = [at EXCEPT ![r] = "read"]
  /\ dirty' = [dirty EXCEPT ![r] = TRUE]
  /\ UNCHANGED <<tables, call, seen, write, held, sealed, answer>>

Reject(r) ==
  /\ at[r] = "authenticate"
  /\ ~Admitted(call[r])
  /\ Finish(r, "refused")
  /\ UNCHANGED tables

(* require_record, get_record, list_records, ApiKeyService.get. *)
Read(r) ==
  /\ at[r] = "read"
  /\ ~Refuses(call[r])
  /\ seen' = [seen EXCEPT ![r] = IF WritesPolicy(call[r]) THEN policy ELSE NOROW]
  /\ at' = [at EXCEPT ![r] = AfterRead(call[r], policy)]
  /\ UNCHANGED <<tables, call, write, dirty, held, sealed, answer>>

Refuse(r) ==
  /\ at[r] = "read"
  /\ Refuses(call[r])
  /\ Finish(r, "refused")
  /\ UNCHANGED tables

Lock(r) ==
  /\ Wants(r) # {}
  /\ \A q \in Requests \ {r} : ~Waits(r, q)
  /\ held' = [held EXCEPT ![r] = @ \union Wants(r)]
  /\ UNCHANGED <<tables, at, call, seen, write, dirty, sealed, answer>>

----------------------------------------------------------------------------
(* The row that create, update and set_enabled write, from the one read. *)
Edited(c, row, id) ==
  IF row = NOROW THEN Row(id, 1, c.text, TRUE)
  ELSE Row(row.id, row.version + 1, IF c.op = "set_enabled" THEN row.text ELSE c.text,
           IF c.op = "set_enabled" THEN c.on ELSE TRUE)

Deletes(c) == c.op = "delete" \/ (c.op = "sync" /\ c.text = NOROW)

Note(c, row) ==
  IF row = NOROW THEN "created" ELSE IF c.op = "set_enabled" THEN "switched" ELSE "updated"

Written(r) ==
  LET c == call[r]
  IN  IF ~WritesPolicy(c) THEN Nothing
      ELSE IF Deletes(c) THEN [kind |-> "delete", row |-> seen[r], note |-> ""]
      ELSE [kind |-> "put", row |-> Edited(c, seen[r], ids + 1), note |-> Note(c, seen[r])]

(* Mutant: no unique constraint on (policy_id, version). *)
BugNoUnique(w) ==
  w.kind = "put" =>
     IF w.note = "created" THEN policy = NOROW ELSE policy # NOROW /\ policy.id = w.row.id

(* What the tables accept: a key that is not taken; a row that is still    *)
(* there, and a version of it that is not.  To delete what is gone is no   *)
(* error.                                                                  *)
Accepted(w) ==
  w.kind = "put" =>
     IF w.note = "created" THEN policy = NOROW
     ELSE /\ policy # NOROW /\ policy.id = w.row.id
          /\ \A v \in versions : v.row.version # w.row.version

Flush(r) ==
  /\ at[r] = "flush"
  /\ Wants(r) = {}
  /\ Accepted(Written(r))
  /\ write' = [write EXCEPT ![r] = Written(r)]
  /\ ids' = IF Written(r).note = "created" THEN ids + 1 ELSE ids
  /\ dirty' = [dirty EXCEPT ![r] = FALSE]
  /\ at' = [at EXCEPT ![r] = IF call[r].by = CLI /\ call[r].op = "sync" THEN "return" ELSE "seal"]
  /\ UNCHANGED <<policy, versions, keys, decisions, trail, call, seen, held, sealed, answer>>

(* Mutant: the record names the version that was read. *)
BugNamesOldVersion(r) ==
  [op |-> call[r].op, by |-> r, kind |-> write[r].kind,
   row |-> IF seen[r] # NOROW THEN seen[r] ELSE write[r].row]

(* The payload of the audit record: the version the request leaves behind. *)
Event(r) ==
  [op |-> call[r].op, by |-> r, kind |-> write[r].kind,
   row |-> IF write[r].kind = "put" THEN write[r].row ELSE seen[r]]

Seal(r) ==
  /\ at[r] = "seal"
  /\ Wants(r) = {}
  /\ sealed' = [sealed EXCEPT ![r] = Append(@, Event(r))]
  /\ dirty' = [dirty EXCEPT ![r] = FALSE]
  /\ at' = [at EXCEPT ![r] = "return"]
  /\ UNCHANGED <<tables, call, seen, write, held, answer>>

(* Mutant: decide leaves the commit to get_db, as every other handler does.*)
BugLeavesCommit(c) == c.by = CLI

(* decide commits before it answers; so does the command line. *)
CommitsFirst(c) == c.op = "decide" \/ c.by = CLI

Return(r) ==
  /\ at[r] = "return"
  /\ at' = [at EXCEPT ![r] = "commit"]
  /\ answer' = [answer EXCEPT ![r] = IF CommitsFirst(call[r]) THEN @ ELSE "ok"]
  /\ UNCHANGED <<tables, call, seen, write, dirty, held, sealed>>

Changed(w) ==
  CASE w.kind = "put" -> w.row
    [] w.kind = "delete" /\ policy # NOROW /\ policy.id = w.row.id -> NOROW
    [] OTHER -> policy

(* Deleting a policy deletes its versions with it. *)
History(r) ==
  CASE write[r].kind = "put" ->
         versions \union {[row |-> write[r].row, by |-> call[r].by, note |-> write[r].note]}
    [] write[r].kind = "delete" -> {v \in versions : v.row.id # write[r].row.id}
    [] OTHER -> versions

(* Mutant: the key's whole row is written back as it was read. *)
BugWholeRow(r, k) ==
  LET used == KeyRow(k) \in held[r] /\ call[r].by = k
  IN  [keys[k] EXCEPT !.used = @ \/ used, !.legacy = @ /\ ~used,
         !.stored = @ \/ (call[r].op = "issue" /\ call[r].target = k),
         !.revoked = (@ /\ ~used) \/ (call[r].op = "revoke" /\ call[r].target = k)]

(* last_used_at, the digest of the current scheme, and revoked_at. *)
UpdatedKey(r, k) ==
  LET used == KeyRow(k) \in held[r] /\ call[r].by = k
  IN  [keys[k] EXCEPT !.used = @ \/ used, !.legacy = @ /\ ~used,
         !.stored = @ \/ (call[r].op = "issue" /\ call[r].target = k),
         !.revoked = @ \/ (call[r].op = "revoke" /\ call[r].target = k)]

CommitRequest(r) ==
  /\ at[r] = "commit"
  /\ policy' = Changed(write[r])
  /\ versions' = History(r)
  /\ keys' = [k \in Keys |-> UpdatedKey(r, k)]
  /\ decisions' = IF call[r].op = "decide" THEN decisions \union {r} ELSE decisions
  /\ trail' = trail \o sealed[r]
  /\ UNCHANGED ids
  /\ Finish(r, "ok")

(* An error of the database, a lost connection, a deadlock that was broken,*)
(* a process that dies: at any time, also when the answer is out.          *)
Fail(r) ==
  /\ at[r] \notin {"idle", "done"}
  /\ Finish(r, "failed")
  /\ UNCHANGED tables

Expire(k) ==
  /\ keys[k].stored /\ ~keys[k].expired
  /\ keys' = [keys EXCEPT ![k].expired = TRUE]
  /\ UNCHANGED <<policy, versions, decisions, trail, ids, sessions>>

AdminNext ==
  \/ \E r \in Requests :
        \/ Arrive(r) \/ Authenticate(r) \/ Reject(r) \/ Read(r) \/ Refuse(r)
        \/ Lock(r) \/ Flush(r) \/ Seal(r) \/ Return(r) \/ CommitRequest(r) \/ Fail(r)
  \/ \E k \in Keys : Expire(k)

AdminSpec == AdminInit /\ [][AdminNext]_adminVars

----------------------------------------------------------------------------
(* Properties.                                                             *)

(* However edits overlap, the history of the stored policy is complete and *)
(* linear: each of its versions once, the newest being the stored one, and *)
(* a version that only switched it has the text of the one before.         *)
HistoryIsLinear ==
  /\ policy = NOROW => versions = {}
  /\ policy # NOROW =>
        /\ \A v \in versions : v.row.id = policy.id /\ v.row.version <= policy.version
        /\ \A n \in 1 .. policy.version : Cardinality({v \in versions : v.row.version = n}) = 1
        /\ \E v \in versions : v.row = policy
        /\ \A v, w \in versions :
              w.note = "switched" /\ w.row.version = v.row.version + 1 => w.row.text = v.row.text

(* The records of the edits of the stored policy, by their place in the trail. *)
Edits == {i \in 1 .. Len(trail) :
            trail[i].kind = "put" /\ policy # NOROW /\ trail[i].row.id = policy.id}

(* The trail tells the same history in the same order: each version that   *)
(* was not written from the command line has its record, and the records   *)
(* are in the order of the versions.                                       *)
TrailFollowsHistory ==
  /\ \A i, j \in Edits : i < j => trail[i].row.version < trail[j].row.version
  /\ \A v \in versions : v.by # CLI => \E i \in Edits : trail[i].row = v.row

(* A decision whose id has been handed out is stored. *)
AnsweredDecisionsExist ==
  \A r \in Requests : answer[r] = "ok" /\ call[r].op = "decide" => r \in decisions

(* What is stored, what is on the trail and what callers were told of      *)
(* decisions is one history, however requests overlap, fail or die.        *)
RecordsAgree == HistoryIsLinear /\ TrailFollowsHistory /\ AnsweredDecisionsExist

(* A revocation stands, and a digest never falls back to the old scheme,   *)
(* whatever requests of that key are still to be written back.             *)
RevocationStands ==
  [][\A k \in Keys :
       /\ keys[k].revoked => keys'[k].revoked
       /\ keys[k].stored /\ ~keys[k].legacy => ~keys'[k].legacy]_adminVars

(* Requests wait for one another in a circle only if one of them seals a   *)
(* record before it has flushed anything, and so locks the stream before   *)
(* its key's row: a switch or a synchronisation that changes nothing.      *)
OnlyIdleCallsDeadlock ==
  \A S \in SUBSET Requests :
     Deadlock(S) => \E r \in S : at[r] = "seal" /\ dirty[r] /\ Idle(call[r], seen[r])
=============================================================================
