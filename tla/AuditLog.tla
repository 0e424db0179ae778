------------------------------ MODULE AuditLog ------------------------------
(***************************************************************************)
(* control_plane/audit/service.py under Postgres: concurrent transactions  *)
(* that append sealed records to hash-chained streams.                     *)
(*                                                                         *)
(* A request handler runs in one READ COMMITTED transaction.  Each call of *)
(* AuditService.append takes the stream's advisory lock (held to the end   *)
(* of the transaction), reads the stream's head in a statement of its own, *)
(* seals a record against that head and flushes it.  Other transactions    *)
(* run between any two of these statements; the transaction may fail at    *)
(* any of them and then leaves nothing behind.                             *)
(***************************************************************************)
EXTENDS Integers, Sequences, FiniteSets

CONSTANTS Txns,        \* the transactions of one behaviour
          Actors,      \* caller identities and principal ids
          Partitions,  \* CP_AUDIT_PARTITIONS
          StreamOf     \* crc32(actor) modulo the number of partitions

ASSUME PartitionsAssumption == Partitions \in Nat \ {0}
ASSUME StreamOfAssumption   == StreamOf \in [Actors -> 0 .. Partitions - 1]

VARIABLES log,      \* audit_records as committed: stream -> rows in commit order
          pc,       \* where each transaction is
          plan,     \* the streams it has still to append to, in order
          locks,    \* the advisory locks it holds
          pending,  \* its rows that are flushed and not yet committed
          head,     \* the (next_seq, head_hash) it read last
          todo,     \* a checkpoint's streams whose head it has still to read
          heads     \* the stream heads a checkpoint has read

dbVars      == <<log, locks, pending>>
sessionVars == <<pc, plan, head, todo, heads>>
vars        == <<log, pc, plan, locks, pending, head, todo, heads>>

----------------------------------------------------------------------------
Ledger == INSTANCE AuditLedger WITH ledger <- log

Streams     == Ledger!Streams
Checkpoints == Ledger!Checkpoints
AllStreams  == Ledger!AllStreams
GENESIS     == Ledger!GENESIS

PCs == {"idle", "list", "heads", "lock", "head", "insert", "commit", "ended"}

NoRows == [s \in AllStreams |-> <<>>]

(* The stream an actor's records belong to. *)
partition_for(actor) == IF Partitions <= 1 THEN 0 ELSE StreamOf[actor]

(* The appends of the handlers that write: a decision (and a resolved      *)
(* approval, an outcome, a policy edit: one record of the caller), a       *)
(* decision that redeems an approval (two records of the caller), a        *)
(* decision that parks (one of the caller, one of the principal) and a     *)
(* checkpoint.                                                             *)
Plans(caller, principal) ==
  {<<partition_for(caller)>>,
   <<partition_for(caller), partition_for(caller)>>,
   <<partition_for(caller), partition_for(principal)>>}

----------------------------------------------------------------------------
(* Mutant: a session that reads only what is committed, not its own rows. *)
BugOwnRowsInvisible(t, s) == log[s]

(* What a statement of t sees of stream s: the committed rows, then t's    *)
(* own flushed ones.                                                       *)
Visible(t, s) == log[s] \o pending[t][s]

(* AuditService.head: the sequence number to use next and the digest to    *)
(* link to.                                                                *)
HeadOf(q) ==
  IF q = <<>> THEN [next_seq |-> 1, head_hash |-> GENESIS]
  ELSE [next_seq |-> q[Len(q)].seq + 1, head_hash |-> q[Len(q)].digest]

(* AuditChain.append: seal a record against a head. *)
Seal(t, s, h, hs) ==
  [stream |-> s, seq |-> h.next_seq, by |-> t, heads |-> hs,
   prev |-> h.head_hash,
   digest |-> Ledger!Digest(<<s, h.next_seq, t, hs, h.head_hash>>)]

----------------------------------------------------------------------------
(* The waits-for graph of the advisory locks, and Postgres' deadlock       *)
(* detector: a transaction that waits for itself through others.           *)

(* Mutant: no advisory lock, as on a database that is not Postgres. *)
BugNoLock(t, s) == TRUE

CanLock(t, s) == \A u \in Txns \ {t} : s \notin locks[u]

Waits(t, u) ==
  /\ t # u
  /\ pc[t] = "lock"
  /\ Head(plan[t]) \in locks[u]

(* Every set of transactions closed under "has a member waiting for a      *)
(* member" contains a cycle.                                               *)
Deadlocked(t) ==
  \E S \in SUBSET Txns :
     /\ t \in S
     /\ \A u \in S : \E v \in S : Waits(u, v)

----------------------------------------------------------------------------
Init ==
  /\ log = NoRows
  /\ pc = [t \in Txns |-> "idle"]
  /\ plan = [t \in Txns |-> <<>>]
  /\ locks = [t \in Txns |-> {}]
  /\ pending = [t \in Txns |-> NoRows]
  /\ head = [t \in Txns |-> HeadOf(<<>>)]
  /\ todo = [t \in Txns |-> {}]
  /\ heads = [t \in Txns |-> {}]

(* A handler that appends for a caller, and perhaps for a principal. *)
BeginAppend(t) ==
  /\ pc[t] = "idle"
  /\ \E caller, principal \in Actors :
        \E p \in Plans(caller, principal) : plan' = [plan EXCEPT ![t] = p]
  /\ pc' = [pc EXCEPT ![t] = "lock"]
  /\ UNCHANGED <<dbVars, head, todo, heads>>

(* AuditService.checkpoint. *)
BeginCheckpoint(t) ==
  /\ pc[t] = "idle"
  /\ plan' = [plan EXCEPT ![t] = <<Checkpoints>>]
  /\ pc' = [pc EXCEPT ![t] = "list"]
  /\ UNCHANGED <<dbVars, head, todo, heads>>

(* AuditService.streams: every stream that has records, the checkpoints'   *)
(* own excepted.                                                           *)
ListStreams(t) ==
  /\ pc[t] = "list"
  /\ todo' = [todo EXCEPT ![t] = {s \in Streams : Visible(t, s) # <<>>}]
  /\ pc' = [pc EXCEPT ![t] = "heads"]
  /\ UNCHANGED <<dbVars, plan, head, heads>>

(* Mutant: the sequence number to use next, recorded as the one reached. *)
BugRecordNextSeq(t, s) ==
  LET h == HeadOf(Visible(t, s))
  IN  [stream |-> s, seq |-> h.next_seq, head_hash |-> h.head_hash]

(* What a checkpoint records of a stream: the last number and digest. *)
HeadRead(t, s) ==
  LET h == HeadOf(Visible(t, s))
  IN  [stream |-> s, seq |-> h.next_seq - 1, head_hash |-> h.head_hash]

(* One turn of the loop of stream_heads: a statement per stream, in the    *)
(* order of their names, no lock taken.                                    *)
ReadStreamHead(t) ==
  /\ pc[t] = "heads"
  /\ \E s \in todo[t] :
        /\ \A r \in todo[t] : s <= r
        /\ heads' = [heads EXCEPT ![t] = @ \union {HeadRead(t, s)}]
        /\ todo' = [todo EXCEPT ![t] = @ \ {s}]
  /\ UNCHANGED <<dbVars, pc, plan, head>>

AppendCheckpoint(t) ==
  /\ pc[t] = "heads"
  /\ todo[t] = {}
  /\ pc' = [pc EXCEPT ![t] = "lock"]
  /\ UNCHANGED <<dbVars, plan, head, todo, heads>>

(* pg_advisory_xact_lock: waits while another transaction holds the lock;  *)
(* a lock already held is granted again.                                   *)
Lock(t) ==
  /\ pc[t] = "lock"
  /\ CanLock(t, Head(plan[t]))
  /\ locks' = [locks EXCEPT ![t] = @ \union {Head(plan[t])}]
  /\ pc' = [pc EXCEPT ![t] = "head"]
  /\ UNCHANGED <<log, pending, plan, head, todo, heads>>

ReadHead(t) ==
  /\ pc[t] = "head"
  /\ head' = [head EXCEPT ![t] = HeadOf(Visible(t, Head(plan[t])))]
  /\ pc' = [pc EXCEPT ![t] = "insert"]
  /\ UNCHANGED <<dbVars, plan, todo, heads>>

(* Mutant: append commits its own record instead of leaving it to the      *)
(* caller's transaction.                                                   *)
BugAppendCommits(t) ==
  /\ pc[t] = "insert"
  /\ LET s == Head(plan[t])
     IN  log' = [log EXCEPT ![s] = Append(@, Seal(t, s, head[t], heads[t]))]
  /\ plan' = [plan EXCEPT ![t] = Tail(@)]
  /\ pc' = [pc EXCEPT ![t] = IF Len(plan[t]) = 1 THEN "commit" ELSE "lock"]
  /\ UNCHANGED <<pending, locks, head, todo, heads>>

(* Seal the record, add the row, flush. *)
Insert(t) ==
  /\ pc[t] = "insert"
  /\ LET s == Head(plan[t])
     IN  pending' = [pending EXCEPT ![t][s] = Append(@, Seal(t, s, head[t], heads[t]))]
  /\ plan' = [plan EXCEPT ![t] = Tail(@)]
  /\ pc' = [pc EXCEPT ![t] = IF Len(plan[t]) = 1 THEN "commit" ELSE "lock"]
  /\ UNCHANGED <<log, locks, head, todo, heads>>

(* Mutant: a session-level lock, which outlives the transaction. *)
BugLockOutlivesTxn(t) ==
  /\ pc' = [pc EXCEPT ![t] = "ended"]
  /\ UNCHANGED locks
  /\ pending' = [pending EXCEPT ![t] = NoRows]
  /\ plan' = [plan EXCEPT ![t] = <<>>]
  /\ head' = [head EXCEPT ![t] = HeadOf(<<>>)]
  /\ todo' = [todo EXCEPT ![t] = {}]
  /\ heads' = [heads EXCEPT ![t] = {}]

(* The end of a transaction, either way, gives up its locks. *)
End(t) ==
  /\ pc' = [pc EXCEPT ![t] = "ended"]
  /\ locks' = [locks EXCEPT ![t] = {}]
  /\ pending' = [pending EXCEPT ![t] = NoRows]
  /\ plan' = [plan EXCEPT ![t] = <<>>]
  /\ head' = [head EXCEPT ![t] = HeadOf(<<>>)]
  /\ todo' = [todo EXCEPT ![t] = {}]
  /\ heads' = [heads EXCEPT ![t] = {}]

(* get_db commits when the handler returns. *)
Commit(t) ==
  /\ pc[t] = "commit"
  /\ log' = [s \in AllStreams |-> log[s] \o pending[t][s]]
  /\ End(t)

(* get_db rolls back when the handler raises; a lost connection or a dead  *)
(* process has the same effect.                                            *)
Rollback(t) ==
  /\ pc[t] \notin {"idle", "ended"}
  /\ UNCHANGED log
  /\ End(t)

(* Postgres picks one of the transactions of a cycle and aborts it. *)
DeadlockDetected(t) ==
  /\ Deadlocked(t)
  /\ UNCHANGED log
  /\ End(t)

Step(t) ==
  \/ ListStreams(t)
  \/ ReadStreamHead(t)
  \/ AppendCheckpoint(t)
  \/ Lock(t)
  \/ ReadHead(t)
  \/ Insert(t)
  \/ Commit(t)

Begin(t) == BeginAppend(t) \/ BeginCheckpoint(t)

Next ==
  \E t \in Txns :
     \/ Begin(t)
     \/ Step(t)
     \/ Rollback(t)
     \/ DeadlockDetected(t)

Spec == Init /\ [][Next]_vars

(* A session keeps executing its handler, and the deadlock detector wakes  *)
(* up; nothing obliges a request to arrive or a transaction to fail.       *)
Fairness == \A t \in Txns : WF_vars(Step(t)) /\ WF_vars(DeadlockDetected(t))

FairSpec == Spec /\ Fairness

----------------------------------------------------------------------------
(* What the verifier recomputes.                                           *)

(* chain.py, verify_chain over one stream read from its first record: the  *)
(* digest of every record, the link to the one before (or to the genesis   *)
(* record), and no gap or repeat in the sequence numbers.                  *)
verify_chain(q) ==
  \A i \in 1 .. Len(q) :
     /\ q[i].digest = Ledger!Digest(Ledger!Body(q[i]))
     /\ q[i].prev = IF i = 1 THEN GENESIS ELSE q[i - 1].digest
     /\ i > 1 => q[i].seq = q[i - 1].seq + 1

(* chain.py, verify_against_checkpoint for one recorded head: the stream   *)
(* has a record of that number, and it has the digest that was recorded.   *)
HeadHolds(h) ==
  \E i \in 1 .. Len(log[h.stream]) :
     /\ log[h.stream][i].seq = h.seq
     /\ log[h.stream][i].digest = h.head_hash

verify_against_checkpoint(c) == \A h \in c.heads : HeadHolds(h)

----------------------------------------------------------------------------
(* Properties.                                                             *)

IsRow(r, s) ==
  /\ r.stream = s
  /\ r.seq \in Nat \ {0}
  /\ r.by \in Txns
  /\ \A h \in r.heads : h.stream \in Streams /\ h.seq \in Nat \ {0}

AreRows(q, s) == \A i \in 1 .. Len(q) : IsRow(q[i], s)

(* The variables keep their types: rows carry the stream they are stored   *)
(* in, sequence numbers start at one, a waiting transaction knows what it  *)
(* waits for.                                                              *)
TypeOK ==
  /\ DOMAIN log = AllStreams
  /\ \A s \in AllStreams : AreRows(log[s], s)
  /\ pc \in [Txns -> PCs]
  /\ plan \in [Txns -> Seq(AllStreams)]
  /\ \A t \in Txns : pc[t] \in {"lock", "head", "insert"} => plan[t] # <<>>
  /\ locks \in [Txns -> SUBSET AllStreams]
  /\ \A t \in Txns : \A s \in AllStreams : AreRows(pending[t][s], s)
  /\ \A t \in Txns : head[t].next_seq \in Nat \ {0}
  /\ todo \in [Txns -> SUBSET Streams]
  /\ \A t \in Txns : \A h \in heads[t] : h.stream \in Streams /\ h.seq \in Nat \ {0}

(* However transactions interleave and fail, every committed stream passes *)
(* verify_chain, and so does it together with what any one transaction has *)
(* flushed: no append ever links to a record that is not there to stay.    *)
EveryStreamVerifies ==
  \A s \in AllStreams :
     /\ verify_chain(log[s])
     /\ \A t \in Txns : verify_chain(log[s] \o pending[t][s])

(* The primary key (stream, seq) of audit_records is never what stops an   *)
(* append: two transactions never seal records with the same number, so no *)
(* decision is lost to a duplicate key.                                    *)
PrimaryKeyNeverRejects ==
  \A t \in Txns : \A s \in AllStreams : \A i \in 1 .. Len(pending[t][s]) :
     LET n == pending[t][s][i].seq
     IN  /\ \A j \in 1 .. Len(log[s]) : log[s][j].seq # n
         /\ \A u \in Txns : \A j \in 1 .. Len(pending[u][s]) :
               pending[u][s][j].seq = n => u = t /\ i = j

(* A checkpoint reads the heads without a lock, while other transactions   *)
(* append, and is committed later; what it recorded still holds then, and  *)
(* for ever: verify_all never reports damage that did not happen.          *)
CheckpointsHold ==
  \A i \in 1 .. Len(log[Checkpoints]) : verify_against_checkpoint(log[Checkpoints][i])

(* The committed rows are an AuditLedger: chains that only grow, by whole  *)
(* transactions.                                                           *)
ImplementsLedger == Ledger!Spec

(* Every transaction that has begun ends, also when two that park for each *)
(* other's principal take the same two locks in opposite orders.           *)
EveryTransactionEnds ==
  \A t \in Txns : (pc[t] # "idle") ~> (pc[t] = "ended")
=============================================================================
