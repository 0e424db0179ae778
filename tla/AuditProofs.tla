-------------------------------- MODULE AuditProofs --------------------------------
(***************************************************************************)
(* What holds of the audit chain, for any number of transactions, actors   *)
(* and partitions, however often a handler's plan visits a stream, and of  *)
(* an audit of it, for any damage and whatever is appended while it runs.  *)
(*                                                                         *)
(* The first half is about AuditLog. A transaction's flushed rows are all  *)
(* in streams whose lock it holds, no two transactions hold the same lock, *)
(* so the head it has read is still the head when it inserts; hence the    *)
(* committed rows of every stream, with those of any one transaction after *)
(* them, stay one chain from the genesis record.                           *)
(*                                                                         *)
(* The second half is about AuditVerification, whose transactions take the *)
(* same steps: an audit that finds nothing read streams that were whole,   *)
(* and one that reports a break read damage.                               *)
(***************************************************************************)
EXTENDS AuditVerification, SequenceTheorems, WellFoundedInduction, TLAPS

----------------------------------------------------------------------------
(* Rows have no simple type, as each carries the digest of the one before; *)
(* all that matters is that streams are sequences over some set of them.   *)

RowsIn(R) ==
  /\ log \in [AllStreams -> Seq(R)]
  /\ pending \in [Txns -> [AllStreams -> Seq(R)]]

Stored == \E R : RowsIn(R)

Waiting == {"list", "heads", "lock", "head", "insert"}

Shape ==
  /\ pc \in [Txns -> PCs]
  /\ plan \in [Txns -> Seq(AllStreams)]
  /\ \A t \in Txns : pc[t] \in Waiting => plan[t] # <<>>
  /\ locks \in [Txns -> SUBSET AllStreams]
  /\ todo \in [Txns -> SUBSET Streams]
  /\ head = [t \in Txns |-> head[t]]
  /\ heads = [t \in Txns |-> heads[t]]
  /\ Stored

(* Locks exclude, protect the flushed rows, and cover the append under     *)
(* way.                                                                    *)
Exclusion ==
  \A t, u \in Txns : \A s \in AllStreams : s \in locks[t] /\ s \in locks[u] => t = u

FlushedUnderLock ==
  \A t \in Txns : \A s \in AllStreams : pending[t][s] # <<>> => s \in locks[t]

AppendUnderLock ==
  \A t \in Txns : pc[t] \in {"head", "insert"} => Head(plan[t]) \in locks[t]

NoLockYet ==
  \A t \in Txns : pc[t] \in {"idle", "list", "heads", "ended"} => locks[t] = {}

Locking == Exclusion /\ FlushedUnderLock /\ AppendUnderLock /\ NoLockYet

(* What is read is still true when it is used, and what is written links   *)
(* up.                                                                     *)
FreshHead ==
  \A t \in Txns : pc[t] = "insert" => head[t] = HeadOf(Visible(t, Head(plan[t])))

Chained ==
  \A s \in AllStreams :
     /\ Ledger!Chain(log[s])
     /\ \A t \in Txns : Ledger!Chain(Visible(t, s))

----------------------------------------------------------------------------
(* Sequences. *)

LEMMA ConcatFacts ==
  ASSUME NEW R, NEW q \in Seq(R), NEW r \in Seq(R)
  PROVE  /\ q \o r \in Seq(R)
         /\ Len(q \o r) = Len(q) + Len(r)
         /\ \A i \in 1 .. Len(q) : (q \o r)[i] = q[i]
         /\ \A i \in Len(q) + 1 .. Len(q) + Len(r) : (q \o r)[i] = r[i - Len(q)]
  OBVIOUS

LEMMA EmptyConcat ==
  ASSUME NEW R, NEW q \in Seq(R)
  PROVE  q \o <<>> = q /\ <<>> \o q = q
  OBVIOUS

LEMMA ConcatAppend ==
  ASSUME NEW R, NEW q \in Seq(R), NEW r \in Seq(R), NEW e \in R
  PROVE  q \o Append(r, e) = Append(q \o r, e)
  OBVIOUS

LEMMA SeqMonotone ==
  ASSUME NEW R, NEW S, R \subseteq S
  PROVE  Seq(R) \subseteq Seq(S)
  OBVIOUS

LEMMA HeadAndTail ==
  ASSUME NEW R, NEW q \in Seq(R), q # <<>>
  PROVE  /\ Head(q) \in R
         /\ Tail(q) \in Seq(R)
         /\ Len(q) # 1 => Tail(q) # <<>>
<1>1. /\ Head(q) \in R
      /\ Tail(q) \in Seq(R)
      /\ Len(Tail(q)) = Len(q) - 1
  BY HeadTailProperties
<1>2. Len(q) \in Nat
  OBVIOUS
<1>3. Tail(q) = <<>> => Len(Tail(q)) = 0
  BY EmptySeq
<1> QED
  BY <1>1, <1>2, <1>3

(* The streams that transactions name exist. *)
LEMMA StreamFacts ==
  /\ Streams \subseteq AllStreams
  /\ Checkpoints \in AllStreams
  /\ \A a \in Actors : partition_for(a) \in AllStreams
  BY PartitionsAssumption, StreamOfAssumption
  DEF Streams, AllStreams, Checkpoints, partition_for,
      Ledger!Streams, Ledger!AllStreams, Ledger!Checkpoints

LEMMA PlanFacts ==
  ASSUME NEW caller \in Actors, NEW principal \in Actors,
         NEW p \in Plans(caller, principal)
  PROVE  p \in Seq(AllStreams) /\ p # <<>>
<1>1. PICK a, b \in AllStreams : p = <<a>> \/ p = <<a, b>>
  BY StreamFacts DEF Plans
<1>2. <<a>> \in Seq(AllStreams) /\ <<a>> # <<>>
  OBVIOUS
<1>3. <<a, b>> \in Seq(AllStreams) /\ <<a, b>> # <<>>
  OBVIOUS
<1> QED
  BY <1>1, <1>2, <1>3

----------------------------------------------------------------------------
(* The variables keep their shape. *)

LEMMA ShapeInit == Init => Shape
<1> SUFFICES ASSUME Init PROVE Shape
  OBVIOUS
<1>1. RowsIn({})
  BY DEF Init, RowsIn, NoRows
<1>2. Stored
  BY <1>1 DEF Stored
<1> QED
  BY <1>2 DEF Init, Shape, PCs, Waiting

(* Ending a transaction, whatever becomes of the log. *)
LEMMA ShapeEnd ==
  ASSUME Shape, NEW t \in Txns, End(t),
         NEW R, RowsIn(R), log' \in [AllStreams -> Seq(R)]
  PROVE  Shape'
<1>1. RowsIn(R)'
  BY DEF RowsIn, End, NoRows
<1>2. Stored'
  BY <1>1 DEF Stored
<1>3. plan' \in [Txns -> Seq(AllStreams)]
  BY DEF Shape, End
<1>4. \A u \in Txns : pc'[u] \in Waiting => plan'[u] # <<>>
  BY DEF Shape, End, Waiting
<1> QED
  BY <1>2, <1>3, <1>4 DEF Shape, End, PCs

LEMMA ShapeStep == Shape /\ [Next]_vars => Shape'
<1> SUFFICES ASSUME Shape, [Next]_vars PROVE Shape'
  OBVIOUS
<1> USE DEF Shape
<1> PICK R : RowsIn(R)
  BY DEF Stored
<1>0. ASSUME UNCHANGED dbVars PROVE Stored'
  BY <1>0 DEF dbVars, Stored, RowsIn
<1>1. ASSUME NEW t \in Txns, BeginAppend(t) PROVE Shape'
  BY <1>1, <1>0, PlanFacts DEF BeginAppend, dbVars, PCs, Waiting
<1>2. ASSUME NEW t \in Txns, BeginCheckpoint(t) PROVE Shape'
  BY <1>2, <1>0, StreamFacts DEF BeginCheckpoint, dbVars, PCs, Waiting
<1>3. ASSUME NEW t \in Txns, ListStreams(t) PROVE Shape'
  BY <1>3, <1>0 DEF ListStreams, dbVars, PCs, Waiting
<1>4. ASSUME NEW t \in Txns, ReadStreamHead(t) PROVE Shape'
  BY <1>4, <1>0 DEF ReadStreamHead, dbVars, PCs, Waiting
<1>5. ASSUME NEW t \in Txns, AppendCheckpoint(t) PROVE Shape'
  BY <1>5, <1>0 DEF AppendCheckpoint, dbVars, PCs, Waiting
<1>6. ASSUME NEW t \in Txns, Lock(t) PROVE Shape'
  <2>1. Stored'
    BY <1>6 DEF Lock, Stored, RowsIn
  <2>2. Head(plan[t]) \in AllStreams
    BY <1>6, HeadAndTail DEF Lock, Waiting
  <2> QED
    BY <1>6, <2>1, <2>2 DEF Lock, PCs, Waiting
<1>7. ASSUME NEW t \in Txns, ReadHead(t) PROVE Shape'
  BY <1>7, <1>0 DEF ReadHead, dbVars, PCs, Waiting
<1>8. ASSUME NEW t \in Txns, Insert(t) PROVE Shape'
  <2> DEFINE s == Head(plan[t])
             e == Seal(t, s, head[t], heads[t])
             S == R \union {e}
  <2>1. /\ plan[t] \in Seq(AllStreams)
        /\ plan[t] # <<>>
        /\ s \in AllStreams
        /\ Tail(plan[t]) \in Seq(AllStreams)
        /\ Len(plan[t]) # 1 => Tail(plan[t]) # <<>>
    BY <1>8, HeadAndTail DEF Insert, Waiting
  <2>2. Seq(R) \subseteq Seq(S)
    BY SeqMonotone
  <2>3. log' \in [AllStreams -> Seq(S)]
    BY <1>8, <2>2 DEF Insert, RowsIn
  <2>4. Append(pending[t][s], e) \in Seq(S)
    BY <2>1, <2>2 DEF RowsIn
  <2>5. pending' = [pending EXCEPT ![t][s] = Append(@, e)]
    BY <1>8 DEF Insert
  <2> HIDE DEF s, e, S
  <2>6. pending' \in [Txns -> [AllStreams -> Seq(S)]]
    BY <2>1, <2>2, <2>4, <2>5 DEF RowsIn
  <2>7. Stored'
    BY <2>3, <2>6 DEF Stored, RowsIn
  <2> QED
    BY <1>8, <2>1, <2>7 DEF Insert, PCs, Waiting
<1>9. ASSUME NEW t \in Txns, Commit(t) PROVE Shape'
  <2>1. log' \in [AllStreams -> Seq(R)]
    BY <1>9, ConcatFacts DEF Commit, RowsIn
  <2> QED
    BY <1>9, <2>1, ShapeEnd DEF Commit
<1>10. ASSUME NEW t \in Txns, Rollback(t) \/ DeadlockDetected(t) PROVE Shape'
  <2>1. log' \in [AllStreams -> Seq(R)] /\ End(t)
    BY <1>10 DEF Rollback, DeadlockDetected, RowsIn
  <2> QED
    BY <2>1, ShapeEnd
<1>11. ASSUME UNCHANGED vars PROVE Shape'
  BY <1>11, <1>0 DEF vars, dbVars, PCs, Waiting
<1> QED
  BY <1>1, <1>2, <1>3, <1>4, <1>5, <1>6, <1>7, <1>8, <1>9, <1>10, <1>11
  DEF Next, Begin, Step

(* Every variable has its shape in every reachable state; the rows of each *)
(* stream are a sequence.                                                  *)
THEOREM AlwaysShape == Spec => []Shape
  BY ShapeInit, ShapeStep, PTL DEF Spec

----------------------------------------------------------------------------
(* Locks. *)

LEMMA LockingInit == Init => Locking
  BY DEF Init, Locking, Exclusion, FlushedUnderLock, AppendUnderLock, NoLockYet,
         NoRows

(* Ending a transaction gives up its locks and its rows together. *)
LEMMA LockingEnd ==
  ASSUME Shape, Locking, NEW t \in Txns, End(t)
  PROVE  Locking'
<1>0. PICK R : RowsIn(R)
  BY DEF Shape, Stored
<1> USE DEF Shape, Locking
<1>1. Exclusion'
  BY DEF End, Exclusion
<1>2. FlushedUnderLock'
  BY <1>0 DEF End, FlushedUnderLock, RowsIn, NoRows
<1>3. AppendUnderLock'
  BY DEF End, AppendUnderLock
<1>4. NoLockYet'
  BY DEF End, NoLockYet
<1> QED
  BY <1>1, <1>2, <1>3, <1>4

LEMMA LockingStep == Shape /\ Locking /\ [Next]_vars => Locking'
<1> SUFFICES ASSUME Shape, Locking, [Next]_vars PROVE Locking'
  OBVIOUS
<1>0. PICK R : RowsIn(R)
  BY DEF Shape, Stored
<1> USE DEF Shape, Locking, Exclusion, FlushedUnderLock, AppendUnderLock, NoLockYet
<1>1. ASSUME NEW t \in Txns, BeginAppend(t) PROVE Locking'
  BY <1>1 DEF BeginAppend, dbVars
<1>2. ASSUME NEW t \in Txns, BeginCheckpoint(t) PROVE Locking'
  BY <1>2 DEF BeginCheckpoint, dbVars
<1>3. ASSUME NEW t \in Txns, ListStreams(t) PROVE Locking'
  BY <1>3 DEF ListStreams, dbVars
<1>4. ASSUME NEW t \in Txns, ReadStreamHead(t) PROVE Locking'
  BY <1>4 DEF ReadStreamHead, dbVars
<1>5. ASSUME NEW t \in Txns, AppendCheckpoint(t) PROVE Locking'
  BY <1>5 DEF AppendCheckpoint, dbVars
<1>6. ASSUME NEW t \in Txns, Lock(t) PROVE Locking'
  BY <1>6 DEF Lock, CanLock
<1>7. ASSUME NEW t \in Txns, ReadHead(t) PROVE Locking'
  BY <1>7 DEF ReadHead, dbVars
<1>8. ASSUME NEW t \in Txns, Insert(t) PROVE Locking'
  <2>1. Head(plan[t]) \in locks[t]
    BY <1>8 DEF Insert
  <2>2. Exclusion'
    BY <1>8 DEF Insert
  <2>3. \A u \in Txns : \A s \in AllStreams :
           pending'[u][s] # pending[u][s] => u = t /\ s = Head(plan[t])
    BY <1>0, <1>8 DEF Insert, RowsIn
  <2>4. FlushedUnderLock'
    BY <1>8, <2>1, <2>3 DEF Insert
  <2>5. AppendUnderLock' /\ NoLockYet'
    BY <1>8 DEF Insert
  <2> QED
    BY <2>2, <2>4, <2>5
<1>9. ASSUME NEW t \in Txns, Commit(t) \/ Rollback(t) \/ DeadlockDetected(t)
      PROVE  Locking'
  BY <1>9, LockingEnd DEF Commit, Rollback, DeadlockDetected
<1>10. ASSUME UNCHANGED vars PROVE Locking'
  BY <1>10 DEF vars
<1> QED
  BY <1>1, <1>2, <1>3, <1>4, <1>5, <1>6, <1>7, <1>8, <1>9, <1>10
  DEF Next, Begin, Step

(* No two transactions ever hold the same stream's lock, and whatever a    *)
(* transaction has flushed or is about to append to, it has locked.        *)
THEOREM AlwaysLocking == Spec => []Locking
  BY AlwaysShape, LockingInit, LockingStep, PTL DEF Spec

----------------------------------------------------------------------------
(* Chains. *)

Linked == FreshHead /\ Chained

(* A record sealed against a chain's head extends the chain. *)
LEMMA ChainAppend ==
  ASSUME NEW R, NEW q \in Seq(R), Ledger!Chain(q),
         NEW t, NEW s, NEW hs
  PROVE  Ledger!Chain(Append(q, Seal(t, s, HeadOf(q), hs)))
<1> DEFINE e == Seal(t, s, HeadOf(q), hs)
           a == Append(q, e)
<1>1. /\ Len(q) \in Nat
      /\ Len(a) = Len(q) + 1
      /\ a[Len(q) + 1] = e
      /\ \A i \in 1 .. Len(q) : a[i] = q[i]
  OBVIOUS
<1>2. e.digest = Ledger!Digest(Ledger!Body(e))
  BY DEF Seal, Ledger!Body
<1>3. /\ e.seq = Len(q) + 1
      /\ e.prev = IF Len(q) + 1 = 1 THEN GENESIS ELSE q[Len(q)].digest
  <2>1. CASE q = <<>>
    <3>1. Len(q) = 0
      BY <2>1, EmptySeq
    <3> QED
      BY <2>1, <3>1 DEF Seal, HeadOf
  <2>2. CASE q # <<>>
    <3>1. Len(q) \in Nat \ {0}
      BY <2>2, EmptySeq
    <3>2. q[Len(q)].seq = Len(q)
      BY <3>1 DEF Ledger!Chain
    <3> QED
      BY <2>2, <3>1, <3>2 DEF Seal, HeadOf
  <2> QED
    BY <2>1, <2>2
<1> HIDE DEF e, a
<1>4. SUFFICES ASSUME NEW i \in 1 .. Len(a)
      PROVE  /\ a[i].seq = i
             /\ a[i].prev = IF i = 1 THEN Ledger!GENESIS ELSE a[i - 1].digest
             /\ a[i].digest = Ledger!Digest(Ledger!Body(a[i]))
  BY DEF Ledger!Chain, a, e
<1>5. CASE i \in 1 .. Len(q)
  <2>1. i = 1 \/ i - 1 \in 1 .. Len(q)
    BY <1>1, <1>5
  <2> QED
    BY <1>1, <1>5, <2>1 DEF Ledger!Chain
<1>6. CASE i = Len(q) + 1
  <2>1. i = 1 \/ (i - 1 = Len(q) /\ Len(q) \in 1 .. Len(q))
    BY <1>1, <1>6
  <2> QED
    BY <1>1, <1>2, <1>3, <1>6, <2>1 DEF GENESIS
<1> QED
  BY <1>1, <1>5, <1>6

(* What another transaction has locked, this one has not written to. *)
LEMMA OthersWriteElsewhere ==
  ASSUME Shape, Locking, NEW t \in Txns, NEW u \in Txns, t # u,
         NEW s \in AllStreams, s \in locks[u]
  PROVE  pending[t][s] = <<>> /\ Visible(t, s) = log[s]
<1> PICK R : RowsIn(R)
  BY DEF Shape, Stored
<1>1. pending[t][s] = <<>>
  BY DEF Locking, Exclusion, FlushedUnderLock
<1> QED
  BY <1>1, ConcatEmptySeq DEF RowsIn, Visible

LEMMA LinkedInit == Init => Linked
<1> SUFFICES ASSUME Init PROVE Linked
  OBVIOUS
<1>1. \A t \in Txns, s \in AllStreams : Visible(t, s) = <<>>
  BY EmptySeq, ConcatEmptySeq DEF Init, NoRows, Visible
<1>2. Ledger!Chain(<<>>)
  BY EmptySeq DEF Ledger!Chain
<1> QED
  BY <1>1, <1>2 DEF Init, NoRows, Linked, FreshHead, Chained

(* What an insert does to the stream as its transaction sees it. *)
LEMMA InsertAppends ==
  ASSUME Shape, FreshHead, NEW t \in Txns, Insert(t), NEW s, s = Head(plan[t])
  PROVE  /\ s \in AllStreams
         /\ log' = log
         /\ Visible(t, s)' = Append(Visible(t, s), Seal(t, s, HeadOf(Visible(t, s)), heads[t]))
         /\ \A u \in Txns, r \in AllStreams : u # t \/ r # s => Visible(u, r)' = Visible(u, r)
<1> PICK R : RowsIn(R)
  BY DEF Shape, Stored
<1> PICK e : e = Seal(t, s, HeadOf(Visible(t, s)), heads[t])
  OBVIOUS
<1>1. s \in AllStreams
  BY HeadAndTail DEF Insert, Shape, Waiting
<1>2. log' = log /\ pending' = [pending EXCEPT ![t][s] = Append(@, e)]
  BY DEF FreshHead, Insert
<1>3. pending'[t][s] = Append(pending[t][s], e)
  BY <1>1, <1>2 DEF RowsIn
<1>4. \A u \in Txns, r \in AllStreams :
         u # t \/ r # s => pending'[u][r] = pending[u][r]
  BY <1>1, <1>2 DEF RowsIn
<1>5. log[s] \o Append(pending[t][s], e) = Append(log[s] \o pending[t][s], e)
  <2>1. PICK S : S = R \union {e}
    OBVIOUS
  <2>2. PICK q \in Seq(S) : q = log[s]
    BY <1>1, <2>1, SeqMonotone DEF RowsIn
  <2>3. PICK r \in Seq(S) : r = pending[t][s]
    BY <1>1, <2>1, SeqMonotone DEF RowsIn
  <2>4. q \o Append(r, e) = Append(q \o r, e)
    BY <2>1, ConcatAppend
  <2> QED
    BY <2>2, <2>3, <2>4
<1> QED
  BY <1>1, <1>2, <1>3, <1>4, <1>5 DEF Visible

(* What the end of another transaction leaves of a stream that u sees: all *)
(* of it, if u has locked it or nothing is committed.                      *)
LEMMA CommitShows ==
  ASSUME Shape, Locking, NEW t \in Txns, Commit(t)
  PROVE  /\ \A s \in AllStreams : log'[s] = Visible(t, s) /\ Visible(t, s)' = log'[s]
         /\ \A u \in Txns \ {t}, s \in AllStreams :
               IF s \in locks[u] THEN log'[s] = log[s] /\ Visible(u, s)' = Visible(u, s)
               ELSE Visible(u, s)' = log'[s]
<1> PICK R : RowsIn(R)
  BY DEF Shape, Stored
<1>1. \A s \in AllStreams : log'[s] = Visible(t, s) /\ log'[s] \in Seq(R)
  BY ConcatFacts DEF Commit, Visible, RowsIn
<1>2. \A s \in AllStreams : pending'[t][s] = <<>>
  BY DEF Commit, End, RowsIn, NoRows
<1>3. \A u \in Txns \ {t} : pending'[u] = pending[u]
  BY DEF Commit, End, RowsIn
<1>4. \A s \in AllStreams : Visible(t, s)' = log'[s]
  BY <1>1, <1>2, ConcatEmptySeq DEF Visible
<1>5. ASSUME NEW u \in Txns \ {t}, NEW s \in AllStreams, s \in locks[u]
      PROVE  log'[s] = log[s] /\ Visible(u, s)' = Visible(u, s)
  BY <1>1, <1>3, <1>5, OthersWriteElsewhere DEF Visible
<1>6. ASSUME NEW u \in Txns \ {t}, NEW s \in AllStreams, s \notin locks[u]
      PROVE  Visible(u, s)' = log'[s]
  <2>1. pending'[u][s] = <<>>
    BY <1>3, <1>6 DEF Locking, FlushedUnderLock
  <2> QED
    BY <1>1, <2>1, ConcatEmptySeq DEF Visible
<1> QED
  BY <1>1, <1>4, <1>5, <1>6

LEMMA AbortShows ==
  ASSUME Shape, NEW t \in Txns, End(t), UNCHANGED log
  PROVE  /\ \A s \in AllStreams : Visible(t, s)' = log[s]
         /\ \A u \in Txns \ {t}, s \in AllStreams : Visible(u, s)' = Visible(u, s)
<1> PICK R : RowsIn(R)
  BY DEF Shape, Stored
<1>1. \A s \in AllStreams : Visible(t, s)' = log[s]
  BY ConcatEmptySeq DEF End, Visible, RowsIn, NoRows
<1> QED
  BY <1>1 DEF End, RowsIn, Visible

(* What a step makes of a stream as it is committed, and as u sees it.     *)
LoggedBy(s) ==
  \/ log'[s] = log[s]
  \/ \E t \in Txns : log'[s] = Visible(t, s)

SeenBy(u, s) ==
  \/ log'[s] = log[s] /\ Visible(u, s)' = Visible(u, s)
  \/ Visible(u, s)' = log'[s]
  \/ /\ log'[s] = log[s]
     /\ pc[u] = "insert"
     /\ Visible(u, s)' = Append(Visible(u, s), Seal(u, s, HeadOf(Visible(u, s)), heads[u]))

LEMMA StreamStep ==
  ASSUME Shape, Locking, FreshHead, [Next]_vars, NEW s \in AllStreams
  PROVE  LoggedBy(s) /\ \A u \in Txns : SeenBy(u, s)
<1>1. ASSUME UNCHANGED <<log, pending>> PROVE LoggedBy(s) /\ \A u \in Txns : SeenBy(u, s)
  BY <1>1 DEF LoggedBy, SeenBy, Visible
<1>2. ASSUME NEW t \in Txns, Insert(t) PROVE LoggedBy(s) /\ \A u \in Txns : SeenBy(u, s)
  <2> PICK r : r = Head(plan[t])
    OBVIOUS
  <2>1. log' = log /\ pc[t] = "insert"
    BY <1>2 DEF Insert
  <2>2. Visible(t, r)' = Append(Visible(t, r), Seal(t, r, HeadOf(Visible(t, r)), heads[t]))
    BY <1>2, InsertAppends
  <2>3. \A u \in Txns : u # t \/ s # r => Visible(u, s)' = Visible(u, s)
    BY <1>2, InsertAppends
  <2>4. \A u \in Txns : SeenBy(u, s)
    <3>1. ASSUME NEW u \in Txns, u # t \/ s # r PROVE SeenBy(u, s)
      BY <2>1, <2>3, <3>1 DEF SeenBy
    <3>2. s = r => SeenBy(t, s)
      BY <2>1, <2>2 DEF SeenBy
    <3> QED
      BY <3>1, <3>2
  <2> QED
    BY <2>1, <2>4 DEF LoggedBy
<1>3. ASSUME NEW t \in Txns, Commit(t) PROVE LoggedBy(s) /\ \A u \in Txns : SeenBy(u, s)
  BY <1>3, CommitShows DEF LoggedBy, SeenBy
<1>4. ASSUME NEW t \in Txns, End(t), UNCHANGED log
      PROVE  LoggedBy(s) /\ \A u \in Txns : SeenBy(u, s)
  BY <1>4, AbortShows DEF LoggedBy, SeenBy
<1> QED
  BY <1>1, <1>2, <1>3, <1>4
  DEF Next, Begin, Step, BeginAppend, BeginCheckpoint, ListStreams, ReadStreamHead,
      AppendCheckpoint, Lock, ReadHead, Rollback, DeadlockDetected, vars, dbVars

LEMMA FreshHeadStep ==
  ASSUME Shape, Locking, FreshHead, [Next]_vars
  PROVE  FreshHead'
<1>0. \A u \in Txns : pc[u] = "insert" => head[u] = HeadOf(Visible(u, Head(plan[u])))
  BY DEF FreshHead
<1>1. ASSUME UNCHANGED <<log, pending>>,
             \A u \in Txns : pc'[u] = "insert" => head'[u] = HeadOf(Visible(u, Head(plan'[u])))
      PROVE  FreshHead'
  BY <1>1 DEF FreshHead, Visible
<1>2. ASSUME NEW t \in Txns, BeginAppend(t) \/ BeginCheckpoint(t) PROVE FreshHead'
  BY <1>0, <1>1, <1>2 DEF BeginAppend, BeginCheckpoint, Shape, dbVars
<1>3. ASSUME NEW t \in Txns, ListStreams(t) \/ ReadStreamHead(t) \/ AppendCheckpoint(t)
      PROVE  FreshHead'
  BY <1>0, <1>1, <1>3 DEF ListStreams, ReadStreamHead, AppendCheckpoint, Shape, dbVars
<1>4. ASSUME NEW t \in Txns, Lock(t) PROVE FreshHead'
  BY <1>0, <1>1, <1>4 DEF Lock, Shape
<1>5. ASSUME NEW t \in Txns, ReadHead(t) PROVE FreshHead'
  BY <1>0, <1>1, <1>5 DEF ReadHead, Shape, dbVars
<1>6. ASSUME NEW u \in Txns, pc[u] = "insert"
      PROVE  Head(plan[u]) \in AllStreams /\ Head(plan[u]) \in locks[u]
  BY <1>6, HeadAndTail DEF Shape, Waiting, Locking, AppendUnderLock
<1>7. ASSUME NEW t \in Txns,
             pc'[t] # "insert",
             \A u \in Txns \ {t} : pc'[u] = pc[u] /\ plan'[u] = plan[u] /\ head'[u] = head[u],
             \A u \in Txns \ {t}, r \in AllStreams :
                r \in locks[u] => Visible(u, r)' = Visible(u, r)
      PROVE  FreshHead'
  <2> SUFFICES ASSUME NEW u \in Txns, pc'[u] = "insert"
               PROVE  head'[u] = HeadOf(Visible(u, Head(plan[u]))')
    BY <1>7 DEF FreshHead
  <2>1. u # t /\ pc[u] = "insert"
    BY <1>7
  <2> QED
    BY <1>0, <1>6, <1>7, <2>1
<1>8. ASSUME NEW t \in Txns, Insert(t) PROVE FreshHead'
  <2>1. pc'[t] # "insert" /\ \A u \in Txns \ {t} : pc'[u] = pc[u] /\ plan'[u] = plan[u]
    BY <1>8 DEF Insert, Shape
  <2>2. head' = head
    BY <1>8 DEF Insert
  <2>3. \A u \in Txns \ {t}, r \in AllStreams : Visible(u, r)' = Visible(u, r)
    BY <1>8, InsertAppends
  <2> QED
    BY <1>7, <2>1, <2>2, <2>3
<1>9. ASSUME NEW t \in Txns, End(t)
      PROVE  /\ pc'[t] # "insert"
             /\ \A u \in Txns \ {t} : pc'[u] = pc[u] /\ plan'[u] = plan[u] /\ head'[u] = head[u]
  BY <1>9 DEF End, Shape
<1>10. ASSUME NEW t \in Txns, Commit(t) PROVE FreshHead'
  BY <1>7, <1>9, <1>10, CommitShows DEF Commit
<1>11. ASSUME NEW t \in Txns, Rollback(t) \/ DeadlockDetected(t) PROVE FreshHead'
  <2>1. End(t) /\ UNCHANGED log
    BY <1>11 DEF Rollback, DeadlockDetected
  <2> QED
    BY <1>7, <1>9, <2>1, AbortShows
<1>12. ASSUME UNCHANGED vars PROVE FreshHead'
  BY <1>0, <1>1, <1>12 DEF vars
<1> QED
  BY <1>2, <1>3, <1>4, <1>5, <1>8, <1>10, <1>11, <1>12 DEF Next, Begin, Step

LEMMA ChainedStep ==
  ASSUME Shape, Locking, FreshHead, Chained, [Next]_vars
  PROVE  Chained'
<1> PICK R : RowsIn(R)
  BY DEF Shape, Stored
<1> SUFFICES ASSUME NEW s \in AllStreams
    PROVE  Ledger!Chain(log'[s]) /\ \A u \in Txns : Ledger!Chain(Visible(u, s)')
  BY DEF Chained
<1>1. LoggedBy(s) /\ \A u \in Txns : SeenBy(u, s)
  BY StreamStep
<1>2. Ledger!Chain(log[s]) /\ \A u \in Txns : Ledger!Chain(Visible(u, s))
  BY DEF Chained
<1>3. Ledger!Chain(log'[s])
  BY <1>1, <1>2 DEF LoggedBy
<1>4. ASSUME NEW u \in Txns PROVE Visible(u, s) \in Seq(R)
  BY ConcatFacts DEF RowsIn, Visible
<1>5. ASSUME NEW u \in Txns
      PROVE  Ledger!Chain(Append(Visible(u, s), Seal(u, s, HeadOf(Visible(u, s)), heads[u])))
  BY <1>2, <1>4, ChainAppend
<1> QED
  BY <1>1, <1>2, <1>3, <1>5 DEF SeenBy

LEMMA LinkedStep == Shape /\ Locking /\ Linked /\ [Next]_vars => Linked'
  BY FreshHeadStep, ChainedStep DEF Linked

(* The head a transaction is about to insert against is the head of the    *)
(* stream as it sees it, and every stream, with the rows of any one        *)
(* transaction after it, is one chain from the genesis record.             *)
THEOREM AlwaysLinked == Spec => []Linked
  BY AlwaysShape, AlwaysLocking, LinkedInit, LinkedStep, PTL DEF Spec

----------------------------------------------------------------------------
(* What the verifier and the primary key make of it. *)

LEMMA ChainVerifies ==
  ASSUME NEW R, NEW q \in Seq(R), Ledger!Chain(q)
  PROVE  verify_chain(q)
<1> SUFFICES ASSUME NEW i \in 1 .. Len(q)
    PROVE  /\ q[i].digest = Ledger!Digest(Ledger!Body(q[i]))
           /\ q[i].prev = IF i = 1 THEN GENESIS ELSE q[i - 1].digest
           /\ i > 1 => q[i].seq = q[i - 1].seq + 1
  BY DEF verify_chain
<1>1. /\ q[i].seq = i
      /\ q[i].prev = IF i = 1 THEN GENESIS ELSE q[i - 1].digest
      /\ q[i].digest = Ledger!Digest(Ledger!Body(q[i]))
  BY DEF Ledger!Chain, GENESIS
<1>2. i > 1 => i - 1 \in 1 .. Len(q)
  OBVIOUS
<1>3. i > 1 => q[i - 1].seq = i - 1
  BY <1>2 DEF Ledger!Chain
<1> QED
  BY <1>1, <1>3

(* Every committed stream passes verify_chain, alone and with the rows any *)
(* transaction has flushed after it.                                       *)
THEOREM StreamsVerify == Spec => []EveryStreamVerifies
<1>1. Shape /\ Linked => EveryStreamVerifies
  <2> SUFFICES ASSUME Shape, Linked PROVE EveryStreamVerifies
    OBVIOUS
  <2> PICK R : RowsIn(R)
    BY DEF Shape, Stored
  <2>1. ASSUME NEW s \in AllStreams PROVE verify_chain(log[s])
    BY ChainVerifies DEF Linked, Chained, RowsIn
  <2>2. ASSUME NEW s \in AllStreams, NEW t \in Txns
        PROVE  verify_chain(log[s] \o pending[t][s])
    <3>1. log[s] \o pending[t][s] \in Seq(R)
      BY ConcatFacts DEF RowsIn
    <3> QED
      BY <3>1, ChainVerifies DEF Linked, Chained, Visible
  <2> QED
    BY <2>1, <2>2 DEF EveryStreamVerifies
<1> QED
  BY <1>1, AlwaysShape, AlwaysLinked, PTL

(* A flushed row is numbered after the committed ones, so no two sessions  *)
(* can choose the same number for one stream.                              *)
LEMMA FlushedNumbers ==
  ASSUME Linked, NEW R, RowsIn(R), NEW t \in Txns, NEW s \in AllStreams,
         NEW i \in 1 .. Len(pending[t][s])
  PROVE  pending[t][s][i].seq = Len(log[s]) + i
<1>1. PICK q \in Seq(R) : q = log[s]
  BY DEF RowsIn
<1>2. PICK r \in Seq(R) : r = pending[t][s]
  BY DEF RowsIn
<1>3. Len(q) + i \in 1 .. Len(q \o r) /\ (q \o r)[Len(q) + i] = r[i]
  BY <1>2, ConcatFacts
<1>4. (q \o r)[Len(q) + i].seq = Len(q) + i
  BY <1>1, <1>2, <1>3 DEF Linked, Chained, Visible, Ledger!Chain
<1> QED
  BY <1>1, <1>2, <1>3, <1>4

(* The primary key (stream, seq) never rejects an append. *)
THEOREM KeysAreUnique == Spec => []PrimaryKeyNeverRejects
<1>1. Shape /\ Locking /\ Linked => PrimaryKeyNeverRejects
  <2> SUFFICES ASSUME Shape, Locking, Linked,
                      NEW t \in Txns, NEW s \in AllStreams,
                      NEW i \in 1 .. Len(pending[t][s])
      PROVE  /\ \A j \in 1 .. Len(log[s]) : log[s][j].seq # pending[t][s][i].seq
             /\ \A u \in Txns : \A j \in 1 .. Len(pending[u][s]) :
                   pending[u][s][j].seq = pending[t][s][i].seq => u = t /\ i = j
    BY DEF PrimaryKeyNeverRejects
  <2> PICK R : RowsIn(R)
    BY DEF Shape, Stored
  <2>1. log[s] \in Seq(R) /\ \A u \in Txns : pending[u][s] \in Seq(R)
    BY DEF RowsIn
  <2>2. pending[t][s][i].seq = Len(log[s]) + i
    BY FlushedNumbers
  <2>3. ASSUME NEW j \in 1 .. Len(log[s])
        PROVE  log[s][j].seq # pending[t][s][i].seq
    BY <2>1, <2>2 DEF Linked, Chained, Ledger!Chain
  <2>4. ASSUME NEW u \in Txns, NEW j \in 1 .. Len(pending[u][s]),
               pending[u][s][j].seq = pending[t][s][i].seq
        PROVE  u = t /\ i = j
    <3>1. pending[u][s] # <<>> /\ pending[t][s] # <<>>
      BY <2>1, EmptySeq
    <3>2. u = t
      BY <3>1 DEF Locking, Exclusion, FlushedUnderLock
    <3>3. pending[u][s][j].seq = Len(log[s]) + j
      BY FlushedNumbers
    <3> QED
      BY <2>1, <2>2, <2>4, <3>2, <3>3
  <2> QED
    BY <2>3, <2>4
<1> QED
  BY <1>1, AlwaysShape, AlwaysLocking, AlwaysLinked, PTL

----------------------------------------------------------------------------
(* Rows and the checkpoints' heads. *)

GoodHead(h) == h.stream \in Streams /\ h.seq \in Nat \ {0} /\ HeadHolds(h)

GoodRow(r, s) == IsRow(r, s) /\ \A h \in r.heads : GoodHead(h)

GoodRows(q, s) == \A i \in 1 .. Len(q) : GoodRow(q[i], s)

(* A head that a checkpoint has read, or recorded, holds; a stream that it *)
(* will read has records; only a transaction that has ended has left rows  *)
(* in the log.                                                             *)
Vouched ==
  /\ \A s \in AllStreams : GoodRows(log[s], s)
  /\ \A t \in Txns : \A s \in AllStreams : GoodRows(pending[t][s], s)
  /\ \A t \in Txns : \A h \in heads[t] : GoodHead(h)
  /\ \A t \in Txns : \A s \in todo[t] : log[s] # <<>>

Countable == \A t \in Txns : head[t].next_seq \in Nat \ {0}

Owned ==
  /\ \A s \in AllStreams : \A i \in 1 .. Len(log[s]) : pc[log[s][i].by] = "ended"
  /\ \A t \in Txns : \A s \in AllStreams : \A i \in 1 .. Len(pending[t][s]) :
        pending[t][s][i].by = t

Faithful == Vouched /\ Countable /\ Owned

(* The next number is positive, whatever the stream holds. *)
LEMMA HeadOfChain ==
  ASSUME NEW R, NEW q \in Seq(R), Ledger!Chain(q)
  PROVE  /\ HeadOf(q).next_seq = Len(q) + 1
         /\ q # <<>> => /\ Len(q) \in 1 .. Len(q)
                        /\ q[Len(q)].seq = Len(q)
                        /\ HeadOf(q).head_hash = q[Len(q)].digest
<1>1. CASE q = <<>>
  BY <1>1, EmptySeq DEF HeadOf
<1>2. CASE q # <<>>
  <2>1. Len(q) \in Nat \ {0}
    BY <1>2, EmptySeq
  <2>2. q[Len(q)].seq = Len(q)
    BY <2>1 DEF Ledger!Chain
  <2> QED
    BY <1>2, <2>1, <2>2 DEF HeadOf
<1> QED
  BY <1>1, <1>2

(* Streams only grow. *)
LogGrows ==
  \A s \in AllStreams :
     /\ Len(log[s]) \in Nat /\ Len(log'[s]) \in Nat
     /\ Len(log[s]) <= Len(log'[s])
     /\ \A i \in 1 .. Len(log[s]) : log'[s][i] = log[s][i]

LEMMA Grows ==
  ASSUME Shape, [Next]_vars
  PROVE  LogGrows
<1> PICK R : RowsIn(R)
  BY DEF Shape, Stored
<1>1. CASE UNCHANGED log
  BY <1>1 DEF LogGrows, RowsIn
<1>2. ASSUME NEW t \in Txns, Commit(t) PROVE LogGrows
  <2> SUFFICES ASSUME NEW s \in AllStreams
      PROVE  /\ Len(log[s]) \in Nat /\ Len(log'[s]) \in Nat
             /\ Len(log[s]) <= Len(log'[s])
             /\ \A i \in 1 .. Len(log[s]) : log'[s][i] = log[s][i]
    BY DEF LogGrows
  <2>1. PICK q \in Seq(R) : q = log[s]
    BY DEF RowsIn
  <2>2. PICK r \in Seq(R) : r = pending[t][s]
    BY DEF RowsIn
  <2>3. log'[s] = q \o r
    BY <1>2, <2>1, <2>2 DEF Commit
  <2> QED
    BY <2>1, <2>3, ConcatFacts
<1> QED
  BY <1>1, <1>2
  DEF Next, Begin, Step, BeginAppend, BeginCheckpoint, ListStreams, ReadStreamHead,
      AppendCheckpoint, Lock, ReadHead, Insert, Rollback, DeadlockDetected, vars, dbVars

LEMMA GoodHeadStable ==
  ASSUME LogGrows, NEW h, GoodHead(h)
  PROVE  GoodHead(h)'
<1>1. h.stream \in AllStreams
  BY StreamFacts DEF GoodHead
<1>2. PICK i \in 1 .. Len(log[h.stream]) :
         log[h.stream][i].seq = h.seq /\ log[h.stream][i].digest = h.head_hash
  BY DEF GoodHead, HeadHolds
<1>3. i \in 1 .. Len(log'[h.stream]) /\ log'[h.stream][i] = log[h.stream][i]
  BY <1>1, <1>2 DEF LogGrows
<1> QED
  BY <1>2, <1>3 DEF GoodHead, HeadHolds

LEMMA GoodRowStable ==
  ASSUME LogGrows, NEW r, NEW s, GoodRow(r, s)
  PROVE  GoodRow(r, s)'
  BY GoodHeadStable DEF GoodRow, IsRow

LEMMA FaithfulInit == Init => Faithful
<1> SUFFICES ASSUME Init PROVE Faithful
  OBVIOUS
<1> QED
  BY EmptySeq DEF Init, NoRows, Faithful, Vouched, Countable, Owned, GoodRows, HeadOf

(* Rows that were good stay good while nothing is written. *)
LEMMA VouchedSession ==
  ASSUME Vouched, UNCHANGED <<log, pending>>,
         \A t \in Txns : \A h \in heads'[t] : GoodHead(h),
         \A t \in Txns : \A s \in todo'[t] : log[s] # <<>>
  PROVE  Vouched'
  BY DEF Vouched, GoodRows, GoodRow, IsRow, GoodHead, HeadHolds

(* The head a checkpoint reads is that of a committed row: it holds no     *)
(* lock, hence has flushed nothing.                                        *)
LEMMA ReadsGoodHead ==
  ASSUME Shape, Locking, Linked, Faithful, NEW t \in Txns, pc[t] = "heads",
         NEW s \in todo[t]
  PROVE  GoodHead(HeadRead(t, s))
<1> PICK R : RowsIn(R)
  BY DEF Shape, Stored
<1>1. s \in Streams /\ s \in AllStreams
  BY StreamFacts DEF Shape
<1>2. Visible(t, s) = log[s]
  BY <1>1, ConcatEmptySeq DEF Locking, NoLockYet, FlushedUnderLock, Visible, RowsIn
<1>3. PICK q \in Seq(R) : q = log[s] /\ q # <<>> /\ Ledger!Chain(q)
  BY <1>1 DEF RowsIn, Faithful, Vouched, Linked, Chained
<1>4. PICK h : h = HeadRead(t, s)
  OBVIOUS
<1>5. h.stream = s /\ h.seq = Len(q) /\ h.head_hash = q[Len(q)].digest
  BY <1>2, <1>3, <1>4, HeadOfChain DEF HeadRead
<1>6. HeadHolds(h)
  BY <1>3, <1>5, HeadOfChain DEF HeadHolds
<1> QED
  BY <1>1, <1>3, <1>4, <1>5, <1>6, HeadOfChain DEF GoodHead

LEMMA VouchedInsert ==
  ASSUME Shape, Faithful, NEW t \in Txns, Insert(t)
  PROVE  Vouched'
<1> PICK R : RowsIn(R)
  BY DEF Shape, Stored
<1> PICK s : s = Head(plan[t])
  OBVIOUS
<1> PICK e : e = Seal(t, s, head[t], heads[t])
  OBVIOUS
<1>1. s \in AllStreams
  BY HeadAndTail DEF Insert, Shape, Waiting
<1>2. GoodRow(e, s)
  BY DEF Seal, GoodRow, IsRow, Faithful, Vouched, Countable, GoodHead
<1>3. /\ UNCHANGED <<log, heads, todo>>
      /\ pending' = [pending EXCEPT ![t][s] = Append(@, e)]
  BY DEF Insert
<1>4. \A r : \A u : GoodRow(r, u) => GoodRow(r, u)'
  BY <1>3 DEF GoodRow, IsRow, GoodHead, HeadHolds
<1>5. PICK p \in Seq(R) : p = pending[t][s]
  BY <1>1 DEF RowsIn
<1>6. pending'[t][s] = Append(p, e)
  BY <1>1, <1>3, <1>5 DEF RowsIn
<1>7. \A i \in 1 .. Len(Append(p, e)) : GoodRow(Append(p, e)[i], s)
  <2>1. Len(p) \in Nat /\ Len(Append(p, e)) = Len(p) + 1
    OBVIOUS
  <2>2. Append(p, e)[Len(p) + 1] = e /\ \A i \in 1 .. Len(p) : Append(p, e)[i] = p[i]
    OBVIOUS
  <2>3. \A i \in 1 .. Len(p) : GoodRow(p[i], s)
    BY <1>1, <1>5 DEF Faithful, Vouched, GoodRows
  <2> QED
    BY <1>2, <2>1, <2>2, <2>3
<1>8. ASSUME NEW u \in Txns, NEW r \in AllStreams
      PROVE  GoodRows(pending[u][r], r)'
  <2>1. CASE u = t /\ r = s
    BY <1>4, <1>6, <1>7, <2>1 DEF GoodRows
  <2>2. CASE u # t \/ r # s
    <3>1. pending'[u][r] = pending[u][r]
      BY <1>1, <1>3, <2>2 DEF RowsIn
    <3> QED
      BY <1>4, <3>1 DEF Faithful, Vouched, GoodRows
  <2> QED
    BY <2>1, <2>2
<1>9. \A r \in AllStreams : GoodRows(log[r], r)'
  BY <1>3, <1>4 DEF Faithful, Vouched, GoodRows
<1>10. \A u \in Txns : \A h \in heads'[u] : GoodHead(h)'
  BY <1>3 DEF Faithful, Vouched, GoodHead, HeadHolds
<1> QED
  BY <1>3, <1>8, <1>9, <1>10 DEF Faithful, Vouched

(* Ending a transaction: the rows of the log are good ones, old or its     *)
(* own.                                                                    *)
LEMMA VouchedEnd ==
  ASSUME Shape, Vouched, LogGrows, NEW t \in Txns, End(t),
         \A s \in AllStreams : \A i \in 1 .. Len(log'[s]) :
            \/ \E j \in 1 .. Len(log[s]) : log'[s][i] = log[s][j]
            \/ \E j \in 1 .. Len(pending[t][s]) : log'[s][i] = pending[t][s][j]
  PROVE  Vouched'
<1> PICK R : RowsIn(R)
  BY DEF Shape, Stored
<1>1. \A r : \A s : GoodRow(r, s) => GoodRow(r, s)'
  BY GoodRowStable
<1>2. \A s \in AllStreams : GoodRows(log[s], s)'
  BY <1>1 DEF Vouched, GoodRows
<1>3. ASSUME NEW u \in Txns, NEW s \in AllStreams
      PROVE  GoodRows(pending[u][s], s)'
  <2>1. pending'[u][s] = pending[u][s] \/ pending'[u][s] = <<>>
    BY DEF End, NoRows, RowsIn
  <2> QED
    BY <1>1, <2>1, EmptySeq DEF Vouched, GoodRows
<1>4. \A u \in Txns : \A h \in heads'[u] : GoodHead(h)'
  <2>1. \A u \in Txns : heads'[u] \subseteq heads[u]
    BY DEF End, Shape
  <2> QED
    BY <2>1, GoodHeadStable DEF Vouched
<1>5. \A u \in Txns : \A s \in todo'[u] : log'[s] # <<>>
  <2> SUFFICES ASSUME NEW u \in Txns, NEW s \in todo'[u] PROVE log'[s] # <<>>
    OBVIOUS
  <2>1. s \in todo[u] /\ s \in AllStreams
    BY StreamFacts DEF End, Shape
  <2>2. Len(log[s]) \in Nat \ {0}
    BY <2>1, EmptySeq DEF Vouched, RowsIn
  <2>3. Len(log'[s]) # 0
    BY <2>1, <2>2 DEF LogGrows
  <2> QED
    BY <2>3, EmptySeq
<1> QED
  BY <1>2, <1>3, <1>4, <1>5 DEF Vouched

LEMMA VouchedStep ==
  ASSUME Shape, Locking, Linked, Faithful, [Next]_vars
  PROVE  Vouched'
<1> PICK R : RowsIn(R)
  BY DEF Shape, Stored
<1>0. LogGrows
  BY Grows
<1> USE DEF Faithful
<1>1. ASSUME NEW t \in Txns, BeginAppend(t) \/ BeginCheckpoint(t) \/ AppendCheckpoint(t) \/ ReadHead(t)
      PROVE  Vouched'
  BY <1>1, VouchedSession
  DEF BeginAppend, BeginCheckpoint, AppendCheckpoint, ReadHead, Vouched, dbVars
<1>2. ASSUME NEW t \in Txns, ListStreams(t) PROVE Vouched'
  <2>1. \A s \in Streams : Visible(t, s) = log[s]
    BY <1>2, StreamFacts, ConcatEmptySeq
    DEF ListStreams, Locking, NoLockYet, FlushedUnderLock, Visible, RowsIn
  <2> QED
    BY <1>2, <2>1, VouchedSession DEF ListStreams, Vouched, Shape, dbVars
<1>3. ASSUME NEW t \in Txns, ReadStreamHead(t) PROVE Vouched'
  <2>1. PICK s \in todo[t] :
           /\ heads' = [heads EXCEPT ![t] = @ \union {HeadRead(t, s)}]
           /\ todo' = [todo EXCEPT ![t] = @ \ {s}]
    BY <1>3 DEF ReadStreamHead
  <2>2. GoodHead(HeadRead(t, s))
    BY <1>3, ReadsGoodHead DEF ReadStreamHead
  <2>3. \A u \in Txns : \A h \in heads'[u] : GoodHead(h)
    BY <2>1, <2>2 DEF Vouched, Shape
  <2>4. \A u \in Txns : \A r \in todo'[u] : log[r] # <<>>
    BY <2>1 DEF Vouched, Shape
  <2> QED
    BY <1>3, <2>3, <2>4, VouchedSession DEF ReadStreamHead, dbVars
<1>4. ASSUME NEW t \in Txns, Lock(t) PROVE Vouched'
  BY <1>4, VouchedSession DEF Lock, Vouched
<1>5. ASSUME NEW t \in Txns, Insert(t) PROVE Vouched'
  BY <1>5, VouchedInsert
<1>6. ASSUME NEW t \in Txns, Commit(t) PROVE Vouched'
  <2>1. ASSUME NEW s \in AllStreams, NEW i \in 1 .. Len(log'[s])
        PROVE  \/ \E j \in 1 .. Len(log[s]) : log'[s][i] = log[s][j]
               \/ \E j \in 1 .. Len(pending[t][s]) : log'[s][i] = pending[t][s][j]
    <3>1. PICK q \in Seq(R) : q = log[s]
      BY DEF RowsIn
    <3>2. PICK r \in Seq(R) : r = pending[t][s]
      BY DEF RowsIn
    <3>3. log'[s] = q \o r
      BY <1>6, <3>1, <3>2 DEF Commit
    <3>4. i \in 1 .. Len(q) \/ i - Len(q) \in 1 .. Len(r)
      BY <3>3, ConcatFacts
    <3>5. i \in 1 .. Len(q) => (q \o r)[i] = q[i]
      BY ConcatFacts
    <3>6. i - Len(q) \in 1 .. Len(r) => (q \o r)[i] = r[i - Len(q)]
      BY <3>3, ConcatFacts
    <3> QED
      BY <3>1, <3>2, <3>3, <3>4, <3>5, <3>6
  <2> QED
    BY <1>0, <1>6, <2>1, VouchedEnd DEF Commit
<1>7. ASSUME NEW t \in Txns, Rollback(t) \/ DeadlockDetected(t) PROVE Vouched'
  BY <1>0, <1>7, VouchedEnd DEF Rollback, DeadlockDetected
<1>8. CASE UNCHANGED vars
  BY <1>8, VouchedSession DEF vars, dbVars, Vouched
<1> QED
  BY <1>1, <1>2, <1>3, <1>4, <1>5, <1>6, <1>7, <1>8 DEF Next, Begin, Step

LEMMA CountableStep ==
  ASSUME Shape, Linked, Countable, [Next]_vars
  PROVE  Countable'
<1> PICK R : RowsIn(R)
  BY DEF Shape, Stored
<1>1. ASSUME NEW t \in Txns, ReadHead(t) PROVE Countable'
  <2> PICK s : s = Head(plan[t])
    OBVIOUS
  <2>1. s \in AllStreams
    BY <1>1, HeadAndTail DEF ReadHead, Shape, Waiting
  <2>2. PICK q \in Seq(R) : q = Visible(t, s)
    <3>1. Visible(t, s) \in Seq(R)
      BY <2>1, ConcatFacts DEF RowsIn, Visible
    <3> QED
      BY <3>1
  <2>3. HeadOf(q).next_seq \in Nat \ {0}
    <3>1. HeadOf(q).next_seq = Len(q) + 1
      BY <2>1, <2>2, HeadOfChain DEF Linked, Chained
    <3> QED
      BY <3>1
  <2> QED
    BY <1>1, <2>2, <2>3 DEF ReadHead, Countable, Shape
<1>2. ASSUME NEW t \in Txns, End(t) PROVE Countable'
  <2>1. HeadOf(<<>>).next_seq \in Nat \ {0}
    BY DEF HeadOf
  <2> QED
    BY <1>2, <2>1 DEF End, Countable, Shape
<1>3. CASE UNCHANGED head
  BY <1>3 DEF Countable
<1> QED
  BY <1>1, <1>2, <1>3
  DEF Next, Begin, Step, BeginAppend, BeginCheckpoint, ListStreams, ReadStreamHead,
      AppendCheckpoint, Lock, Insert, Commit, Rollback, DeadlockDetected, vars

(* A transaction that has ended stays ended. *)
LEMMA EndedStaysEnded ==
  ASSUME Shape, [Next]_vars, NEW t \in Txns, pc[t] = "ended"
  PROVE  pc'[t] = "ended"
  BY DEF Shape, Next, Begin, Step, BeginAppend, BeginCheckpoint, ListStreams,
         ReadStreamHead, AppendCheckpoint, Lock, ReadHead, Insert, Commit, Rollback,
         DeadlockDetected, End, vars

LEMMA OwnedStep ==
  ASSUME Shape, Vouched, Owned, [Next]_vars
  PROVE  Owned'
<1> PICK R : RowsIn(R)
  BY DEF Shape, Stored
<1>1. \A s \in AllStreams : \A i \in 1 .. Len(log[s]) :
         log[s][i].by \in Txns /\ pc'[log[s][i].by] = "ended"
  BY EndedStaysEnded DEF Vouched, GoodRows, GoodRow, IsRow, Owned
<1>2. ASSUME UNCHANGED <<log, pending>> PROVE Owned'
  BY <1>1, <1>2 DEF Owned
<1>3. ASSUME NEW t \in Txns, Insert(t) PROVE Owned'
  <2> PICK s : s = Head(plan[t])
    OBVIOUS
  <2> PICK e : e = Seal(t, s, head[t], heads[t])
    OBVIOUS
  <2>1. s \in AllStreams
    BY <1>3, HeadAndTail DEF Insert, Shape, Waiting
  <2>2. log' = log /\ pending' = [pending EXCEPT ![t][s] = Append(@, e)]
    BY <1>3 DEF Insert
  <2>3. PICK p \in Seq(R) : p = pending[t][s]
    BY <2>1 DEF RowsIn
  <2>4. pending'[t][s] = Append(p, e)
    BY <2>1, <2>2, <2>3 DEF RowsIn
  <2>5. \A i \in 1 .. Len(Append(p, e)) : Append(p, e)[i].by = t
    BY <2>1, <2>3 DEF Owned, Seal
  <2>6. \A u \in Txns : \A r \in AllStreams :
           u # t \/ r # s => pending'[u][r] = pending[u][r]
    BY <2>1, <2>2 DEF RowsIn
  <2>7. \A u \in Txns : \A r \in AllStreams : \A i \in 1 .. Len(pending'[u][r]) :
           pending'[u][r][i].by = u
    BY <2>4, <2>5, <2>6 DEF Owned
  <2> QED
    BY <1>1, <2>2, <2>7 DEF Owned
<1>4. ASSUME NEW t \in Txns, End(t)
      PROVE  \A u \in Txns : \A s \in AllStreams : \A i \in 1 .. Len(pending'[u][s]) :
                pending'[u][s][i].by = u
  <2>1. \A u \in Txns : \A s \in AllStreams :
           pending'[u][s] = pending[u][s] \/ pending'[u][s] = <<>>
    BY <1>4 DEF End, NoRows, RowsIn
  <2> QED
    BY <2>1, EmptySeq DEF Owned
<1>5. ASSUME NEW t \in Txns, Commit(t) PROVE Owned'
  <2>1. ASSUME NEW s \in AllStreams, NEW i \in 1 .. Len(log'[s])
        PROVE  pc'[log'[s][i].by] = "ended"
    <3>1. PICK q \in Seq(R) : q = log[s]
      BY DEF RowsIn
    <3>2. PICK r \in Seq(R) : r = pending[t][s]
      BY DEF RowsIn
    <3>3. log'[s] = q \o r
      BY <1>5, <3>1, <3>2 DEF Commit
    <3>4. CASE i \in 1 .. Len(q)
      BY <1>1, <3>1, <3>3, <3>4, ConcatFacts
    <3>5. CASE i \notin 1 .. Len(q)
      <4>1. i - Len(q) \in 1 .. Len(r) /\ log'[s][i] = r[i - Len(q)]
        BY <3>3, <3>5, ConcatFacts
      <4>2. log'[s][i].by = t
        BY <3>2, <4>1 DEF Owned
      <4> QED
        BY <1>5, <4>2 DEF Commit, End, Shape
    <3> QED
      BY <3>4, <3>5
  <2> QED
    BY <1>4, <1>5, <2>1 DEF Owned, Commit
<1>6. ASSUME NEW t \in Txns, Rollback(t) \/ DeadlockDetected(t) PROVE Owned'
  BY <1>1, <1>4, <1>6 DEF Owned, Rollback, DeadlockDetected
<1> QED
  BY <1>2, <1>3, <1>5, <1>6
  DEF Next, Begin, Step, BeginAppend, BeginCheckpoint, ListStreams, ReadStreamHead,
      AppendCheckpoint, Lock, ReadHead, vars, dbVars

(* Rows are what they are typed to be, and every head that a checkpoint    *)
(* has read or recorded holds.                                             *)
THEOREM AlwaysFaithful == Spec => []Faithful
<1>1. Shape /\ Locking /\ Linked /\ Faithful /\ [Next]_vars => Faithful'
  BY VouchedStep, CountableStep, OwnedStep DEF Faithful
<1> QED
  BY <1>1, FaithfulInit, AlwaysShape, AlwaysLocking, AlwaysLinked, PTL DEF Spec

(* Type correctness. *)
THEOREM TypeCorrect == Spec => []TypeOK
<1>1. Shape /\ Faithful => TypeOK
  <2> SUFFICES ASSUME Shape, Faithful PROVE TypeOK
    OBVIOUS
  <2> PICK R : RowsIn(R)
    BY DEF Shape, Stored
  <2>1. \A s \in AllStreams : AreRows(log[s], s)
    BY DEF Faithful, Vouched, GoodRows, GoodRow, AreRows
  <2>2. \A t \in Txns : \A s \in AllStreams : AreRows(pending[t][s], s)
    BY DEF Faithful, Vouched, GoodRows, GoodRow, AreRows
  <2> QED
    BY <2>1, <2>2 DEF TypeOK, Shape, Waiting, RowsIn, Faithful, Countable, Vouched, GoodHead
<1> QED
  BY <1>1, AlwaysShape, AlwaysFaithful, PTL

(* Every head a committed checkpoint recorded, read without a lock while   *)
(* others appended, holds of the stream as it is now.                      *)
THEOREM CheckpointsAlwaysHold == Spec => []CheckpointsHold
<1>1. Faithful => CheckpointsHold
  BY StreamFacts
  DEF Faithful, Vouched, GoodRows, GoodRow, GoodHead, CheckpointsHold, verify_against_checkpoint
<1> QED
  BY <1>1, AlwaysFaithful, PTL

----------------------------------------------------------------------------
(* AuditLog implements AuditLedger. *)

LEMMA CommitIsLedgerCommit ==
  ASSUME Shape, Faithful, Linked', LogGrows, NEW t \in Txns, Commit(t)
  PROVE  Ledger!Commit(t)
<1> PICK R : RowsIn(R)
  BY DEF Shape, Stored
<1>1. ASSUME NEW s \in AllStreams PROVE Ledger!WrittenBy(t, s) = {}
  BY DEF Ledger!WrittenBy, Faithful, Owned, Commit
<1>2. ASSUME NEW s \in AllStreams PROVE Ledger!Extends(log[s], log'[s])
  BY DEF LogGrows, Ledger!Extends
<1>3. ASSUME NEW s \in AllStreams PROVE Ledger!Chain(log'[s])
  BY DEF Linked, Chained
<1>4. ASSUME NEW s \in AllStreams, NEW i \in Len(log[s]) + 1 .. Len(log'[s])
      PROVE  log'[s][i].by = t
  <2>1. PICK q \in Seq(R) : q = log[s]
    BY DEF RowsIn
  <2>2. PICK r \in Seq(R) : r = pending[t][s]
    BY DEF RowsIn
  <2>3. log'[s] = q \o r
    BY <2>1, <2>2 DEF Commit
  <2>4. i - Len(q) \in 1 .. Len(r) /\ log'[s][i] = r[i - Len(q)]
    BY <2>1, <2>3, ConcatFacts
  <2> QED
    BY <2>2, <2>4 DEF Faithful, Owned
<1> QED
  BY <1>1, <1>2, <1>3, <1>4 DEF Ledger!Commit, AllStreams

(* The committed rows behave as the ledger its readers are promised:       *)
(* chains that only grow, each time by one transaction's records, all of   *)
(* them or none.                                                           *)
THEOREM LedgerImplemented == Spec => ImplementsLedger
<1>1. Init => Ledger!Init
  BY DEF Init, Ledger!Init, NoRows, AllStreams
<1>2. Shape /\ Faithful /\ Linked' /\ [Next]_vars => [Ledger!Next]_log
  <2> SUFFICES ASSUME Shape, Faithful, Linked', [Next]_vars, log' # log
               PROVE  Ledger!Next
    OBVIOUS
  <2>1. PICK t \in Txns : Commit(t)
    BY DEF Next, Begin, Step, BeginAppend, BeginCheckpoint, ListStreams, ReadStreamHead,
           AppendCheckpoint, Lock, ReadHead, Insert, Rollback, DeadlockDetected, vars, dbVars
  <2> QED
    BY <2>1, Grows, CommitIsLedgerCommit DEF Ledger!Next
<1> QED
  BY <1>1, <1>2, AlwaysShape, AlwaysFaithful, AlwaysLinked, PTL
  DEF Spec, ImplementsLedger, Ledger!Spec

(***************************************************************************)
(* Audits.                                                                 *)
(***************************************************************************)

----------------------------------------------------------------------------
(* The library's induction theorems take operators; here induction goes by *)
(* the least counterexample.                                               *)

LEMMA LeastOf ==
  ASSUME NEW T \in SUBSET Nat, T # {}
  PROVE  \E n \in T : \A m \in T : n <= m
<1>1. PICK n \in T : \A m \in T : ~ (<<m, n>> \in OpToRel(<, Nat))
  BY NatLessThanWellFounded, WFMin
<1>2. \A m \in T : ~ (m < n)
  BY <1>1 DEF OpToRel
<1> QED BY <1>2

(* What holds of 0, and of every number after one that it holds of. *)
LEMMA ReachesAll ==
  ASSUME NEW T \in SUBSET Nat, 0 \in T, \A n \in T : n + 1 \in T
  PROVE  T = Nat
<1> SUFFICES ASSUME Nat \ T # {} PROVE FALSE
  OBVIOUS
<1>1. PICK n \in Nat \ T : \A m \in Nat \ T : n <= m
  BY LeastOf
<1>2. n # 0 /\ n - 1 \in Nat /\ n - 1 < n
  BY <1>1
<1>3. (n - 1) + 1 \in T
  BY <1>1, <1>2
<1> QED
  BY <1>1, <1>3

----------------------------------------------------------------------------
(* A sequence without some of its places. *)

(* F holds what is left of the first i, for every i. *)
Keeps(F, q, S) ==
  /\ F[0] = <<>>
  /\ \A i \in 1 .. Len(q) : F[i] = IF i \in S THEN F[i - 1] ELSE Append(F[i - 1], q[i])

LEMMA WithoutIsLast ==
  ASSUME NEW R, NEW q \in Seq(R), NEW S, NEW F \in [0 .. Len(q) -> Seq(R)], Keeps(F, q, S)
  PROVE  Without(q, S) = F[Len(q)]
<1> DEFINE n == Len(q)
           Is(f) == f = [i \in 0 .. n |-> IF i = 0 THEN <<>>
                                          ELSE IF i \in S THEN f[i - 1] ELSE Append(f[i - 1], q[i])]
           kept == CHOOSE f : Is(f)
<1>0. n \in Nat
  OBVIOUS
<1>1. Without(q, S) = kept[n]
  BY DEF Without
<1>2. Is(F)
  <2>1. ASSUME NEW i \in 0 .. n
        PROVE  F[i] = IF i = 0 THEN <<>> ELSE IF i \in S THEN F[i - 1] ELSE Append(F[i - 1], q[i])
    <3>1. i = 0 \/ i \in 1 .. n
      BY <1>0
    <3> QED
      BY <3>1 DEF Keeps
  <2> QED
    BY <2>1
<1>3. Is(kept)
  <2> HIDE DEF Is
  <2> QED
    BY <1>2
<1> HIDE DEF kept
<1> DEFINE T == {i \in Nat : i <= n => kept[i] = F[i]}
<1>4. 0 \in T
  <2>1. kept[0] = <<>>
    BY <1>0, <1>3
  <2> QED
    BY <2>1 DEF Keeps
<1>5. ASSUME NEW i \in T PROVE i + 1 \in T
  <2> SUFFICES ASSUME i + 1 <= n PROVE kept[i + 1] = F[i + 1]
    OBVIOUS
  <2>1. i \in Nat /\ i + 1 \in 0 .. n /\ i + 1 \in 1 .. n /\ i + 1 # 0 /\ (i + 1) - 1 = i /\ i <= n
    BY <1>0
  <2>2. kept[i] = F[i]
    BY <2>1
  <2>3. kept[i + 1] = IF i + 1 \in S THEN kept[(i + 1) - 1] ELSE Append(kept[(i + 1) - 1], q[i + 1])
    BY <1>3, <2>1
  <2>4. F[i + 1] = IF i + 1 \in S THEN F[(i + 1) - 1] ELSE Append(F[(i + 1) - 1], q[i + 1])
    BY <2>1 DEF Keeps
  <2> QED
    BY <2>1, <2>2, <2>3, <2>4
<1>6. T = Nat
  <2>1. T \in SUBSET Nat
    OBVIOUS
  <2> HIDE DEF T
  <2> QED
    BY <1>4, <1>5, <2>1, ReachesAll
<1>7. n \in T
  <2> HIDE DEF T
  <2> QED
    BY <1>0, <1>6
<1> QED
  BY <1>1, <1>7

(* S has all places but those from a to b. *)
Outside(q, S, a, b) == \A i \in 1 .. Len(q) : i \in S <=> ~ (a <= i /\ i <= b)

LEMMA WithoutIsSlice ==
  ASSUME NEW R, NEW q \in Seq(R), NEW a \in Nat \ {0}, NEW b \in Nat, a <= b + 1, b <= Len(q),
         NEW S, Outside(q, S, a, b)
  PROVE  Without(q, S) = SubSeq(q, a, b)
<1> DEFINE upto(i) == IF i < a THEN a - 1 ELSE IF i <= b THEN i ELSE b
           F == [i \in 0 .. Len(q) |-> SubSeq(q, a, upto(i))]
<1>0. Len(q) \in Nat
  OBVIOUS
<1>1. ASSUME NEW i \in 0 .. Len(q)
      PROVE  upto(i) \in Int /\ a - 1 <= upto(i) /\ upto(i) <= b
  BY <1>0
<1>2. ASSUME NEW k \in Int, a - 1 <= k, k <= b PROVE SubSeq(q, a, k) \in Seq(R)
  BY <1>0, <1>2
<1>3. F \in [0 .. Len(q) -> Seq(R)]
  BY <1>1, <1>2
<1>4. SubSeq(q, a, a - 1) = <<>>
  BY <1>0
<1>5. ASSUME NEW i \in 1 .. Len(q), a <= i, i <= b
      PROVE  SubSeq(q, a, i) = Append(SubSeq(q, a, i - 1), q[i])
  BY <1>0, <1>5
<1>6. \A i \in 0 .. Len(q) : F[i] = SubSeq(q, a, upto(i))
  OBVIOUS
<1> HIDE DEF F
<1>7. F[0] = <<>>
  BY <1>0, <1>4, <1>6
<1>8. ASSUME NEW i \in 1 .. Len(q)
      PROVE  F[i] = IF i \in S THEN F[i - 1] ELSE Append(F[i - 1], q[i])
  <2>1. i \in Nat /\ i \in 0 .. Len(q) /\ i - 1 \in 0 .. Len(q)
    BY <1>0
  <2>2. F[i] = SubSeq(q, a, upto(i)) /\ F[i - 1] = SubSeq(q, a, upto(i - 1))
    BY <1>6, <2>1
  <2>3. CASE i < a
    <3>1. upto(i) = a - 1 /\ upto(i - 1) = a - 1 /\ i \in S
      BY <2>1, <2>3 DEF Outside
    <3> QED
      BY <2>2, <3>1
  <2>4. CASE a <= i /\ i <= b
    <3>1. upto(i) = i /\ upto(i - 1) = i - 1 /\ i \notin S
      BY <2>1, <2>4 DEF Outside
    <3> QED
      BY <1>5, <2>2, <2>4, <3>1
  <2>5. CASE a <= i /\ b < i
    <3>1. upto(i) = b /\ upto(i - 1) = b /\ i \in S
      BY <2>1, <2>5 DEF Outside
    <3> QED
      BY <2>2, <3>1
  <2> QED
    BY <2>1, <2>3, <2>4, <2>5
<1>9. Keeps(F, q, S)
  BY <1>7, <1>8 DEF Keeps
<1>10. F[Len(q)] = SubSeq(q, a, b)
  <2>1. upto(Len(q)) = b
    BY <1>0
  <2> QED
    BY <1>0, <1>6, <2>1
<1> QED
  BY <1>3, <1>9, <1>10, WithoutIsLast

----------------------------------------------------------------------------
(* Numbers that only rise. *)

Ascending(q) ==
  /\ \A i \in 1 .. Len(q) : q[i].seq \in Nat \ {0}
  /\ \A i, j \in 1 .. Len(q) : i < j => q[i].seq < q[j].seq

(* w is taken from the first n of q, in their order. *)
Thins(w, q, n) ==
  /\ \A k \in 1 .. Len(w) : \E i \in 1 .. n : w[k] = q[i]
  /\ Ascending(w)

LEMMA ThinsAppend ==
  ASSUME NEW R, NEW q \in Seq(R), Ascending(q), NEW n \in Nat, n + 1 <= Len(q),
         NEW w \in Seq(R), Thins(w, q, n)
  PROVE  /\ Append(w, q[n + 1]) \in Seq(R)
         /\ Thins(Append(w, q[n + 1]), q, n + 1)
         /\ Thins(w, q, n + 1)
<1> DEFINE v == Append(w, q[n + 1])
<1>0. Len(q) \in Nat /\ Len(w) \in Nat /\ n + 1 \in 1 .. Len(q)
  OBVIOUS
<1>1. /\ v \in Seq(R)
      /\ Len(v) = Len(w) + 1
      /\ v[Len(w) + 1] = q[n + 1]
      /\ \A k \in 1 .. Len(w) : v[k] = w[k]
  BY <1>0
<1> HIDE DEF v
<1>2. \A k \in 1 .. Len(w) : \E i \in 1 .. n + 1 : w[k] = q[i]
  BY DEF Thins
<1>3. \A k \in 1 .. Len(v) : k \in 1 .. Len(w) \/ k = Len(w) + 1
  BY <1>0, <1>1
<1>4. \A k \in 1 .. Len(v) : \E i \in 1 .. n + 1 : v[k] = q[i]
  BY <1>0, <1>1, <1>2, <1>3
<1>5. Ascending(v)
  <2>1. \A k \in 1 .. Len(v) : v[k].seq \in Nat \ {0}
    BY <1>0, <1>1, <1>3 DEF Thins, Ascending
  <2>2. ASSUME NEW k \in 1 .. Len(v), NEW l \in 1 .. Len(v), k < l
        PROVE  v[k].seq < v[l].seq
    <3>1. k \in 1 .. Len(w)
      BY <1>0, <1>1, <1>3, <2>2
    <3>2. CASE l \in 1 .. Len(w)
      BY <1>1, <2>2, <3>1, <3>2 DEF Thins, Ascending
    <3>3. CASE l = Len(w) + 1
      <4>1. PICK i \in 1 .. n : w[k] = q[i]
        BY <3>1 DEF Thins
      <4>2. i \in 1 .. Len(q) /\ i < n + 1
        BY <1>0
      <4>3. q[i].seq < q[n + 1].seq
        BY <1>0, <4>2 DEF Ascending
      <4> QED
        BY <1>1, <3>1, <3>3, <4>1, <4>3
    <3> QED
      BY <1>3, <3>2, <3>3
  <2> QED
    BY <2>1, <2>2 DEF Ascending
<1> QED
  BY <1>1, <1>2, <1>4, <1>5 DEF Thins, v

(* The first n of what Keeps asks for, with the order kept. *)
KeepsUpTo(F, q, S, n) ==
  /\ F[0] = <<>>
  /\ \A i \in 1 .. n : F[i] = IF i \in S THEN F[i - 1] ELSE Append(F[i - 1], q[i])
  /\ \A i \in 0 .. n : Thins(F[i], q, i)

LEMMA WithoutThins ==
  ASSUME NEW R, NEW q \in Seq(R), Ascending(q), NEW S
  PROVE  /\ Without(q, S) \in Seq(R)
         /\ Thins(Without(q, S), q, Len(q))
<1> DEFINE Good(n) == \E F \in [0 .. n -> Seq(R)] : KeepsUpTo(F, q, S, n)
           T == {n \in Nat : n <= Len(q) => Good(n)}
<1>0. Len(q) \in Nat
  OBVIOUS
<1>1. Good(0)
  <2> DEFINE F == [i \in 0 .. 0 |-> <<>>]
  <2>1. F \in [0 .. 0 -> Seq(R)] /\ F[0] = <<>> /\ \A i \in 0 .. 0 : F[i] = <<>>
    OBVIOUS
  <2> HIDE DEF F
  <2>2. Thins(<<>>, q, 0)
    BY DEF Thins, Ascending
  <2>3. KeepsUpTo(F, q, S, 0)
    <3>1. \A i \in 0 .. 0 : Thins(F[i], q, i)
      BY <2>1, <2>2
    <3> QED
      BY <2>1, <3>1 DEF KeepsUpTo
  <2> QED
    BY <2>1, <2>3
<1>2. ASSUME NEW n \in Nat, n + 1 <= Len(q), Good(n) PROVE Good(n + 1)
  <2>1. PICK F \in [0 .. n -> Seq(R)] : KeepsUpTo(F, q, S, n)
    BY <1>2
  <2> DEFINE last == IF n + 1 \in S THEN F[n] ELSE Append(F[n], q[n + 1])
             G == [i \in 0 .. n + 1 |-> IF i = n + 1 THEN last ELSE F[i]]
  <2>2. last \in Seq(R) /\ Thins(last, q, n + 1)
    <3>1. F[n] \in Seq(R) /\ Thins(F[n], q, n)
      BY <2>1 DEF KeepsUpTo
    <3>2. /\ Append(F[n], q[n + 1]) \in Seq(R)
          /\ Thins(Append(F[n], q[n + 1]), q, n + 1)
          /\ Thins(F[n], q, n + 1)
      BY <1>2, <3>1, ThinsAppend
    <3> QED
      BY <3>1, <3>2
  <2>3. last = IF n + 1 \in S THEN F[n] ELSE Append(F[n], q[n + 1])
    OBVIOUS
  <2> HIDE DEF last
  <2>4. G \in [0 .. n + 1 -> Seq(R)]
    BY <2>2
  <2>5. G[n + 1] = last /\ \A i \in 0 .. n : G[i] = F[i]
    OBVIOUS
  <2> HIDE DEF G
  <2>6. ASSUME NEW i \in 1 .. n + 1
        PROVE  G[i] = IF i \in S THEN G[i - 1] ELSE Append(G[i - 1], q[i])
    <3>1. CASE i = n + 1
      <4>1. i - 1 = n /\ n \in 0 .. n
        BY <3>1
      <4> QED
        BY <2>3, <2>5, <3>1, <4>1
    <3>2. CASE i # n + 1
      <4>1. i \in 1 .. n /\ i - 1 \in 0 .. n /\ i \in 0 .. n
        BY <3>2
      <4> QED
        BY <2>1, <2>5, <4>1 DEF KeepsUpTo
    <3> QED
      BY <3>1, <3>2
  <2>7. ASSUME NEW i \in 0 .. n + 1 PROVE Thins(G[i], q, i)
    <3>1. i = n + 1 \/ i \in 0 .. n
      OBVIOUS
    <3> QED
      BY <2>1, <2>2, <2>5, <3>1 DEF KeepsUpTo
  <2>8. G[0] = <<>>
    BY <2>1, <2>5 DEF KeepsUpTo
  <2>9. KeepsUpTo(G, q, S, n + 1)
    BY <2>6, <2>7, <2>8 DEF KeepsUpTo
  <2> QED
    BY <2>4, <2>9
<1> HIDE DEF Good
<1>3. T = Nat
  <2>1. 0 \in T
    BY <1>1
  <2>2. ASSUME NEW n \in T PROVE n + 1 \in T
    <3> SUFFICES ASSUME n + 1 <= Len(q) PROVE Good(n + 1)
      OBVIOUS
    <3>1. Good(n)
      BY <1>0
    <3> QED
      BY <1>2, <3>1
  <2>3. T \in SUBSET Nat
    OBVIOUS
  <2> HIDE DEF T
  <2> QED
    BY <2>1, <2>2, <2>3, ReachesAll
<1>4. Good(Len(q))
  <2>1. Len(q) \in T
    <3> HIDE DEF T
    <3> QED
      BY <1>0, <1>3
  <2> QED
    BY <1>0, <2>1
<1>5. PICK F \in [0 .. Len(q) -> Seq(R)] : KeepsUpTo(F, q, S, Len(q))
  BY <1>4 DEF Good
<1>6. Keeps(F, q, S)
  BY <1>5 DEF Keeps, KeepsUpTo
<1>7. Len(q) \in 0 .. Len(q) /\ F[Len(q)] \in Seq(R) /\ Thins(F[Len(q)], q, Len(q))
  BY <1>0, <1>5 DEF KeepsUpTo
<1> QED
  BY <1>6, <1>7, WithoutIsLast

(* Where the numbers of an ascending sequence pass k. *)
CutAt(q, k, n) == n \in 0 .. Len(q) /\ \A i \in 1 .. Len(q) : q[i].seq <= k <=> i <= n

LEMMA Cut ==
  ASSUME NEW R, NEW q \in Seq(R), Ascending(q), NEW k \in Nat
  PROVE  \E n \in 0 .. Len(q) : CutAt(q, k, n)
<1> DEFINE T == {i \in 1 .. Len(q) : k < q[i].seq}
<1>0. Len(q) \in Nat /\ \A i \in 1 .. Len(q) : q[i].seq \in Nat
  BY DEF Ascending
<1>1. CASE T = {}
  <2>1. \A i \in 1 .. Len(q) : q[i].seq <= k
    BY <1>0, <1>1
  <2>2. Len(q) \in 0 .. Len(q) /\ \A i \in 1 .. Len(q) : i <= Len(q)
    BY <1>0
  <2> QED
    BY <2>1, <2>2 DEF CutAt
<1>2. CASE T # {}
  <2>1. PICK n \in T : \A m \in T : n <= m
    <3>1. T \in SUBSET Nat
      OBVIOUS
    <3> HIDE DEF T
    <3> QED
      BY <1>2, <3>1, LeastOf
  <2>2. n \in 1 .. Len(q) /\ k < q[n].seq /\ n - 1 \in 0 .. Len(q)
    BY <1>0, <2>1
  <2>3. ASSUME NEW i \in 1 .. Len(q) PROVE q[i].seq <= k <=> i <= n - 1
    <3>1. CASE i < n
      <4>1. i \notin T
        BY <2>1, <2>2, <3>1
      <4> QED
        BY <1>0, <2>2, <3>1, <4>1
    <3>2. CASE i = n
      BY <1>0, <2>2, <3>2
    <3>3. CASE n < i
      <4>1. q[n].seq < q[i].seq
        BY <2>2, <3>3 DEF Ascending
      <4> QED
        BY <1>0, <2>2, <3>3, <4>1
    <3> QED
      BY <2>2, <3>1, <3>2, <3>3
  <2> QED
    BY <2>2, <2>3 DEF CutAt
<1> QED
  BY <1>1, <1>2

----------------------------------------------------------------------------
(* What the rows of a stream are, damaged or not.                          *)

OneHeadEach(hs) == \A g, h \in hs : g.stream = h.stream => g = h

(* A row as the application writes it, of stream s. *)
PlainRow(r, s) ==
  /\ r = [stream |-> s, seq |-> r.seq, by |-> r.by, heads |-> r.heads,
          prev |-> r.prev, digest |-> r.digest]
  /\ \A h \in r.heads : h.stream \in AllStreams
  /\ OneHeadEach(r.heads)

PlainRows(q, s) == \A i \in 1 .. Len(q) : PlainRow(q[i], s)

(* A transaction that had written nothing when the table was damaged. *)
Later(t) == \A s \in AllStreams : \A j \in 1 .. Len(before[s]) : before[s][j].by # t

(* The row of place i was sealed, after the damage if there is any, onto   *)
(* the row that is before it.                                              *)
SealedThere(q, i) ==
  /\ q[i].seq = IF i = 1 THEN 1 ELSE q[i - 1].seq + 1
  /\ q[i].prev = IF i = 1 THEN GENESIS ELSE q[i - 1].digest
  /\ q[i].digest = Ledger!Digest(Ledger!Body(q[i]))
  /\ Later(q[i].by)

(* A digest that was there before the damage. *)
Survivor(d) == \E s \in AllStreams : \E j \in 1 .. Len(before[s]) : d = before[s][j].digest

(* Nobody without the key makes a digest: a row is either sealed where it  *)
(* is or carries the digest of a row that was there before.                *)
Traced(q) == \A i \in 1 .. Len(q) : SealedThere(q, i) \/ Survivor(q[i].digest)

StreamRows(q, s) ==
  /\ PlainRows(q, s)
  /\ Ascending(q)
  /\ Traced(q)

FlushedAreSealed(t, s) ==
  \A i \in Len(log[s]) + 1 .. Len(Visible(t, s)) : SealedThere(Visible(t, s), i)

StreamsTraced ==
  \A s \in AllStreams :
     /\ StreamRows(log[s], s)
     /\ \A t \in Txns : StreamRows(Visible(t, s), s) /\ FlushedAreSealed(t, s)

HeadsReadOnce ==
  \A t \in Txns :
     /\ \A h \in heads[t] : h.stream \in AllStreams /\ h.stream \notin todo[t]
     /\ OneHeadEach(heads[t])
     /\ pc[t] \in {"idle", "list"} => heads[t] = {}

(* The table as it was before the damage: chains, and heads that hold.     *)
HeldBefore(h) ==
  /\ h.seq \in 1 .. Len(before[h.stream])
  /\ before[h.stream][h.seq].digest = h.head_hash

WasWhole ==
  /\ \E R : before \in [AllStreams -> Seq(R)]
  /\ \A s \in AllStreams :
        /\ Ledger!Chain(before[s])
        /\ PlainRows(before[s], s)
        /\ \A i \in 1 .. Len(before[s]) : \A h \in before[s][i].heads : HeldBefore(h)

WritersWereDone == \A t \in Txns : pc[t] # "ended" => Later(t)

WholeWhileUndamaged == ~damaged => Linked /\ Faithful

TableInv ==
  /\ Shape /\ Locking /\ FreshHead
  /\ StreamsTraced /\ HeadsReadOnce /\ WasWhole /\ WritersWereDone
  /\ WholeWhileUndamaged

----------------------------------------------------------------------------
(* What the audit has found out. *)

Sound(s) ==
  \A i \in 1 .. Len(log[s]) :
     /\ log[s][i].digest = Ledger!Digest(Ledger!Body(log[s][i]))
     /\ (\E j \in 1 .. Len(before[s]) : log[s][i] = before[s][j]) => SameUpTo(s, i)

(* A stream that has passed, or had no rows, is sound. *)
PassedAreSound ==
  apc # "idle" => \A s \in AllStreams : s \notin unverified /\ s \notin failing => Sound(s)

ObservedIsThere ==
  \A s \in DOMAIN observed :
     /\ s \in AllStreams
     /\ \/ observed[s].digest = <<>>
        \/ \E i \in 1 .. Len(log[s]) :
              observed[s] = [seq |-> log[s][i].seq, digest |-> log[s][i].digest]

Course ==
  /\ apc \in {"idle", "verify", "observe", "head", "done"}
  /\ apc = "idle" => observed = <<>> /\ failing = {}
  /\ apc \in {"idle", "verify"} => recorded = {}
  /\ apc \in {"observe", "head", "done"} => unverified = {}
  /\ unverified \subseteq AllStreams
  /\ unobserved \subseteq recorded
  /\ apc = "done" => unobserved = {}
  /\ \A h \in recorded : h.stream \in AllStreams

NothingWrongYet ==
  ~damaged =>
     /\ failing = {} /\ apc # "head"
     /\ OneHeadEach(recorded)
     /\ \A h \in recorded : GoodHead(h) /\ (h \notin unobserved => Matches(h))

AuditInv == Course /\ PassedAreSound /\ ObservedIsThere /\ NothingWrongYet

----------------------------------------------------------------------------
(* Digests and slices. *)

(* Two rows with the same keyed digest say the same. *)
LEMMA DigestSays ==
  ASSUME NEW r, NEW o, Ledger!Digest(Ledger!Body(r)) = Ledger!Digest(Ledger!Body(o))
  PROVE  r.stream = o.stream /\ r.seq = o.seq /\ r.by = o.by /\ r.heads = o.heads /\ r.prev = o.prev
  BY DEF Ledger!Digest, Ledger!Body

LEMMA DigestIsLink ==
  ASSUME NEW b
  PROVE  Ledger!Digest(b) # GENESIS /\ Ledger!Digest(b) # <<>>
<1>1. Len(<<"hmac", b>>) = 2 /\ Len(<<"genesis">>) = 1
  OBVIOUS
<1>2. <<"hmac", b>> # <<"genesis">>
  BY <1>1
<1>3. <<"hmac", b>> # <<>>
  OBVIOUS
<1> QED
  BY <1>2, <1>3 DEF Ledger!Digest, GENESIS, Ledger!GENESIS

(* A row that carries the digest of a row of before, and has a right to it, *)
(* is that row; the link before it tells which one was before that.        *)
LEMMA SurvivorIs ==
  ASSUME WasWhole, NEW r, r.digest = Ledger!Digest(Ledger!Body(r)), Survivor(r.digest)
  PROVE  \E j \in Nat \ {0} :
            /\ r.seq = j
            /\ \E s \in AllStreams : j \in 1 .. Len(before[s]) /\ before[s][j].by = r.by
            /\ j = 1 <=> r.prev = GENESIS
            /\ \A o : r.prev = Ledger!Digest(Ledger!Body(o)) => o.seq = j - 1
<1> PICK s \in AllStreams : \E j \in 1 .. Len(before[s]) : r.digest = before[s][j].digest
  BY DEF Survivor
<1>1. PICK j \in 1 .. Len(before[s]) : r.digest = before[s][j].digest
  OBVIOUS
<1>2. Ledger!Chain(before[s])
  BY DEF WasWhole
<1>0. j \in Nat \ {0}
  OBVIOUS
<1>3. /\ before[s][j].seq = j
      /\ before[s][j].digest = Ledger!Digest(Ledger!Body(before[s][j]))
      /\ before[s][j].prev = IF j = 1 THEN GENESIS ELSE before[s][j - 1].digest
  BY <1>2 DEF Ledger!Chain, GENESIS
<1>4. r.seq = before[s][j].seq /\ r.by = before[s][j].by /\ r.prev = before[s][j].prev
  <2> PICK o : o = before[s][j]
    OBVIOUS
  <2>1. Ledger!Digest(Ledger!Body(r)) = Ledger!Digest(Ledger!Body(o))
    BY <1>1, <1>3
  <2>2. r.seq = o.seq /\ r.by = o.by /\ r.prev = o.prev
    BY <2>1, DigestSays
  <2> QED
    BY <2>2
<1>5. CASE j = 1
  <2>1. r.prev = GENESIS
    BY <1>3, <1>4, <1>5
  <2>2. \A o : r.prev # Ledger!Digest(Ledger!Body(o))
    BY <2>1, DigestIsLink
  <2> QED
    BY <1>0, <1>3, <1>4, <1>5, <2>1, <2>2
<1>6. CASE j # 1
  <2>1. j - 1 \in 1 .. Len(before[s])
    BY <1>6
  <2>2. /\ before[s][j - 1].seq = j - 1
        /\ before[s][j - 1].digest = Ledger!Digest(Ledger!Body(before[s][j - 1]))
    BY <1>2, <2>1 DEF Ledger!Chain
  <2>3. r.prev = Ledger!Digest(Ledger!Body(before[s][j - 1]))
    BY <1>3, <1>4, <1>6, <2>2
  <2>4. r.prev # GENESIS
    BY <2>3, DigestIsLink
  <2>5. ASSUME NEW o, r.prev = Ledger!Digest(Ledger!Body(o)) PROVE o.seq = j - 1
    <3> PICK p : p = before[s][j - 1]
      OBVIOUS
    <3>1. Ledger!Digest(Ledger!Body(o)) = Ledger!Digest(Ledger!Body(p))
      BY <2>3, <2>5
    <3>2. o.seq = p.seq
      BY <3>1, DigestSays
    <3> QED
      BY <2>2, <3>2
  <2> QED
    BY <1>0, <1>3, <1>4, <1>6, <2>4, <2>5
<1> QED
  BY <1>5, <1>6

(* The rows of q from a to b, in terms of q. *)
IntactFrom(q, a, b, first) ==
  \A i \in a .. b :
     /\ q[i].digest = Ledger!Digest(Ledger!Body(q[i]))
     /\ q[i].prev = IF i = a THEN first ELSE q[i - 1].digest
     /\ i > a => q[i].seq = q[i - 1].seq + 1

LEMMA SliceIntact ==
  ASSUME NEW R, NEW q \in Seq(R), NEW a \in Nat \ {0}, NEW b \in Nat, a <= b + 1, b <= Len(q),
         NEW first
  PROVE  ChainIntact(SubSeq(q, a, b), first) <=> IntactFrom(q, a, b, first)
<1> PICK w : w = SubSeq(q, a, b)
  OBVIOUS
<1>0. Len(q) \in Nat
  OBVIOUS
<1>1. Len(w) = b - a + 1 /\ \A k \in 1 .. Len(w) : w[k] = q[a + k - 1]
  BY <1>0
<1>2. ASSUME ChainIntact(w, first) PROVE IntactFrom(q, a, b, first)
  <2> SUFFICES ASSUME NEW i \in a .. b
      PROVE  /\ q[i].digest = Ledger!Digest(Ledger!Body(q[i]))
             /\ q[i].prev = IF i = a THEN first ELSE q[i - 1].digest
             /\ i > a => q[i].seq = q[i - 1].seq + 1
    BY DEF IntactFrom
  <2> PICK k : k = i - a + 1
    OBVIOUS
  <2>1. k \in 1 .. Len(w) /\ a + k - 1 = i /\ w[k] = q[i] /\ (k = 1 <=> i = a) /\ (k > 1 <=> i > a)
    BY <1>1
  <2>2. k > 1 => k - 1 \in 1 .. Len(w) /\ w[k - 1] = q[i - 1]
    BY <1>1, <2>1
  <2>3. k = 1 \/ k > 1
    BY <2>1
  <2>4. /\ w[k].digest = Ledger!Digest(Ledger!Body(w[k]))
        /\ w[k].prev = IF k = 1 THEN first ELSE w[k - 1].digest
        /\ k > 1 => w[k].seq = w[k - 1].seq + 1
    BY <1>2, <2>1 DEF ChainIntact
  <2> QED
    BY <2>1, <2>2, <2>3, <2>4
<1>3. ASSUME IntactFrom(q, a, b, first) PROVE ChainIntact(w, first)
  <2> SUFFICES ASSUME NEW k \in 1 .. Len(w)
      PROVE  /\ w[k].digest = Ledger!Digest(Ledger!Body(w[k]))
             /\ w[k].prev = IF k = 1 THEN first ELSE w[k - 1].digest
             /\ k > 1 => w[k].seq = w[k - 1].seq + 1
    BY DEF ChainIntact
  <2> PICK i : i = a + k - 1
    OBVIOUS
  <2>1. i \in a .. b /\ w[k] = q[i] /\ (k = 1 <=> i = a) /\ (k > 1 <=> i > a)
    BY <1>1
  <2>2. k > 1 => k - 1 \in 1 .. Len(w) /\ w[k - 1] = q[i - 1]
    BY <1>1, <2>1
  <2>3. k = 1 \/ k > 1
    OBVIOUS
  <2> QED
    BY <1>3, <2>1, <2>2, <2>3 DEF IntactFrom
<1> QED
  BY <1>2, <1>3

(* What a scan of the numbers after k, up to end, returns. *)
LEMMA RowsAreSlice ==
  ASSUME NEW R, NEW s, log[s] \in Seq(R), Ascending(log[s]),
         NEW k \in Nat, NEW end \in Nat, NEW m \in Nat, NEW n \in Nat,
         CutAt(log[s], k, m), CutAt(log[s], end, n), m <= n
  PROVE  Rows(s, k + 1, end) = SubSeq(log[s], m + 1, n)
<1> DEFINE S == {i \in 1 .. Len(log[s]) : log[s][i].seq \notin k + 1 .. end}
<1> PICK q \in Seq(R) : q = log[s]
  OBVIOUS
<1>0. m \in 0 .. Len(q) /\ n \in 0 .. Len(q) /\ Len(q) \in Nat
  BY DEF CutAt
<1>1. Rows(s, k + 1, end) = Without(q, S)
  BY DEF Rows
<1>2. ASSUME NEW i \in 1 .. Len(q)
      PROVE  i \in S <=> ~ (m + 1 <= i /\ i <= n)
  <2>1. q[i].seq \in Nat
    BY DEF Ascending
  <2>2. (q[i].seq <= k <=> i <= m) /\ (q[i].seq <= end <=> i <= n)
    BY DEF CutAt
  <2> QED
    BY <1>0, <2>1, <2>2
<1>3. Outside(q, S, m + 1, n)
  BY <1>2 DEF Outside
<1>4. m + 1 \in Nat \ {0} /\ n \in Nat /\ m + 1 <= n + 1 /\ n <= Len(q)
  BY <1>0
<1> HIDE DEF S
<1> QED
  BY <1>1, <1>3, <1>4, WithoutIsSlice

LEMMA LastOf ==
  ASSUME NEW R, NEW s, NEW q \in Seq(R), q = log[s], Ascending(q)
  PROVE  /\ Last(s) \in Nat
         /\ \A i \in 1 .. Len(q) : q[i].seq <= Last(s)
         /\ Len(q) # 0 => Last(s) = q[Len(q)].seq
<1>0. Len(q) \in Nat
  OBVIOUS
<1>1. CASE Len(q) = 0
  <2>1. q = <<>>
    BY <1>1
  <2> QED
    BY <1>1, <2>1 DEF Last
<1>2. CASE Len(q) # 0
  <2>1. q # <<>> /\ Len(q) \in 1 .. Len(q)
    BY <1>0, <1>2
  <2>2. Last(s) = q[Len(q)].seq
    BY <2>1 DEF Last
  <2>3. ASSUME NEW i \in 1 .. Len(q) PROVE q[i].seq <= q[Len(q)].seq
    <3>1. i = Len(q) \/ i < Len(q)
      BY <1>0
    <3> QED
      BY <2>1, <3>1 DEF Ascending
  <2> QED
    BY <2>1, <2>2, <2>3 DEF Ascending
<1> QED
  BY <1>1, <1>2

(* Verifying a whole stream is what it seems. *)
LEMMA WholeStream ==
  ASSUME NEW R, NEW s, NEW q \in Seq(R), q = log[s], Ascending(q)
  PROVE  verify(s, 1, Last(s)) <=> IntactFrom(q, 1, Len(q), GENESIS)
<1>0. Len(q) \in Nat
  OBVIOUS
<1>1. Last(s) \in Nat /\ \A i \in 1 .. Len(q) : q[i].seq <= Last(s)
  BY LastOf
<1>2. CutAt(q, 0, 0)
  <2>1. \A i \in 1 .. Len(q) : ~ (q[i].seq <= 0) /\ ~ (i <= 0)
    BY DEF Ascending
  <2> QED
    BY <1>0, <2>1 DEF CutAt
<1>3. CutAt(q, Last(s), Len(q))
  BY <1>0, <1>1 DEF CutAt
<1>4. Rows(s, 0 + 1, Last(s)) = SubSeq(log[s], 0 + 1, Len(q))
  BY <1>0, <1>1, <1>2, <1>3, RowsAreSlice
<1>5. ChainIntact(SubSeq(q, 1, Len(q)), GENESIS) <=> IntactFrom(q, 1, Len(q), GENESIS)
  BY <1>0, SliceIntact
<1>6. verify(s, 1, Last(s)) <=> ChainIntact(Rows(s, 1, Last(s)), GENESIS)
  BY DEF verify, StartingLinks
<1>7. Rows(s, 1, Last(s)) = SubSeq(q, 1, Len(q))
  BY <1>4
<1> QED
  BY <1>5, <1>6, <1>7

----------------------------------------------------------------------------
(* Slices. *)

LEMMA StartsAtOne ==
  ASSUME WasWhole, NEW q, Traced(q), 1 \in 1 .. Len(q),
         q[1].digest = Ledger!Digest(Ledger!Body(q[1])), q[1].prev = GENESIS
  PROVE  q[1].seq = 1
<1>1. CASE SealedThere(q, 1)
  BY <1>1 DEF SealedThere
<1>2. CASE Survivor(q[1].digest)
  <2> PICK r : r = q[1]
    OBVIOUS
  <2>1. r.digest = Ledger!Digest(Ledger!Body(r)) /\ Survivor(r.digest) /\ r.prev = GENESIS
    BY <1>2
  <2>2. r.seq = 1
    BY <2>1, SurvivorIs
  <2> QED
    BY <2>2
<1> QED
  BY <1>1, <1>2 DEF Traced

LEMMA FollowsOn ==
  ASSUME WasWhole, NEW q, Traced(q), NEW i \in Nat, i \in 1 .. Len(q), i # 1,
         q[i].digest = Ledger!Digest(Ledger!Body(q[i])),
         q[i].prev = q[i - 1].digest,
         q[i - 1].digest = Ledger!Digest(Ledger!Body(q[i - 1]))
  PROVE  q[i].seq = q[i - 1].seq + 1
<1>1. CASE SealedThere(q, i)
  BY <1>1 DEF SealedThere
<1>2. CASE Survivor(q[i].digest)
  <2> PICK r : r = q[i]
    OBVIOUS
  <2> PICK o : o = q[i - 1]
    OBVIOUS
  <2>1. /\ r.digest = Ledger!Digest(Ledger!Body(r)) /\ Survivor(r.digest)
        /\ r.prev = Ledger!Digest(Ledger!Body(o))
    BY <1>2
  <2>2. PICK j \in Nat \ {0} :
           r.seq = j /\ \A p : r.prev = Ledger!Digest(Ledger!Body(p)) => p.seq = j - 1
    BY <2>1, SurvivorIs
  <2>3. o.seq = j - 1
    BY <2>1, <2>2
  <2> QED
    BY <2>2, <2>3
<1> QED
  BY <1>1, <1>2 DEF Traced

(* The two slices of q cut after n, the second linked to the first. *)
SlicesIntact(q, n) ==
  /\ IntactFrom(q, 1, n, GENESIS)
  /\ n # 0 /\ IntactFrom(q, n + 1, Len(q), q[n].digest)

LEMMA SlicesMakeWhole ==
  ASSUME WasWhole, NEW R, NEW q \in Seq(R), Traced(q), NEW n \in Nat, n <= Len(q),
         SlicesIntact(q, n)
  PROVE  IntactFrom(q, 1, Len(q), GENESIS)
<1>0. Len(q) \in Nat
  OBVIOUS
<1> SUFFICES ASSUME NEW i \in 1 .. Len(q)
    PROVE  /\ q[i].digest = Ledger!Digest(Ledger!Body(q[i]))
           /\ q[i].prev = IF i = 1 THEN GENESIS ELSE q[i - 1].digest
           /\ i > 1 => q[i].seq = q[i - 1].seq + 1
  BY DEF IntactFrom
<1>1. CASE i <= n
  <2>1. i \in 1 .. n
    BY <1>0, <1>1
  <2> QED
    BY <2>1 DEF SlicesIntact, IntactFrom
<1>2. CASE i > n + 1
  <2>1. i \in n + 1 .. Len(q) /\ i # n + 1 /\ i # 1
    BY <1>0, <1>2
  <2> QED
    BY <1>2, <2>1 DEF SlicesIntact, IntactFrom
<1>3. CASE i = n + 1
  <2>1. i \in n + 1 .. Len(q) /\ n \in 1 .. n /\ i # 1 /\ i - 1 = n /\ i \in Nat
    BY <1>0, <1>3 DEF SlicesIntact
  <2>2. q[i].digest = Ledger!Digest(Ledger!Body(q[i])) /\ q[i].prev = q[n].digest
    BY <1>3, <2>1 DEF SlicesIntact, IntactFrom
  <2>3. q[n].digest = Ledger!Digest(Ledger!Body(q[n]))
    BY <2>1 DEF SlicesIntact, IntactFrom
  <2>4. q[i].seq = q[i - 1].seq + 1
    BY <2>1, <2>2, <2>3, FollowsOn
  <2> QED
    BY <2>1, <2>2, <2>4
<1> QED
  BY <1>0, <1>1, <1>2, <1>3

LEMMA WholeMakesSlices ==
  ASSUME NEW R, NEW q \in Seq(R), NEW n \in Nat, n # 0, n <= Len(q),
         IntactFrom(q, 1, Len(q), GENESIS)
  PROVE  SlicesIntact(q, n)
<1>0. Len(q) \in Nat
  OBVIOUS
<1>1. ASSUME NEW i \in 1 .. Len(q)
      PROVE  /\ q[i].digest = Ledger!Digest(Ledger!Body(q[i]))
             /\ q[i].prev = IF i = 1 THEN GENESIS ELSE q[i - 1].digest
             /\ i > 1 => q[i].seq = q[i - 1].seq + 1
  BY DEF IntactFrom
<1>2. IntactFrom(q, 1, n, GENESIS)
  <2>1. \A i \in 1 .. n : i \in 1 .. Len(q)
    BY <1>0
  <2> QED
    BY <1>1, <2>1 DEF IntactFrom
<1>3. IntactFrom(q, n + 1, Len(q), q[n].digest)
  <2>1. \A i \in n + 1 .. Len(q) : i \in 1 .. Len(q) /\ i > 1 /\ i # 1 /\ (i = n + 1 => i - 1 = n)
    BY <1>0
  <2> QED
    BY <1>1, <2>1 DEF IntactFrom
<1> QED
  BY <1>2, <1>3 DEF SlicesIntact

(* Where the numbers k and k + 1 are in a stream that passes, or in two    *)
(* slices that do: the cut is right after number k.                        *)
LEMMA NumberIsThere ==
  ASSUME WasWhole, NEW R, NEW q \in Seq(R), Ascending(q), Traced(q),
         IntactFrom(q, 1, Len(q), GENESIS),
         NEW k \in Nat \ {0}, NEW n \in Nat, CutAt(q, k, n), Len(q) # 0, k <= q[Len(q)].seq
  PROVE  n # 0 /\ n <= Len(q) /\ q[n].seq = k
<1>0. Len(q) \in Nat /\ 1 \in 1 .. Len(q) /\ Len(q) \in 1 .. Len(q) /\ n <= Len(q)
  BY DEF CutAt
<1>1. q[1].digest = Ledger!Digest(Ledger!Body(q[1])) /\ q[1].prev = GENESIS
  BY <1>0 DEF IntactFrom
<1>2. q[1].seq = 1
  BY <1>0, <1>1, StartsAtOne
<1>3. 1 <= n
  BY <1>0, <1>2 DEF CutAt
<1>4. n \in 1 .. Len(q) /\ q[n].seq <= k /\ q[n].seq \in Nat
  BY <1>0, <1>3 DEF CutAt, Ascending
<1>5. CASE n = Len(q)
  BY <1>4, <1>5
<1>6. CASE n < Len(q)
  <2>1. n + 1 \in 1 .. Len(q) /\ ~ (n + 1 <= n) /\ n + 1 > 1 /\ (n + 1) - 1 = n
    BY <1>0, <1>4, <1>6
  <2>2. ~ (q[n + 1].seq <= k) /\ q[n + 1].seq \in Nat
    BY <2>1 DEF CutAt, Ascending
  <2>3. q[n + 1].seq = q[n].seq + 1
    BY <2>1 DEF IntactFrom
  <2> QED
    BY <1>0, <1>4, <2>2, <2>3
<1> QED
  BY <1>0, <1>3, <1>5, <1>6

LEMMA NumberIsLast ==
  ASSUME NEW R, NEW q \in Seq(R), Ascending(q), NEW k \in Nat, NEW n \in Nat, CutAt(q, k, n),
         NEW i \in 1 .. Len(q), q[i].seq = k
  PROVE  i = n
<1>0. Len(q) \in Nat /\ n <= Len(q) /\ i <= n /\ i \in Nat
  BY DEF CutAt
<1>1. CASE i < n
  <2>1. n \in 1 .. Len(q)
    BY <1>0, <1>1
  <2>2. q[i].seq < q[n].seq /\ q[n].seq <= k /\ q[n].seq \in Nat
    BY <1>0, <1>1, <2>1 DEF Ascending, CutAt
  <2> QED
    BY <2>2
<1> QED
  BY <1>0, <1>1

LEMMA SlicesSayTheSame ==
  ASSUME WasWhole, NEW R, NEW s, log[s] \in Seq(R), Ascending(log[s]), Traced(log[s]),
         NEW k \in 1 .. Last(s)
  PROVE  verify(s, 1, Last(s)) <=> verify(s, 1, k) /\ verify(s, k + 1, Last(s))
<1> PICK q \in Seq(R) : q = log[s]
  OBVIOUS
<1>0. Len(q) \in Nat
  OBVIOUS
<1>1. /\ Last(s) \in Nat
      /\ \A i \in 1 .. Len(q) : q[i].seq <= Last(s)
      /\ Len(q) # 0 => Last(s) = q[Len(q)].seq
  BY LastOf
<1>2. k \in Nat \ {0} /\ k <= Last(s) /\ k + 1 # 1 /\ (k + 1) - 1 = k
  BY <1>1
<1>3. Len(q) # 0
  <2>1. q = <<>> => Last(s) = 0
    BY DEF Last
  <2> QED
    BY <1>2, <2>1
<1>4. PICK n \in Nat : CutAt(q, k, n)
  <2>1. \E n \in 0 .. Len(q) : CutAt(q, k, n)
    BY <1>2, Cut
  <2> QED
    BY <2>1
<1>5. CutAt(log[s], 0, 0) /\ CutAt(log[s], Last(s), Len(q)) /\ n <= Len(q)
  <2>1. \A i \in 1 .. Len(q) : ~ (q[i].seq <= 0) /\ ~ (i <= 0)
    BY DEF Ascending
  <2> QED
    BY <1>0, <1>1, <1>4, <2>1 DEF CutAt
<1>6. Rows(s, 1, k) = SubSeq(q, 1, n)
  <2>1. Rows(s, 0 + 1, k) = SubSeq(log[s], 0 + 1, n)
    BY <1>0, <1>2, <1>4, <1>5, RowsAreSlice
  <2> QED
    BY <2>1
<1>7. Rows(s, k + 1, Last(s)) = SubSeq(q, n + 1, Len(q))
  <2> PICK c \in Nat : c = k
    BY <1>2
  <2> PICK e \in Nat : e = Last(s)
    BY <1>1
  <2> PICK l \in Nat : l = Len(q)
    BY <1>0
  <2>1. CutAt(log[s], c, n) /\ CutAt(log[s], e, l) /\ n <= l
    BY <1>4, <1>5
  <2>2. Rows(s, c + 1, e) = SubSeq(log[s], n + 1, l)
    BY <2>1, RowsAreSlice
  <2> QED
    BY <2>2
<1>8. verify(s, 1, k) <=> IntactFrom(q, 1, n, GENESIS)
  <2>1. verify(s, 1, k) <=> ChainIntact(Rows(s, 1, k), GENESIS)
    BY DEF verify, StartingLinks
  <2>2. ChainIntact(SubSeq(q, 1, n), GENESIS) <=> IntactFrom(q, 1, n, GENESIS)
    BY <1>0, <1>5, SliceIntact
  <2> QED
    BY <1>6, <2>1, <2>2
<1>9. ASSUME NEW first
      PROVE  ChainIntact(Rows(s, k + 1, Last(s)), first) <=> IntactFrom(q, n + 1, Len(q), first)
  <2>1. n + 1 \in Nat \ {0} /\ Len(q) \in Nat /\ n + 1 <= Len(q) + 1 /\ Len(q) <= Len(q)
    BY <1>0, <1>5
  <2>2. ChainIntact(SubSeq(q, n + 1, Len(q)), first) <=> IntactFrom(q, n + 1, Len(q), first)
    BY <2>1, SliceIntact
  <2> QED
    BY <1>7, <2>2
<1>10. StartingLinks(s, k + 1) = {q[i].digest : i \in {j \in 1 .. Len(q) : q[j].seq = k}}
  BY <1>2 DEF StartingLinks, Numbered
<1>11. ASSUME verify(s, 1, Last(s)) PROVE verify(s, 1, k) /\ verify(s, k + 1, Last(s))
  <2>1. IntactFrom(q, 1, Len(q), GENESIS)
    BY <1>11, WholeStream
  <2>2. n # 0 /\ q[n].seq = k
    BY <1>1, <1>2, <1>3, <1>4, <2>1, NumberIsThere
  <2>3. SlicesIntact(q, n)
    BY <1>5, <2>1, <2>2, WholeMakesSlices
  <2>4. n \in 1 .. Len(q)
    BY <1>0, <1>5, <2>2
  <2>5. q[n].digest \in StartingLinks(s, k + 1)
    BY <1>10, <2>2, <2>4
  <2> QED
    BY <1>8, <1>9, <2>3, <2>5 DEF SlicesIntact, verify
<1>12. ASSUME verify(s, 1, k), verify(s, k + 1, Last(s)) PROVE verify(s, 1, Last(s))
  <2>1. PICK i \in 1 .. Len(q) : q[i].seq = k /\ IntactFrom(q, n + 1, Len(q), q[i].digest)
    BY <1>9, <1>10, <1>12 DEF verify
  <2>2. i = n
    BY <1>2, <1>4, <2>1, NumberIsLast
  <2>3. SlicesIntact(q, n)
    BY <1>8, <1>12, <2>1, <2>2 DEF SlicesIntact
  <2>4. IntactFrom(q, 1, Len(q), GENESIS)
    BY <1>5, <2>3, SlicesMakeWhole
  <2> QED
    BY <2>4, WholeStream
<1> QED
  BY <1>11, <1>12

----------------------------------------------------------------------------
(* A stream that passes holds what it held. *)

LEMMA SameRow ==
  ASSUME NEW s, NEW r, PlainRow(r, s), NEW o, PlainRow(o, s), r.digest = o.digest,
         Ledger!Digest(Ledger!Body(r)) = Ledger!Digest(Ledger!Body(o))
  PROVE  r = o
<1>1. r.seq = o.seq /\ r.by = o.by /\ r.heads = o.heads /\ r.prev = o.prev
  BY DigestSays
<1> QED
  BY <1>1 DEF PlainRow

(* The numbers of a stream that passes are its places. *)
LEMMA Counted ==
  ASSUME WasWhole, NEW R, NEW q \in Seq(R), Traced(q), IntactFrom(q, 1, Len(q), GENESIS)
  PROVE  \A i \in 1 .. Len(q) : q[i].seq = i
<1> DEFINE T == {n \in Nat : n + 1 <= Len(q) => q[n + 1].seq = n + 1}
<1>0. Len(q) \in Nat
  OBVIOUS
<1>1. 0 \in T
  <2> SUFFICES ASSUME 1 <= Len(q) PROVE q[1].seq = 1
    OBVIOUS
  <2>1. 1 \in 1 .. Len(q)
    BY <1>0
  <2>2. q[1].digest = Ledger!Digest(Ledger!Body(q[1])) /\ q[1].prev = GENESIS
    BY <2>1 DEF IntactFrom
  <2> QED
    BY <2>1, <2>2, StartsAtOne
<1>2. ASSUME NEW n \in T PROVE n + 1 \in T
  <2> SUFFICES ASSUME (n + 1) + 1 <= Len(q) PROVE q[(n + 1) + 1].seq = (n + 1) + 1
    OBVIOUS
  <2>1. n \in Nat /\ n + 1 <= Len(q)
    BY <1>0
  <2>2. q[n + 1].seq = n + 1
    BY <2>1
  <2>3. /\ (n + 1) + 1 \in 1 .. Len(q)
        /\ (n + 1) + 1 > 1
        /\ ((n + 1) + 1) - 1 = n + 1
    BY <1>0, <2>1
  <2> QED
    BY <2>1, <2>2, <2>3 DEF IntactFrom
<1>3. T = Nat
  <2>1. T \in SUBSET Nat
    OBVIOUS
  <2> HIDE DEF T
  <2> QED
    BY <1>1, <1>2, <2>1, ReachesAll
<1>4. ASSUME NEW i \in 1 .. Len(q) PROVE q[i].seq = i
  <2>1. i - 1 \in Nat /\ (i - 1) + 1 = i /\ i <= Len(q)
    BY <1>0
  <2>2. i - 1 \in T
    <3> HIDE DEF T
    <3> QED
      BY <1>3, <2>1
  <2> QED
    BY <2>1, <2>2
<1> QED
  BY <1>4

(* One row that was there vouches for all before it, link by link.         *)
LEMMA RowVouches ==
  ASSUME NEW R, NEW q \in Seq(R), NEW Q, NEW b \in Seq(Q), NEW s,
         PlainRows(q, s), PlainRows(b, s),
         IntactFrom(q, 1, Len(q), GENESIS), Ledger!Chain(b),
         NEW n \in Nat, n \in 1 .. Len(q), n \in 1 .. Len(b), q[n] = b[n]
  PROVE  \A i \in 1 .. n : q[i] = b[i]
<1> DEFINE T == {m \in Nat : m < n => q[n - m] = b[n - m]}
<1>0. Len(q) \in Nat /\ Len(b) \in Nat
  OBVIOUS
<1>1. 0 \in T
  OBVIOUS
<1>2. ASSUME NEW m \in T PROVE m + 1 \in T
  <2> SUFFICES ASSUME m + 1 < n PROVE q[n - (m + 1)] = b[n - (m + 1)]
    OBVIOUS
  <2> PICK i \in Nat : i = n - m
    BY <1>0
  <2>1. /\ m \in Nat /\ m < n
        /\ i \in 1 .. Len(q) /\ i \in 1 .. Len(b) /\ i # 1 /\ i > 1 /\ i - 1 = n - (m + 1)
        /\ i - 1 \in 1 .. Len(q) /\ i - 1 \in 1 .. Len(b)
    BY <1>0
  <2>2. q[i] = b[i]
    BY <2>1
  <2>3. q[i].prev = q[i - 1].digest /\ b[i].prev = b[i - 1].digest
    BY <2>1 DEF IntactFrom, Ledger!Chain
  <2>4. /\ q[i - 1].digest = Ledger!Digest(Ledger!Body(q[i - 1]))
        /\ b[i - 1].digest = Ledger!Digest(Ledger!Body(b[i - 1]))
    BY <2>1 DEF IntactFrom, Ledger!Chain
  <2> PICK r : r = q[i - 1]
    OBVIOUS
  <2> PICK o : o = b[i - 1]
    OBVIOUS
  <2>5. PlainRow(r, s) /\ PlainRow(o, s)
    BY <2>1 DEF PlainRows
  <2>6. r.digest = o.digest /\ Ledger!Digest(Ledger!Body(r)) = Ledger!Digest(Ledger!Body(o))
    BY <2>2, <2>3, <2>4
  <2>7. r = o
    BY <2>5, <2>6, SameRow
  <2> QED
    BY <2>1, <2>7
<1>3. T = Nat
  <2>1. T \in SUBSET Nat
    OBVIOUS
  <2> HIDE DEF T
  <2> QED
    BY <1>1, <1>2, <2>1, ReachesAll
<1>4. ASSUME NEW i \in 1 .. n PROVE q[i] = b[i]
  <2>1. n - i \in Nat /\ n - i < n /\ n - (n - i) = i
    OBVIOUS
  <2>2. n - i \in T
    <3> HIDE DEF T
    <3> QED
      BY <1>3, <2>1
  <2> QED
    BY <2>1, <2>2
<1> QED
  BY <1>4

LEMMA VerifiedIsSound ==
  ASSUME WasWhole, NEW R, NEW s \in AllStreams, log[s] \in Seq(R), StreamRows(log[s], s),
         verify(s, 1, Last(s))
  PROVE  Sound(s)
<1> PICK q \in Seq(R) : q = log[s]
  OBVIOUS
<1> PICK Q : before \in [AllStreams -> Seq(Q)]
  BY DEF WasWhole
<1> PICK b \in Seq(Q) : b = before[s]
  OBVIOUS
<1>0. Ascending(q) /\ Traced(q) /\ PlainRows(q, s)
  BY DEF StreamRows
<1>1. IntactFrom(q, 1, Len(q), GENESIS)
  BY <1>0, WholeStream
<1>2. Ledger!Chain(b) /\ PlainRows(b, s)
  BY DEF WasWhole
<1>3. \A i \in 1 .. Len(q) : q[i].digest = Ledger!Digest(Ledger!Body(q[i]))
  BY <1>1 DEF IntactFrom
<1>4. ASSUME NEW i \in 1 .. Len(q), NEW j \in 1 .. Len(b), q[i] = b[j]
      PROVE  SameUpTo(s, i)
  <2>1. q[i].seq = i /\ b[j].seq = j
    <3>1. \A k \in 1 .. Len(q) : q[k].seq = k
      BY <1>0, <1>1, Counted
    <3> QED
      BY <1>2, <3>1 DEF Ledger!Chain
  <2>2. i = j
    BY <1>4, <2>1
  <2>3. Len(q) \in Nat /\ Len(b) \in Nat /\ i \in Nat /\ i \in 1 .. Len(b) /\ q[i] = b[i]
    BY <1>4, <2>2
  <2>4. \A k \in 1 .. i : q[k] = b[k]
    BY <1>0, <1>1, <1>2, <2>3, RowVouches
  <2> QED
    BY <2>3, <2>4 DEF SameUpTo
<1> QED
  BY <1>3, <1>4 DEF Sound

----------------------------------------------------------------------------
(* The table, step by step. *)

LEMMA TableInit == AuditInit => TableInv
<1> SUFFICES ASSUME AuditInit PROVE TableInv
  OBVIOUS
<1>0. Init /\ before = NoRows
  BY DEF AuditInit
<1>1. Shape /\ Locking /\ Linked /\ Faithful
  BY <1>0, ShapeInit, LockingInit, LinkedInit, FaithfulInit
<1>2. \A s \in AllStreams : log[s] = <<>> /\ before[s] = <<>> /\ \A t \in Txns : Visible(t, s) = <<>>
  BY <1>0, EmptySeq, ConcatEmptySeq DEF Init, NoRows, Visible
<1>3. ASSUME NEW s PROVE StreamRows(<<>>, s) /\ Ledger!Chain(<<>>)
  BY EmptySeq DEF StreamRows, PlainRows, Ascending, Traced, Ledger!Chain
<1>4. StreamsTraced
  BY <1>2, <1>3, EmptySeq DEF StreamsTraced, FlushedAreSealed
<1>5. HeadsReadOnce
  BY <1>0 DEF Init, HeadsReadOnce, OneHeadEach
<1>6. WasWhole
  <2>1. before \in [AllStreams -> Seq({})]
    BY <1>0 DEF NoRows
  <2>2. \A s \in AllStreams : PlainRows(before[s], s) /\ Ledger!Chain(before[s])
    BY <1>2, <1>3 DEF StreamRows
  <2> QED
    BY <1>2, <2>1, <2>2, EmptySeq DEF WasWhole
<1>7. WritersWereDone
  BY <1>2, EmptySeq DEF WritersWereDone, Later
<1> QED
  BY <1>1, <1>4, <1>5, <1>6, <1>7 DEF TableInv, WholeWhileUndamaged, Linked

(* A record sealed against what its transaction sees continues the stream. *)
LEMMA SealContinues ==
  ASSUME NEW R, NEW q \in Seq(R), NEW s, StreamRows(q, s), NEW t, Later(t),
         NEW hs, OneHeadEach(hs), \A h \in hs : h.stream \in AllStreams
  PROVE  /\ StreamRows(Append(q, Seal(t, s, HeadOf(q), hs)), s)
         /\ SealedThere(Append(q, Seal(t, s, HeadOf(q), hs)), Len(q) + 1)
<1> PICK e : e = Seal(t, s, HeadOf(q), hs)
  OBVIOUS
<1> PICK a : a = Append(q, e)
  OBVIOUS
<1>1. /\ Len(q) \in Nat
      /\ Len(a) = Len(q) + 1
      /\ a[Len(q) + 1] = e
      /\ \A i \in 1 .. Len(q) : a[i] = q[i]
      /\ \A i \in 1 .. Len(a) : i \in 1 .. Len(q) \/ i = Len(q) + 1
      /\ Len(q) + 1 \in 1 .. Len(a)
  OBVIOUS
<1>2. /\ e.seq = IF Len(q) + 1 = 1 THEN 1 ELSE q[Len(q)].seq + 1
      /\ e.prev = IF Len(q) + 1 = 1 THEN GENESIS ELSE q[Len(q)].digest
  <2>1. Len(q) + 1 = 1 <=> q = <<>>
    BY <1>1, EmptySeq
  <2> QED
    BY <2>1 DEF Seal, HeadOf
<1>3. e.digest = Ledger!Digest(Ledger!Body(e)) /\ e.by = t /\ PlainRow(e, s)
  BY DEF Seal, PlainRow, Ledger!Body
<1>4. Len(q) + 1 # 1 => Len(q) \in 1 .. Len(q) /\ (Len(q) + 1) - 1 = Len(q)
  BY <1>1
<1>5. SealedThere(a, Len(q) + 1)
  BY <1>1, <1>2, <1>3, <1>4 DEF SealedThere
<1>6. PlainRows(a, s)
  BY <1>1, <1>3 DEF StreamRows, PlainRows
<1>7. Traced(a)
  <2> SUFFICES ASSUME NEW i \in 1 .. Len(q) PROVE SealedThere(a, i) \/ Survivor(a[i].digest)
    BY <1>1, <1>5 DEF Traced
  <2>1. a[i] = q[i] /\ (i # 1 => a[i - 1] = q[i - 1])
    BY <1>1
  <2>2. SealedThere(q, i) \/ Survivor(q[i].digest)
    BY DEF StreamRows, Traced
  <2> QED
    BY <2>1, <2>2 DEF SealedThere
<1>8. Ascending(a)
  <2>1. \A i \in 1 .. Len(q) : q[i].seq \in Nat \ {0}
    BY DEF StreamRows, Ascending
  <2>2. e.seq \in Nat \ {0}
    BY <1>1, <1>2, <1>4, <2>1
  <2>3. ASSUME NEW i \in 1 .. Len(q) PROVE q[i].seq < e.seq
    <3>1. Len(q) \in 1 .. Len(q) /\ e.seq = q[Len(q)].seq + 1
      BY <1>1, <1>2, <1>4
    <3>2. i = Len(q) \/ i < Len(q)
      BY <1>1
    <3>3. i < Len(q) => q[i].seq < q[Len(q)].seq
      BY <3>1 DEF StreamRows, Ascending
    <3> QED
      BY <2>1, <3>1, <3>2, <3>3
  <2>4. \A i \in 1 .. Len(a) : a[i].seq \in Nat \ {0}
    BY <1>1, <2>1, <2>2
  <2>5. ASSUME NEW i \in 1 .. Len(a), NEW j \in 1 .. Len(a), i < j PROVE a[i].seq < a[j].seq
    <3>1. i \in 1 .. Len(q)
      BY <1>1, <2>5
    <3>2. CASE j \in 1 .. Len(q)
      BY <1>1, <2>5, <3>1, <3>2 DEF StreamRows, Ascending
    <3>3. CASE j = Len(q) + 1
      BY <1>1, <2>3, <3>1, <3>3
    <3> QED
      BY <1>1, <3>2, <3>3
  <2> QED
    BY <2>4, <2>5 DEF Ascending
<1> QED
  BY <1>5, <1>6, <1>7, <1>8 DEF StreamRows

(* What rows are does not depend on anything but the damage. *)
LEMMA RowsStay ==
  ASSUME UNCHANGED before
  PROVE  /\ \A q, s : StreamRows(q, s) => StreamRows(q, s)'
         /\ \A q, i : SealedThere(q, i) => SealedThere(q, i)'
         /\ \A t : Later(t) => Later(t)'
  BY DEF StreamRows, PlainRows, PlainRow, Ascending, Traced, SealedThere, Survivor, Later, OneHeadEach

LEMMA StreamsTracedStep ==
  ASSUME TableInv, [Next]_vars, UNCHANGED before
  PROVE  StreamsTraced'
<1> PICK R : RowsIn(R)
  BY DEF TableInv, Shape, Stored
<1> SUFFICES ASSUME NEW s \in AllStreams
    PROVE  /\ StreamRows(log[s], s)'
           /\ \A t \in Txns : StreamRows(Visible(t, s), s)' /\ FlushedAreSealed(t, s)'
  BY DEF StreamsTraced
<1>1. LoggedBy(s) /\ \A u \in Txns : SeenBy(u, s)
  BY StreamStep DEF TableInv
<1>2. StreamRows(log[s], s) /\ \A t \in Txns : StreamRows(Visible(t, s), s) /\ FlushedAreSealed(t, s)
  BY DEF TableInv, StreamsTraced
<1>3. StreamRows(log'[s], s)
  BY <1>1, <1>2 DEF LoggedBy
<1>4. ASSUME NEW t \in Txns PROVE Visible(t, s) \in Seq(R)
  BY ConcatFacts DEF RowsIn, Visible
<1>5. Len(log[s]) \in Nat /\ log'[s] \in Seq(R)
  BY <1>1, <1>4 DEF RowsIn, LoggedBy
<1>6. ASSUME NEW t \in Txns
      PROVE  /\ StreamRows(Visible(t, s)', s)
             /\ \A i \in Len(log'[s]) + 1 .. Len(Visible(t, s)') : SealedThere(Visible(t, s)', i)
  <2>1. CASE log'[s] = log[s] /\ Visible(t, s)' = Visible(t, s)
    BY <1>2, <2>1 DEF FlushedAreSealed
  <2>2. CASE Visible(t, s)' = log'[s]
    <3>1. Len(log'[s]) \in Nat
      BY <1>5
    <3> QED
      BY <1>3, <2>2, <3>1
  <2>3. CASE /\ log'[s] = log[s]
             /\ pc[t] = "insert"
             /\ Visible(t, s)' = Append(Visible(t, s), Seal(t, s, HeadOf(Visible(t, s)), heads[t]))
    <3> PICK q \in Seq(R) : q = Visible(t, s)
      BY <1>4
    <3> PICK e : e = Seal(t, s, HeadOf(q), heads[t])
      OBVIOUS
    <3>1. Later(t)
      BY <2>3 DEF TableInv, WritersWereDone
    <3>2. OneHeadEach(heads[t]) /\ \A h \in heads[t] : h.stream \in AllStreams
      BY DEF TableInv, HeadsReadOnce
    <3>3. StreamRows(Append(q, e), s) /\ SealedThere(Append(q, e), Len(q) + 1)
      BY <1>2, <3>1, <3>2, SealContinues
    <3>4. ASSUME NEW i \in Len(log[s]) + 1 .. Len(Append(q, e))
          PROVE  SealedThere(Append(q, e), i)
      <4>1. Len(q) \in Nat /\ Len(Append(q, e)) = Len(q) + 1 /\ i \in Nat \ {0}
        BY <1>5
      <4>2. CASE i = Len(q) + 1
        BY <3>3, <4>2
      <4>3. CASE i # Len(q) + 1
        <5>1. i \in Len(log[s]) + 1 .. Len(q) /\ i \in 1 .. Len(q)
          BY <1>5, <4>1, <4>3
        <5>2. SealedThere(q, i)
          BY <1>2, <5>1 DEF FlushedAreSealed
        <5>3. Append(q, e)[i] = q[i] /\ (i # 1 => Append(q, e)[i - 1] = q[i - 1])
          BY <4>1, <5>1
        <5> QED
          BY <5>2, <5>3 DEF SealedThere
      <4> QED
        BY <4>2, <4>3
    <3> QED
      BY <2>3, <3>3, <3>4
  <2> QED
    BY <1>1, <2>1, <2>2, <2>3 DEF SeenBy
<1> QED
  BY <1>3, <1>6, RowsStay DEF FlushedAreSealed

LEMMA HeadsReadOnceStep ==
  ASSUME Shape, HeadsReadOnce, [Next]_vars
  PROVE  HeadsReadOnce'
<1> USE DEF HeadsReadOnce, OneHeadEach
<1>1. ASSUME NEW t \in Txns, ListStreams(t) PROVE HeadsReadOnce'
  BY <1>1 DEF ListStreams, Shape
<1>2. ASSUME NEW t \in Txns, ReadStreamHead(t) PROVE HeadsReadOnce'
  <2>1. PICK s \in todo[t] :
           /\ heads' = [heads EXCEPT ![t] = @ \union {HeadRead(t, s)}]
           /\ todo' = [todo EXCEPT ![t] = @ \ {s}]
    BY <1>2 DEF ReadStreamHead
  <2>2. HeadRead(t, s).stream = s /\ s \in AllStreams
    BY StreamFacts DEF HeadRead, Shape
  <2>3. pc' = pc /\ pc[t] = "heads"
    BY <1>2 DEF ReadStreamHead
  <2> QED
    BY <2>1, <2>2, <2>3 DEF Shape
<1>3. ASSUME NEW t \in Txns, End(t) PROVE HeadsReadOnce'
  BY <1>3 DEF End, Shape
<1>4. ASSUME UNCHANGED <<heads, todo>>,
             \A t \in Txns : pc'[t] \in {"idle", "list"} => pc[t] \in {"idle", "list"}
      PROVE  HeadsReadOnce'
  BY <1>4
<1> HIDE DEF HeadsReadOnce
<1>5. ASSUME NEW t \in Txns,
             BeginAppend(t) \/ BeginCheckpoint(t) \/ AppendCheckpoint(t) \/ Lock(t) \/ ReadHead(t)
             \/ Insert(t)
      PROVE  HeadsReadOnce'
  BY <1>4, <1>5
  DEF BeginAppend, BeginCheckpoint, AppendCheckpoint, Lock, ReadHead, Insert, Shape
<1>6. CASE UNCHANGED vars
  BY <1>4, <1>6 DEF vars
<1> QED
  BY <1>1, <1>2, <1>3, <1>5, <1>6
  DEF Next, Begin, Step, Commit, Rollback, DeadlockDetected

LEMMA FaithfulStep ==
  ASSUME Shape, Locking, Linked, Faithful, [Next]_vars
  PROVE  Faithful'
  BY VouchedStep, CountableStep, OwnedStep DEF Faithful

(* Transactions go on, before the damage or after it. *)
LEMMA TableGoesOn ==
  ASSUME TableInv, [Next]_vars, UNCHANGED damageVars
  PROVE  TableInv'
<1>1. Shape' /\ Locking' /\ FreshHead'
  BY ShapeStep, LockingStep, FreshHeadStep DEF TableInv
<1>2. StreamsTraced'
  BY StreamsTracedStep DEF damageVars
<1>3. HeadsReadOnce'
  BY HeadsReadOnceStep DEF TableInv
<1>4. WasWhole'
  BY DEF TableInv, WasWhole, damageVars, PlainRows, PlainRow, OneHeadEach, HeldBefore
<1>5. WritersWereDone'
  BY EndedStaysEnded, RowsStay DEF TableInv, WritersWereDone, damageVars
<1>6. WholeWhileUndamaged'
  BY LinkedStep, FaithfulStep DEF TableInv, WholeWhileUndamaged, damageVars
<1> QED
  BY <1>1, <1>2, <1>3, <1>4, <1>5, <1>6 DEF TableInv

----------------------------------------------------------------------------
(* The damage. *)

(* Rows in their order, with digests that were there. *)
Leftover(q, s) ==
  /\ PlainRows(q, s)
  /\ Ascending(q)
  /\ \A i \in 1 .. Len(q) : \E r \in AllStreams : \E j \in 1 .. Len(log[r]) :
        q[i].digest = log[r][j].digest

LEMMA LogIsLeft ==
  ASSUME StreamsTraced, NEW s \in AllStreams
  PROVE  Leftover(log[s], s)
<1>1. PlainRows(log[s], s) /\ Ascending(log[s])
  BY DEF StreamsTraced, StreamRows
<1> QED
  BY <1>1 DEF Leftover

LEMMA LosingLeaves ==
  ASSUME StreamsTraced, NEW R, RowsIn(R), NEW s \in AllStreams, NEW S
  PROVE  Without(log[s], S) \in Seq(R) /\ Leftover(Without(log[s], S), s)
<1> PICK q \in Seq(R) : q = log[s]
  BY DEF RowsIn
<1>1. PlainRows(q, s) /\ Ascending(q)
  BY DEF StreamsTraced, StreamRows
<1>2. Without(q, S) \in Seq(R) /\ Thins(Without(q, S), q, Len(q))
  BY <1>1, WithoutThins
<1> PICK w \in Seq(R) : w = Without(q, S)
  BY <1>2
<1>3. Ascending(w) /\ \A k \in 1 .. Len(w) : \E i \in 1 .. Len(q) : w[k] = q[i]
  BY <1>2 DEF Thins
<1>4. PlainRows(w, s)
  BY <1>1, <1>3 DEF PlainRows
<1>5. \A k \in 1 .. Len(w) : \E j \in 1 .. Len(log[s]) : w[k].digest = log[s][j].digest
  BY <1>3
<1>6. Leftover(w, s)
  BY <1>3, <1>4, <1>5 DEF Leftover
<1> QED
  BY <1>2, <1>6

LEMMA AlteringLeaves ==
  ASSUME StreamsTraced, NEW R, RowsIn(R), NEW s \in AllStreams, NEW i \in 1 .. Len(log[s]), NEW t,
         NEW e, e = [log[s][i] EXCEPT !.by = t]
  PROVE  /\ [log[s] EXCEPT ![i] = e] \in Seq(R \union {e})
         /\ Leftover([log[s] EXCEPT ![i] = e], s)
<1> PICK q \in Seq(R) : q = log[s]
  BY DEF RowsIn
<1> PICK w : w = [q EXCEPT ![i] = e]
  OBVIOUS
<1>1. PlainRows(q, s) /\ Ascending(q)
  BY DEF StreamsTraced, StreamRows
<1>2. PlainRow(q[i], s)
  BY <1>1 DEF PlainRows
<1>3. PlainRow(e, s) /\ e.seq = q[i].seq /\ e.digest = q[i].digest
  BY <1>2 DEF PlainRow
<1>4. w \in Seq(R \union {e}) /\ Len(w) = Len(q) /\ w[i] = e
      /\ \A k \in 1 .. Len(q) : k # i => w[k] = q[k]
  <2>1. q \in Seq(R \union {e})
    BY SeqMonotone
  <2> QED
    BY <2>1
<1>5. \A k \in 1 .. Len(w) : w[k].seq = q[k].seq /\ w[k].digest = q[k].digest /\ PlainRow(w[k], s)
  BY <1>1, <1>3, <1>4 DEF PlainRows
<1>6. Ascending(w) /\ PlainRows(w, s)
  BY <1>1, <1>4, <1>5 DEF Ascending, PlainRows
<1>7. \A k \in 1 .. Len(w) : \E j \in 1 .. Len(log[s]) : w[k].digest = log[s][j].digest
  BY <1>4, <1>5
<1>8. Leftover(w, s)
  BY <1>6, <1>7 DEF Leftover
<1> QED
  BY <1>4, <1>8

LEMMA MovingLeaves ==
  ASSUME StreamsTraced, NEW R, RowsIn(R), NEW s \in AllStreams, NEW i \in 1 .. Len(log[s]),
         NEW r \in AllStreams,
         NEW e, e = [log[s][i] EXCEPT !.stream = r, !.seq = Last(r) + 1]
  PROVE  /\ Append(log[r], e) \in Seq(R \union {e})
         /\ Leftover(Append(log[r], e), r)
<1> PICK q \in Seq(R) : q = log[r]
  BY DEF RowsIn
<1> PICK w : w = Append(q, e)
  OBVIOUS
<1>1. PlainRows(q, r) /\ Ascending(q)
  BY DEF StreamsTraced, StreamRows
<1>2. PlainRow(log[s][i], s)
  BY DEF StreamsTraced, StreamRows, PlainRows
<1>3. PlainRow(e, r) /\ e.seq = Last(r) + 1 /\ e.digest = log[s][i].digest
  BY <1>2 DEF PlainRow
<1>4. /\ w \in Seq(R \union {e})
      /\ Len(w) = Len(q) + 1 /\ Len(q) \in Nat
      /\ w[Len(q) + 1] = e
      /\ \A k \in 1 .. Len(q) : w[k] = q[k]
      /\ \A k \in 1 .. Len(w) : k \in 1 .. Len(q) \/ k = Len(q) + 1
  <2>1. q \in Seq(R \union {e})
    BY SeqMonotone
  <2> QED
    BY <2>1
<1>5. Last(r) \in Nat /\ \A k \in 1 .. Len(q) : q[k].seq <= Last(r) /\ q[k].seq \in Nat
  BY <1>1, LastOf DEF Ascending
<1>6. Ascending(w)
  <2>1. \A k \in 1 .. Len(w) : w[k].seq \in Nat \ {0}
    BY <1>1, <1>3, <1>4, <1>5 DEF Ascending
  <2>2. ASSUME NEW k \in 1 .. Len(w), NEW l \in 1 .. Len(w), k < l PROVE w[k].seq < w[l].seq
    <3>1. k \in 1 .. Len(q)
      BY <1>4, <2>2
    <3>2. CASE l \in 1 .. Len(q)
      BY <1>1, <1>4, <2>2, <3>1, <3>2 DEF Ascending
    <3>3. CASE l = Len(q) + 1
      BY <1>3, <1>4, <1>5, <3>1, <3>3
    <3> QED
      BY <1>4, <3>2, <3>3
  <2> QED
    BY <2>1, <2>2 DEF Ascending
<1>7. PlainRows(w, r)
  BY <1>1, <1>3, <1>4 DEF PlainRows
<1>8. ASSUME NEW k \in 1 .. Len(w)
      PROVE  \E p \in AllStreams : \E j \in 1 .. Len(log[p]) : w[k].digest = log[p][j].digest
  <2>1. CASE k \in 1 .. Len(q)
    BY <1>4, <2>1
  <2>2. CASE k = Len(q) + 1
    BY <1>3, <1>4, <2>2
  <2> QED
    BY <1>4, <2>1, <2>2
<1>9. Leftover(w, r)
  BY <1>6, <1>7, <1>8 DEF Leftover
<1> QED
  BY <1>4, <1>9

LEMMA DamageLeaves ==
  ASSUME StreamsTraced, NEW R, RowsIn(R), Lose \/ Alter \/ Move
  PROVE  \E Q : /\ log' \in [AllStreams -> Seq(Q)]
                /\ R \subseteq Q
                /\ \A s \in AllStreams : Leftover(log'[s], s)
<1>0. log \in [AllStreams -> Seq(R)] /\ \A s \in AllStreams : Leftover(log[s], s)
  BY LogIsLeft DEF RowsIn
<1>1. CASE Lose
  <2> PICK s \in AllStreams : \E S \in SUBSET (1 .. Len(log[s])) :
              log' = [log EXCEPT ![s] = Without(@, S)]
    BY <1>1 DEF Lose
  <2> PICK S \in SUBSET (1 .. Len(log[s])) : log' = [log EXCEPT ![s] = Without(@, S)]
    OBVIOUS
  <2>1. Without(log[s], S) \in Seq(R) /\ Leftover(Without(log[s], S), s)
    BY LosingLeaves
  <2> QED
    BY <1>0, <2>1
<1>2. CASE Alter
  <2> PICK s \in AllStreams : \E i \in 1 .. Len(log[s]), t \in Txns : log' = [log EXCEPT ![s][i].by = t]
    BY <1>2 DEF Alter
  <2> PICK i \in 1 .. Len(log[s]), t \in Txns : log' = [log EXCEPT ![s][i].by = t]
    OBVIOUS
  <2> PICK e : e = [log[s][i] EXCEPT !.by = t]
    OBVIOUS
  <2> PICK Q : Q = R \union {e}
    OBVIOUS
  <2> PICK w : w = [log[s] EXCEPT ![i] = e]
    OBVIOUS
  <2>1. w \in Seq(Q) /\ Leftover(w, s)
    BY AlteringLeaves
  <2>2. log' = [log EXCEPT ![s] = w]
    OBVIOUS
  <2>3. R \subseteq Q /\ \A r \in AllStreams : log[r] \in Seq(Q)
    BY <1>0, SeqMonotone
  <2>4. log' \in [AllStreams -> Seq(Q)]
    BY <1>0, <2>1, <2>2, <2>3
  <2>5. \A r \in AllStreams : log'[r] = IF r = s THEN w ELSE log[r]
    BY <1>0, <2>2
  <2>6. \A r \in AllStreams : Leftover(log'[r], r)
    BY <1>0, <2>1, <2>5
  <2> QED
    BY <2>3, <2>4, <2>6
<1>3. CASE Move
  <2> PICK s \in AllStreams, r \in AllStreams : \E i \in 1 .. Len(log[s]) :
          /\ s # r
          /\ log' = [log EXCEPT ![s] = Without(@, {i}),
                                ![r] = Append(@, [log[s][i] EXCEPT !.stream = r, !.seq = Last(r) + 1])]
    BY <1>3 DEF Move
  <2> PICK i \in 1 .. Len(log[s]) :
          /\ s # r
          /\ log' = [log EXCEPT ![s] = Without(@, {i}),
                                ![r] = Append(@, [log[s][i] EXCEPT !.stream = r, !.seq = Last(r) + 1])]
    OBVIOUS
  <2> PICK e : e = [log[s][i] EXCEPT !.stream = r, !.seq = Last(r) + 1]
    OBVIOUS
  <2> PICK Q : Q = R \union {e}
    OBVIOUS
  <2> PICK v : v = Without(log[s], {i})
    OBVIOUS
  <2> PICK w : w = Append(log[r], e)
    OBVIOUS
  <2>1. v \in Seq(R) /\ Leftover(v, s)
    BY LosingLeaves
  <2>2. w \in Seq(Q) /\ Leftover(w, r)
    BY MovingLeaves
  <2>3. log' = [log EXCEPT ![s] = v, ![r] = w]
    OBVIOUS
  <2>4. R \subseteq Q /\ v \in Seq(Q) /\ \A p \in AllStreams : log[p] \in Seq(Q)
    BY <1>0, <2>1, SeqMonotone
  <2>5. log' \in [AllStreams -> Seq(Q)]
    BY <1>0, <2>2, <2>3, <2>4
  <2>6. \A p \in AllStreams : log'[p] = IF p = r THEN w ELSE IF p = s THEN v ELSE log[p]
    BY <1>0, <2>3
  <2>7. \A p \in AllStreams : Leftover(log'[p], p)
    BY <1>0, <2>1, <2>2, <2>6
  <2> QED
    BY <2>4, <2>5, <2>7
<1> QED
  BY <1>1, <1>2, <1>3

LEMMA TableDamaged ==
  ASSUME TableInv, Damage
  PROVE  TableInv'
<1> PICK R : RowsIn(R)
  BY DEF TableInv, Shape, Stored
<1>0. /\ \A t \in Txns : pc[t] \in {"idle", "ended"}
      /\ Lose \/ Alter \/ Move
      /\ before' = log /\ damaged' = TRUE /\ ~damaged
      /\ UNCHANGED <<pc, plan, locks, pending, head, todo, heads>>
  BY DEF Damage
<1>1. Linked /\ Faithful /\ StreamsTraced
  BY <1>0 DEF TableInv, WholeWhileUndamaged
<1>2. PICK Q : /\ log' \in [AllStreams -> Seq(Q)]
               /\ R \subseteq Q
               /\ \A s \in AllStreams : Leftover(log'[s], s)
  BY <1>0, <1>1, DamageLeaves
<1>3. \A t \in Txns : \A s \in AllStreams : pending[t][s] = <<>>
  BY <1>0 DEF TableInv, Locking, NoLockYet, FlushedUnderLock
<1>4. Shape'
  <2>1. pending' \in [Txns -> [AllStreams -> Seq(Q)]]
    <3>1. \A s \in AllStreams : \A q \in Seq(R) : q \in Seq(Q)
      BY <1>2, SeqMonotone
    <3> QED
      BY <1>0, <3>1 DEF RowsIn
  <2>2. Stored'
    BY <1>2, <2>1 DEF Stored, RowsIn
  <2> QED
    BY <1>0, <2>2 DEF TableInv, Shape
<1>5. Locking'
  BY <1>0 DEF TableInv, Locking, Exclusion, FlushedUnderLock, AppendUnderLock, NoLockYet
<1>6. FreshHead'
  BY <1>0 DEF FreshHead
<1>7. HeadsReadOnce'
  BY <1>0 DEF TableInv, HeadsReadOnce, OneHeadEach
<1>8. WasWhole'
  <2>1. \A s \in AllStreams : Ledger!Chain(log[s]) /\ PlainRows(log[s], s)
    BY <1>1 DEF Linked, Chained, StreamsTraced, StreamRows
  <2>2. ASSUME NEW s \in AllStreams, NEW i \in 1 .. Len(log[s]), NEW h \in log[s][i].heads
        PROVE  h.seq \in 1 .. Len(log[h.stream]) /\ log[h.stream][h.seq].digest = h.head_hash
    <3>1. HeadHolds(h) /\ h.stream \in AllStreams
      BY <1>1, <2>2, StreamFacts DEF Faithful, Vouched, GoodRows, GoodRow, GoodHead
    <3>2. PICK k \in 1 .. Len(log[h.stream]) :
             log[h.stream][k].seq = h.seq /\ log[h.stream][k].digest = h.head_hash
      BY <3>1 DEF HeadHolds
    <3>3. log[h.stream][k].seq = k
      BY <2>1, <3>1 DEF Ledger!Chain
    <3> QED
      BY <3>2, <3>3
  <2>3. log \in [AllStreams -> Seq(R)]
    BY DEF RowsIn
  <2>4. \A s \in AllStreams : PlainRows(before[s], s)'
    BY <1>0, <2>1 DEF PlainRows, PlainRow, OneHeadEach
  <2>5. \A s \in AllStreams : \A i \in 1 .. Len(log[s]) : \A h \in log[s][i].heads : HeldBefore(h)'
    BY <1>0, <2>2 DEF HeldBefore
  <2> QED
    BY <1>0, <2>1, <2>3, <2>4, <2>5 DEF WasWhole
<1>9. WritersWereDone'
  <2> SUFFICES ASSUME NEW t \in Txns, pc[t] # "ended",
                      NEW s \in AllStreams, NEW j \in 1 .. Len(log[s])
      PROVE  log[s][j].by # t
    BY <1>0 DEF WritersWereDone, Later
  <2> QED
    BY <1>1 DEF Faithful, Owned
<1>10. StreamsTraced'
  <2> SUFFICES ASSUME NEW s \in AllStreams
      PROVE  /\ StreamRows(log[s], s)'
             /\ \A t \in Txns : StreamRows(Visible(t, s), s)' /\ FlushedAreSealed(t, s)'
    BY DEF StreamsTraced
  <2>1. StreamRows(log[s], s)'
    <3>1. PlainRows(log[s], s)' /\ Ascending(log[s])'
      BY <1>2 DEF Leftover, PlainRows, PlainRow, OneHeadEach, Ascending
    <3>2. Traced(log[s])'
      BY <1>0, <1>2 DEF Leftover, Traced, Survivor
    <3> QED
      BY <3>1, <3>2 DEF StreamRows
  <2>2. ASSUME NEW t \in Txns PROVE Visible(t, s)' = log'[s]
    BY <1>0, <1>2, <1>3, ConcatEmptySeq DEF Visible
  <2>3. Len(log'[s]) \in Nat
    BY <1>2
  <2>4. ASSUME NEW t \in Txns PROVE FlushedAreSealed(t, s)'
    BY <2>2, <2>3 DEF FlushedAreSealed
  <2>5. ASSUME NEW t \in Txns PROVE StreamRows(Visible(t, s), s)'
    BY <2>1, <2>2
  <2> QED
    BY <2>1, <2>4, <2>5
<1> QED
  BY <1>0, <1>4, <1>5, <1>6, <1>7, <1>8, <1>9, <1>10 DEF TableInv, WholeWhileUndamaged

(* A step of the audit leaves the table alone. *)
Auditing ==
  AuditBegins \/ VerifyStream \/ ReadCheckpoint \/ ObserveRecord \/ NotThere
  \/ ObserveHead \/ AuditEnds

LEMMA AuditReadsOnly == Auditing => UNCHANGED <<vars, damageVars>>
  BY DEF Auditing, AuditBegins, VerifyStream, ReadCheckpoint, ObserveRecord, NotThere,
         ObserveHead, AuditEnds

LEMMA Kinds ==
  ASSUME [AuditNext]_allVars
  PROVE  \/ [Next]_vars /\ UNCHANGED <<auditVars, damageVars>>
         \/ Auditing
         \/ Damage
  BY DEF AuditNext, Auditing, allVars

LEMMA TableStep == TableInv /\ [AuditNext]_allVars => TableInv'
<1> SUFFICES ASSUME TableInv, [AuditNext]_allVars PROVE TableInv'
  OBVIOUS
<1>1. CASE [Next]_vars /\ UNCHANGED damageVars
  BY <1>1, TableGoesOn
<1>2. CASE Damage
  BY <1>2, TableDamaged
<1> QED
  BY <1>1, <1>2, Kinds, AuditReadsOnly

(* The table, in every state of an audited log. *)
THEOREM AlwaysTraced == AuditSpec => []TableInv
  BY TableInit, TableStep, PTL DEF AuditSpec

(* Cut wherever it may be, a stream is judged by its slices as it is in    *)
(* one go, damaged or not.                                                 *)
THEOREM SlicesAlwaysAgree == AuditSpec => []SlicesAgree
<1>1. TableInv => SlicesAgree
  <2> SUFFICES ASSUME TableInv, NEW s \in AllStreams, NEW k \in 1 .. Last(s)
      PROVE  verify(s, 1, Last(s)) <=> verify(s, 1, k) /\ verify(s, k + 1, Last(s))
    BY DEF SlicesAgree
  <2> PICK R : RowsIn(R)
    BY DEF TableInv, Shape, Stored
  <2>1. WasWhole /\ log[s] \in Seq(R) /\ Ascending(log[s]) /\ Traced(log[s])
    BY DEF TableInv, StreamsTraced, StreamRows, RowsIn
  <2> QED
    BY <2>1, SlicesSayTheSame
<1> QED
  BY <1>1, AlwaysTraced, PTL

----------------------------------------------------------------------------
(* What the audit has found out stays true while the streams grow.         *)

LEMMA AuditInit0 == AuditInit => AuditInv
<1> SUFFICES ASSUME AuditInit PROVE AuditInv
  OBVIOUS
<1>1. Course
  BY DEF AuditInit, Course
<1>2. PassedAreSound
  BY DEF AuditInit, PassedAreSound
<1>3. ObservedIsThere
  <2>1. DOMAIN observed = {}
    BY DEF AuditInit
  <2> QED
    BY <2>1 DEF ObservedIsThere
<1>4. NothingWrongYet
  BY DEF AuditInit, NothingWrongYet, OneHeadEach
<1> QED
  BY <1>1, <1>2, <1>3, <1>4 DEF AuditInv

LEMMA SoundStays ==
  ASSUME TableInv, [Next]_vars, UNCHANGED before, NEW s \in AllStreams, Sound(s)
  PROVE  Sound(s)'
<1> PICK R : RowsIn(R)
  BY DEF TableInv, Shape, Stored
<1>0. /\ Len(log[s]) \in Nat /\ Len(log'[s]) \in Nat
      /\ Len(log[s]) <= Len(log'[s])
      /\ \A i \in 1 .. Len(log[s]) : log'[s][i] = log[s][i]
  BY Grows DEF TableInv, LogGrows
<1> SUFFICES ASSUME NEW i \in 1 .. Len(log'[s])
    PROVE  /\ log'[s][i].digest = Ledger!Digest(Ledger!Body(log'[s][i]))
           /\ (\E j \in 1 .. Len(before[s]) : log'[s][i] = before[s][j]) => SameUpTo(s, i)'
  BY DEF Sound
<1>1. CASE i \in 1 .. Len(log[s])
  <2>1. log'[s][i] = log[s][i] /\ \A k \in 1 .. i : k \in 1 .. Len(log[s])
    BY <1>0, <1>1
  <2>2. SameUpTo(s, i) => SameUpTo(s, i)'
    BY <1>0, <1>1, <2>1 DEF SameUpTo
  <2> QED
    BY <1>1, <2>1, <2>2 DEF Sound
<1>2. CASE i \notin 1 .. Len(log[s])
  <2>1. log'[s] # log[s]
    BY <1>2
  <2>2. PICK t \in Txns : log'[s] = Visible(t, s)
    BY <2>1, StreamStep DEF LoggedBy, TableInv
  <2>3. i \in Len(log[s]) + 1 .. Len(Visible(t, s))
    BY <1>0, <1>2, <2>2
  <2>4. SealedThere(Visible(t, s), i)
    BY <2>3 DEF TableInv, StreamsTraced, FlushedAreSealed
  <2> QED
    BY <2>2, <2>4 DEF SealedThere, Later
<1> QED
  BY <1>1, <1>2

LEMMA ObservedStays ==
  ASSUME TableInv, [Next]_vars, UNCHANGED observed, ObservedIsThere
  PROVE  ObservedIsThere'
<1> SUFFICES ASSUME NEW s \in DOMAIN observed
    PROVE  /\ s \in AllStreams
           /\ \/ observed[s].digest = <<>>
              \/ \E i \in 1 .. Len(log'[s]) :
                    observed[s] = [seq |-> log'[s][i].seq, digest |-> log'[s][i].digest]
  BY DEF ObservedIsThere
<1>1. s \in AllStreams
  BY DEF ObservedIsThere
<1>2. CASE observed[s].digest = <<>>
  BY <1>1, <1>2
<1>3. CASE observed[s].digest # <<>>
  <2>1. PICK i \in 1 .. Len(log[s]) :
           observed[s] = [seq |-> log[s][i].seq, digest |-> log[s][i].digest]
    BY <1>3 DEF ObservedIsThere
  <2>2. i \in 1 .. Len(log'[s]) /\ log'[s][i] = log[s][i]
    BY <1>1, Grows DEF TableInv, LogGrows
  <2> QED
    BY <1>1, <2>1, <2>2
<1> QED
  BY <1>2, <1>3

LEMMA AuditGoesOn ==
  ASSUME TableInv, AuditInv, [Next]_vars, UNCHANGED <<auditVars, damageVars>>
  PROVE  AuditInv'
<1>0. UNCHANGED <<apc, unverified, failing, recorded, unobserved, observed, damaged, before>>
  BY DEF auditVars, damageVars
<1>1. Course'
  BY <1>0 DEF AuditInv, Course
<1>2. PassedAreSound'
  BY <1>0, SoundStays DEF AuditInv, PassedAreSound
<1>3. ObservedIsThere'
  BY <1>0, ObservedStays DEF AuditInv
<1>4. NothingWrongYet'
  <2>1. \A h : GoodHead(h) => GoodHead(h)'
    BY Grows, GoodHeadStable DEF TableInv
  <2>2. \A h : Matches(h) => Matches(h)'
    BY <1>0 DEF Matches
  <2> QED
    BY <1>0, <2>1, <2>2 DEF AuditInv, NothingWrongYet, OneHeadEach
<1> QED
  BY <1>1, <1>2, <1>3, <1>4 DEF AuditInv

(* The damage comes before the audit begins. *)
LEMMA AuditOfDamaged ==
  ASSUME AuditInv, Damage
  PROVE  AuditInv'
<1>0. /\ UNCHANGED <<apc, unverified, failing, recorded, unobserved, observed>>
      /\ apc = "idle" /\ damaged' = TRUE
  BY DEF Damage, auditVars
<1>1. Course'
  BY <1>0 DEF AuditInv, Course
<1>2. PassedAreSound'
  BY <1>0 DEF PassedAreSound
<1>3. ObservedIsThere'
  <2>1. DOMAIN observed' = {}
    BY <1>0 DEF AuditInv, Course
  <2> QED
    BY <2>1 DEF ObservedIsThere
<1>4. NothingWrongYet'
  BY <1>0 DEF NothingWrongYet
<1> QED
  BY <1>1, <1>2, <1>3, <1>4 DEF AuditInv

----------------------------------------------------------------------------
(* The audit's own steps. *)

(* A chain passes. *)
LEMMA ChainPasses ==
  ASSUME TableInv, NEW s \in AllStreams, ~damaged
  PROVE  verify(s, 1, Last(s))
<1> PICK R : RowsIn(R)
  BY DEF TableInv, Shape, Stored
<1> PICK q \in Seq(R) : q = log[s]
  BY DEF RowsIn
<1>1. Ledger!Chain(q) /\ Ascending(q)
  BY DEF TableInv, WholeWhileUndamaged, Linked, Chained, StreamsTraced, StreamRows
<1>2. verify_chain(q)
  BY <1>1, ChainVerifies
<1>3. IntactFrom(q, 1, Len(q), GENESIS)
  BY <1>2 DEF verify_chain, IntactFrom
<1> QED
  BY <1>1, <1>3, WholeStream

LEMMA AuditSameTable ==
  ASSUME UNCHANGED <<log, before, damaged>>
  PROVE  /\ \A s : Sound(s) => Sound(s)'
         /\ \A h : GoodHead(h) => GoodHead(h)'
  BY DEF Sound, SameUpTo, GoodHead, HeadHolds

LEMMA VerifyStreamStep ==
  ASSUME TableInv, AuditInv, VerifyStream
  PROVE  AuditInv'
<1> PICK R : RowsIn(R)
  BY DEF TableInv, Shape, Stored
<1>0. /\ UNCHANGED <<vars, apc, recorded, unobserved, observed, damaged, before>>
      /\ log' = log /\ apc = "verify"
  BY DEF VerifyStream, damageVars, vars
<1>1. PICK s \in unverified :
         /\ unverified' = unverified \ {s}
         /\ failing' = IF verify(s, 1, Last(s)) THEN failing ELSE failing \union {s}
  BY DEF VerifyStream
<1>2. Course'
  BY <1>0, <1>1 DEF AuditInv, Course
<1>3. PassedAreSound'
  <2> SUFFICES ASSUME NEW r \in AllStreams, r \notin unverified', r \notin failing'
      PROVE  Sound(r)'
    BY DEF PassedAreSound
  <2>1. CASE r # s
    <3>1. r \notin unverified /\ r \notin failing
      BY <1>1, <2>1
    <3> QED
      BY <1>0, <3>1, AuditSameTable DEF AuditInv, PassedAreSound
  <2>2. CASE r = s
    <3>1. verify(r, 1, Last(r))
      BY <1>1, <2>2
    <3>2. WasWhole /\ log[r] \in Seq(R) /\ StreamRows(log[r], r)
      BY DEF TableInv, StreamsTraced, RowsIn
    <3>3. Sound(r)
      BY <3>1, <3>2, VerifiedIsSound
    <3> QED
      BY <1>0, <3>3, AuditSameTable
  <2> QED
    BY <2>1, <2>2
<1>4. ObservedIsThere'
  BY <1>0 DEF AuditInv, ObservedIsThere
<1>5. NothingWrongYet'
  <2> SUFFICES ASSUME ~damaged
      PROVE  /\ failing' = {} /\ apc' # "head"
             /\ OneHeadEach(recorded')
             /\ \A h \in recorded' : GoodHead(h)' /\ (h \notin unobserved' => Matches(h)')
    BY <1>0 DEF NothingWrongYet, OneHeadEach
  <2>1. recorded' = {} /\ failing = {}
    BY <1>0 DEF AuditInv, Course, NothingWrongYet
  <2>2. s \in AllStreams
    BY DEF AuditInv, Course
  <2>3. verify(s, 1, Last(s))
    BY <2>2, ChainPasses
  <2> QED
    BY <1>0, <1>1, <2>1, <2>3 DEF OneHeadEach
<1> QED
  BY <1>2, <1>3, <1>4, <1>5 DEF AuditInv

LEMMA AuditBeginsStep ==
  ASSUME TableInv, AuditInv, AuditBegins
  PROVE  AuditInv'
<1>0. /\ UNCHANGED <<vars, failing, recorded, unobserved, observed, damaged, before>>
      /\ log' = log /\ apc = "idle" /\ apc' = "verify"
      /\ unverified' = {s \in AllStreams : log[s] # <<>>}
  BY DEF AuditBegins, damageVars, vars
<1>1. Course'
  BY <1>0 DEF AuditInv, Course
<1>2. PassedAreSound'
  <2> SUFFICES ASSUME NEW s \in AllStreams, s \notin unverified'
      PROVE  Sound(s)'
    BY DEF PassedAreSound
  <2>1. log'[s] = <<>>
    BY <1>0
  <2>2. 1 .. Len(log'[s]) = {}
    BY <2>1
  <2> QED
    BY <2>2 DEF Sound
<1>3. ObservedIsThere'
  BY <1>0 DEF AuditInv, ObservedIsThere
<1>4. NothingWrongYet'
  <2>1. recorded' = {} /\ failing = {}
    BY <1>0 DEF AuditInv, Course
  <2> QED
    BY <1>0, <2>1 DEF NothingWrongYet, OneHeadEach
<1> QED
  BY <1>1, <1>2, <1>3, <1>4 DEF AuditInv

LEMMA ReadCheckpointStep ==
  ASSUME TableInv, AuditInv, ReadCheckpoint
  PROVE  AuditInv'
<1> PICK R : RowsIn(R)
  BY DEF TableInv, Shape, Stored
<1> PICK q \in Seq(R) : q = log[Checkpoints]
  BY StreamFacts DEF RowsIn
<1>0. /\ UNCHANGED <<vars, unverified, failing, observed, damaged, before>>
      /\ log' = log /\ apc = "verify" /\ apc' = "observe" /\ unverified = {}
      /\ unobserved' = recorded'
      /\ recorded' = IF q = <<>> THEN {} ELSE q[Len(q)].heads
  BY DEF ReadCheckpoint, damageVars, vars
<1>1. Len(q) \in Nat /\ (q # <<>> => Len(q) \in 1 .. Len(q))
  OBVIOUS
<1>2. PlainRows(q, Checkpoints)
  BY StreamFacts DEF TableInv, StreamsTraced, StreamRows
<1>3. OneHeadEach(recorded') /\ \A h \in recorded' : h.stream \in AllStreams
  <2>1. CASE q = <<>>
    BY <1>0, <2>1 DEF OneHeadEach
  <2>2. CASE q # <<>>
    BY <1>0, <1>1, <1>2, <2>2 DEF PlainRows, PlainRow
  <2> QED
    BY <2>1, <2>2
<1>4. Course'
  BY <1>0, <1>3 DEF AuditInv, Course
<1>5. PassedAreSound'
  BY <1>0, AuditSameTable DEF AuditInv, PassedAreSound
<1>6. ObservedIsThere'
  BY <1>0 DEF AuditInv, ObservedIsThere
<1>7. NothingWrongYet'
  <2> SUFFICES ASSUME ~damaged
      PROVE  failing = {} /\ OneHeadEach(recorded)' /\ \A h \in recorded' : GoodHead(h)'
    BY <1>0 DEF NothingWrongYet
  <2>1. failing = {}
    BY DEF AuditInv, NothingWrongYet
  <2>2. GoodRows(q, Checkpoints)
    BY StreamFacts DEF TableInv, WholeWhileUndamaged, Faithful, Vouched
  <2>3. ASSUME NEW h \in recorded' PROVE GoodHead(h)
    <3>1. q # <<>> /\ h \in q[Len(q)].heads
      BY <1>0, <2>3
    <3> QED
      BY <1>1, <2>2, <3>1 DEF GoodRows, GoodRow
  <2> QED
    BY <1>0, <1>3, <2>1, <2>3, AuditSameTable DEF OneHeadEach
<1> QED
  BY <1>4, <1>5, <1>6, <1>7 DEF AuditInv

(* What was recorded is still where it was recorded. *)
LEMMA RecordedIsThere ==
  ASSUME TableInv, AuditInv, ~damaged, NEW h \in recorded
  PROVE  /\ h.seq \in RecordAt(h.stream, h.seq)
         /\ \A i \in RecordAt(h.stream, h.seq) :
               log[h.stream][i].seq = h.seq /\ log[h.stream][i].digest = h.head_hash
         /\ h.seq \in Nat
<1> PICK s : s = h.stream
  OBVIOUS
<1>1. s \in AllStreams /\ GoodHead(h)
  BY DEF AuditInv, Course, NothingWrongYet
<1>2. Ledger!Chain(log[s])
  BY <1>1 DEF TableInv, WholeWhileUndamaged, Linked, Chained
<1>3. \A i \in 1 .. Len(log[s]) : log[s][i].seq = i
  BY <1>2 DEF Ledger!Chain
<1>4. h.seq \in 1 .. Len(log[s]) /\ log[s][h.seq].digest = h.head_hash /\ h.seq \in Nat
  <2>1. PICK i \in 1 .. Len(log[s]) : log[s][i].seq = h.seq /\ log[s][i].digest = h.head_hash
    BY <1>1 DEF GoodHead, HeadHolds
  <2>2. i = h.seq /\ h.seq \in Nat
    BY <1>1, <1>3, <2>1 DEF GoodHead
  <2> QED
    BY <2>1, <2>2
<1> QED
  BY <1>3, <1>4 DEF RecordAt, Numbered

LEMMA ObserveRecordStep ==
  ASSUME TableInv, AuditInv, ObserveRecord
  PROVE  AuditInv'
<1>0. /\ UNCHANGED <<vars, apc, unverified, failing, recorded, damaged, before>>
      /\ log' = log /\ apc = "observe"
  BY DEF ObserveRecord, damageVars, vars
<1> PICK h \in Looking : \E i \in RecordAt(h.stream, h.seq) :
        /\ Saw(h.stream, log[h.stream][i].seq, log[h.stream][i].digest)
        /\ unobserved' = unobserved \ {h}
  BY DEF ObserveRecord
<1> PICK i \in RecordAt(h.stream, h.seq) :
        /\ Saw(h.stream, log[h.stream][i].seq, log[h.stream][i].digest)
        /\ unobserved' = unobserved \ {h}
  OBVIOUS
<1> PICK s : s = h.stream
  OBVIOUS
<1>1. h \in unobserved /\ h \in recorded /\ s \in AllStreams
  BY DEF Looking, AuditInv, Course
<1>2. i \in 1 .. Len(log[s])
  BY DEF RecordAt, Numbered
<1>3. /\ DOMAIN observed' = DOMAIN observed \union {s}
      /\ observed'[s] = [seq |-> log[s][i].seq, digest |-> log[s][i].digest]
      /\ \A r \in DOMAIN observed : r # s => observed'[r] = observed[r]
  BY DEF Saw
<1>4. Course'
  BY <1>0 DEF AuditInv, Course
<1>5. PassedAreSound'
  BY <1>0, AuditSameTable DEF AuditInv, PassedAreSound
<1>6. ObservedIsThere'
  <2> SUFFICES ASSUME NEW r \in DOMAIN observed'
      PROVE  /\ r \in AllStreams
             /\ \/ observed'[r].digest = <<>>
                \/ \E k \in 1 .. Len(log[r]) :
                      observed'[r] = [seq |-> log[r][k].seq, digest |-> log[r][k].digest]
    BY <1>0 DEF ObservedIsThere
  <2>1. CASE r = s
    BY <1>1, <1>2, <1>3, <2>1
  <2>2. CASE r # s
    BY <1>3, <2>2 DEF AuditInv, ObservedIsThere
  <2> QED
    BY <2>1, <2>2
<1>7. NothingWrongYet'
  <2> SUFFICES ASSUME ~damaged
      PROVE  /\ failing = {} /\ OneHeadEach(recorded)
             /\ \A g \in recorded : GoodHead(g)' /\ (g \notin unobserved' => Matches(g)')
    BY <1>0 DEF NothingWrongYet, OneHeadEach
  <2>1. /\ failing = {} /\ OneHeadEach(recorded)
        /\ \A g \in recorded : GoodHead(g) /\ (g \notin unobserved => Matches(g))
    BY DEF AuditInv, NothingWrongYet
  <2>2. log[s][i].seq = h.seq /\ log[s][i].digest = h.head_hash /\ h.seq \in Nat
    BY <1>1, RecordedIsThere
  <2>3. Matches(h)'
    <3>1. observed'[s].seq = h.seq /\ observed'[s].digest = h.head_hash /\ s \in DOMAIN observed'
      BY <1>3, <2>2
    <3> QED
      BY <2>2, <3>1 DEF Matches
  <2>4. ASSUME NEW g \in recorded, g # h, g \notin unobserved' PROVE Matches(g)'
    <3>1. g.stream # s /\ Matches(g)
      BY <1>1, <2>1, <2>4 DEF OneHeadEach
    <3> QED
      BY <1>3, <3>1 DEF Matches
  <2> QED
    BY <1>0, <2>1, <2>3, <2>4, AuditSameTable
<1> QED
  BY <1>4, <1>5, <1>6, <1>7 DEF AuditInv

LEMMA NotThereStep ==
  ASSUME TableInv, AuditInv, NotThere
  PROVE  AuditInv'
<1>0. /\ UNCHANGED <<vars, unverified, failing, recorded, unobserved, observed, damaged, before>>
      /\ log' = log /\ apc = "observe" /\ apc' = "head"
  BY DEF NotThere, damageVars, vars
<1>1. Course'
  BY <1>0 DEF AuditInv, Course
<1>2. PassedAreSound'
  BY <1>0, AuditSameTable DEF AuditInv, PassedAreSound
<1>3. ObservedIsThere'
  BY <1>0 DEF AuditInv, ObservedIsThere
<1>4. damaged
  <2> SUFFICES ASSUME ~damaged PROVE FALSE
    OBVIOUS
  <2>1. PICK h \in Looking : RecordAt(h.stream, h.seq) = {}
    BY DEF NotThere
  <2>2. h \in recorded
    BY DEF Looking, AuditInv, Course
  <2> QED
    BY <2>1, <2>2, RecordedIsThere
<1>5. NothingWrongYet'
  BY <1>0, <1>4 DEF NothingWrongYet
<1> QED
  BY <1>1, <1>2, <1>3, <1>5 DEF AuditInv

LEMMA ObserveHeadStep ==
  ASSUME TableInv, AuditInv, ObserveHead
  PROVE  AuditInv'
<1>0. /\ UNCHANGED <<vars, unverified, failing, recorded, damaged, before>>
      /\ log' = log /\ apc = "head" /\ apc' = "observe"
  BY DEF ObserveHead, damageVars, vars
<1> PICK h \in Looking :
        /\ IF Reaches(h.stream) THEN Saw(h.stream, Last(h.stream), <<>>) ELSE UNCHANGED observed
        /\ unobserved' = unobserved \ {h}
  BY DEF ObserveHead
<1>1. h.stream \in AllStreams
  BY DEF Looking, AuditInv, Course
<1>2. Course'
  BY <1>0 DEF AuditInv, Course
<1>3. PassedAreSound'
  BY <1>0, AuditSameTable DEF AuditInv, PassedAreSound
<1>4. ObservedIsThere'
  <2>1. CASE UNCHANGED observed
    BY <1>0, <2>1 DEF AuditInv, ObservedIsThere
  <2>2. CASE Saw(h.stream, Last(h.stream), <<>>)
    <3> SUFFICES ASSUME NEW r \in DOMAIN observed'
        PROVE  /\ r \in AllStreams
               /\ \/ observed'[r].digest = <<>>
                  \/ \E k \in 1 .. Len(log[r]) :
                        observed'[r] = [seq |-> log[r][k].seq, digest |-> log[r][k].digest]
      BY <1>0 DEF ObservedIsThere
    <3>1. CASE r = h.stream
      BY <1>1, <2>2, <3>1 DEF Saw
    <3>2. CASE r # h.stream
      <4>1. r \in DOMAIN observed /\ observed'[r] = observed[r]
        BY <2>2, <3>2 DEF Saw
      <4> QED
        BY <4>1 DEF AuditInv, ObservedIsThere
    <3> QED
      BY <3>1, <3>2
  <2> QED
    BY <2>1, <2>2
<1>5. damaged
  BY <1>0 DEF AuditInv, NothingWrongYet
<1>6. NothingWrongYet'
  BY <1>0, <1>5 DEF NothingWrongYet
<1> QED
  BY <1>2, <1>3, <1>4, <1>6 DEF AuditInv

LEMMA AuditEndsStep ==
  ASSUME TableInv, AuditInv, AuditEnds
  PROVE  AuditInv'
<1>0. /\ UNCHANGED <<vars, unverified, failing, recorded, unobserved, observed, damaged, before>>
      /\ log' = log /\ apc = "observe" /\ apc' = "done" /\ unobserved = {}
  BY DEF AuditEnds, damageVars, vars
<1>1. Course'
  BY <1>0 DEF AuditInv, Course
<1>2. PassedAreSound'
  BY <1>0, AuditSameTable DEF AuditInv, PassedAreSound
<1>3. ObservedIsThere'
  BY <1>0 DEF AuditInv, ObservedIsThere
<1>4. NothingWrongYet'
  <2>1. \A h : Matches(h) => Matches(h)'
    BY <1>0 DEF Matches
  <2> QED
    BY <1>0, <2>1, AuditSameTable DEF AuditInv, NothingWrongYet, OneHeadEach
<1> QED
  BY <1>1, <1>2, <1>3, <1>4 DEF AuditInv

LEMMA AuditStep == TableInv /\ AuditInv /\ [AuditNext]_allVars => AuditInv'
<1> SUFFICES ASSUME TableInv, AuditInv, [AuditNext]_allVars PROVE AuditInv'
  OBVIOUS
<1>1. CASE Auditing
  BY <1>1, AuditBeginsStep, VerifyStreamStep, ReadCheckpointStep, ObserveRecordStep,
     NotThereStep, ObserveHeadStep, AuditEndsStep DEF Auditing
<1> QED
  BY <1>1, Kinds, AuditGoesOn, AuditOfDamaged

LEMMA AlwaysAuditing == AuditSpec => []AuditInv
  BY AuditInit0, AlwaysTraced, AuditStep, PTL DEF AuditSpec

(* Whatever is appended between its statements, and however many streams   *)
(* and transactions there are, an audit of a log that was not damaged      *)
(* passes.                                                                 *)
THEOREM NeverAFalseAlarm == AuditSpec => []NoFalseAlarm
<1>1. AuditInv => NoFalseAlarm
  BY DEF AuditInv, Course, NothingWrongYet, NoFalseAlarm, Valid
<1> QED
  BY <1>1, AlwaysAuditing, PTL

----------------------------------------------------------------------------
(* What a passing audit says of a damaged log. *)

(* A head that was held before the damage and is observed now vouches for  *)
(* its stream up to its number.                                            *)
LEMMA HeadVouches ==
  ASSUME TableInv, AuditInv, NEW h \in recorded, HeldBefore(h), Matches(h), Sound(h.stream)
  PROVE  SameUpTo(h.stream, h.seq)
<1> PICK R : RowsIn(R)
  BY DEF TableInv, Shape, Stored
<1> PICK Q : before \in [AllStreams -> Seq(Q)]
  BY DEF TableInv, WasWhole
<1> PICK s : s = h.stream
  OBVIOUS
<1>0. s \in AllStreams
  BY DEF AuditInv, Course
<1> PICK b \in Seq(Q) : b = before[s]
  BY <1>0
<1> PICK q \in Seq(R) : q = log[s]
  BY <1>0 DEF RowsIn
<1> PICK n : n = h.seq
  OBVIOUS
<1>1. n \in 1 .. Len(b) /\ b[n].digest = h.head_hash
  BY DEF HeldBefore
<1>2. Ledger!Chain(b) /\ PlainRows(b, s) /\ PlainRows(q, s)
  BY <1>0 DEF TableInv, WasWhole, StreamsTraced, StreamRows
<1>3. b[n].digest = Ledger!Digest(Ledger!Body(b[n])) /\ \A j \in 1 .. Len(b) : b[j].seq = j
  BY <1>1, <1>2 DEF Ledger!Chain
<1>4. h.head_hash # <<>>
  BY <1>1, <1>3, DigestIsLink
<1>5. s \in DOMAIN observed /\ observed[s].digest = h.head_hash
  BY DEF Matches
<1>6. PICK i \in 1 .. Len(q) :
         observed[s] = [seq |-> q[i].seq, digest |-> q[i].digest]
  BY <1>4, <1>5 DEF AuditInv, ObservedIsThere
<1> PICK r : r = q[i]
  OBVIOUS
<1> PICK o : o = b[n]
  OBVIOUS
<1>7. r.digest = o.digest
  BY <1>1, <1>5, <1>6
<1>8. r.digest = Ledger!Digest(Ledger!Body(r)) /\ o.digest = Ledger!Digest(Ledger!Body(o))
  BY <1>3 DEF Sound
<1>9. PlainRow(r, s) /\ PlainRow(o, s)
  BY <1>1, <1>2 DEF PlainRows
<1>10. r = o
  <2>1. Ledger!Digest(Ledger!Body(r)) = Ledger!Digest(Ledger!Body(o))
    BY <1>7, <1>8
  <2> QED
    BY <1>7, <1>9, <2>1, SameRow
<1>11. SameUpTo(s, i)
  BY <1>1, <1>10 DEF Sound
<1>12. q[i] = b[i] /\ i \in 1 .. Len(b)
  BY <1>11 DEF SameUpTo
<1>13. i = n
  <2>1. b[i] = b[n] /\ b[i].seq = i /\ b[n].seq = n
    BY <1>1, <1>3, <1>10, <1>12
  <2> QED
    BY <2>1
<1> QED
  BY <1>11, <1>13

(* Also for every value of the constants: what a checkpoint vouched for    *)
(* before the damage is all there, unchanged, when an audit passes; and    *)
(* every record that is there has all those before it.                     *)
THEOREM VouchedStaysIntact == AuditSpec => []VouchedIsIntact
<1>1. TableInv /\ AuditInv => VouchedIsIntact
  <2> SUFFICES ASSUME TableInv, AuditInv, apc = "done", Valid PROVE VouchedIsIntact
    BY DEF VouchedIsIntact, CheckpointsVouch, OnlyTailsCanGo
  <2>1. \A s \in AllStreams : Sound(s)
    BY DEF AuditInv, Course, PassedAreSound, Valid
  <2>2. OnlyTailsCanGo
    BY <2>1 DEF OnlyTailsCanGo, Sound
  <2>3. CheckpointsVouch
    <3> SUFFICES ASSUME NEW i \in 1 .. Len(before[Checkpoints]),
                        before[Checkpoints][i].heads = recorded,
                        NEW h \in recorded
        PROVE  SameUpTo(h.stream, h.seq)
      BY DEF CheckpointsVouch
    <3>1. HeldBefore(h)
      BY StreamFacts DEF TableInv, WasWhole
    <3>2. Matches(h) /\ Sound(h.stream)
      BY <2>1 DEF Valid, AuditInv, Course
    <3> QED
      BY <3>1, <3>2, HeadVouches
  <2> QED
    BY <2>2, <2>3 DEF VouchedIsIntact
<1> QED
  BY <1>1, AlwaysTraced, AlwaysAuditing, PTL

=============================================================================
