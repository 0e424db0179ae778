-------------------------- MODULE AuditVerification --------------------------
(***************************************************************************)
(* An auditor who verifies the audit log (GET /v1/audit/verify and the     *)
(* command audit verify) while AuditLog's transactions go on appending,    *)
(* and a table that may have been damaged: rows lost, altered or moved     *)
(* behind the application's back, by a restored backup or by hand, without *)
(* the audit key.  The damage is done while no transaction is open; what   *)
(* is appended afterwards continues from whatever is left.                 *)
(***************************************************************************)
EXTENDS AuditLog

VARIABLES apc,        \* where the audit is
          unverified, \* the streams it has still to recompute
          failing,    \* the streams that failed
          recorded,   \* the heads that the last checkpoint vouches for
          unobserved, \* those of them it has still to look up
          observed,   \* stream -> what it found there
          damaged,    \* has the table been damaged?
          before      \* the table as it was before that

auditVars  == <<apc, unverified, failing, recorded, unobserved, observed>>
damageVars == <<damaged, before>>
allVars    == <<vars, auditVars, damageVars>>

----------------------------------------------------------------------------
(* A sequence without what is at the places in S. *)
Without(q, S) ==
  LET Kept[i \in 0 .. Len(q)] ==
        IF i = 0 THEN <<>> ELSE IF i \in S THEN Kept[i - 1] ELSE Append(Kept[i - 1], q[i])
  IN  Kept[Len(q)]

(* The rows of a stream from start to end, in the order of their numbers.  *)
Rows(s, start, end) ==
  Without(log[s], {i \in 1 .. Len(log[s]) : log[s][i].seq \notin start .. end})

Numbered(s, n) == {i \in 1 .. Len(log[s]) : log[s][i].seq = n}

(* Mutant: a record is checked by itself, not against the one before it. *)
BugNoLinks(q, first) ==
  \A i \in 1 .. Len(q) : q[i].digest = Ledger!Digest(Ledger!Body(q[i]))

(* verify_chain from an expected starting link. *)
ChainIntact(q, first) ==
  \A i \in 1 .. Len(q) :
     /\ q[i].digest = Ledger!Digest(Ledger!Body(q[i]))
     /\ q[i].prev = IF i = 1 THEN first ELSE q[i - 1].digest
     /\ i > 1 => q[i].seq = q[i - 1].seq + 1

(* Mutant: every slice is expected to start at the genesis record. *)
BugStartsAtGenesis(s, start) == {GENESIS}

(* The links a slice may start from: one, or none when it is unknown. *)
StartingLinks(s, start) ==
  IF start = 1 THEN {GENESIS} ELSE {log[s][i].digest : i \in Numbered(s, start - 1)}

(* AuditService.verify. *)
verify(s, start, end) ==
  \E first \in StartingLinks(s, start) : ChainIntact(Rows(s, start, end), first)

Last(s) == IF log[s] = <<>> THEN 0 ELSE log[s][Len(log[s])].seq

----------------------------------------------------------------------------
AuditInit ==
  /\ Init
  /\ apc = "idle"
  /\ unverified = {}
  /\ failing = {}
  /\ recorded = {}
  /\ unobserved = {}
  /\ observed = <<>>
  /\ damaged = FALSE
  /\ before = NoRows

(* verify_all: the streams that have records, the checkpoints' included. *)
AuditBegins ==
  /\ apc = "idle"
  /\ unverified' = {s \in AllStreams : log[s] # <<>>}
  /\ apc' = "verify"
  /\ UNCHANGED <<vars, failing, recorded, unobserved, observed, damageVars>>

(* One turn of its loop: a statement that reads the whole stream. *)
VerifyStream ==
  /\ apc = "verify"
  /\ \E s \in unverified :
        /\ \A r \in unverified : s <= r
        /\ unverified' = unverified \ {s}
        /\ failing' = IF verify(s, 1, Last(s)) THEN failing ELSE failing \union {s}
  /\ UNCHANGED <<vars, apc, recorded, unobserved, observed, damageVars>>

(* _verify_last_checkpoint: the newest checkpoint, if there is any. *)
ReadCheckpoint ==
  /\ apc = "verify"
  /\ unverified = {}
  /\ recorded' = IF log[Checkpoints] = <<>> THEN {}
                 ELSE log[Checkpoints][Len(log[Checkpoints])].heads
  /\ unobserved' = recorded'
  /\ apc' = "observe"
  /\ UNCHANGED <<vars, unverified, failing, observed, damageVars>>

Saw(s, n, d) == observed' = [r \in DOMAIN observed \union {s} |->
                               IF r = s THEN [seq |-> n, digest |-> d] ELSE observed[r]]

(* Mutant: what the stream's newest record is now. *)
BugObservesHead(s, n) == {Len(log[s])} \ {0}

(* The record of the number that was vouched for. *)
RecordAt(s, n) == Numbered(s, n)

(* The heads are looked up in the order of their streams' names. *)
Looking == {h \in unobserved : \A g \in unobserved : h.stream <= g.stream}

ObserveRecord ==
  /\ apc = "observe"
  /\ \E h \in Looking : \E i \in RecordAt(h.stream, h.seq) :
        /\ Saw(h.stream, log[h.stream][i].seq, log[h.stream][i].digest)
        /\ unobserved' = unobserved \ {h}
  /\ UNCHANGED <<vars, apc, unverified, failing, recorded, damageVars>>

(* It is not there: another statement reads how far the stream goes now. *)
NotThere ==
  /\ apc = "observe"
  /\ \E h \in Looking : RecordAt(h.stream, h.seq) = {}
  /\ apc' = "head"
  /\ UNCHANGED <<vars, unverified, failing, recorded, unobserved, observed, damageVars>>

Reaches(s) == log[s] # <<>>

ObserveHead ==
  /\ apc = "head"
  /\ \E h \in Looking :
        /\ IF Reaches(h.stream) THEN Saw(h.stream, Last(h.stream), <<>>) ELSE UNCHANGED observed
        /\ unobserved' = unobserved \ {h}
  /\ apc' = "observe"
  /\ UNCHANGED <<vars, unverified, failing, recorded, damageVars>>

AuditEnds ==
  /\ apc = "observe"
  /\ unobserved = {}
  /\ apc' = "done"
  /\ UNCHANGED <<vars, unverified, failing, recorded, unobserved, observed, damageVars>>

(* Mutant: a stream that is as long as it was is taken to be the same. *)
BugComparesLength(h) ==
  h.stream \in DOMAIN observed /\ observed[h.stream].seq >= h.seq

(* verify_against_checkpoint: not missing, not truncated, not diverged. *)
Matches(h) ==
  /\ h.stream \in DOMAIN observed
  /\ observed[h.stream].seq >= h.seq
  /\ observed[h.stream].digest = h.head_hash

Valid == failing = {} /\ \A h \in recorded : Matches(h)

----------------------------------------------------------------------------
(* Damage.  Nobody without the key can make a digest, so that an altered   *)
(* or a moved row keeps the one it has.                                    *)

Lose == \E s \in AllStreams : \E S \in SUBSET (1 .. Len(log[s])) :
          log' = [log EXCEPT ![s] = Without(@, S)]

Alter == \E s \in AllStreams : \E i \in 1 .. Len(log[s]), t \in Txns :
           log' = [log EXCEPT ![s][i].by = t]

(* To the end of another stream, and renumbered to fit. *)
Move == \E s \in AllStreams, r \in AllStreams : \E i \in 1 .. Len(log[s]) :
          /\ s # r
          /\ log' = [log EXCEPT ![s] = Without(@, {i}),
                                ![r] = Append(@, [log[s][i] EXCEPT !.stream = r, !.seq = Last(r) + 1])]

Damage ==
  /\ ~damaged
  /\ apc = "idle"
  /\ \A t \in Txns : pc[t] \in {"idle", "ended"}
  /\ Lose \/ Alter \/ Move
  /\ log' # log
  /\ damaged' = TRUE
  /\ before' = log
  /\ UNCHANGED <<pc, plan, locks, pending, head, todo, heads, auditVars>>

AuditNext ==
  \/ Next /\ UNCHANGED <<auditVars, damageVars>>
  \/ AuditBegins \/ VerifyStream \/ ReadCheckpoint
  \/ ObserveRecord \/ NotThere \/ ObserveHead \/ AuditEnds
  \/ Damage

AuditSpec == AuditInit /\ [][AuditNext]_allVars

----------------------------------------------------------------------------
(* Properties.                                                             *)

(* An audit takes a statement per stream and per recorded head, without a  *)
(* lock, while records and checkpoints are appended: it never reports      *)
(* damage to a log that has not been damaged.                              *)
NoFalseAlarm == apc = "done" /\ ~Valid => damaged

(* The records of a stream up to a number, as they are and as they were. *)
SameUpTo(s, n) ==
  /\ Len(log[s]) >= n /\ Len(before[s]) >= n
  /\ \A i \in 1 .. n : log[s][i] = before[s][i]

(* What the checkpoints written before the damage vouched for.  A log that *)
(* passes has all of it as it was written, whatever was lost or altered    *)
(* and however the streams have grown since: a stream cut short that has   *)
(* grown to its old length does not pass for the old one.                  *)
CheckpointsVouch ==
  apc = "done" /\ Valid /\ damaged =>
     \A i \in 1 .. Len(before[Checkpoints]) :
        before[Checkpoints][i].heads = recorded =>
           \A h \in recorded : SameUpTo(h.stream, h.seq)

(* Without a checkpoint the chains alone still leave one kind of damage    *)
(* unseen: in a log that passes, a record that is there has all those      *)
(* before it, unchanged; only the end of a stream can be gone.             *)
OnlyTailsCanGo ==
  apc = "done" /\ Valid /\ damaged =>
     \A s \in AllStreams : \A i \in 1 .. Len(log[s]) :
        (\E j \in 1 .. Len(before[s]) : log[s][i] = before[s][j]) =>
           SameUpTo(s, i)

(* What an audit that passes says of a log that was damaged before. *)
VouchedIsIntact == CheckpointsVouch /\ OnlyTailsCanGo

(* Auditing a stream in slices says the same as auditing it in one go,     *)
(* wherever it is cut, also when rows are gone at the cut.                 *)
SlicesAgree ==
  \A s \in AllStreams : \A k \in 1 .. Last(s) :
     verify(s, 1, Last(s)) <=> verify(s, 1, k) /\ verify(s, k + 1, Last(s))
=============================================================================
