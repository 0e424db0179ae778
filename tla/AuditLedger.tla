---------------------------- MODULE AuditLedger ----------------------------
(***************************************************************************)
(* What the audit log promises its readers, with no database in sight: a   *)
(* set of hash chains that only ever grow, each by whole transactions.     *)
(*                                                                         *)
(* control_plane/audit/service.py (append) says of a record "the caller's  *)
(* transaction decides whether the event happened", and audit/chain.py     *)
(* says what it is for two records to be linked.  AuditLog, the detailed   *)
(* model of sessions, advisory locks and inserts, implements this module.  *)
(***************************************************************************)
EXTENDS Integers, Sequences

CONSTANTS Txns,        \* database transactions, each used at most once
          Partitions   \* CP_AUDIT_PARTITIONS: how many streams events go to

VARIABLE ledger        \* stream -> the sequence of its committed records

----------------------------------------------------------------------------
(* Streams are numbered; the last number is the stream of the checkpoints. *)

Streams     == 0 .. Partitions - 1
Checkpoints == Partitions
AllStreams  == 0 .. Partitions

(* The keyed digest, as an injective constructor over the signed bytes:   *)
(* two records have the same digest exactly when they sign the same body. *)
GENESIS      == <<"genesis">>
Digest(body) == <<"hmac", body>>

Body(r) == <<r.stream, r.seq, r.by, r.heads, r.prev>>

(* Chain(q): q is a chain from the genesis record, nothing missing, moved  *)
(* or altered.                                                             *)
Chain(q) ==
  \A i \in 1 .. Len(q) :
     /\ q[i].seq = i
     /\ q[i].prev = IF i = 1 THEN GENESIS ELSE q[i - 1].digest
     /\ q[i].digest = Digest(Body(q[i]))

Extends(q, r) ==
  /\ Len(q) <= Len(r)
  /\ \A i \in 1 .. Len(q) : r[i] = q[i]

(* Every record of the ledger that transaction t wrote. *)
WrittenBy(t, s) == {i \in 1 .. Len(ledger[s]) : ledger[s][i].by = t}

----------------------------------------------------------------------------
Init == ledger = [s \in AllStreams |-> <<>>]

(* One transaction commits: it has not written before, every record that  *)
(* appears is its own, and every stream keeps what it had.                *)
Commit(t) ==
  /\ \A s \in AllStreams : WrittenBy(t, s) = {}
  /\ \A s \in AllStreams :
        /\ Extends(ledger[s], ledger'[s])
        /\ Chain(ledger'[s])
        /\ \A i \in Len(ledger[s]) + 1 .. Len(ledger'[s]) : ledger'[s][i].by = t

Next == \E t \in Txns : Commit(t)

Spec == Init /\ [][Next]_ledger
=============================================================================
