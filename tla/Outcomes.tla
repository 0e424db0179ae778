------------------------------ MODULE Outcomes ------------------------------
(***************************************************************************)
(* The outcome of one decision: report_outcome (control_plane/api/v1/      *)
(* decisions.py) called by several enforcement points, or by one of them   *)
(* again because an answer was lost, each call in a transaction of its own.*)
(* Client says which reports are sent, and when.                           *)
(*                                                                         *)
(* Reads see what is committed; the flush of the decision's row holds its  *)
(* lock, and the appends the stream's advisory lock, to the end of the     *)
(* transaction.                                                            *)
(***************************************************************************)
EXTENDS Integers, FiniteSets

CONSTANTS Calls,        \* calls of POST /v1/decisions/{id}/outcome
          NONE,
          Duties,       \* obligation types of the decision
          ControlPlane  \* CONTROL_PLANE_OBLIGATIONS

ASSUME NoneAssumption == NONE \notin Calls
ASSUME ControlPlaneAssumption == ControlPlane \subseteq Duties

VARIABLES unsupported,  \* the decision's unsupported_obligations: never changes
          record,       \* the outcome columns of the decision, as committed
          trail,        \* the outcome events sealed in the audit log
          pc,
          report,       \* call -> the body it was sent with, or Unsent
          draft,        \* call -> the outcome columns it has flushed
          rowLock,      \* the call that holds the row, or NONE
          streamLock    \* the call that holds the audit stream, or NONE

outcomeVars == <<unsupported, record, trail, pc, report, draft, rowLock, streamLock>>

----------------------------------------------------------------------------
OutcomeValues == {"enforced", "refused", "partial"}
MaybeCall == Calls \union {NONE}

Columns == [outcome : OutcomeValues \union {"none"}, by : MaybeCall,
            discharged : SUBSET Duties, undischarged : SUBSET Duties]

Unreported == [outcome |-> "none", by |-> NONE, discharged |-> {}, undischarged |-> {}]

(* OutcomeReport: a partial outcome names what was not discharged. *)
Report == {r \in [outcome : OutcomeValues, discharged : SUBSET Duties,
                  undischarged : SUBSET Duties] :
             r.outcome = "partial" => r.undischarged # {}}

Unsent == [outcome |-> "none", discharged |-> {}, undischarged |-> {}]

Event == [event : {"outcome", "contradicted", "conflict"}, by : Calls,
          outcome : OutcomeValues, discharged : SUBSET Duties, undischarged : SUBSET Duties]

(* Only an accepted outcome is sealed with both halves of its detail.      *)
Sealing(e, c, columns) ==
  [event |-> e, by |-> c, outcome |-> columns.outcome,
   discharged |-> IF e = "conflict" THEN {} ELSE columns.discharged,
   undischarged |-> IF e = "outcome" THEN columns.undischarged ELSE {}]

PCs == {"idle", "posted", "update", "seal", "commit", "conflict", "accepted", "refused", "failed"}

----------------------------------------------------------------------------
(* What a report claims about duties the control plane itself recorded as  *)
(* not carried out.                                                        *)
Contradicted(r) == r.discharged \cap unsupported \cap ControlPlane

(* Mutant: the report is believed. *)
BugUncorrected(c) ==
  [outcome |-> report[c].outcome, by |-> c, discharged |-> report[c].discharged,
   undischarged |-> report[c].undischarged]

(* The columns a report is recorded as: taken on trust, except where it    *)
(* contradicts the control plane's own record.                             *)
Corrected(c) ==
  LET r   == report[c]
      bad == Contradicted(r)
  IN  [outcome |-> IF bad = {} THEN r.outcome ELSE "partial", by |-> c,
       discharged |-> r.discharged \ bad, undischarged |-> r.undischarged \union bad]

----------------------------------------------------------------------------
(* What the control plane does not execute, or did not.  *)
OutcomeInit ==
  /\ unsupported \in {u \in SUBSET Duties : Duties \ ControlPlane \subseteq u}
  /\ record = Unreported
  /\ trail = {}
  /\ pc = [c \in Calls |-> "idle"]
  /\ report = [c \in Calls |-> Unsent]
  /\ draft = [c \in Calls |-> Unreported]
  /\ rowLock = NONE
  /\ streamLock = NONE

(* A report arrives. *)
Post(c, body) ==
  /\ pc[c] = "idle"
  /\ pc' = [pc EXCEPT ![c] = "posted"]
  /\ report' = [report EXCEPT ![c] = body]
  /\ UNCHANGED <<unsupported, record, trail, draft, rowLock, streamLock>>

(* Already reported with the same outcome: an idempotent repeat. *)
Repeat(c) ==
  /\ pc[c] = "posted"
  /\ record.outcome = report[c].outcome
  /\ pc' = [pc EXCEPT ![c] = "accepted"]
  /\ UNCHANGED <<unsupported, record, trail, report, draft, rowLock, streamLock>>

(* Mutant: the whole report has to be the same, not only its outcome. *)
BugComparesDetail(c) ==
  /\ pc[c] = "posted"
  /\ record.outcome # "none"
  /\ <<record.outcome, record.discharged>> # <<report[c].outcome, report[c].discharged>>
  /\ pc' = [pc EXCEPT ![c] = "conflict"]
  /\ UNCHANGED <<unsupported, record, trail, report, draft, rowLock, streamLock>>

(* Already reported with another one. *)
Conflict(c) ==
  /\ pc[c] = "posted"
  /\ record.outcome \notin {"none", report[c].outcome}
  /\ pc' = [pc EXCEPT ![c] = "conflict"]
  /\ UNCHANGED <<unsupported, record, trail, report, draft, rowLock, streamLock>>

(* Mutant: the 409 is raised without committing first, so the rollback     *)
(* takes the record of the conflict with it.                               *)
BugConflictRolledBack(c) ==
  /\ pc[c] = "conflict"
  /\ streamLock = NONE
  /\ pc' = [pc EXCEPT ![c] = "refused"]
  /\ UNCHANGED <<unsupported, record, trail, report, draft, rowLock, streamLock>>

(* The conflict is sealed and committed, and then the call is refused.     *)
SealConflict(c) ==
  /\ pc[c] = "conflict"
  /\ streamLock = NONE
  /\ trail' = trail \union {Sealing("conflict", c, report[c])}
  /\ pc' = [pc EXCEPT ![c] = "refused"]
  /\ UNCHANGED <<unsupported, record, report, draft, rowLock, streamLock>>

(* Not reported yet, as far as this call has seen. *)
Accept(c) ==
  /\ pc[c] = "posted"
  /\ record.outcome = "none"
  /\ draft' = [draft EXCEPT ![c] = Corrected(c)]
  /\ pc' = [pc EXCEPT ![c] = "update"]
  /\ UNCHANGED <<unsupported, record, trail, report, rowLock, streamLock>>

(* The flush: UPDATE decisions ... WHERE id = ..., nothing else in the     *)
(* WHERE clause.                                                           *)
Update(c) ==
  /\ pc[c] = "update"
  /\ rowLock = NONE
  /\ rowLock' = c
  /\ pc' = [pc EXCEPT ![c] = "seal"]
  /\ UNCHANGED <<unsupported, record, trail, report, draft, streamLock>>

(* The appends, in one stream: its lock is taken once. *)
Seal(c) ==
  /\ pc[c] = "seal"
  /\ streamLock = NONE
  /\ streamLock' = c
  /\ pc' = [pc EXCEPT ![c] = "commit"]
  /\ UNCHANGED <<unsupported, record, trail, report, draft, rowLock>>

(* Mutant: the discrepancy is corrected silently. *)
BugSilentCorrection(c) == {Sealing("outcome", c, draft[c])}

(* What the call seals: the outcome as recorded, and the discrepancy if    *)
(* the report was corrected.                                               *)
Sealed(c) ==
  {Sealing("outcome", c, draft[c])}
  \union (IF Contradicted(report[c]) = {} THEN {}
          ELSE {Sealing("contradicted", c, report[c])})

Release(c) ==
  /\ rowLock' = IF rowLock = c THEN NONE ELSE rowLock
  /\ streamLock' = IF streamLock = c THEN NONE ELSE streamLock

(* The ORM's UPDATE names the columns that differ from what was loaded,    *)
(* which was an unreported decision: an empty list is not written, and     *)
(* what another report wrote there meanwhile stays.                        *)
Written(c) ==
  [outcome |-> draft[c].outcome, by |-> c,
   discharged |-> IF draft[c].discharged = {} THEN record.discharged ELSE draft[c].discharged,
   undischarged |-> IF draft[c].undischarged = {} THEN record.undischarged ELSE draft[c].undischarged]

Commit(c) ==
  /\ pc[c] = "commit"
  /\ record' = Written(c)
  /\ trail' = trail \union Sealed(c)
  /\ Release(c)
  /\ pc' = [pc EXCEPT ![c] = "accepted"]
  /\ UNCHANGED <<unsupported, report, draft>>

(* An error, a dead process or a lost connection before the commit. *)
Rollback(c) ==
  /\ pc[c] \in {"posted", "update", "seal", "commit", "conflict"}
  /\ Release(c)
  /\ pc' = [pc EXCEPT ![c] = "failed"]
  /\ UNCHANGED <<unsupported, record, trail, report, draft>>

Step(c) ==
  \/ Repeat(c) \/ Conflict(c) \/ SealConflict(c)
  \/ Accept(c) \/ Update(c) \/ Seal(c) \/ Commit(c)

Handle(c) == Step(c) \/ Rollback(c)

----------------------------------------------------------------------------
(* Properties.                                                             *)

(* Whoever reports, and in whatever order the reports arrive, the record   *)
(* never says that a duty of the control plane was discharged when the     *)
(* decision itself says it was not, nor calls such a decision enforced on  *)
(* the strength of that claim.                                             *)
NoFalseDischarge ==
  /\ record.discharged \cap unsupported \cap ControlPlane = {}
  /\ \A c \in Calls : record.by = c /\ Contradicted(report[c]) # {} =>
        record.outcome = "partial" /\ Contradicted(report[c]) \subseteq record.undischarged

(* The row and the sealed trail agree: the outcome a decision shows is one *)
(* its reporter's event carries, with the same detail wherever that report *)
(* gave any, no detail is shown that no sealed outcome carries, and a      *)
(* correction is never silent.  So a decision one report was accepted of   *)
(* shows exactly that one; of overlapping reports it may show a mixture.   *)
TrailBacksRecord ==
  record.by # NONE =>
     LET outcomes == {e \in trail : e.event = "outcome"}
     IN  /\ \E e \in outcomes :
              /\ e.by = record.by /\ e.outcome = record.outcome
              /\ e.discharged \in {{}, record.discharged}
              /\ e.undischarged \in {{}, record.undischarged}
         /\ record.discharged # {} => \E e \in outcomes : e.discharged = record.discharged
         /\ record.undischarged # {} => \E e \in outcomes : e.undischarged = record.undischarged
         /\ Contradicted(report[record.by]) # {} =>
               Sealing("contradicted", record.by, report[record.by]) \in trail

(* No report vanishes: what the server has answered for with a 200 is on    *)
(* the trail, for a repeat under the name of one who said the same, and    *)
(* every call that got the 409 for a conflicting report has that conflict  *)
(* on the trail, although its handler raised.                              *)
NoReportVanishes ==
  \A c \in Calls :
    /\ pc[c] = "accepted" => \E e \in trail : e.outcome = report[c].outcome
    /\ pc[c] = "refused"  => Sealing("conflict", c, report[c]) \in trail

(* The record of a decision, its reports and the trail tell one story. *)
RecordMatchesTrail == NoFalseDischarge /\ TrailBacksRecord /\ NoReportVanishes

(* Callers that agree are not punished for repeating ("A repeat of the     *)
(* same report is idempotent"): none is refused while all of them report   *)
(* the same outcome, however much of it they say was discharged, and none  *)
(* of them contradicts the control plane's own record.                     *)
RetryNotPunished ==
  LET posted == {c \in Calls : pc[c] # "idle"}
  IN  (\A c, d \in posted : report[c].outcome = report[d].outcome /\ Contradicted(report[c]) = {})
      => \A c \in posted : pc[c] # "refused"
=============================================================================
