---------------------------- MODULE ClientProofs ----------------------------
(***************************************************************************)
(* Proofs about Client and the Outcomes it extends, for any number of      *)
(* calls, questions and duties, any cache size, life of an entry, timeout  *)
(* and number of retries.                                                  *)
(***************************************************************************)
EXTENDS Client, FiniteSetTheorems, TLAPS

USE NoneAssumption, ControlPlaneAssumption

----------------------------------------------------------------------------
(* Outcomes: the record of a decision, the reports about it and the trail. *)

OutcomeTypeOK ==
  /\ unsupported \in SUBSET Duties
  /\ record \in Columns
  /\ trail \in SUBSET Event
  /\ pc \in [Calls -> PCs]
  /\ report \in [Calls -> Report \union {Unsent}]
  /\ draft \in [Calls -> Columns]
  /\ rowLock \in MaybeCall /\ streamLock \in MaybeCall

Reporters == {c \in Calls : pc[c] # "idle"}

ReportsArrived == \A c \in Reporters : report[c] \in Report

(* What a call has flushed and not committed is its corrected report.      *)
DraftsCorrected == \A c \in Calls : pc[c] \in {"update", "seal", "commit"} => draft[c] = Corrected(c)

(* A report that was accepted is sealed as corrected.                      *)
Recorded(b) ==
  /\ pc[b] = "accepted"
  /\ Sealing("outcome", b, Corrected(b)) \in trail
  /\ Contradicted(report[b]) # {} => Sealing("contradicted", b, report[b]) \in trail

(* The row shows its outcome, and the detail it gave.                      *)
Backed(b) ==
  /\ Recorded(b)
  /\ record.by = b /\ record.outcome = Corrected(b).outcome
  /\ Corrected(b).discharged \in {{}, record.discharged}
  /\ Corrected(b).undischarged \in {{}, record.undischarged}

(* Where it gave none, the row may show that of another one.               *)
DetailBacked ==
  /\ record.discharged # {} => \E d \in Calls : Recorded(d) /\ record.discharged = Corrected(d).discharged
  /\ record.undischarged # {} => \E d \in Calls : Recorded(d) /\ record.undischarged = Corrected(d).undischarged

RecordBacked == record = Unreported \/ ((\E b \in Calls : Backed(b)) /\ DetailBacked)

(* The trail speaks of calls that were made, and only corrects those that  *)
(* had to be.                                                              *)
TrailDeserved ==
  \A e \in trail : e.by \in Reporters /\ (e.event = "contradicted" => Contradicted(report[e.by]) # {})

(* A conflict takes two that do not agree, or one that is corrected.       *)
Quarrel ==
  \/ \E c, d \in Reporters : report[c].outcome # report[d].outcome
  \/ \E c \in Reporters : Contradicted(report[c]) # {}

ConflictsHaveReason == (\E c \in Calls : pc[c] \in {"conflict", "refused"}) => Quarrel

Story ==
  /\ OutcomeTypeOK /\ ReportsArrived /\ DraftsCorrected /\ RecordBacked
  /\ NoReportVanishes /\ TrailDeserved /\ ConflictsHaveReason

LEMMA CorrectedType ==
  ASSUME OutcomeTypeOK, NEW c \in Calls, report[c] \in Report
  PROVE  /\ Corrected(c) \in Columns /\ Corrected(c).by = c
         /\ Corrected(c).outcome \in OutcomeValues
         /\ Contradicted(report[c]) = {} => Corrected(c).outcome = report[c].outcome
         /\ Contradicted(report[c]) # {} =>
              Corrected(c).outcome = "partial" /\ Contradicted(report[c]) \subseteq Corrected(c).undischarged
         /\ Corrected(c).discharged \cap unsupported \cap ControlPlane = {}
  BY DEF OutcomeTypeOK, Corrected, Contradicted, Columns, Report, OutcomeValues, MaybeCall

LEMMA SealingType ==
  ASSUME NEW e \in {"outcome", "contradicted", "conflict"}, NEW c \in Calls, NEW r,
         r.outcome \in OutcomeValues, r.discharged \in SUBSET Duties, r.undischarged \in SUBSET Duties
  PROVE  /\ Sealing(e, c, r) \in Event /\ Sealing(e, c, r).by = c
         /\ Sealing(e, c, r).outcome = r.outcome /\ Sealing(e, c, r).event = e
  BY DEF Sealing, Event

LEMMA OutcomeSealed ==
  ASSUME OutcomeTypeOK, ReportsArrived, NEW b \in Calls, Recorded(b)
  PROVE  /\ b \in Reporters /\ report[b] \in Report
         /\ \E e \in {x \in trail : x.event = "outcome"} :
              /\ e.by = b /\ e.outcome = Corrected(b).outcome
              /\ e.discharged = Corrected(b).discharged /\ e.undischarged = Corrected(b).undischarged
<1>1. b \in Reporters /\ report[b] \in Report
  BY DEF Recorded, Reporters, ReportsArrived
<1>2. LET e == Sealing("outcome", b, Corrected(b))
      IN  /\ e \in trail /\ e.event = "outcome" /\ e.by = b /\ e.outcome = Corrected(b).outcome
          /\ e.discharged = Corrected(b).discharged /\ e.undischarged = Corrected(b).undischarged
  BY DEF Recorded, Sealing
<1> QED
  BY <1>1, <1>2

(* What RecordMatchesTrail and RetryNotPunished need is in the invariant.  *)
LEMMA StoryMatches ==
  ASSUME Story
  PROVE  RecordMatchesTrail /\ RetryNotPunished
<1> USE DEF Story
<1>1. NoFalseDischarge
  <2>1. CASE record = Unreported
    BY <2>1 DEF NoFalseDischarge, Unreported
  <2>2. ASSUME NEW b \in Calls, Backed(b), DetailBacked PROVE NoFalseDischarge
    <3>1. report[b] \in Report
      BY <2>2, OutcomeSealed DEF Backed
    <3>2. record.discharged \cap unsupported \cap ControlPlane = {}
      <4>1. CASE record.discharged = {}
        BY <4>1
      <4>2. ASSUME NEW d \in Calls, Recorded(d), record.discharged = Corrected(d).discharged
            PROVE  record.discharged \cap unsupported \cap ControlPlane = {}
        BY <4>2, OutcomeSealed, CorrectedType
      <4> QED
        BY <2>2, <4>1, <4>2 DEF DetailBacked
    <3>3. ASSUME Contradicted(report[b]) # {}
          PROVE  record.outcome = "partial" /\ Contradicted(report[b]) \subseteq record.undischarged
      BY <2>2, <3>1, <3>3, CorrectedType DEF Backed
    <3> QED
      BY <2>2, <3>2, <3>3 DEF Backed, NoFalseDischarge
  <2> QED
    BY <2>1, <2>2 DEF RecordBacked
<1>2. TrailBacksRecord
  <2>1. CASE record = Unreported
    BY <2>1 DEF TrailBacksRecord, Unreported
  <2>2. ASSUME NEW b \in Calls, Backed(b), DetailBacked PROVE TrailBacksRecord
    <3> DEFINE outcomes == {e \in trail : e.event = "outcome"}
    <3>1. \E e \in outcomes :
            /\ e.by = record.by /\ e.outcome = record.outcome
            /\ e.discharged \in {{}, record.discharged} /\ e.undischarged \in {{}, record.undischarged}
      BY <2>2, OutcomeSealed DEF Backed
    <3>2. record.discharged # {} => \E e \in outcomes : e.discharged = record.discharged
      BY <2>2, OutcomeSealed DEF DetailBacked
    <3>3. record.undischarged # {} => \E e \in outcomes : e.undischarged = record.undischarged
      BY <2>2, OutcomeSealed DEF DetailBacked
    <3>4. Contradicted(report[record.by]) # {} => Sealing("contradicted", record.by, report[record.by]) \in trail
      BY <2>2 DEF Backed, Recorded
    <3> QED
      BY <3>1, <3>2, <3>3, <3>4 DEF TrailBacksRecord
  <2> QED
    BY <2>1, <2>2 DEF RecordBacked
<1>3. RetryNotPunished
  BY DEF RetryNotPunished, ConflictsHaveReason, Quarrel, Reporters
<1> QED
  BY <1>1, <1>2, <1>3 DEF RecordMatchesTrail

LEMMA StoryBegins ==
  ASSUME OutcomeInit
  PROVE  Story
<1> USE DEF OutcomeInit
<1>1. OutcomeTypeOK
  BY DEF OutcomeTypeOK, Columns, Unreported, MaybeCall, PCs, Report, Unsent
<1> QED
  BY <1>1 DEF Story, ReportsArrived, DraftsCorrected, RecordBacked, NoReportVanishes, TrailDeserved,
              ConflictsHaveReason, Reporters

(* A step after which nothing that was said is unsaid: what Handle and     *)
(* Post may do to the part of the story that is there already.             *)
Remembers ==
  /\ unsupported' = unsupported /\ trail \subseteq trail'
  /\ \A c \in Reporters : report'[c] = report[c] /\ pc'[c] # "idle"

LEMMA Remembered ==
  ASSUME Story, OutcomeTypeOK', Remembers
  PROVE  /\ \A c \in Reporters : (Contradicted(report[c]))' = Contradicted(report[c])
         /\ \A c \in Reporters : Corrected(c)' = Corrected(c)
         /\ Quarrel => Quarrel'
         /\ \A e \in trail : e.by \in Reporters'
                             /\ (e.event = "contradicted" => Contradicted(report[e.by])' # {})
<1>1. \A c \in Reporters : (Contradicted(report[c]))' = Contradicted(report[c])
  BY DEF Remembers, Contradicted
<1>2. \A c \in Reporters : Corrected(c)' = Corrected(c)
  BY <1>1 DEF Remembers, Corrected
<1>3. \A c \in Reporters : c \in Reporters'
  BY DEF Remembers, Reporters
<1>4. Quarrel => Quarrel'
  BY <1>1, <1>3 DEF Quarrel, Remembers
<1> QED
  BY <1>1, <1>2, <1>3, <1>4 DEF Story, TrailDeserved

LEMMA PostKeepsStory ==
  ASSUME Story, NEW c \in Calls, NEW body \in Report, Post(c, body)
  PROVE  Story'
<1> USE DEF Post
<1>1. OutcomeTypeOK'
  BY DEF Story, OutcomeTypeOK, PCs
<1>2. \A d \in Calls : d # c => pc'[d] = pc[d] /\ report'[d] = report[d]
  BY DEF Story, OutcomeTypeOK
<1>3. pc'[c] = "posted" /\ report'[c] = body /\ pc[c] = "idle" /\ c \notin Reporters
  BY DEF Story, OutcomeTypeOK, Reporters
<1>4. Remembers
  BY <1>2, <1>3 DEF Remembers, Reporters
<1>5. ReportsArrived'
  BY <1>2, <1>3 DEF Story, ReportsArrived, Reporters
<1>6. DraftsCorrected'
  <2> SUFFICES ASSUME NEW d \in Calls, pc'[d] \in {"update", "seal", "commit"}
               PROVE  draft'[d] = Corrected(d)'
    BY DEF DraftsCorrected
  <2> QED
    BY <1>1, <1>2, <1>3, <1>4, Remembered DEF Story, DraftsCorrected, Reporters
<1>7. RecordBacked'
  <2>1. \A b \in Calls : Recorded(b) => b \in Reporters /\ b # c
    BY <1>3 DEF Recorded, Reporters
  <2>2. \A b \in Calls : Recorded(b) => Recorded(b)' /\ Corrected(b)' = Corrected(b)
    BY <1>1, <1>2, <1>4, <2>1, Remembered DEF Recorded
  <2>3. \A b \in Calls : Backed(b) => Backed(b)'
    BY <2>2 DEF Backed
  <2>4. DetailBacked => DetailBacked'
    BY <2>2 DEF DetailBacked
  <2> QED
    BY <2>3, <2>4 DEF Story, RecordBacked
<1>8. NoReportVanishes'
  BY <1>2, <1>3 DEF Story, NoReportVanishes
<1>9. TrailDeserved'
  BY <1>1, <1>4, Remembered DEF TrailDeserved
<1>10. ConflictsHaveReason'
  BY <1>1, <1>2, <1>3, <1>4, Remembered DEF Story, ConflictsHaveReason
<1> QED
  BY <1>1, <1>5, <1>6, <1>7, <1>8, <1>9, <1>10 DEF Story

(* A handler never changes what was reported.                              *)
LEMMA HandleRemembers ==
  ASSUME Story, NEW c \in Calls, Handle(c)
  PROVE  /\ Remembers /\ report' = report /\ unsupported' = unsupported
         /\ pc[c] # "idle" /\ pc'[c] # "idle"
         /\ \A d \in Calls : d # c => pc'[d] = pc[d] /\ draft'[d] = draft[d]
<1> USE DEF Story, OutcomeTypeOK, Remembers, Reporters
<1>1. CASE Repeat(c)
  BY <1>1 DEF Repeat
<1>2. CASE Conflict(c)
  BY <1>2 DEF Conflict
<1>3. CASE SealConflict(c)
  BY <1>3 DEF SealConflict
<1>4. CASE Accept(c)
  BY <1>4 DEF Accept
<1>5. CASE Update(c)
  BY <1>5 DEF Update
<1>6. CASE Seal(c)
  BY <1>6 DEF Seal
<1>7. CASE Commit(c)
  BY <1>7 DEF Commit
<1>8. CASE Rollback(c)
  BY <1>8 DEF Rollback
<1> QED
  BY <1>1, <1>2, <1>3, <1>4, <1>5, <1>6, <1>7, <1>8 DEF Handle, Step

LEMMA HandleTypes ==
  ASSUME Story, NEW c \in Calls, Handle(c)
  PROVE  OutcomeTypeOK'
<1>1. report[c] \in Report
  BY HandleRemembers DEF Story, ReportsArrived, Reporters
<1>2. Corrected(c) \in Columns /\ Corrected(c).outcome \in OutcomeValues
  BY <1>1, CorrectedType DEF Story
<1>3. /\ report[c].outcome \in OutcomeValues
      /\ report[c].discharged \in SUBSET Duties /\ report[c].undischarged \in SUBSET Duties
  BY <1>1 DEF Report
<1> USE DEF OutcomeTypeOK
<1>4. CASE Repeat(c)
  BY <1>4 DEF Story, Repeat, PCs
<1>5. CASE Conflict(c)
  BY <1>5 DEF Story, Conflict, PCs
<1>6. CASE SealConflict(c)
  <2>1. Sealing("conflict", c, report[c]) \in Event
    BY <1>3, SealingType
  <2> QED
    BY <1>6, <2>1 DEF Story, SealConflict, PCs
<1>7. CASE Accept(c)
  BY <1>2, <1>7 DEF Story, Accept, PCs
<1>8. CASE Update(c)
  BY <1>8 DEF Story, Update, PCs, MaybeCall
<1>9. CASE Seal(c)
  BY <1>9 DEF Story, Seal, PCs, MaybeCall
<1>10. CASE Commit(c)
  <2>1. /\ draft[c] = Corrected(c)
        /\ draft[c].discharged \in SUBSET Duties /\ draft[c].undischarged \in SUBSET Duties
    BY <1>2, <1>10 DEF Story, DraftsCorrected, Commit, Columns
  <2>2. Sealed(c) \subseteq Event
    BY <1>2, <1>3, <2>1, SealingType DEF Sealed
  <2>3. Written(c) \in Columns
    BY <1>2, <2>1 DEF Story, Written, Columns, MaybeCall
  <2> QED
    BY <1>2, <1>10, <2>2, <2>3 DEF Story, Commit, Release, PCs, MaybeCall
<1>11. CASE Rollback(c)
  BY <1>11 DEF Story, Rollback, Release, PCs, MaybeCall
<1> QED
  BY <1>4, <1>5, <1>6, <1>7, <1>8, <1>9, <1>10, <1>11 DEF Handle, Step

LEMMA HandleKeepsStory ==
  ASSUME Story, NEW c \in Calls, Handle(c)
  PROVE  Story'
<1>1. OutcomeTypeOK' /\ Remembers /\ report' = report /\ unsupported' = unsupported
  BY HandleTypes, HandleRemembers
<1>2. pc[c] # "idle" /\ pc'[c] # "idle" /\ c \in Reporters
      /\ \A d \in Calls : d # c => pc'[d] = pc[d] /\ draft'[d] = draft[d]
  BY HandleRemembers DEF Reporters
<1>3. Reporters' = Reporters /\ Reporters \subseteq Calls
  BY <1>2 DEF Reporters
<1>4. \A d \in Calls : (Contradicted(report[d]))' = Contradicted(report[d]) /\ Corrected(d)' = Corrected(d)
  BY <1>1 DEF Contradicted, Corrected
<1>5. report[c] \in Report /\ report[c].outcome \in OutcomeValues
  BY <1>2 DEF Story, ReportsArrived, Report
<1>6. /\ Corrected(c) \in Columns /\ Corrected(c).outcome \in OutcomeValues
      /\ Contradicted(report[c]) = {} => Corrected(c).outcome = report[c].outcome
  BY <1>5, CorrectedType DEF Story
<1>7. ASSUME NEW b \in Calls, Recorded(b), b # c PROVE Recorded(b)'
  BY <1>1, <1>2, <1>4, <1>7 DEF Recorded, Remembers
<1>8. ReportsArrived'
  BY <1>1, <1>3 DEF Story, ReportsArrived
<1>9. DraftsCorrected'
  <2> SUFFICES ASSUME NEW d \in Calls, pc'[d] \in {"update", "seal", "commit"}
               PROVE  draft'[d] = Corrected(d)
    BY <1>4 DEF DraftsCorrected
  <2>1. CASE d # c
    BY <1>2, <2>1 DEF Story, DraftsCorrected
  <2>2. CASE d = c
    BY <2>2 DEF Story, OutcomeTypeOK, DraftsCorrected, Handle, Step, Repeat, Conflict, SealConflict, Accept,
                Update, Seal, Commit, Rollback
  <2> QED
    BY <2>1, <2>2
<1>10. RecordBacked /\ NoReportVanishes /\ TrailDeserved /\ ConflictsHaveReason /\ DraftsCorrected /\ OutcomeTypeOK
  BY DEF Story
<1>11. ASSUME record' = record, pc[c] # "accepted" PROVE RecordBacked'
  <2>1. \A b \in Calls : Recorded(b) => Recorded(b)'
    BY <1>7, <1>11 DEF Recorded
  <2>2. \A b \in Calls : Backed(b) => Backed(b)'
    BY <1>4, <1>11, <2>1 DEF Backed
  <2>3. DetailBacked => DetailBacked'
    BY <1>4, <1>11, <2>1 DEF DetailBacked
  <2> QED
    BY <1>10, <1>11, <2>2, <2>3 DEF RecordBacked
<1>12. ASSUME trail' = trail PROVE TrailDeserved'
  BY <1>1, <1>3, <1>10, <1>12 DEF TrailDeserved, Contradicted
<1>13. ASSUME pc'[c] \notin {"conflict", "refused"} \/ pc[c] = "conflict" PROVE ConflictsHaveReason'
  BY <1>1, <1>2, <1>3, <1>10, <1>13 DEF ConflictsHaveReason, Quarrel, Contradicted
<1>14. ASSUME pc'[c] \notin {"accepted", "refused"} PROVE NoReportVanishes'
  BY <1>1, <1>2, <1>10, <1>14 DEF NoReportVanishes, Remembers
<1>16. CASE Repeat(c)
  <2>1. NoReportVanishes'
    <3>1. record # Unreported
      BY <1>5, <1>16 DEF Repeat, Unreported, OutcomeValues
    <3>2. PICK b \in Calls : Backed(b)
      BY <1>10, <3>1 DEF RecordBacked
    <3>3. \E e \in trail : e.outcome = report[c].outcome
      BY <1>16, <3>2 DEF Repeat, Backed, Recorded, Sealing
    <3> QED
      BY <1>2, <1>10, <1>16, <3>3 DEF NoReportVanishes, Repeat, OutcomeTypeOK
  <2> QED
    BY <1>1, <1>8, <1>9, <1>10, <1>11, <1>12, <1>13, <1>16, <2>1 DEF Repeat, Story, OutcomeTypeOK
<1>17. CASE Conflict(c)
  <2>1. Quarrel
    <3>1. record # Unreported
      BY <1>17 DEF Conflict, Unreported
    <3>2. PICK b \in Calls : Backed(b)
      BY <1>10, <3>1 DEF RecordBacked
    <3>3. b \in Reporters /\ record.outcome # report[c].outcome
      BY <1>17, <3>2 DEF Conflict, Backed, Recorded, Reporters
    <3>4. Contradicted(report[b]) = {} => record.outcome = report[b].outcome
      BY <1>10, <3>2, <3>3, CorrectedType DEF Backed, Story, ReportsArrived
    <3> QED
      BY <1>2, <3>3, <3>4 DEF Quarrel
  <2>2. ConflictsHaveReason'
    BY <1>1, <2>1, Remembered DEF ConflictsHaveReason
  <2> QED
    BY <1>1, <1>8, <1>9, <1>10, <1>11, <1>12, <1>14, <1>17, <2>2 DEF Conflict, Story, OutcomeTypeOK
<1>18. CASE SealConflict(c)
  <2>1. NoReportVanishes'
    BY <1>1, <1>2, <1>10, <1>18 DEF SealConflict, NoReportVanishes, OutcomeTypeOK
  <2>2. TrailDeserved'
    <3>1. Sealing("conflict", c, report[c]).by = c /\ Sealing("conflict", c, report[c]).event = "conflict"
      BY DEF Sealing
    <3> QED
      BY <1>1, <1>2, <1>3, <1>10, <1>18, <3>1 DEF SealConflict, TrailDeserved, Contradicted
  <2> QED
    BY <1>1, <1>8, <1>9, <1>11, <1>13, <1>18, <2>1, <2>2 DEF SealConflict, Story
<1>19. CASE Accept(c)
  BY <1>1, <1>8, <1>9, <1>10, <1>11, <1>12, <1>13, <1>14, <1>19 DEF Accept, Story, OutcomeTypeOK
<1>20. CASE Update(c)
  BY <1>1, <1>8, <1>9, <1>10, <1>11, <1>12, <1>13, <1>14, <1>20 DEF Update, Story, OutcomeTypeOK
<1>21. CASE Seal(c)
  BY <1>1, <1>8, <1>9, <1>10, <1>11, <1>12, <1>13, <1>14, <1>21 DEF Seal, Story, OutcomeTypeOK
<1>22. CASE Commit(c)
  <2>1. draft[c] = Corrected(c) /\ record' = Written(c) /\ pc[c] = "commit" /\ pc'[c] = "accepted"
    BY <1>10, <1>22 DEF Commit, DraftsCorrected, OutcomeTypeOK
  <2>2. /\ Sealing("outcome", c, Corrected(c)) \in trail'
        /\ Contradicted(report[c]) # {} => Sealing("contradicted", c, report[c]) \in trail'
    BY <1>22, <2>1 DEF Commit, Sealed
  <2>3. RecordBacked'
    <3>1. Recorded(c)'
      BY <1>1, <1>4, <2>1, <2>2 DEF Recorded
    <3>2. Backed(c)'
      BY <1>4, <2>1, <3>1 DEF Backed, Written
    <3>3. \A b \in Calls : Recorded(b) => Recorded(b)'
      BY <1>7, <2>1 DEF Recorded
    <3>4. record = Unreported \/ DetailBacked
      BY <1>10 DEF RecordBacked
    <3>5. record'.discharged # {} =>
            \E d \in Calls : Recorded(d)' /\ record'.discharged = Corrected(d)'.discharged
      BY <1>4, <2>1, <3>1, <3>3, <3>4 DEF DetailBacked, Written, Unreported
    <3>6. record'.undischarged # {} =>
            \E d \in Calls : Recorded(d)' /\ record'.undischarged = Corrected(d)'.undischarged
      BY <1>4, <2>1, <3>1, <3>3, <3>4 DEF DetailBacked, Written, Unreported
    <3> QED
      BY <3>2, <3>5, <3>6 DEF RecordBacked, DetailBacked
  <2>4. NoReportVanishes'
    <3>1. \E e \in trail' : e.outcome = report[c].outcome
      <4>1. CASE Contradicted(report[c]) = {}
        BY <1>6, <2>2, <4>1 DEF Sealing
      <4>2. CASE Contradicted(report[c]) # {}
        BY <2>2, <4>2 DEF Sealing
      <4> QED
        BY <4>1, <4>2
    <3> QED
      BY <1>1, <1>2, <1>10, <2>1, <3>1 DEF NoReportVanishes, Remembers
  <2>5. TrailDeserved'
    <3>1. \A e \in Sealed(c) : e.by = c /\ (e.event = "contradicted" => Contradicted(report[c]) # {})
      BY DEF Sealed, Sealing
    <3> QED
      BY <1>1, <1>2, <1>3, <1>10, <1>22, <3>1 DEF Commit, TrailDeserved, Contradicted
  <2> QED
    BY <1>1, <1>8, <1>9, <1>13, <2>1, <2>3, <2>4, <2>5 DEF Story
<1>23. CASE Rollback(c)
  BY <1>1, <1>8, <1>9, <1>10, <1>11, <1>12, <1>13, <1>14, <1>23 DEF Rollback, Story, OutcomeTypeOK
<1> QED
  BY <1>16, <1>17, <1>18, <1>19, <1>20, <1>21, <1>22, <1>23 DEF Handle, Step

LEMMA StoryStands ==
  ASSUME Story, UNCHANGED outcomeVars
  PROVE  Story'
<1> USE DEF outcomeVars
<1>1. OutcomeTypeOK' /\ Reporters' = Reporters /\ ReportsArrived' /\ NoReportVanishes'
  BY DEF Story, OutcomeTypeOK, Reporters, ReportsArrived, NoReportVanishes
<1>2. DraftsCorrected' /\ RecordBacked'
  BY DEF Story, DraftsCorrected, RecordBacked, DetailBacked, Backed, Recorded, Corrected, Contradicted
<1>3. TrailDeserved' /\ ConflictsHaveReason'
  BY <1>1 DEF Story, TrailDeserved, ConflictsHaveReason, Quarrel, Contradicted
<1> QED
  BY <1>1, <1>2, <1>3 DEF Story

----------------------------------------------------------------------------
(* Client: what its calls report.                                          *)

(* Who reports through enforce or enforcing, and only for itself, claims   *)
(* nothing the control plane denies.                                       *)
Believed ==
  /\ fair \in [Calls -> BOOLEAN]
  /\ \A c \in Calls : fair[c] => c \in Reporters /\ Contradicted(report[c]) = {}

(* What the SDK composes is a report, and a true one where it has to be.   *)
LEMMA ActsReport ==
  ASSUME OutcomeTypeOK, NEW can_satisfy, NEW act \in Acts(can_satisfy)
  PROVE  act.body \in Report /\ act.fair \in BOOLEAN /\ (act.fair => Contradicted(act.body) = {})
<1> DEFINE unmet == outstanding(can_satisfy)
<1>1. unmet \subseteq Duties
  BY DEF outstanding
<1>2. \A skipped \in Skips : Body("partial", skipped) \in Report
  <2>1. \A skipped \in Skips : skipped \subseteq Duties /\ skipped # {}
    BY ClientAssumption
  <2> QED
    BY <2>1 DEF Body, Report, OutcomeValues
<1>3. Body("refused", unmet) \in Report /\ Body("refused", Duties) \in Report /\ Body("enforced", {}) \in Report
  BY <1>1 DEF Body, Report, OutcomeValues
<1>4. Contradicted(Body("refused", Duties)) = {}
  BY DEF Contradicted, Body
<1>5. ASSUME can_satisfy \intersect ControlPlane = {} PROVE Contradicted(Body("refused", unmet)) = {}
  BY <1>5 DEF Contradicted, Body, outstanding
<1>6. ASSUME can_satisfy \intersect ControlPlane = {}, unmet = {} PROVE Contradicted(Body("enforced", {})) = {}
  BY <1>6 DEF Contradicted, Body, outstanding
<1>7. CASE act \in [fair : {FALSE}, body : {Body("partial", skipped) : skipped \in Skips}]
  BY <1>2, <1>7
<1>8. CASE act \in [fair : {can_satisfy \intersect ControlPlane = {}},
                    body : IF unmet # {} THEN {Body("refused", unmet)}
                           ELSE {Body("refused", Duties), Body("enforced", {})}]
  <2>1. act.fair \in BOOLEAN /\ (act.fair => can_satisfy \intersect ControlPlane = {})
    BY <1>8
  <2>2. \/ unmet # {} /\ act.body = Body("refused", unmet)
        \/ unmet = {} /\ act.body \in {Body("refused", Duties), Body("enforced", {})}
    BY <1>8
  <2> QED
    BY <1>3, <1>4, <1>5, <1>6, <2>1, <2>2
<1> QED
  BY <1>7, <1>8 DEF Acts

(* Every other step of Client leaves the outcome alone.                    *)
Unreporting(c) ==
  \/ Hit(c) \/ Miss(c) \/ Resend(c) \/ Unreachable(c) \/ Receive(c) \/ Rejected(c)
  \/ ServerError(c) \/ Await(c) \/ Poll(c) \/ PollFails(c) \/ Leave(c)
  \/ Serve(c) \/ Validate(c) \/ Spend(c)

LEMMA UnreportingQuiet ==
  ASSUME NEW c \in Calls, Unreporting(c)
  PROVE  UNCHANGED <<outcomeVars, fair>>
  BY DEF Unreporting, Hit, Miss, Resend, Unreachable, Receive, Rejected, Take, ServerError, Await, Poll,
         PollFails, Leave, Serve, Validate, Spend, local

Honest == Story /\ Believed

LEMMA HonestStep ==
  ASSUME Honest, [Next]_vars
  PROVE  Honest'
<1> USE DEF Honest
<1>1. ASSUME UNCHANGED <<outcomeVars, fair>> PROVE Honest'
  BY <1>1, StoryStands DEF Believed, Reporters, Contradicted, outcomeVars
<1>2. ASSUME NEW c \in Calls, Act(c) PROVE Honest'
  <2> DEFINE Reports(act) == IF answer[c].id = "followed"
                             THEN Post(c, act.body) /\ fair' = [fair EXCEPT ![c] = act.fair]
                             ELSE UNCHANGED <<outcomeVars, fair>>
  <2>0. PICK can_satisfy \in Abilities : \E act \in Acts(can_satisfy) : Reports(act)
    BY <1>2 DEF Act
  <2>1. PICK act \in Acts(can_satisfy) : Reports(act)
    BY <2>0
  <2>2. CASE answer[c].id = "followed"
    <3>1. act.body \in Report /\ act.fair \in BOOLEAN /\ (act.fair => Contradicted(act.body) = {})
      BY ActsReport DEF Story
    <3>2. Post(c, act.body) /\ fair' = [fair EXCEPT ![c] = act.fair]
      BY <2>1, <2>2
    <3>3. Story'
      BY <3>1, <3>2, PostKeepsStory
    <3>4. \A d \in Calls : fair'[d] => d \in Reporters' /\ Contradicted(report[d])' = {}
      BY <3>1, <3>2 DEF Story, OutcomeTypeOK, Believed, Post, Reporters, Contradicted
    <3> QED
      BY <3>1, <3>2, <3>3, <3>4 DEF Believed
  <2> QED
    BY <1>1, <2>1, <2>2
<1>3. ASSUME NEW c \in Calls, Handle(c), UNCHANGED <<server, local, wire>> PROVE Honest'
  <2>1. Story' /\ fair' = fair
    BY <1>3, HandleKeepsStory DEF local
  <2>2. report' = report /\ unsupported' = unsupported /\ Reporters' = Reporters
    BY <1>3, HandleRemembers DEF Reporters
  <2> QED
    BY <2>1, <2>2 DEF Believed, Contradicted
<1>4. CASE SpendLate \/ Resolve \/ EditPolicies \/ Tick
  BY <1>1, <1>4 DEF SpendLate, Resolve, EditPolicies, Tick, local
<1>5. CASE UNCHANGED vars
  BY <1>1, <1>5 DEF vars, local
<1> QED
  BY <1>1, <1>2, <1>3, <1>4, <1>5, UnreportingQuiet DEF Next, Caller, Unreporting

LEMMA HonestAlways == Spec => []Honest
<1>1. Init => Honest
  BY StoryBegins DEF Init, Honest, Believed
<1> QED
  BY <1>1, HonestStep, PTL DEF Spec

(* Whatever is reported, by whom, in which order and with whatever          *)
(* failures: the record of the decision, the reports and the sealed trail  *)
(* tell one story (report_outcome).                                        *)
THEOREM RecordAlwaysMatches == Spec => []RecordMatchesTrail
<1>1. Honest => RecordMatchesTrail
  BY StoryMatches DEF Honest
<1> QED
  BY <1>1, HonestAlways, PTL

(* A report through enforce or enforcing that claims no duty of the        *)
(* control plane is never corrected, and no report is refused unless two   *)
(* of them disagree or one had to be corrected.                            *)
THEOREM HonestReportsAlwaysStand == Spec => []HonestReportsStand
<1>1. Honest => HonestReportsStand
  <2> SUFFICES ASSUME Honest PROVE HonestReportsStand
    OBVIOUS
  <2>1. RetryNotPunished
    BY StoryMatches DEF Honest
  <2>2. EnforcingIsBelieved
    BY DEF Honest, Believed, EnforcingIsBelieved, Story, TrailDeserved, Reporters
  <2> QED
    BY <2>1, <2>2 DEF HonestReportsStand
<1> QED
  BY <1>1, HonestAlways, PTL

----------------------------------------------------------------------------
(* Client: types.                                                          *)

Places    == {"idle", "out", "backoff", "holding", "polling", "napping", "ended"}
Approval  == [key : Keys, status : {"pending", "granted", "denied", "spent"},
              spends : Nat, late : Nat, raced : BOOLEAN]
Entry     == [key : Keys, decision : Decision, left : 0 .. TTL]
Carriers  == [phase : Carried, decision : Decision]
Messages  == {Nothing, Request} \union Carriers

ClientTypeOK ==
  /\ policy \in DOMAIN Becomes /\ edits \in Nat
  /\ approvals \in Seq(Approval) /\ followed \in BOOLEAN
  /\ ask \in [Calls -> Ask] /\ at \in [Calls -> Places]
  /\ tries \in [Calls -> Nat] /\ left \in [Calls -> Nat]
  /\ wire \in [Calls -> Messages] /\ answer \in [Calls -> Decision]
  /\ cache \in Seq(Entry)

LEMMA Bounds ==
  /\ TTL \in Nat /\ TTL > 0 /\ Timeout \in Nat /\ Timeout > 0
  /\ Patience \in Nat /\ Patience > 0 /\ Size \in Nat /\ Size > 0
  BY ClientAssumption

LEMMA DenialType ==
  ASSUME NEW key \in Keys
  PROVE  /\ denial(key) \in Decision /\ denial(key).effect = "deny" /\ denial(key).key = key
         /\ denial(key).approval = 0 /\ denial(key).redeemed = 0 /\ denial(key).id = "none"
         /\ denial(key).age = 0
  BY Bounds DEF denial, Decision, Effects

LEMMA PolicyType ==
  ASSUME ClientTypeOK
  PROVE  policy \in [Keys -> Effects]
  BY StartsAssumption DEF ClientTypeOK

LEMMA WireType ==
  ASSUME ClientTypeOK, NEW c \in Calls
  PROVE  /\ wire[c].phase \in Carried => wire[c] \in Carriers /\ wire[c].decision \in Decision
         /\ wire[c].phase \notin Carried => wire[c] \in {Nothing, Request}
         /\ Nothing.phase = "nothing" /\ Request.phase = "request" /\ Nothing # Request
         /\ "nothing" \notin Carried /\ "request" \notin Carried
         /\ "answer" \in Carried /\ "redeeming" \in Carried
  BY DEF ClientTypeOK, Messages, Carriers, Carried, Nothing, Request

LEMMA OlderType ==
  ASSUME NEW d \in Decision
  PROVE  /\ Older(d) \in Decision /\ Older(d).age <= d.age + 1 /\ Older(d).effect = d.effect
         /\ Older(d).key = d.key /\ Older(d).id = d.id /\ Older(d).approval = d.approval
         /\ Older(d).redeemed = d.redeemed
<1> DEFINE age == IF d.age = Timeout + TTL THEN d.age ELSE d.age + 1
<1>1. age \in 0 .. Timeout + TTL /\ age <= d.age + 1
  BY Bounds DEF Decision
<1>2. Older(d) = [d EXCEPT !.age = age]
  BY DEF Older
<1> QED
  BY <1>1, <1>2 DEF Decision

(* What a call that ends leaves behind.                                    *)
LEMMA EndType ==
  ASSUME ClientTypeOK, NEW c \in Calls, End(c)
  PROVE  /\ at' \in [Calls -> Places] /\ tries' \in [Calls -> Nat] /\ left' \in [Calls -> Nat]
         /\ answer' \in [Calls -> Decision]
         /\ answer'[c].redeemed = answer[c].redeemed /\ answer'[c].effect = "deny"
         /\ answer'[c].approval = 0 /\ answer'[c].key = ask[c].key
         /\ at'[c] = "ended" /\ \A d \in Calls : d # c => at'[d] = at[d] /\ left'[d] = left[d]
                                                         /\ answer'[d] = answer[d]
<1> DEFINE last == [denial(ask[c].key) EXCEPT !.redeemed = answer[c].redeemed]
<1>1. ask[c].key \in Keys /\ answer[c].redeemed \in Nat
  BY DEF ClientTypeOK, Ask, Decision
<1>2. last \in Decision /\ last.redeemed = answer[c].redeemed /\ last.effect = "deny"
      /\ last.approval = 0 /\ last.key = ask[c].key
  <2> DEFINE base == denial(ask[c].key)
  <2>1. base \in Decision /\ base.effect = "deny" /\ base.approval = 0 /\ base.key = ask[c].key
    BY <1>1, DenialType
  <2>2. last = [base EXCEPT !.redeemed = answer[c].redeemed]
    OBVIOUS
  <2> HIDE DEF base, last
  <2> QED
    BY <1>1, <2>1, <2>2 DEF Decision
<1>3. answer' = [answer EXCEPT ![c] = last]
  BY DEF End
<1> HIDE DEF last
<1> QED
  BY <1>2, <1>3 DEF End, ClientTypeOK, Places

LEMMA SendType ==
  ASSUME ClientTypeOK, NEW c \in Calls, Send(c)
  PROVE  /\ at' \in [Calls -> Places] /\ left' \in [Calls -> Nat] /\ wire' \in [Calls -> Messages]
         /\ at'[c] = "out" /\ left'[c] = Timeout /\ wire'[c] = Request
         /\ \A d \in Calls : d # c => at'[d] = at[d] /\ left'[d] = left[d] /\ wire'[d] = wire[d]
  BY Bounds DEF Send, ClientTypeOK, Places, Messages

(* The cache, after a put and after a drop: nothing in it is new but what  *)
(* was put.                                                                *)
LEMMA KeptIsOld ==
  ASSUME NEW S, cache \in Seq(S), NEW c, NEW decision,
         [key |-> ask[c].key, decision |-> decision, left |-> TTL] \in S
  PROVE  Kept(c, decision) \in Seq(S)
<1> DEFINE entry  == [key |-> ask[c].key, decision |-> decision, left |-> TTL]
           pruned == IF Len(cache) >= Size THEN Tail(cache) ELSE cache
           mine   == {i \in DOMAIN pruned : pruned[i].key = entry.key}
<1>1. pruned \in Seq(S)
  <2>1. CASE cache = <<>>
    BY <2>1, Bounds
  <2>2. CASE cache # <<>>
    BY <2>2
  <2> QED
    BY <2>1, <2>2
<1>2. entry \in S
  OBVIOUS
<1> HIDE DEF entry, pruned
<1>3. Append(pruned, entry) \in Seq(S)
  BY <1>1, <1>2
<1>4. [i \in DOMAIN pruned |-> IF i \in mine THEN entry ELSE pruned[i]] \in Seq(S)
  <2>1. DOMAIN pruned = 1 .. Len(pruned) /\ Len(pruned) \in Nat
    BY <1>1
  <2>2. \A i \in DOMAIN pruned : (IF i \in mine THEN entry ELSE pruned[i]) \in S
    BY <1>1, <1>2
  <2> HIDE DEF mine
  <2> QED
    BY <2>1, <2>2
<1>5. Kept(c, decision) = IF mine = {} THEN Append(pruned, entry)
                          ELSE [i \in DOMAIN pruned |-> IF i \in mine THEN entry ELSE pruned[i]]
  BY DEF Kept, entry, pruned
<1> QED
  BY <1>3, <1>4, <1>5

LEMMA RemainderIsOld ==
  ASSUME NEW S, NEW s \in Seq(S), NEW i \in DOMAIN s
  PROVE  RemoveAt(s, i) \in Seq(S)
<1>1. SubSeq(s, 1, i - 1) \in Seq(S) /\ SubSeq(s, i + 1, Len(s)) \in Seq(S)
  OBVIOUS
<1> QED
  BY <1>1 DEF RemoveAt

----------------------------------------------------------------------------
(* Client: where the answers come from, and how old they are.              *)

(* A decision belongs to its question, its approvals exist, and if it is   *)
(* an allow that was not recorded, somebody asked for advice.              *)
Sound(decision, key) ==
  /\ decision.key = key
  /\ decision.approval \in 0 .. Len(approvals) /\ decision.redeemed \in 0 .. Len(approvals)
  /\ decision.effect = "allow" /\ decision.id = "none" =>
       \E d \in Calls : ask[d] = [key |-> key, kind |-> "advise"]

(* An entry that is alive is as young as the time left to it says.         *)
SoundEntries ==
  {e \in Entry : /\ Sound(e.decision, e.key) /\ e.decision.redeemed = 0
                 /\ e.left > 0 => e.decision.age <= Timeout + TTL - e.left}

CacheSound == cache \in Seq(SoundEntries)

WireSound(c) ==
  /\ Sound(wire[c].decision, ask[c].key)
  /\ wire[c].decision.age <= Timeout - left[c]
  /\ wire[c].decision.redeemed # 0 => ask[c].kind = "redeem"
  /\ wire[c].phase = "redeeming" => wire[c].decision.redeemed # 0

CallSound(c) ==
  /\ Sound(answer[c], ask[c].key)
  /\ wire[c].phase \in Carried => WireSound(c)
  /\ wire[c] # Nothing => at[c] = "out"
  /\ at[c] = "out" => left[c] <= Timeout
  /\ at[c] = "holding" /\ answer[c].effect = "allow" => answer[c].age < Timeout + TTL
  /\ at[c] \in {"polling", "napping"} => ask[c].kind = "act" /\ answer[c].approval # 0
  /\ ask[c].kind = "redeem" /\ at[c] \in {"idle", "out", "backoff"} => answer[c].approval # 0

Held == ClientTypeOK /\ CacheSound /\ \A c \in Calls : CallSound(c)

(* Approvals are not forgotten, and advice stays advice.                   *)
Stays ==
  /\ Len(approvals) <= Len(approvals')
  /\ \A d \in Calls : ask[d].kind = "advise" => ask'[d] = ask[d]

Aside(d) ==
  /\ answer'[d] = answer[d] /\ wire'[d] = wire[d] /\ at'[d] = at[d]
  /\ left'[d] = left[d] /\ ask'[d] = ask[d]

LEMMA SoundStays ==
  ASSUME ClientTypeOK, ClientTypeOK', Stays, NEW d, NEW key, Sound(d, key)
  PROVE  Sound(d, key)'
<1>1. Len(approvals) \in Nat /\ Len(approvals') \in Nat
  BY DEF ClientTypeOK
<1>2. d.approval \in 0 .. Len(approvals') /\ d.redeemed \in 0 .. Len(approvals')
  BY <1>1 DEF Sound, Stays
<1>3. d.effect = "allow" /\ d.id = "none" => \E e \in Calls : ask'[e] = [key |-> key, kind |-> "advise"]
  <2> SUFFICES ASSUME d.effect = "allow", d.id = "none"
               PROVE  \E e \in Calls : ask'[e] = [key |-> key, kind |-> "advise"]
    OBVIOUS
  <2>1. PICK e \in Calls : ask[e] = [key |-> key, kind |-> "advise"]
    BY DEF Sound
  <2> QED
    BY <2>1 DEF Stays
<1> QED
  BY <1>2, <1>3 DEF Sound

LEMMA EntriesStay ==
  ASSUME ClientTypeOK, ClientTypeOK', Stays
  PROVE  SoundEntries \subseteq SoundEntries'
<1> SUFFICES ASSUME NEW e \in SoundEntries PROVE e \in SoundEntries'
  OBVIOUS
<1>1. Sound(e.decision, e.key)'
  BY SoundStays DEF SoundEntries
<1> QED
  BY <1>1 DEF SoundEntries

LEMMA SeqMono ==
  ASSUME NEW S, NEW T, S \subseteq T, NEW s \in Seq(S)
  PROVE  s \in Seq(T)
  OBVIOUS

LEMMA AsideStays ==
  ASSUME ClientTypeOK, ClientTypeOK', Stays, NEW d \in Calls, Aside(d), CallSound(d)
  PROVE  CallSound(d)'
<1>1. Sound(answer[d], ask[d].key)'
  <2>1. Sound(answer[d], ask[d].key)
    BY DEF CallSound
  <2>2. \A x, key : Sound(x, key) => Sound(x, key)'
    BY SoundStays
  <2> QED
    BY <2>1, <2>2 DEF Aside, Sound
<1>2. wire'[d].phase \in Carried => WireSound(d)'
  <2> SUFFICES ASSUME wire[d].phase \in Carried PROVE WireSound(d)'
    BY DEF Aside
  <2>1. Sound(wire[d].decision, ask[d].key)
    BY DEF CallSound, WireSound
  <2>2. \A x, key : Sound(x, key) => Sound(x, key)'
    BY SoundStays
  <2>3. Sound(wire[d].decision, ask[d].key)'
    BY <2>1, <2>2 DEF Aside, Sound
  <2> QED
    BY <2>3 DEF Aside, CallSound, WireSound
<1> QED
  BY <1>1, <1>2 DEF CallSound, Aside

(* A step of one call, put together from what it does to the types, to the *)
(* call itself and to the cache.                                           *)
LEMMA StepHeld ==
  ASSUME Held, ClientTypeOK', Stays, NEW c \in Calls, CallSound(c)',
         \A d \in Calls : d # c => Aside(d), cache' \in Seq(SoundEntries)
  PROVE  Held'
<1>1. CacheSound'
  BY EntriesStay, SeqMono DEF CacheSound, Held
<1>2. \A d \in Calls : CallSound(d)'
  BY AsideStays DEF Held
<1> QED
  BY <1>1, <1>2 DEF Held

LEMMA NoMail ==
  ASSUME Held, NEW c \in Calls, at[c] # "out"
  PROVE  wire[c] = Nothing /\ wire[c].phase \notin Carried
  BY WireType DEF Held, CallSound

LEMMA CallTypes ==
  ASSUME ClientTypeOK, NEW c \in Calls
  PROVE  /\ ask[c] \in Ask /\ ask[c].key \in Keys /\ answer[c] \in Decision /\ left[c] \in Nat
         /\ answer[c].age \in 0 .. Timeout + TTL /\ answer[c].redeemed \in Nat
         /\ Len(approvals) \in Nat /\ DOMAIN approvals = 1 .. Len(approvals)
  BY DEF ClientTypeOK, Ask, Decision

LEMMA EntryTypes ==
  ASSUME CacheSound, NEW i \in DOMAIN cache
  PROVE  /\ cache[i] \in SoundEntries /\ cache[i] \in Entry
         /\ cache[i].decision \in Decision /\ cache[i].left \in 0 .. TTL /\ cache[i].key \in Keys
         /\ cache[i].decision.age \in 0 .. Timeout + TTL
  BY DEF CacheSound, SoundEntries, Entry, Decision

LEMMA HitHeld ==
  ASSUME Held, NEW c \in Calls, Hit(c)
  PROVE  Held'
<1>1. PICK i \in Entries(c) : Alive(cache[i]) /\ answer' = [answer EXCEPT ![c] = cache[i].decision]
  BY DEF Hit
<1>2. i \in DOMAIN cache /\ cache[i].key = ask[c].key
  BY <1>1 DEF Entries
<1> DEFINE d == cache[i].decision
<1>3. d \in Decision /\ Sound(d, ask[c].key) /\ d.age < Timeout + TTL
  <2>1. Sound(d, ask[c].key) /\ (cache[i].left > 0 => d.age <= Timeout + TTL - cache[i].left)
    BY <1>2, EntryTypes DEF SoundEntries, Held
  <2>2. cache[i].left \in Nat /\ cache[i].left > 0 /\ d.age \in Nat /\ d \in Decision
    BY <1>1, <1>2, EntryTypes, Bounds DEF Alive, Held
  <2> HIDE DEF d
  <2> QED
    BY <2>1, <2>2, Bounds
<1> HIDE DEF d
<1>4. answer' = [answer EXCEPT ![c] = d] /\ at' = [at EXCEPT ![c] = "holding"]
      /\ at[c] = "idle" /\ UNCHANGED <<approvals, policy, edits, followed, ask, tries, left, cache, wire>>
  BY <1>1 DEF Hit, server, d
<1>5. ClientTypeOK'
  BY <1>3, <1>4 DEF Held, ClientTypeOK, Places
<1>6. answer'[c] = d /\ at'[c] = "holding" /\ \A e \in Calls : e # c => Aside(e)
  BY <1>4 DEF Held, ClientTypeOK, Aside
<1>7. Stays
  BY <1>4, CallTypes DEF Stays, Held
<1>8. CallSound(c)'
  <2>1. Sound(answer[c], ask[c].key)'
    BY <1>3, <1>4, <1>6 DEF Sound
  <2> QED
    BY <1>3, <1>4, <1>6, <2>1, NoMail DEF CallSound
<1>9. cache' \in Seq(SoundEntries)
  BY <1>4 DEF Held, CacheSound
<1> QED
  BY <1>5, <1>6, <1>7, <1>8, <1>9, StepHeld

LEMMA SendHeld ==
  ASSUME Held, NEW c \in Calls, Send(c), at[c] \in {"idle", "backoff"},
         cache' \in Seq(SoundEntries),
         UNCHANGED <<approvals, policy, edits, followed, ask, tries, answer>>
  PROVE  Held'
<1>1. /\ at' \in [Calls -> Places] /\ left' \in [Calls -> Nat] /\ wire' \in [Calls -> Messages]
      /\ at'[c] = "out" /\ left'[c] = Timeout /\ wire'[c] = Request
      /\ \A d \in Calls : d # c => at'[d] = at[d] /\ left'[d] = left[d] /\ wire'[d] = wire[d]
  BY SendType DEF Held
<1>2. ClientTypeOK'
  <2>1. cache' \in Seq(Entry)
    BY SeqMono DEF SoundEntries
  <2> QED
    BY <1>1, <2>1 DEF Held, ClientTypeOK
<1>3. Stays
  BY CallTypes DEF Stays, Held
<1>4. CallSound(c)'
  <2>1. Sound(answer[c], ask[c].key)'
    BY DEF Held, CallSound, Sound
  <2> QED
    BY <1>1, <2>1, WireType, Bounds DEF Held, CallSound, Request
<1> QED
  BY <1>1, <1>2, <1>3, <1>4, StepHeld DEF Aside

LEMMA MissHeld ==
  ASSUME Held, NEW c \in Calls, Miss(c) \/ Resend(c)
  PROVE  Held'
<1>1. CASE Miss(c)
  <2>1. cache' \in Seq(SoundEntries)
    <3>1. CASE cacheable(c) /\ Entries(c) # {}
      <4>1. PICK i \in Entries(c) : cache' = RemoveAt(cache, i)
        BY <1>1, <3>1 DEF Miss
      <4> QED
        BY <4>1, RemainderIsOld DEF Entries, Held, CacheSound
    <3>2. CASE ~(cacheable(c) /\ Entries(c) # {})
      BY <1>1, <3>2 DEF Miss, Held, CacheSound
    <3> QED
      BY <3>1, <3>2
  <2> QED
    BY <1>1, <2>1, SendHeld DEF Miss, server
<1>2. CASE Resend(c)
  BY <1>2, SendHeld DEF Resend, server, Held, CacheSound
<1> QED
  BY <1>1, <1>2

(* The call is over or holds an answer, and nothing is on the wire for it. *)
LEMMA RestHeld ==
  ASSUME Held, ClientTypeOK', NEW c \in Calls, NEW d \in Decision, Sound(d, ask[c].key),
         answer'[c] = d, wire'[c] = Nothing,
         \/ at'[c] = "ended"
         \/ at'[c] = "holding" /\ (d.effect = "allow" => d.age < Timeout + TTL),
         \A e \in Calls : e # c => Aside(e),
         cache' \in Seq(SoundEntries), Len(approvals') = Len(approvals), UNCHANGED ask
  PROVE  Held'
<1>1. Stays
  BY CallTypes DEF Stays, Held
<1>2. CallSound(c)'
  <2>1. Sound(answer[c], ask[c].key)'
    BY DEF Sound
  <2> QED
    BY <2>1, WireType DEF Held, CallSound, Nothing
<1> QED
  BY <1>1, <1>2, StepHeld

LEMMA TakeHeld ==
  ASSUME Held, NEW c \in Calls, at[c] = "out", NEW d \in Decision, Take(c, d), Sound(d, ask[c].key),
         d.age <= Timeout, d.redeemed # 0 => ask[c].kind = "redeem"
  PROVE  Held'
<1>1. cache' \in Seq(SoundEntries)
  <2>1. CASE cacheable(c)
    <3> DEFINE entry == [key |-> ask[c].key, decision |-> d, left |-> TTL]
    <3>1. entry \in SoundEntries
      <4>1. entry \in Entry /\ entry.left = TTL /\ entry.decision = d /\ entry.key = ask[c].key
        BY CallTypes, Bounds DEF Entry, Held
      <4>2. d.redeemed = 0
        BY <2>1 DEF cacheable, Decision
      <4> HIDE DEF entry
      <4>3. d.age <= Timeout + TTL - TTL
        BY Bounds DEF Decision
      <4> QED
        BY <4>1, <4>2, <4>3 DEF SoundEntries
    <3> QED
      BY <2>1, <3>1, KeptIsOld DEF Take, Held, CacheSound
  <2>2. CASE ~cacheable(c)
    BY <2>2 DEF Take, Held, CacheSound
  <2> QED
    BY <2>1, <2>2
<1>2. cache' \in Seq(Entry)
  BY <1>1, SeqMono DEF SoundEntries
<1>3. ClientTypeOK'
  BY <1>2 DEF Take, Held, ClientTypeOK, Places, Messages, server
<1>4. answer'[c] = d /\ wire'[c] = Nothing /\ at'[c] = "holding" /\ \A e \in Calls : e # c => Aside(e)
  BY DEF Take, Held, ClientTypeOK, Aside
<1>5. d.age < Timeout + TTL
  BY Bounds DEF Decision
<1> QED
  BY <1>1, <1>3, <1>4, <1>5, RestHeld DEF Take, server

LEMMA DenialSound ==
  ASSUME ClientTypeOK, NEW c \in Calls
  PROVE  /\ denial(ask[c].key) \in Decision /\ denial(ask[c].key).effect = "deny"
         /\ denial(ask[c].key).age <= Timeout /\ denial(ask[c].key).redeemed = 0
         /\ Sound(denial(ask[c].key), ask[c].key)
<1> DEFINE d == denial(ask[c].key)
<1>1. d \in Decision /\ d.effect = "deny" /\ d.age = 0 /\ d.redeemed = 0 /\ d.approval = 0
      /\ d.key = ask[c].key
  BY CallTypes, DenialType
<1> HIDE DEF d
<1>2. Sound(d, ask[c].key) /\ d.age <= Timeout
  BY <1>1, CallTypes, Bounds DEF Sound
<1> QED
  BY <1>1, <1>2 DEF d

(* A change to one approval, of its status or of who is at work on it.     *)
LEMMA ApprovalChanges ==
  ASSUME ClientTypeOK, NEW i \in DOMAIN approvals, NEW a \in Approval, approvals' = [approvals EXCEPT ![i] = a]
  PROVE  /\ approvals' \in Seq(Approval) /\ Len(approvals') = Len(approvals)
         /\ DOMAIN approvals' = DOMAIN approvals /\ approvals'[i] = a
         /\ \A j \in DOMAIN approvals : j # i => approvals'[j] = approvals[j]
  BY DEF ClientTypeOK

LEMMA Carrying ==
  ASSUME Held, NEW c \in Calls, wire[c].phase = "redeeming"
  PROVE  /\ wire[c].decision \in Decision /\ WireSound(c) /\ at[c] = "out"
         /\ wire[c].decision.redeemed \in DOMAIN approvals
<1>1. wire[c].decision \in Decision /\ WireSound(c) /\ at[c] = "out"
  BY WireType DEF Held, CallSound
<1> QED
  BY <1>1, CallTypes DEF Held, WireSound, Sound

LEMMA Abandons ==
  ASSUME Held, NEW c \in Calls, Abandon(c)
  PROVE  /\ approvals' \in Seq(Approval) /\ Len(approvals') = Len(approvals)
         /\ DOMAIN approvals' = DOMAIN approvals
         /\ \A j \in DOMAIN approvals :
              \/ approvals'[j] = approvals[j]
              \/ /\ wire[c].phase = "redeeming" /\ wire[c].decision.redeemed = j
                 /\ approvals'[j] = [approvals[j] EXCEPT !.late = approvals[j].late + 1]
<1>1. approvals \in Seq(Approval) /\ ClientTypeOK
  BY DEF Held, ClientTypeOK
<1>2. CASE approvals' = approvals
  BY <1>1, <1>2
<1>3. ASSUME approvals' # approvals
      PROVE  /\ wire[c].phase = "redeeming"
             /\ approvals' = [approvals EXCEPT ![wire[c].decision.redeemed].late = @ + 1]
  BY <1>3 DEF Abandon
<1>4. CASE approvals' # approvals
  <2> DEFINE i == wire[c].decision.redeemed
             a == [approvals[i] EXCEPT !.late = approvals[i].late + 1]
  <2>1. i \in DOMAIN approvals
    BY <1>3, <1>4, Carrying
  <2>2. approvals[i] \in Approval
    BY <1>1, <2>1
  <2>3. a \in Approval
    BY <2>2 DEF Approval
  <2>4. approvals' = [approvals EXCEPT ![i] = a]
    BY <1>3, <1>4
  <2> HIDE DEF i
  <2>5. /\ approvals' \in Seq(Approval) /\ Len(approvals') = Len(approvals)
        /\ DOMAIN approvals' = DOMAIN approvals /\ approvals'[i] = a
        /\ \A j \in DOMAIN approvals : j # i => approvals'[j] = approvals[j]
    BY <1>1, <2>1, <2>3, <2>4, ApprovalChanges
  <2> QED
    BY <1>3, <1>4, <2>5 DEF i
<1> QED
  BY <1>2, <1>4

LEMMA UnreachableHeld ==
  ASSUME Held, NEW c \in Calls, Unreachable(c)
  PROVE  Held'
<1>1. /\ denial(ask[c].key) \in Decision /\ denial(ask[c].key).effect = "deny"
      /\ Sound(denial(ask[c].key), ask[c].key)
  BY DenialSound DEF Held
<1>2. /\ cache' \in Seq(SoundEntries) /\ UNCHANGED <<ask, cache, policy, edits, followed>>
      /\ approvals' \in Seq(Approval) /\ Len(approvals') = Len(approvals)
  BY Abandons DEF Unreachable, Held, CacheSound
<1>3. CASE Again(c)
  <2>1. at' = [at EXCEPT ![c] = "backoff"] /\ tries' = [tries EXCEPT ![c] = @ + 1] /\ answer' = answer
        /\ left' = [left EXCEPT ![c] = 0] /\ wire' = [wire EXCEPT ![c] = Nothing] /\ at[c] = "out"
    BY <1>3 DEF Unreachable
  <2>2. ClientTypeOK'
    BY <1>2, <2>1 DEF Held, ClientTypeOK, Places, Messages
  <2>3. CallSound(c)'
    <3>1. Sound(answer[c], ask[c].key)'
      BY <1>2, <2>1 DEF Held, CallSound, Sound
    <3> QED
      BY <1>2, <2>1, <3>1, WireType DEF Held, CallSound, ClientTypeOK
  <2>4. Stays /\ \A e \in Calls : e # c => Aside(e)
    BY <1>2, <2>1, CallTypes DEF Stays, Held, ClientTypeOK, Aside
  <2> QED
    BY <1>2, <2>2, <2>3, <2>4, StepHeld
<1>4. CASE ~Again(c)
  <2>1. /\ at' = [at EXCEPT ![c] = "holding"] /\ tries' = [tries EXCEPT ![c] = 0]
        /\ answer' = [answer EXCEPT ![c] = denial(ask[c].key)]
        /\ left' = [left EXCEPT ![c] = 0] /\ wire' = [wire EXCEPT ![c] = Nothing]
    BY <1>4 DEF Unreachable, _on_unreachable
  <2>2. ClientTypeOK'
    BY <1>1, <1>2, <2>1 DEF Held, ClientTypeOK, Places, Messages
  <2>3. /\ answer'[c] = denial(ask[c].key) /\ wire'[c] = Nothing /\ at'[c] = "holding"
        /\ \A e \in Calls : e # c => Aside(e)
    BY <1>2, <2>1 DEF Held, ClientTypeOK, Aside
  <2> QED
    BY <1>1, <1>2, <2>2, <2>3, RestHeld
<1> QED
  BY <1>3, <1>4

LEMMA AnsweredHeld ==
  ASSUME Held, NEW c \in Calls, Receive(c) \/ Rejected(c)
  PROVE  Held'
<1>1. CASE Receive(c)
  <2>1. wire[c].decision \in Decision /\ WireSound(c) /\ left[c] \in Nat /\ wire[c].decision.age \in Nat
        /\ Take(c, wire[c].decision)
    BY <1>1, WireType, CallTypes DEF Receive, Held, CallSound, Decision
  <2>2. wire[c].decision.age <= Timeout
    BY <2>1, Bounds DEF WireSound
  <2> QED
    BY <1>1, <2>1, <2>2, TakeHeld DEF Receive, WireSound
<1>2. CASE Rejected(c)
  <2> DEFINE d == denial(ask[c].key)
  <2>1. d \in Decision /\ Sound(d, ask[c].key) /\ d.age <= Timeout /\ d.redeemed = 0
    BY DenialSound DEF Held
  <2>2. at[c] = "out" /\ Take(c, d)
    BY <1>2 DEF Rejected
  <2> HIDE DEF d
  <2> QED
    BY <2>1, <2>2, TakeHeld
<1> QED
  BY <1>1, <1>2

(* The call ends, whatever else it reported.                               *)
LEMMA EndHeld ==
  ASSUME Held, NEW c \in Calls, End(c), wire' = [wire EXCEPT ![c] = Nothing] \/ (wire' = wire /\ at[c] # "out"),
         UNCHANGED <<server, ask, cache>>
  PROVE  Held'
<1>1. /\ at' \in [Calls -> Places] /\ tries' \in [Calls -> Nat] /\ left' \in [Calls -> Nat]
      /\ answer' \in [Calls -> Decision]
      /\ answer'[c].effect = "deny" /\ answer'[c].approval = 0 /\ answer'[c].key = ask[c].key
      /\ answer'[c].redeemed = answer[c].redeemed
      /\ at'[c] = "ended" /\ \A d \in Calls : d # c => at'[d] = at[d] /\ left'[d] = left[d]
                                                      /\ answer'[d] = answer[d]
  BY EndType DEF Held
<1>2. wire' \in [Calls -> Messages] /\ wire'[c] = Nothing /\ \A d \in Calls : d # c => wire'[d] = wire[d]
  BY NoMail DEF Held, ClientTypeOK, Messages
<1>3. ClientTypeOK'
  BY <1>1, <1>2 DEF Held, ClientTypeOK, server
<1>4. answer'[c] \in Decision /\ Sound(answer'[c], ask[c].key)
  <2>1. answer[c].redeemed \in 0 .. Len(approvals) /\ Len(approvals) \in Nat
    BY CallTypes DEF Sound, Held, CallSound
  <2> QED
    BY <1>1, <2>1 DEF Sound
<1> QED
  BY <1>1, <1>2, <1>3, <1>4, RestHeld DEF Aside, server, Held, CacheSound

LEMMA EndingHeld ==
  ASSUME Held, NEW c \in Calls, ServerError(c) \/ PollFails(c) \/ Act(c) \/ Leave(c)
  PROVE  Held'
<1>1. CASE ServerError(c)
  <2>1. End(c) /\ UNCHANGED <<server, ask, cache>>
    BY <1>1 DEF ServerError
  <2>2. wire' = [wire EXCEPT ![c] = Nothing]
    BY <1>1 DEF ServerError
  <2> QED
    BY <2>1, <2>2, EndHeld
<1>2. CASE PollFails(c)
  BY <1>2, EndHeld DEF PollFails
<1>3. CASE Act(c)
  BY <1>3, EndHeld DEF Act
<1>4. CASE Leave(c)
  BY <1>4, EndHeld DEF Leave
<1> QED
  BY <1>1, <1>2, <1>3, <1>4

LEMMA WaitingHeld ==
  ASSUME Held, NEW c \in Calls, Await(c) \/ Poll(c)
  PROVE  Held'
<1>1. CASE Await(c)
  <2>1. /\ at' = [at EXCEPT ![c] = "polling"] /\ left' = [left EXCEPT ![c] = Patience]
        /\ ask[c].kind = "act" /\ answer[c].approval # 0 /\ at[c] = "holding"
        /\ UNCHANGED <<policy, edits, approvals, followed, ask, tries, answer, cache, wire>>
    BY <1>1 DEF Await, server
  <2>2. ClientTypeOK'
    BY <2>1, Bounds DEF Held, ClientTypeOK, Places
  <2>3. Stays /\ \A e \in Calls : e # c => Aside(e)
    BY <2>1, CallTypes DEF Stays, Held, ClientTypeOK, Aside
  <2>4. CallSound(c)'
    <3>1. Sound(answer[c], ask[c].key)'
      BY <2>1 DEF Held, CallSound, Sound
    <3> QED
      BY <2>1, <3>1, NoMail DEF Held, CallSound, ClientTypeOK
  <2> QED
    BY <2>1, <2>2, <2>3, <2>4, StepHeld DEF Held, CacheSound
<1>2. ASSUME Poll(c), at' = [at EXCEPT ![c] = "idle"], left' = [left EXCEPT ![c] = 0],
             ask' = [ask EXCEPT ![c].kind = "redeem"], UNCHANGED <<tries, answer>>
      PROVE  Held'
  <2>1. at[c] = "polling" /\ UNCHANGED <<policy, edits, approvals, followed, cache, wire>>
    BY <1>2 DEF Poll, server
  <2>2. ask[c].kind = "act" /\ answer[c].approval # 0 /\ wire[c] = Nothing /\ wire[c].phase \notin Carried
    BY <2>1, NoMail DEF Held, CallSound
  <2>3. /\ ask' \in [Calls -> Ask] /\ ask'[c].key = ask[c].key
        /\ \A d \in Calls : d # c => ask'[d] = ask[d]
    <3> DEFINE a == [ask[c] EXCEPT !.kind = "redeem"]
    <3>1. a \in Ask /\ a.key = ask[c].key
      BY CallTypes DEF Held, Ask
    <3>2. ask' = [ask EXCEPT ![c] = a]
      BY <1>2
    <3> HIDE DEF a
    <3> QED
      BY <3>1, <3>2 DEF Held, ClientTypeOK
  <2>4. ClientTypeOK'
    BY <1>2, <2>1, <2>3 DEF Held, ClientTypeOK, Places
  <2>5. Stays /\ \A e \in Calls : e # c => Aside(e)
    BY <1>2, <2>1, <2>2, <2>3, CallTypes DEF Stays, Held, ClientTypeOK, Aside
  <2>6. CallSound(c)'
    <3>1. Sound(answer[c], ask[c].key)
      BY DEF Held, CallSound
    <3>2. Sound(answer[c], ask[c].key)'
      <4>1. \A x, key : Sound(x, key) => Sound(x, key)'
        BY <2>4, <2>5, SoundStays DEF Held
      <4> QED
        BY <1>2, <2>3, <3>1, <4>1 DEF Sound
    <3> QED
      BY <1>2, <2>1, <2>2, <3>2 DEF Held, CallSound, ClientTypeOK
  <2> QED
    BY <2>1, <2>4, <2>5, <2>6, StepHeld DEF Held, CacheSound
<1>3. ASSUME Poll(c), End(c), UNCHANGED ask PROVE Held'
  <2>1. at[c] # "out" /\ wire' = wire /\ UNCHANGED <<server, ask, cache>>
    BY <1>3 DEF Poll
  <2> QED
    BY <1>3, <2>1, EndHeld
<1>4. ASSUME Poll(c), at' = [at EXCEPT ![c] = "napping"], UNCHANGED <<ask, tries, left, answer>>
      PROVE  Held'
  <2>1. at[c] = "polling" /\ UNCHANGED <<policy, edits, approvals, followed, cache, wire>>
    BY <1>4 DEF Poll, server
  <2>2. ClientTypeOK'
    BY <1>4, <2>1 DEF Held, ClientTypeOK, Places
  <2>3. Stays /\ \A e \in Calls : e # c => Aside(e)
    BY <1>4, <2>1, CallTypes DEF Stays, Held, ClientTypeOK, Aside
  <2>4. CallSound(c)'
    <3>1. Sound(answer[c], ask[c].key)'
      BY <1>4, <2>1 DEF Held, CallSound, Sound
    <3> QED
      BY <1>4, <2>1, <3>1, NoMail DEF Held, CallSound, ClientTypeOK
  <2> QED
    BY <2>1, <2>2, <2>3, <2>4, StepHeld DEF Held, CacheSound
<1>5. Poll(c) =>
        \/ /\ at' = [at EXCEPT ![c] = "idle"] /\ left' = [left EXCEPT ![c] = 0]
           /\ ask' = [ask EXCEPT ![c].kind = "redeem"] /\ UNCHANGED <<tries, answer>>
        \/ End(c) /\ UNCHANGED ask
        \/ at' = [at EXCEPT ![c] = "napping"] /\ UNCHANGED <<ask, tries, left, answer>>
  BY DEF Poll
<1> QED
  BY <1>1, <1>2, <1>3, <1>4, <1>5

(* A redemption names an approval that exists; nobody else's is touched.   *)
LEMMA RedeemsTypes ==
  ASSUME Held, NEW c \in Calls, wire[c] = Request, Redeems(c)
  PROVE  /\ answer[c].approval \in DOMAIN approvals /\ ask[c].kind = "redeem"
         /\ approvals[answer[c].approval].status = "granted"
<1>1. at[c] = "out" /\ ask[c].kind = "redeem" /\ answer[c].approval # 0
      /\ answer[c].approval \in 0 .. Len(approvals)
  BY WireType DEF Held, CallSound, Redeems, Request, Nothing, Sound
<1> QED
  BY <1>1, CallTypes DEF Held, Redeems

LEMMA TicketType ==
  ASSUME ClientTypeOK, NEW c \in Calls
  PROVE  Ticket(c) \in 1 .. Len(approvals) + 1
<1> DEFINE open == {i \in DOMAIN approvals : approvals[i].key = ask[c].key /\ approvals[i].status = "pending"}
<1>1. Ticket(c) = IF open = {} THEN Len(approvals) + 1 ELSE CHOOSE i \in open : TRUE
  BY DEF Ticket
<1>2. open # {} => (CHOOSE i \in open : TRUE) \in open
  BY Zenon
<1>3. open # {} => (CHOOSE i \in open : TRUE) \in DOMAIN approvals
  BY <1>2
<1> HIDE DEF open
<1> QED
  BY <1>1, <1>3, CallTypes

(* A decision that redeems nothing parks an approval, or leaves them be.   *)
LEMMA RecordTypes ==
  ASSUME Held, NEW c \in Calls, NEW id \in Ids(c), Record(c, id)
  PROVE  /\ approvals' \in Seq(Approval) /\ Len(approvals') \in Nat /\ Len(approvals) <= Len(approvals')
         /\ Parks(c) => Ticket(c) <= Len(approvals')
         /\ followed' \in BOOLEAN
         /\ \A i \in DOMAIN approvals : i \in DOMAIN approvals' /\ approvals'[i] = approvals[i]
         /\ \A i \in DOMAIN approvals' \ DOMAIN approvals :
              i = Len(approvals) + 1 /\ approvals'[i] = Opened(ask[c].key)
<1> DEFINE n == Len(approvals)
<1>1. n \in Nat /\ approvals \in Seq(Approval) /\ ask[c].key \in Keys /\ followed \in BOOLEAN
      /\ Ticket(c) \in 1 .. n + 1 /\ followed' \in BOOLEAN
  BY CallTypes, TicketType DEF Held, ClientTypeOK, Record
<1>2. CASE Parks(c) /\ Ticket(c) > n
  <2>1. approvals' = Append(approvals, Opened(ask[c].key))
    BY <1>2 DEF Record
  <2>2. Opened(ask[c].key) \in Approval
    BY <1>1 DEF Approval, Opened
  <2> DEFINE a == Opened(ask[c].key)
  <2> HIDE DEF a
  <2>3. approvals' \in Seq(Approval) /\ Len(approvals') = n + 1 /\ approvals'[n + 1] = a
        /\ \A i \in 1 .. n : approvals'[i] = approvals[i]
    BY <1>1, <2>1, <2>2 DEF a
  <2> QED
    BY <1>1, <2>3 DEF a
<1>3. CASE ~(Parks(c) /\ Ticket(c) > n)
  BY <1>1, <1>3 DEF Record
<1> QED
  BY <1>2, <1>3

LEMMA DecidedTypes ==
  ASSUME Held, NEW c \in Calls, wire[c] = Request, NEW id \in Ids(c)
  PROVE  /\ Decided(c, id) \in Decision /\ Decided(c, id).key = ask[c].key
         /\ Decided(c, id).approval = (IF Parks(c) THEN Ticket(c) ELSE 0)
         /\ Decided(c, id).redeemed = (IF Redeems(c) THEN answer[c].approval ELSE 0)
         /\ Decided(c, id).redeemed \in 0 .. Len(approvals)
         /\ Decided(c, id).age = 0
         /\ Decided(c, id).id = "none" => ask[c].kind = "advise"
<1>1. policy[ask[c].key] \in Effects /\ ask[c].key \in Keys
  BY CallTypes, PolicyType DEF Held
<1>2. id \in {"followed", "other", "none"} /\ (id = "none" => ask[c].kind = "advise")
  BY DEF Ids
<1>3. (IF Parks(c) THEN Ticket(c) ELSE 0) \in Nat
  BY CallTypes, TicketType DEF Held
<1>4. (IF Redeems(c) THEN "allow" ELSE policy[ask[c].key]) \in Effects
  BY <1>1 DEF Effects
<1>5. (IF Redeems(c) THEN answer[c].approval ELSE 0) \in 0 .. Len(approvals)
  BY CallTypes, RedeemsTypes DEF Held
<1>6. 0 \in 0 .. Timeout + TTL
  BY Bounds
<1> QED
  BY <1>1, <1>2, <1>3, <1>4, <1>5, <1>6 DEF Decided, Decision

(* A decision that is put on the wire, as an answer or on its way to one.  *)
LEMMA DecidesHeld ==
  ASSUME Held, NEW c \in Calls, wire[c] = Request, NEW id \in Ids(c), NEW m \in Carriers,
         m.decision = Decided(c, id), m.phase = "redeeming" => Redeems(c),
         wire' = [wire EXCEPT ![c] = m],
         approvals' \in Seq(Approval), Len(approvals') \in Nat, Len(approvals) <= Len(approvals'),
         Parks(c) => Ticket(c) <= Len(approvals'), followed' \in BOOLEAN,
         UNCHANGED <<policy, edits, local>>
  PROVE  Held'
<1> DEFINE d == Decided(c, id)
<1>2. /\ d \in Decision /\ d.key = ask[c].key /\ d.approval = (IF Parks(c) THEN Ticket(c) ELSE 0)
      /\ d.redeemed = (IF Redeems(c) THEN answer[c].approval ELSE 0)
      /\ d.redeemed \in 0 .. Len(approvals) /\ d.age = 0 /\ (d.id = "none" => ask[c].kind = "advise")
  BY DecidedTypes
<1>3. m.decision = d
  OBVIOUS
<1> HIDE DEF d
<1>4. /\ at[c] = "out" /\ left[c] <= Timeout /\ left[c] \in Nat
      /\ UNCHANGED <<policy, edits, ask, at, tries, left, answer, cache>>
  BY WireType, CallTypes DEF local, Held, CallSound
<1>5. ClientTypeOK'
  BY <1>4 DEF Held, ClientTypeOK, Messages
<1>6. Stays /\ \A e \in Calls : e # c => Aside(e)
  BY <1>4 DEF Stays, Held, ClientTypeOK, Aside
<1>7. CallSound(c)'
  <2>1. Sound(answer[c], ask[c].key)'
    <3>1. Sound(answer[c], ask[c].key)
      BY DEF Held, CallSound
    <3>2. \A x, key : Sound(x, key) => Sound(x, key)'
      BY <1>5, <1>6, SoundStays DEF Held
    <3> QED
      BY <1>4, <3>1, <3>2 DEF Sound
  <2>2. wire'[c] = m
    BY DEF Held, ClientTypeOK
  <2>3. d.approval \in 0 .. Len(approvals') /\ d.redeemed \in 0 .. Len(approvals')
    BY <1>2, CallTypes, TicketType DEF Held
  <2>4. d.id = "none" => \E e \in Calls : ask'[e] = [key |-> ask'[c].key, kind |-> "advise"]
    BY <1>2, <1>4, CallTypes DEF Held, Ask
  <2>5. Sound(wire[c].decision, ask[c].key)'
    BY <1>2, <1>3, <1>4, <2>2, <2>3, <2>4 DEF Sound
  <2>6. d.redeemed # 0 => ask[c].kind = "redeem"
    BY <1>2 DEF Redeems
  <2>7. m.phase = "redeeming" => d.redeemed # 0
    BY <1>2, RedeemsTypes, CallTypes DEF Held
  <2>8. WireSound(c)'
    BY <1>2, <1>3, <1>4, <2>2, <2>5, <2>6, <2>7, Bounds DEF WireSound
  <2> QED
    BY <1>4, <2>1, <2>8 DEF Held, CallSound
<1> QED
  BY <1>4, <1>5, <1>6, <1>7, StepHeld DEF Held, CacheSound

LEMMA ServeHeld ==
  ASSUME Held, NEW c \in Calls, Serve(c)
  PROVE  Held'
<1>1. PICK id \in Ids(c) : Record(c, id) /\ wire' = [wire EXCEPT ![c] = Answer(Decided(c, id))]
  BY DEF Serve
<1>2. wire[c] = Request /\ UNCHANGED <<policy, edits, local>>
  BY DEF Serve
<1>3. /\ Answer(Decided(c, id)) \in Carriers /\ Answer(Decided(c, id)).decision = Decided(c, id)
      /\ Answer(Decided(c, id)).phase # "redeeming"
  BY <1>2, DecidedTypes DEF Answer, Carriers, Carried
<1>4. /\ approvals' \in Seq(Approval) /\ Len(approvals') \in Nat /\ Len(approvals) <= Len(approvals')
      /\ (Parks(c) => Ticket(c) <= Len(approvals')) /\ followed' \in BOOLEAN
  BY <1>1, RecordTypes
<1> QED
  BY <1>1, <1>2, <1>3, <1>4, DecidesHeld

(* What validation and marking do to the approval.                         *)
LEMMA ValidateEffect ==
  ASSUME Held, NEW c \in Calls, Validate(c)
  PROVE  /\ wire[c] = Request /\ Redeems(c) /\ answer[c].approval \in DOMAIN approvals
         /\ approvals[answer[c].approval].status = "granted"
         /\ approvals' \in Seq(Approval) /\ Len(approvals') = Len(approvals)
         /\ DOMAIN approvals' = DOMAIN approvals
         /\ approvals'[answer[c].approval] =
              [approvals[answer[c].approval] EXCEPT
                 !.raced = approvals[answer[c].approval].raced \/ InUse(answer[c].approval)]
         /\ \A j \in DOMAIN approvals : j # answer[c].approval => approvals'[j] = approvals[j]
<1> DEFINE i == answer[c].approval
           a == [approvals[i] EXCEPT !.raced = approvals[i].raced \/ InUse(i)]
<1>1. wire[c] = Request /\ Redeems(c) /\ i \in DOMAIN approvals /\ approvals[i].status = "granted"
  BY RedeemsTypes DEF Validate
<1>2. approvals[i] \in Approval /\ ClientTypeOK
  BY <1>1 DEF Held, ClientTypeOK
<1>3. a \in Approval
  <2>1. (approvals[i].raced \/ InUse(i)) \in BOOLEAN
    BY DEF InUse
  <2> DEFINE b == approvals[i].raced \/ InUse(i)
             x == approvals[i]
  <2>2. x \in Approval /\ b \in BOOLEAN
    BY <1>2, <2>1
  <2>3. a = [x EXCEPT !.raced = b]
    OBVIOUS
  <2> HIDE DEF a, b, x
  <2> QED
    BY <2>2, <2>3 DEF Approval
<1>4. approvals' = [approvals EXCEPT ![i] = a]
  BY DEF Validate
<1> HIDE DEF a
<1>5. /\ approvals' \in Seq(Approval) /\ Len(approvals') = Len(approvals)
      /\ DOMAIN approvals' = DOMAIN approvals /\ approvals'[i] = a
      /\ \A j \in DOMAIN approvals : j # i => approvals'[j] = approvals[j]
  BY <1>1, <1>2, <1>3, <1>4, ApprovalChanges
<1> QED
  BY <1>1, <1>5 DEF a

LEMMA SpentType ==
  ASSUME NEW a \in Approval
  PROVE  /\ Spent(a) \in Approval /\ Spent(a).status = "spent" /\ Spent(a).spends = a.spends + 1
         /\ Spent(a).late = a.late /\ Spent(a).raced = a.raced
<1>1. Spent(a) = [a EXCEPT !.status = "spent", !.spends = a.spends + 1]
  BY DEF Spent
<1>2. a.spends + 1 \in Nat
  BY DEF Approval
<1> QED
  BY <1>1, <1>2 DEF Approval

LEMMA SpendEffect ==
  ASSUME Held, NEW c \in Calls, Spend(c)
  PROVE  /\ wire[c].phase = "redeeming" /\ wire[c].decision.redeemed \in DOMAIN approvals
         /\ approvals' \in Seq(Approval) /\ Len(approvals') = Len(approvals)
         /\ DOMAIN approvals' = DOMAIN approvals
         /\ approvals'[wire[c].decision.redeemed] = Spent(approvals[wire[c].decision.redeemed])
         /\ \A j \in DOMAIN approvals : j # wire[c].decision.redeemed => approvals'[j] = approvals[j]
         /\ wire'[c] = Answer(wire[c].decision) /\ \A d \in Calls : d # c => wire'[d] = wire[d]
         /\ answer' = answer
<1> DEFINE i == wire[c].decision.redeemed
<1>1. i \in DOMAIN approvals /\ wire[c].phase = "redeeming"
  BY Carrying DEF Spend
<1>2. approvals[i] \in Approval /\ ClientTypeOK
  BY <1>1 DEF Held, ClientTypeOK
<1>3. Spent(approvals[i]) \in Approval /\ approvals' = [approvals EXCEPT ![i] = Spent(approvals[i])]
  BY <1>2, SpentType DEF Spend
<1> HIDE DEF i
<1>4. /\ approvals' \in Seq(Approval) /\ Len(approvals') = Len(approvals)
      /\ DOMAIN approvals' = DOMAIN approvals /\ approvals'[i] = Spent(approvals[i])
      /\ \A j \in DOMAIN approvals : j # i => approvals'[j] = approvals[j]
  BY <1>1, <1>2, <1>3, ApprovalChanges
<1>5. /\ wire'[c] = Answer(wire[c].decision) /\ \A d \in Calls : d # c => wire'[d] = wire[d]
      /\ answer' = answer
  BY DEF Spend, local, Held, ClientTypeOK
<1> QED
  BY <1>1, <1>4, <1>5 DEF i

LEMMA SpendLateEffect ==
  ASSUME Held, SpendLate
  PROVE  /\ approvals' \in Seq(Approval) /\ Len(approvals') = Len(approvals)
         /\ DOMAIN approvals' = DOMAIN approvals
         /\ \A j \in DOMAIN approvals :
              \/ approvals'[j] = approvals[j]
              \/ /\ approvals[j].late > 0 /\ approvals'[j].status = "spent"
                 /\ approvals'[j].spends = approvals[j].spends + 1
                 /\ approvals'[j].late = approvals[j].late - 1 /\ approvals'[j].raced = approvals[j].raced
<1>1. PICK i \in DOMAIN approvals :
        /\ approvals[i].late > 0
        /\ approvals' = [approvals EXCEPT ![i] = [Spent(approvals[i]) EXCEPT !.late = @ - 1]]
  BY DEF SpendLate
<1> DEFINE x == Spent(approvals[i])
           a == [x EXCEPT !.late = x.late - 1]
<1>2. approvals[i] \in Approval /\ ClientTypeOK
  BY DEF Held, ClientTypeOK
<1>3. /\ x \in Approval /\ x.status = "spent" /\ x.spends = approvals[i].spends + 1
      /\ x.late = approvals[i].late /\ x.raced = approvals[i].raced
  BY <1>2, SpentType
<1>4. approvals' = [approvals EXCEPT ![i] = a]
  BY <1>1
<1> HIDE DEF x
<1>5. /\ a \in Approval /\ a.status = "spent" /\ a.spends = approvals[i].spends + 1
      /\ a.late = approvals[i].late - 1 /\ a.raced = approvals[i].raced
  BY <1>1, <1>3 DEF Approval
<1> HIDE DEF a
<1>6. /\ approvals' \in Seq(Approval) /\ Len(approvals') = Len(approvals)
      /\ DOMAIN approvals' = DOMAIN approvals /\ approvals'[i] = a
      /\ \A j \in DOMAIN approvals : j # i => approvals'[j] = approvals[j]
  BY <1>2, <1>4, <1>5, ApprovalChanges
<1> QED
  BY <1>1, <1>5, <1>6

LEMMA RedemptionHeld ==
  ASSUME Held, NEW c \in Calls, Validate(c) \/ Spend(c)
  PROVE  Held'
<1>1. CASE Validate(c)
  <2>1. PICK id \in Ids(c) : /\ followed' = (followed \/ id = "followed")
                             /\ wire' = [wire EXCEPT ![c] = Redeeming(Decided(c, id))]
    BY <1>1 DEF Validate
  <2>2. /\ wire[c] = Request /\ Redeems(c) /\ approvals' \in Seq(Approval)
        /\ Len(approvals') = Len(approvals) /\ UNCHANGED <<policy, edits, local>>
    BY <1>1, ValidateEffect DEF Validate
  <2> DEFINE m == Redeeming(Decided(c, id))
  <2>3. m \in Carriers /\ m.decision = Decided(c, id) /\ wire' = [wire EXCEPT ![c] = m]
    BY <2>1, <2>2, DecidedTypes DEF Redeeming, Carriers, Carried
  <2>4. followed' \in BOOLEAN /\ ~Parks(c)
    BY <2>1, <2>2 DEF Held, ClientTypeOK, Parks
  <2>5. Len(approvals') \in Nat /\ Len(approvals) <= Len(approvals')
    BY <2>2, CallTypes DEF Held
  <2> HIDE DEF m
  <2> QED
    BY <2>2, <2>3, <2>4, <2>5, DecidesHeld
<1>2. CASE Spend(c)
  <2> DEFINE d == wire[c].decision
  <2>1. /\ wire[c].phase = "redeeming" /\ approvals' \in Seq(Approval) /\ Len(approvals') = Len(approvals)
        /\ wire'[c] = Answer(d) /\ wire' = [wire EXCEPT ![c] = Answer(d)]
    BY <1>2, SpendEffect DEF Spend
  <2>2. d \in Decision /\ WireSound(c) /\ at[c] = "out"
    BY <2>1, Carrying
  <2>3. Answer(d) \in Carriers /\ Answer(d).decision = d /\ Answer(d).phase = "answer"
    BY <2>2 DEF Answer, Carriers, Carried
  <2>4. UNCHANGED <<policy, edits, followed, ask, at, tries, left, answer, cache>>
    BY <1>2 DEF Spend, local
  <2>5. ClientTypeOK'
    BY <2>1, <2>3, <2>4 DEF Held, ClientTypeOK, Messages
  <2>6. Stays /\ \A e \in Calls : e # c => Aside(e)
    BY <2>1, <2>4, CallTypes DEF Stays, Held, ClientTypeOK, Aside
  <2>7. CallSound(c)'
    <3>1. \A x, key : Sound(x, key) => Sound(x, key)'
      BY <2>5, <2>6, SoundStays DEF Held
    <3>2. Sound(answer[c], ask[c].key) /\ Sound(d, ask[c].key)
      BY <2>2 DEF Held, CallSound, WireSound
    <3>3. Sound(answer[c], ask[c].key)' /\ Sound(wire[c].decision, ask[c].key)'
      BY <2>1, <2>3, <2>4, <3>1, <3>2 DEF Sound
    <3>4. WireSound(c)'
      BY <2>1, <2>2, <2>3, <2>4, <3>3 DEF WireSound
    <3> QED
      BY <2>2, <2>4, <3>3, <3>4 DEF Held, CallSound
  <2> QED
    BY <2>4, <2>5, <2>6, <2>7, StepHeld DEF Held, CacheSound
<1> QED
  BY <1>1, <1>2

LEMMA ResolveHeld ==
  ASSUME Held, SpendLate \/ Resolve \/ EditPolicies
  PROVE  Held'
<1>1. /\ approvals' \in Seq(Approval) /\ Len(approvals') = Len(approvals)
      /\ policy' \in DOMAIN Becomes /\ edits' \in Nat
  <2>1. CASE Resolve
    <3>1. PICK i \in DOMAIN approvals, verdict \in {"granted", "denied"} :
            approvals' = [approvals EXCEPT ![i].status = verdict]
      BY <2>1 DEF Resolve
    <3> DEFINE a == approvals[i]
    <3>2. a \in Approval /\ approvals \in Seq(Approval)
      BY DEF Held, ClientTypeOK
    <3>3. approvals' = [approvals EXCEPT ![i] = [a EXCEPT !.status = verdict]]
      BY <3>1, <3>2
    <3> HIDE DEF a
    <3>4. [a EXCEPT !.status = verdict] \in Approval
      BY <3>2 DEF Approval
    <3>5. approvals' \in Seq(Approval) /\ Len(approvals') = Len(approvals)
      BY <3>2, <3>3, <3>4
    <3> QED
      BY <2>1, <3>5 DEF Resolve, Held, ClientTypeOK
  <2>2. CASE EditPolicies
    <3>1. policy' \in DOMAIN Becomes
      BY <2>2, StartsAssumption DEF EditPolicies, Held, ClientTypeOK
    <3> QED
      BY <2>2, <3>1 DEF EditPolicies, Held, ClientTypeOK
  <2>3. CASE SpendLate
    BY <2>3, SpendLateEffect DEF SpendLate, Held, ClientTypeOK
  <2> QED
    BY <2>1, <2>2, <2>3
<1>2. UNCHANGED <<followed, local, wire>>
  BY DEF SpendLate, Resolve, EditPolicies, server
<1>3. ClientTypeOK'
  BY <1>1, <1>2 DEF Held, ClientTypeOK, local
<1>4. Stays /\ \A e \in Calls : Aside(e)
  BY <1>1, <1>2, CallTypes DEF Stays, Held, Aside, local
<1>5. CacheSound'
  BY <1>2, <1>3, <1>4, EntriesStay, SeqMono DEF CacheSound, Held, local
<1> QED
  BY <1>3, <1>4, <1>5, AsideStays DEF Held

LEMMA OlderSound ==
  ASSUME NEW d \in Decision, NEW key, Sound(d, key)
  PROVE  Sound(Older(d), key)
  BY OlderType DEF Sound

(* What a unit of time does to a message and to an entry.                  *)
LEMMA TickWire ==
  ASSUME Held, Tick, NEW c \in Calls
  PROVE  /\ wire'[c] \in Messages
         /\ wire[c].phase \notin Carried => wire'[c] = wire[c]
         /\ wire[c].phase \in Carried =>
              wire'[c].phase = wire[c].phase /\ wire'[c].decision = Older(wire[c].decision)
<1>1. wire'[c] = IF wire[c].phase \in Carried THEN [wire[c] EXCEPT !.decision = Older(wire[c].decision)]
                 ELSE wire[c]
  BY DEF Tick
<1>2. CASE wire[c].phase \in Carried
  <2>1. wire[c] \in Carriers /\ Older(wire[c].decision) \in Decision
    BY <1>2, WireType, OlderType DEF Held
  <2> QED
    BY <1>1, <1>2, <2>1 DEF Carriers, Messages
<1>3. CASE wire[c].phase \notin Carried
  BY <1>1, <1>3 DEF Held, ClientTypeOK
<1> QED
  BY <1>2, <1>3

LEMMA TickEntry ==
  ASSUME NEW e \in SoundEntries
  PROVE  [e EXCEPT !.left = IF @ = 0 THEN 0 ELSE @ - 1, !.decision = Older(@)] \in SoundEntries
<1> DEFINE f == [e EXCEPT !.left = IF @ = 0 THEN 0 ELSE @ - 1, !.decision = Older(@)]
           spare == IF e.left = 0 THEN 0 ELSE e.left - 1
           d == e.decision
<1>1. e \in Entry /\ d \in Decision /\ e.left \in 0 .. TTL /\ e.key \in Keys /\ Sound(d, e.key) /\ d.redeemed = 0
      /\ (e.left > 0 => d.age <= Timeout + TTL - e.left)
  BY DEF SoundEntries, Entry
<1>2. Older(d) \in Decision /\ Older(d).age <= d.age + 1 /\ Older(d).redeemed = d.redeemed
      /\ Older(d).age \in Int /\ d.age \in Int
  BY <1>1, OlderType, Bounds DEF Decision
<1>3. Sound(Older(d), e.key)
  BY <1>1, OlderSound
<1>4. f.left = spare /\ f.decision = Older(d) /\ f.key = e.key /\ f = [e EXCEPT !.left = spare, !.decision = Older(d)]
  BY <1>1 DEF Entry
<1>5. spare \in 0 .. TTL /\ (spare > 0 => e.left > 0 /\ spare = e.left - 1)
  BY <1>1, Bounds
<1> HIDE DEF f, spare, d
<1>6. f \in Entry
  BY <1>1, <1>2, <1>4, <1>5 DEF Entry
<1>7. spare > 0 => Older(d).age <= Timeout + TTL - spare
  BY <1>1, <1>2, <1>5, Bounds
<1>8. f \in SoundEntries
  BY <1>1, <1>2, <1>3, <1>4, <1>6, <1>7 DEF SoundEntries
<1> QED
  BY <1>8 DEF f

LEMMA TickHeld ==
  ASSUME Held, Tick
  PROVE  Held'
<1>1. UNCHANGED <<policy, edits, approvals, followed, ask, tries, answer>>
  BY DEF Tick, server
<1>2. at' \in [Calls -> Places] /\ left' \in [Calls -> Nat] /\ wire' \in [Calls -> Messages]
  <2>1. at' \in [Calls -> Places]
    BY DEF Tick, Held, ClientTypeOK, Places
  <2>2. left' \in [Calls -> Nat]
    <3>1. \A c \in Calls : (IF Waiting(c) /\ left[c] > 0 THEN left[c] - 1 ELSE left[c]) \in Nat
      BY DEF Held, ClientTypeOK
    <3> QED
      BY <3>1 DEF Tick
  <2>3. wire' = [c \in Calls |-> wire'[c]]
    BY DEF Tick
  <2> QED
    BY <2>1, <2>2, <2>3, TickWire
<1>3. cache' \in Seq(SoundEntries)
  <2> DEFINE aged(i) == [cache[i] EXCEPT !.left = IF @ = 0 THEN 0 ELSE @ - 1, !.decision = Older(@)]
  <2>1. \A i \in DOMAIN cache : aged(i) \in SoundEntries
    BY EntryTypes, TickEntry DEF Held
  <2>2. cache' = [i \in DOMAIN cache |-> aged(i)]
    BY DEF Tick
  <2>3. DOMAIN cache = 1 .. Len(cache) /\ Len(cache) \in Nat
    BY DEF Held, CacheSound
  <2> HIDE DEF aged
  <2> QED
    BY <2>1, <2>2, <2>3
<1>4. ClientTypeOK'
  <2>1. cache' \in Seq(Entry)
    BY <1>3, SeqMono DEF SoundEntries
  <2> QED
    BY <1>1, <1>2, <2>1 DEF Held, ClientTypeOK
<1>5. Stays
  BY <1>1, CallTypes DEF Stays, Held
<1>6. CacheSound'
  BY <1>3, <1>4, <1>5, EntriesStay, SeqMono DEF CacheSound, Held
<1>7. ASSUME NEW c \in Calls PROVE CallSound(c)'
  <2>1. /\ at'[c] = (IF at[c] = "napping" THEN "polling" ELSE at[c])
        /\ left'[c] = (IF Waiting(c) /\ left[c] > 0 THEN left[c] - 1 ELSE left[c])
        /\ at[c] = "out" => left[c] > 0
    BY DEF Tick
  <2>2. at[c] = "out" => left'[c] = left[c] - 1 /\ left[c] \in Nat
    BY <2>1, CallTypes DEF Waiting, Held
  <2>3. Sound(answer[c], ask[c].key)'
    BY <1>1 DEF Sound, Held, CallSound
  <2>4. wire'[c].phase \in Carried => WireSound(c)'
    <3> SUFFICES ASSUME wire'[c].phase \in Carried PROVE WireSound(c)'
      OBVIOUS
    <3> DEFINE d == wire[c].decision
    <3>1. wire[c].phase \in Carried /\ d \in Decision /\ wire'[c].decision = Older(d) /\ at[c] = "out"
          /\ wire'[c].phase = wire[c].phase /\ WireSound(c)
      BY TickWire, WireType DEF Held, CallSound, Nothing
    <3>2. Sound(Older(d), ask[c].key) /\ Older(d).redeemed = d.redeemed
          /\ Older(d).age <= d.age + 1 /\ Older(d) \in Decision
      BY <3>1, OlderSound, OlderType DEF WireSound
    <3>3. Older(d).age <= Timeout - left'[c]
      <4>1. d.age <= Timeout - left[c] /\ d.age \in Int /\ Older(d).age \in Int
        BY <3>1, <3>2, Bounds DEF WireSound, Decision
      <4> HIDE DEF d
      <4> QED
        BY <2>2, <3>1, <3>2, <4>1, Bounds
    <3> QED
      BY <1>1, <3>1, <3>2, <3>3 DEF WireSound, Sound
  <2>5. wire'[c] # Nothing => at'[c] = "out"
    BY <2>1, TickWire, WireType DEF Held, CallSound
  <2>6. at'[c] = "out" => left'[c] <= Timeout
    BY <2>1, <2>2, Bounds DEF Held, CallSound
  <2> QED
    BY <1>1, <2>1, <2>3, <2>4, <2>5, <2>6 DEF Held, CallSound
<1> QED
  BY <1>4, <1>6, <1>7 DEF Held

LEMMA InitHeld ==
  ASSUME Init
  PROVE  Held
<1>1. PICK start \in Starts : policy = start.policy /\ ask = start.ask /\ followed = start.followed
  BY DEF Init
<1>2. policy \in DOMAIN Becomes /\ followed \in BOOLEAN /\ ask \in [Calls -> Ask]
      /\ \A c \in Calls : ask[c].kind # "redeem"
  BY <1>1, StartsAssumption
<1>3. \A c \in Calls : ask[c].key \in Keys
  BY <1>2 DEF Ask
<1>4. ClientTypeOK
  <2>1. answer \in [Calls -> Decision]
    BY <1>3, DenialType DEF Init
  <2>2. at \in [Calls -> Places]
    BY DEF Init, Places
  <2> QED
    BY <1>2, <2>1, <2>2 DEF Init, ClientTypeOK, Messages
<1>5. ASSUME NEW c \in Calls PROVE CallSound(c)
  <2>1. answer[c] = denial(ask[c].key) /\ wire[c] = Nothing /\ at[c] \in {"ended", "idle"}
    BY DEF Init
  <2> QED
    BY <1>2, <1>4, <2>1, DenialSound, WireType DEF CallSound
<1> QED
  BY <1>4, <1>5 DEF Init, Held, CacheSound

LEMMA StepKeepsHeld ==
  ASSUME Held, [Next]_vars
  PROVE  Held'
<1>1. ASSUME UNCHANGED <<server, local, wire>> PROVE Held'
  <2>1. ClientTypeOK' /\ Stays /\ \A e \in Calls : Aside(e)
    BY <1>1, CallTypes DEF Held, ClientTypeOK, server, local, Stays, Aside
  <2> QED
    BY <1>1, <2>1, AsideStays, EntriesStay, SeqMono DEF Held, CacheSound, local
<1>2. ASSUME NEW c \in Calls, Caller(c) \/ Serve(c) \/ Validate(c) \/ Spend(c) PROVE Held'
  BY <1>2, HitHeld, MissHeld, UnreachableHeld, AnsweredHeld, EndingHeld, WaitingHeld, ServeHeld,
     RedemptionHeld DEF Caller
<1> QED
  BY <1>1, <1>2, ResolveHeld, TickHeld DEF Next, vars

LEMMA HeldAlways == Spec => []Held
  BY InitHeld, StepKeepsHeld, PTL DEF Spec

(* Whatever times out, is lost, is tried again or is cached: who holds an  *)
(* allow has it from the control plane, for the very question it asked, and *)
(* from less than the timeout and the life of an entry ago                 *)
(* (_ClientBase.decide, _handle, _DecisionCache).                          *)
THEOREM AllowsAlwaysGivenAndFresh == Spec => []AllowsAreGivenAndFresh
<1>1. Held => AllowsAreGivenAndFresh
  <2> SUFFICES ASSUME Held, NEW c \in Calls, at[c] = "holding", answer[c].effect = "allow"
               PROVE  /\ answer[c].key = ask[c].key
                      /\ answer[c].age < Timeout + TTL
                      /\ answer[c].id = "none" =>
                           \E d \in Calls : ask[d] = [key |-> ask[c].key, kind |-> "advise"]
    BY DEF AllowsAreGivenAndFresh
  <2> QED
    BY DEF Held, CallSound, Sound
<1> QED
  BY <1>1, HeldAlways, PTL

(* The types of the client's state.                                        *)
THEOREM ClientTypeCorrect == Spec => [](OutcomeTypeOK /\ ClientTypeOK)
<1>1. Honest /\ Held => OutcomeTypeOK /\ ClientTypeOK
  BY DEF Honest, Story, Held
<1> QED
  BY <1>1, HonestAlways, HeldAlways, PTL

----------------------------------------------------------------------------
(* Client: every allow that comes of redeeming an approval has a           *)
(* redemption to itself.                                                   *)

(* Who has, or is being sent, an allow that comes of redeeming approval i, *)
(* and whose handler is about to record one.                               *)
Bears(c, i)     == answer[c].redeemed = i \/ (wire[c].phase = "answer" /\ wire[c].decision.redeemed = i)
Bearers(i)      == {c \in Calls : Bears(c, i)}
Marking(c, i)   == wire[c].phase = "redeeming" /\ wire[c].decision.redeemed = i

Tallied == \A i \in DOMAIN approvals : Cardinality(Bearers(i)) <= approvals[i].spends

(* One that was never found good for two at a time is being redeemed by    *)
(* nobody, by one handler, or has been.                                    *)
Single(i) ==
  /\ approvals[i].status # "spent" => approvals[i].spends = 0
  /\ \/ approvals[i].raced
     \/ /\ approvals[i].spends + approvals[i].late <= 1
        /\ \A c \in Calls : Marking(c, i) =>
             /\ approvals[i].spends + approvals[i].late = 0
             /\ \A d \in Calls : Marking(d, i) => d = c

Singly == \A i \in DOMAIN approvals : Single(i)

LEMMA ApprovalTypes ==
  ASSUME ClientTypeOK, NEW i \in DOMAIN approvals
  PROVE  /\ approvals[i] \in Approval /\ approvals[i].spends \in Nat /\ approvals[i].late \in Nat
         /\ approvals[i].raced \in BOOLEAN /\ i \in Nat /\ i # 0
<1>1. approvals[i] \in Approval /\ i \in 1 .. Len(approvals)
  BY DEF ClientTypeOK
<1> QED
  BY <1>1, CallTypes DEF Approval

LEMMA BearersCount ==
  ASSUME NEW B \in SUBSET Calls
  PROVE  IsFiniteSet(B) /\ Cardinality(B) \in Nat
  BY ClientAssumption, FS_Subset, FS_CardinalityType

(* What nobody new bears, and is not un-spent, stays tallied.              *)
LEMMA TallyKept ==
  ASSUME NEW i, Cardinality(Bearers(i)) <= approvals[i].spends,
         approvals[i].spends \in Nat, approvals'[i].spends \in Nat,
         approvals[i].spends <= approvals'[i].spends, \A c \in Calls : Bears(c, i)' => Bears(c, i)
  PROVE  Cardinality(Bearers(i)') <= approvals'[i].spends
<1>1. Bearers(i)' \subseteq Bearers(i) /\ Bearers(i) \subseteq Calls
  BY DEF Bearers
<1>2. IsFiniteSet(Bearers(i)) /\ Cardinality(Bearers(i)) \in Nat /\ Cardinality(Bearers(i)') \in Nat
  BY <1>1, BearersCount
<1>3. Cardinality(Bearers(i)') <= Cardinality(Bearers(i))
  BY <1>1, <1>2, FS_Subset
<1> QED
  BY <1>2, <1>3

(* A cached answer never comes of a redemption, nor does a denial; a call  *)
(* that ends remembers its redemption; so only the server adds a bearer.   *)
LEMMA NobodyElseBears ==
  ASSUME Held, NEW c \in Calls, Caller(c), NEW d \in Calls, NEW i \in DOMAIN approvals, Bears(d, i)'
  PROVE  Bears(d, i)
<1>0. i # 0
  BY ApprovalTypes DEF Held
<1>1. CASE d # c
  <2>1. answer'[d] = answer[d] /\ wire'[d] = wire[d]
    BY <1>1 DEF Held, ClientTypeOK, Caller, Hit, Miss, Resend, Send, Unreachable, Receive, Rejected, Take,
                ServerError, Await, Poll, PollFails, Act, Leave, End
  <2> QED
    BY <2>1 DEF Bears
<1>2. CASE d = c
  <2>1. CASE Hit(c)
    <3>1. PICK k \in DOMAIN cache : answer' = [answer EXCEPT ![c] = cache[k].decision]
      BY <2>1 DEF Hit, Entries
    <3>2. answer'[c].redeemed = 0
      BY <3>1, EntryTypes DEF Held, ClientTypeOK, SoundEntries
    <3> QED
      BY <1>0, <1>2, <2>1, <3>2 DEF Hit, Bears
  <2>2. CASE Miss(c) \/ Resend(c)
    <3>1. answer' = answer /\ wire'[c] = Request
      BY <2>2, SendType DEF Miss, Resend, Held
    <3> QED
      BY <1>2, <3>1, WireType DEF Bears, Held
  <2>3. CASE Unreachable(c) \/ Receive(c) \/ Rejected(c) \/ ServerError(c) \/ PollFails(c) \/ Act(c) \/ Leave(c)
    <3>1. CASE Unreachable(c)
      <4>1. wire'[c] = Nothing /\ answer'[c] \in {answer[c], denial(ask[c].key)}
        BY <3>1 DEF Unreachable, _on_unreachable, Held, ClientTypeOK
      <4> QED
        BY <1>0, <1>2, <4>1, DenialSound, WireType DEF Bears, Held
    <3>2. CASE Receive(c)
      <4>1. wire'[c] = Nothing /\ answer'[c] = wire[c].decision /\ wire[c].phase = "answer"
        BY <3>2 DEF Receive, Take, Held, ClientTypeOK
      <4> QED
        BY <1>2, <4>1, WireType DEF Bears, Held
    <3>3. CASE Rejected(c)
      <4>1. wire'[c] = Nothing /\ answer'[c] = denial(ask[c].key)
        BY <3>3 DEF Rejected, Take, Held, ClientTypeOK
      <4> QED
        BY <1>0, <1>2, <4>1, DenialSound, WireType DEF Bears, Held
    <3>4. ASSUME End(c), wire'[c] = Nothing \/ wire'[c] = wire[c] PROVE Bears(c, i)
      <4>1. answer'[c].redeemed = answer[c].redeemed
        BY <3>4, EndType DEF Held
      <4> QED
        BY <1>2, <3>4, <4>1, WireType DEF Bears, Held
    <3>5. CASE ServerError(c)
      BY <1>2, <3>4, <3>5 DEF ServerError, Held, ClientTypeOK
    <3>6. CASE PollFails(c)
      BY <1>2, <3>4, <3>6 DEF PollFails
    <3>7. CASE Act(c)
      BY <1>2, <3>4, <3>7 DEF Act
    <3>8. CASE Leave(c)
      BY <1>2, <3>4, <3>8 DEF Leave
    <3> QED
      BY <2>3, <3>1, <3>2, <3>3, <3>5, <3>6, <3>7, <3>8
  <2>4. CASE Await(c)
    BY <2>4 DEF Await, Bears
  <2>5. CASE Poll(c)
    <3>1. wire' = wire /\ (End(c) \/ answer' = answer)
      BY <2>5 DEF Poll
    <3>2. answer'[c].redeemed = answer[c].redeemed
      BY <3>1, EndType DEF Held
    <3> QED
      BY <1>2, <3>1, <3>2 DEF Bears
  <2> QED
    BY <2>1, <2>2, <2>3, <2>4, <2>5 DEF Caller
<1> QED
  BY <1>1, <1>2

(* Nor does a caller make a handler redeem; one it gives up goes on alone. *)
LEMMA CallerRedeemsNothing ==
  ASSUME Held, NEW c \in Calls, Caller(c)
  PROVE  /\ \A i : \A d \in Calls : Marking(d, i)' => Marking(d, i)
         /\ Unreachable(c) => wire'[c] = Nothing
         /\ ~Unreachable(c) => approvals' = approvals
<1>1. \A d \in Calls : d # c => wire'[d] = wire[d]
  BY DEF Held, ClientTypeOK, Caller, Hit, Miss, Resend, Send, Unreachable, Receive, Rejected, Take,
         ServerError, Await, Poll, PollFails, Act, Leave, End
<1>2. wire'[c] \in {wire[c], Nothing, Request}
  BY DEF Held, ClientTypeOK, Caller, Hit, Miss, Resend, Send, Unreachable, Receive, Rejected, Take,
         ServerError, Await, Poll, PollFails, Act, Leave, End
<1>3. Unreachable(c) => wire'[c] = Nothing
  BY DEF Unreachable, Held, ClientTypeOK
<1>4. ~Unreachable(c) => approvals' = approvals
  BY DEF Caller, Hit, Miss, Resend, Receive, Rejected, Take, ServerError, Await, Poll, PollFails, Act,
         Leave, server
<1> QED
  BY <1>1, <1>2, <1>3, <1>4, WireType DEF Marking, Held

LEMMA CallerTallied ==
  ASSUME Held, Held', Tallied, Singly, NEW c \in Calls, Caller(c)
  PROVE  Tallied' /\ Singly'
<1>1. /\ DOMAIN approvals' = DOMAIN approvals
      /\ \A j \in DOMAIN approvals :
           \/ approvals'[j] = approvals[j]
           \/ /\ Marking(c, j) /\ ~Marking(c, j)'
              /\ approvals'[j] = [approvals[j] EXCEPT !.late = approvals[j].late + 1]
  <2>1. CASE Unreachable(c)
    BY <2>1, Abandons, CallerRedeemsNothing, WireType DEF Unreachable, Marking, Held
  <2>2. CASE ~Unreachable(c)
    BY <2>2, CallerRedeemsNothing
  <2> QED
    BY <2>1, <2>2
<1> SUFFICES ASSUME NEW i \in DOMAIN approvals
             PROVE  Cardinality(Bearers(i)') <= approvals'[i].spends /\ Single(i)'
  BY <1>1 DEF Tallied, Singly
<1> DEFINE a == approvals[i]
           b == approvals'[i]
<1>2. /\ a \in Approval /\ a.spends \in Nat /\ a.late \in Nat /\ b.spends \in Nat
      /\ b.spends = a.spends /\ b.status = a.status /\ b.raced = a.raced
      /\ \/ b.late = a.late
         \/ b.late = a.late + 1 /\ Marking(c, i) /\ ~Marking(c, i)'
  BY <1>1, ApprovalTypes DEF Held, Approval
<1>3. Cardinality(Bearers(i)') <= b.spends
  <2>1. \A d \in Calls : Bears(d, i)' => Bears(d, i)
    BY NobodyElseBears
  <2>2. Cardinality(Bearers(i)) <= a.spends /\ a.spends <= b.spends
    BY <1>2 DEF Tallied
  <2> QED
    BY <1>2, <2>1, <2>2, TallyKept
<1>4. Single(i)'
  <2>1. Single(i) /\ \A d \in Calls : Marking(d, i)' => Marking(d, i)
    BY CallerRedeemsNothing DEF Singly
  <2> HIDE DEF a, b
  <2>2. /\ a.status # "spent" => a.spends = 0
        /\ \/ a.raced
           \/ /\ a.spends + a.late <= 1
              /\ \A d \in Calls : Marking(d, i) =>
                   a.spends + a.late = 0 /\ \A e \in Calls : Marking(e, i) => e = d
    BY <2>1 DEF Single, a
  <2>3. /\ b.status # "spent" => b.spends = 0
        /\ \/ b.raced
           \/ /\ b.spends + b.late <= 1
              /\ \A d \in Calls : Marking(d, i)' =>
                   b.spends + b.late = 0 /\ \A e \in Calls : Marking(e, i)' => e = d
    BY <1>2, <2>1, <2>2
  <2> QED
    BY <2>3 DEF Single, b
<1> QED
  BY <1>3, <1>4

(* A decision that redeems nothing adds no bearer, and at most a ticket    *)
(* nobody can have redeemed.                                               *)
LEMMA ServeTallied ==
  ASSUME Held, Held', Tallied, Singly, NEW c \in Calls, Serve(c)
  PROVE  Tallied' /\ Singly'
<1>1. PICK id \in Ids(c) : Record(c, id) /\ wire' = [wire EXCEPT ![c] = Answer(Decided(c, id))]
  BY DEF Serve
<1>2. wire[c] = Request /\ answer' = answer /\ ~Redeems(c)
  BY DEF Serve, local
<1>3. /\ wire'[c].phase = "answer" /\ wire'[c].decision.redeemed = 0
      /\ \A d \in Calls : d # c => wire'[d] = wire[d]
  BY <1>1, <1>2, DecidedTypes DEF Held, ClientTypeOK, Answer
<1>4. /\ \A i \in DOMAIN approvals : i \in DOMAIN approvals' /\ approvals'[i] = approvals[i]
      /\ \A i \in DOMAIN approvals' \ DOMAIN approvals :
           i = Len(approvals) + 1 /\ approvals'[i] = Opened(ask[c].key)
  BY <1>1, RecordTypes
<1>5. \A d \in Calls : /\ answer[d].redeemed \in 0 .. Len(approvals)
                       /\ wire[d].phase \in Carried => wire[d].decision.redeemed \in 0 .. Len(approvals)
  BY DEF Held, CallSound, WireSound, Sound
<1>6. ASSUME NEW i, i # 0
      PROVE  \A d \in Calls : (Bears(d, i)' => Bears(d, i)) /\ (Marking(d, i)' => Marking(d, i))
  BY <1>2, <1>3, <1>6 DEF Bears, Marking
<1>7. ASSUME NEW i \in DOMAIN approvals
      PROVE  Cardinality(Bearers(i)') <= approvals'[i].spends /\ Single(i)'
  <2>1. i # 0 /\ approvals[i].spends \in Nat /\ approvals'[i] = approvals[i]
    BY <1>4, ApprovalTypes DEF Held
  <2>2. Cardinality(Bearers(i)') <= approvals'[i].spends
    BY <1>6, <2>1, TallyKept DEF Tallied
  <2>3. Single(i)'
    BY <1>6, <2>1 DEF Singly, Single
  <2> QED
    BY <2>2, <2>3
<1>8. ASSUME NEW i \in DOMAIN approvals' \ DOMAIN approvals
      PROVE  Cardinality(Bearers(i)') <= approvals'[i].spends /\ Single(i)'
  <2>1. i = Len(approvals) + 1 /\ Len(approvals) \in Nat /\ approvals'[i] = Opened(ask[c].key)
    BY <1>4, CallTypes DEF Held
  <2>2. approvals'[i].spends = 0 /\ approvals'[i].late = 0
    BY <2>1 DEF Opened
  <2>3. \A d \in Calls : ~Bears(d, i)' /\ ~Marking(d, i)'
    BY <1>5, <1>6, <2>1, WireType DEF Bears, Marking, Held
  <2>4. Cardinality(Bearers(i)') = 0
    BY <2>3, FS_EmptySet DEF Bearers
  <2> QED
    BY <2>2, <2>3, <2>4 DEF Single
<1> QED
  BY <1>7, <1>8 DEF Tallied, Singly

LEMMA ValidateTallied ==
  ASSUME Held, Held', Tallied, Singly, NEW c \in Calls, Validate(c)
  PROVE  Tallied' /\ Singly'
<1> DEFINE t == answer[c].approval
<1>1. PICK id \in Ids(c) : wire' = [wire EXCEPT ![c] = Redeeming(Decided(c, id))]
  BY DEF Validate
<1>2. /\ wire[c] = Request /\ Redeems(c) /\ t \in DOMAIN approvals /\ approvals[t].status = "granted"
      /\ DOMAIN approvals' = DOMAIN approvals
      /\ approvals'[t] = [approvals[t] EXCEPT !.raced = approvals[t].raced \/ InUse(t)]
      /\ \A j \in DOMAIN approvals : j # t => approvals'[j] = approvals[j]
  BY ValidateEffect
<1>3. answer' = answer /\ wire'[c].phase = "redeeming" /\ wire'[c].decision.redeemed = t
      /\ \A d \in Calls : d # c => wire'[d] = wire[d]
  BY <1>1, <1>2, DecidedTypes DEF Validate, local, Held, ClientTypeOK, Redeeming
<1>4. ~(wire[c].phase = "redeeming")
  BY <1>2 DEF Request
<1> SUFFICES ASSUME NEW i \in DOMAIN approvals
             PROVE  Cardinality(Bearers(i)') <= approvals'[i].spends /\ Single(i)'
  BY <1>2 DEF Tallied, Singly
<1> DEFINE a == approvals[i]
           b == approvals'[i]
<1>5. /\ a \in Approval /\ a.spends \in Nat /\ a.late \in Nat
      /\ b.spends = a.spends /\ b.status = a.status /\ b.late = a.late
      /\ b.raced = (a.raced \/ (i = t /\ InUse(t)))
  <2>1. a \in Approval /\ a.spends \in Nat /\ a.late \in Nat /\ a.raced \in BOOLEAN
    BY ApprovalTypes DEF Held
  <2>2. CASE i = t
    BY <1>2, <2>1, <2>2 DEF Approval
  <2>3. CASE i # t
    BY <1>2, <2>1, <2>3
  <2> QED
    BY <2>1, <2>2, <2>3
<1>6. Cardinality(Bearers(i)') <= b.spends
  <2>1. \A d \in Calls : Bears(d, i)' => Bears(d, i)
    BY <1>3 DEF Bears
  <2> QED
    BY <1>5, <2>1, TallyKept DEF Tallied
<1>7. Single(i)'
  <2>1. Single(i)
    BY DEF Singly
  <2>2. CASE i # t
    <3>1. \A d \in Calls : Marking(d, i)' => Marking(d, i)
      BY <1>3, <2>2 DEF Marking
    <3> QED
      BY <1>2, <2>1, <2>2, <3>1 DEF Single
  <2>3. CASE i = t /\ InUse(t)
    BY <1>2, <1>5, <2>1, <2>3 DEF Single
  <2>4. CASE i = t /\ ~InUse(t)
    <3>1. a.late = 0 /\ a.spends = 0 /\ \A d \in Calls : ~Marking(d, i)
      BY <1>2, <1>5, <2>1, <2>4 DEF Single, InUse, Marking
    <3>2. \A d \in Calls : Marking(d, i)' => d = c
      BY <1>3, <3>1 DEF Marking
    <3> HIDE DEF a, b
    <3>3. b.spends = 0 /\ b.late = 0
      BY <1>5, <3>1
    <3> QED
      BY <3>2, <3>3 DEF Single, b
  <2> QED
    BY <2>2, <2>3, <2>4
<1> QED
  BY <1>6, <1>7

(* One more bearer of the approval, and one more redemption of it.         *)
LEMMA SpendTallied ==
  ASSUME Held, Held', Tallied, Singly, NEW c \in Calls, Spend(c)
  PROVE  Tallied' /\ Singly'
<1> DEFINE t == wire[c].decision.redeemed
<1>1. /\ wire[c].phase = "redeeming" /\ t \in DOMAIN approvals /\ DOMAIN approvals' = DOMAIN approvals
      /\ approvals'[t] = Spent(approvals[t])
      /\ \A j \in DOMAIN approvals : j # t => approvals'[j] = approvals[j]
      /\ wire'[c] = Answer(wire[c].decision) /\ \A d \in Calls : d # c => wire'[d] = wire[d]
      /\ answer' = answer
  BY SpendEffect
<1>2. wire'[c].phase = "answer" /\ wire'[c].decision = wire[c].decision
  BY <1>1 DEF Answer
<1> SUFFICES ASSUME NEW i \in DOMAIN approvals
             PROVE  Cardinality(Bearers(i)') <= approvals'[i].spends /\ Single(i)'
  BY <1>1 DEF Tallied, Singly
<1>3. approvals[i] \in Approval /\ approvals[i].spends \in Nat /\ approvals[i].late \in Nat
  BY ApprovalTypes DEF Held
<1>4. CASE i # t
  <2>1. \A d \in Calls : (Bears(d, i)' => Bears(d, i)) /\ (Marking(d, i)' => Marking(d, i))
    BY <1>1, <1>2, <1>4 DEF Bears, Marking
  <2>2. approvals'[i] = approvals[i]
    BY <1>1, <1>4
  <2> QED
    BY <1>3, <2>1, <2>2, TallyKept DEF Tallied, Singly, Single
<1>5. CASE i = t
  <2>1. /\ approvals'[i].spends = approvals[i].spends + 1 /\ approvals'[i].late = approvals[i].late
        /\ approvals'[i].raced = approvals[i].raced /\ approvals'[i].status = "spent"
    BY <1>1, <1>3, <1>5, SpentType
  <2>2. Bearers(i)' \subseteq Bearers(i) \union {c} /\ Bearers(i) \subseteq Calls
    BY <1>1, <1>2 DEF Bearers, Bears
  <2>3. IsFiniteSet(Bearers(i)) /\ Cardinality(Bearers(i)) \in Nat
    BY <2>2, BearersCount
  <2>4. /\ IsFiniteSet(Bearers(i) \union {c}) /\ Cardinality(Bearers(i) \union {c}) \in Nat
        /\ Cardinality(Bearers(i) \union {c}) <= Cardinality(Bearers(i)) + 1
    <3>1. /\ IsFiniteSet(Bearers(i) \union {c})
          /\ Cardinality(Bearers(i) \union {c}) =
               IF c \in Bearers(i) THEN Cardinality(Bearers(i)) ELSE Cardinality(Bearers(i)) + 1
      BY <2>3, FS_AddElement
    <3> QED
      BY <2>3, <3>1
  <2>5. Cardinality(Bearers(i)') <= Cardinality(Bearers(i) \union {c}) /\ Cardinality(Bearers(i)') \in Nat
    BY <2>2, <2>4, FS_Subset, FS_CardinalityType
  <2>6. Cardinality(Bearers(i)') <= approvals'[i].spends
    <3>1. Cardinality(Bearers(i)) <= approvals[i].spends
      BY DEF Tallied
    <3> QED
      BY <1>3, <2>1, <2>3, <2>4, <2>5, <3>1
  <2>7. Single(i)'
    <3>1. Marking(c, i) /\ Single(i)
      BY <1>1, <1>5 DEF Marking, Singly
    <3>2. \A d \in Calls : Marking(d, i)' => d # c /\ Marking(d, i)
      BY <1>1, <1>2 DEF Marking
    <3>3. \/ approvals[i].raced
          \/ approvals[i].spends + approvals[i].late = 0 /\ \A d \in Calls : ~Marking(d, i)'
      BY <3>1, <3>2 DEF Single
    <3>4. approvals[i].raced \/ (approvals'[i].spends + approvals'[i].late <= 1 /\ \A d \in Calls : ~Marking(d, i)')
      BY <1>3, <2>1, <3>3
    <3> QED
      BY <2>1, <3>4 DEF Single
  <2> QED
    BY <2>6, <2>7
<1> QED
  BY <1>4, <1>5

(* What no call has to do with: a late redemption, a reviewer, an edit,    *)
(* time.                                                                   *)
LEMMA ElsewhereTallied ==
  ASSUME Held, Held', Tallied, Singly, SpendLate \/ Resolve \/ EditPolicies \/ Tick
  PROVE  Tallied' /\ Singly'
<1>1. \A i : \A d \in Calls : (Bears(d, i)' => Bears(d, i)) /\ (Marking(d, i)' => Marking(d, i))
  <2>1. CASE ~Tick
    BY <2>1 DEF SpendLate, Resolve, EditPolicies, local, Bears, Marking
  <2>2. ASSUME Tick, NEW d \in Calls, NEW i
        PROVE  (Bears(d, i)' => Bears(d, i)) /\ (Marking(d, i)' => Marking(d, i))
    <3>1. answer' = answer
      BY <2>2 DEF Tick
    <3>2. CASE wire[d].phase \in Carried
      BY <2>2, <3>1, <3>2, TickWire, WireType, OlderType DEF Bears, Marking, Held
    <3>3. CASE wire[d].phase \notin Carried
      BY <2>2, <3>1, <3>3, TickWire DEF Bears, Marking
    <3> QED
      BY <3>2, <3>3
  <2> QED
    BY <2>1, <2>2
<1>2. /\ DOMAIN approvals' = DOMAIN approvals
      /\ \A j \in DOMAIN approvals :
           \/ approvals'[j].late = approvals[j].late /\ approvals'[j].spends = approvals[j].spends
              /\ approvals'[j].raced = approvals[j].raced
              /\ (approvals'[j].status = "spent" <=> approvals[j].status = "spent")
           \/ /\ approvals[j].late > 0 /\ approvals'[j].status = "spent"
              /\ approvals'[j].spends = approvals[j].spends + 1
              /\ approvals'[j].late = approvals[j].late - 1 /\ approvals'[j].raced = approvals[j].raced
  <2>1. CASE SpendLate
    BY <2>1, SpendLateEffect
  <2>2. CASE Resolve
    <3>1. PICK k \in DOMAIN approvals, verdict \in {"granted", "denied"} :
            approvals[k].status = "pending" /\ approvals' = [approvals EXCEPT ![k].status = verdict]
      BY <2>2 DEF Resolve
    <3>2. \A j \in DOMAIN approvals : approvals[j] \in Approval
      BY ApprovalTypes DEF Held
    <3> QED
      BY <3>1, <3>2 DEF Held, ClientTypeOK, Approval
  <2>3. CASE EditPolicies \/ Tick
    BY <2>3 DEF EditPolicies, Tick, server
  <2> QED
    BY <2>1, <2>2, <2>3
<1> SUFFICES ASSUME NEW i \in DOMAIN approvals
             PROVE  Cardinality(Bearers(i)') <= approvals'[i].spends /\ Single(i)'
  BY <1>2 DEF Tallied, Singly
<1>3. /\ approvals[i].spends \in Nat /\ approvals[i].late \in Nat
      /\ approvals'[i].spends \in Nat /\ approvals[i].spends <= approvals'[i].spends
  BY <1>2, ApprovalTypes DEF Held
<1>4. Cardinality(Bearers(i)') <= approvals'[i].spends
  BY <1>1, <1>3, TallyKept DEF Tallied
<1>5. Single(i)'
  BY <1>1, <1>2, <1>3 DEF Singly, Single
<1> QED
  BY <1>4, <1>5

LEMMA TalliedStep ==
  ASSUME Held, Held', Tallied, Singly, [Next]_vars
  PROVE  Tallied' /\ Singly'
<1>1. ASSUME UNCHANGED <<approvals, answer, wire>> PROVE Tallied' /\ Singly'
  BY <1>1 DEF Tallied, Singly, Single, Bearers, Bears, Marking
<1> QED
  BY <1>1, CallerTallied, ServeTallied, ValidateTallied, SpendTallied, ElsewhereTallied
     DEF Next, vars, local, server

(* However a redemption is retried, given up, cached or raced for: each    *)
(* allow a call holds that comes of redeeming an approval has a recorded   *)
(* redemption to itself, and an approval the server never found good for   *)
(* two requests at a time is redeemed once (client.py:434;                 *)
(* PolicyDecisionPoint._validate_approval, _mark_redeemed).                *)
THEOREM AlwaysOneRedemptionEach == Spec => []OneRedemptionEach
<1>1. Init => Tallied /\ Singly
  BY DEF Init, Tallied, Singly
<1>2. Held /\ Tallied /\ Singly => OneRedemptionEach
  <2> SUFFICES ASSUME Held, Tallied, Singly, NEW i \in DOMAIN approvals
               PROVE  /\ Cardinality(Redeemed(i)) <= approvals[i].spends
                      /\ approvals[i].spends <= 1 \/ approvals[i].raced
    BY DEF OneRedemptionEach
  <2>1. approvals[i].spends \in Nat /\ approvals[i].late \in Nat
    BY ApprovalTypes DEF Held
  <2>2. Redeemed(i) \subseteq Bearers(i) /\ Bearers(i) \subseteq Calls
    BY DEF Redeemed, Bearers, Bears
  <2>3. /\ IsFiniteSet(Bearers(i)) /\ Cardinality(Bearers(i)) \in Nat
        /\ Cardinality(Redeemed(i)) \in Nat
    BY <2>2, BearersCount
  <2>4. Cardinality(Redeemed(i)) <= Cardinality(Bearers(i)) /\ Cardinality(Bearers(i)) <= approvals[i].spends
    BY <2>2, <2>3, FS_Subset DEF Tallied
  <2>5. approvals[i].spends <= 1 \/ approvals[i].raced
    BY <2>1 DEF Singly, Single
  <2> QED
    BY <2>1, <2>3, <2>4, <2>5
<1> QED
  BY <1>1, <1>2, HeldAlways, TalliedStep, PTL DEF Spec
=============================================================================
