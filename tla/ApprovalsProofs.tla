-------------------------- MODULE ApprovalsProofs --------------------------
(***************************************************************************)
(* What Approvals promises of tickets, for any number of requests,         *)
(* reviewers, questions and audit streams, any TTL, and policies and       *)
(* capabilities that change at any moment.                                 *)
(***************************************************************************)
EXTENDS Approvals, FiniteSetTheorems, WellFoundedInduction, TLAPS

Resolved == {"granted", "denied"}

(* What is flushed belongs to the step a request is at, and only a request *)
(* that has been through _validate_approval carries an approval.           *)
StepsInOrder ==
  \A o \in Ops :
    /\ flushed[o] = "spend"   => pc[o] = "commit" /\ via[o] # NONE
    /\ flushed[o] = "park"    => pc[o] = "commit" /\ via[o] = NONE /\ effect[o] = "require_approval"
    /\ flushed[o] = "resolve" => pc[o] \in {"seal", "commit"}
    /\ pc[o] = "spend" => via[o] # NONE
    /\ pc[o] = "commit" /\ via[o] # NONE => flushed[o] = "spend"
    /\ pc[o] \in {"find", "park"} => via[o] = NONE /\ effect[o] = "require_approval"
    /\ pc[o] \in {"idle", "validate", "fail", "update", "seal", "expire", "raise"} => via[o] = NONE

(* A request has what its steps use: a stream to append to, a question to  *)
(* record, and, where it has presented or read a ticket, one that is there. *)
RequestsAreWhole ==
  \A o \in Ops :
    /\ pc[o] \notin {"idle", "ended"} => req[o].stream \in Streams
    /\ pc[o] \in {"validate", "guard", "record", "find", "park"} => req[o].fp \in Fingerprints
    /\ pc[o] = "validate" => req[o].ticket # NONE /\ req[o].mode # "unrecorded"
    /\ pc[o] \in {"update", "seal", "expire"} \/ flushed[o] = "resolve" =>
         req[o].ticket # NONE /\ tickets[req[o].ticket].status # "none"

(* What a request has validated stays as it was validated, except that     *)
(* another reviewer may still turn a granted ticket into a denied one.     *)
Holds(o, k) ==
  /\ req[o].mode # "unrecorded"
  /\ tickets[k].status \in Resolved
  /\ tickets[k].fp = req[o].fp
  /\ asOf[o] < tickets[k].expires
  /\ Granted(k)

Validated == \A o \in Ops : via[o] # NONE => Holds(o, via[o])

(* A ticket is there only once the request that parked it has committed,   *)
(* and is spent only once it is resolved.                                  *)
Settled ==
  \A k \in Ops :
    /\ tickets[k].status # "none" => pc[k] \in {"answer", "ended"}
    /\ tickets[k].redeemed # NONE => tickets[k].status \in Resolved

(* A spend on the trail is the one its request committed.                  *)
SpendsCommitted ==
  \A k, o \in Ops : Redeemed(k, o) =>
    /\ via[o] = k
    /\ pc[o] \in {"answer", "ended"}
    /\ decisions[o] = [effect |-> effect[o], fp |-> req[o].fp]
    /\ tickets[k].redeemed # NONE

(* The inductive invariant.                                                *)
Sound ==
  /\ TypeOK
  /\ StepsInOrder
  /\ RequestsAreWhole
  /\ Validated
  /\ Settled
  /\ SpendsCommitted
  /\ TicketsMatchTheTrail
  /\ UpgradesAreSpent

----------------------------------------------------------------------------
(* A step that is not a commit. *)
Quiet(o) ==
  \/ Evaluate(o) \/ ReadTicket(o) \/ Decide(o) \/ Expire(o) \/ Update(o) \/ SealVerdict(o)
  \/ Answer(o) \/ Rollback(o)

World == EditPolicy \/ EditCapabilities \/ Tick \/ UNCHANGED vars

LEMMA StepKinds ==
  ASSUME [Next]_vars
  PROVE  World \/ \E o \in Ops : Commit(o) \/ Quiet(o)
BY DEF Next, Step, Resolve, Raise, DeadlockDetected, World, Quiet

(* No step of a request but a commit breaks the types. *)
LEMMA QuietTypes ==
  ASSUME Sound, NEW o \in Ops, Quiet(o)
  PROVE  TypeOK'
<1> USE DEF Sound, TypeOK, database, world, session, PCs, Request, MaybeOp, Effects, Modes
<1>1. CASE Evaluate(o)
  BY <1>1 DEF Evaluate
<1>2. CASE Validate(o)
  BY <1>2 DEF Validate, Redeemable
<1>3. CASE PipelineFails(o)
  BY <1>3 DEF PipelineFails
<1>4. CASE Guard(o)
  BY <1>4 DEF Guard
<1>5. CASE Record(o)
  BY <1>5 DEF Record, RequestsAreWhole, AfterRecord
<1>6. CASE RecordFailure(o)
  BY <1>6, SMTT(30) DEF RecordFailure, RequestsAreWhole
<1>7. CASE MarkRedeemed(o)
  BY <1>7 DEF MarkRedeemed
<1>8. CASE FindTicket(o)
  BY <1>8 DEF FindTicket
<1>9. CASE Park(o)
  BY <1>9, StreamAssumption DEF Park, RequestsAreWhole
<1>10. CASE ReadTicket(o)
  BY <1>10 DEF ReadTicket
<1>11. CASE Expire(o)
  BY <1>11 DEF Expire
<1>12. CASE Update(o)
  BY <1>12 DEF Update
<1>13. CASE SealVerdict(o)
  BY <1>13 DEF SealVerdict, RequestsAreWhole
<1>14. CASE Answer(o)
  BY <1>14 DEF Answer
<1>15. CASE Rollback(o)
  BY <1>15, TimeAssumption DEF Rollback, Release, NoRequest
<1> QED
  BY <1>1, <1>2, <1>3, <1>4, <1>5, <1>6, <1>7, <1>8, <1>9, <1>10, <1>11, <1>12, <1>13, <1>14,
     <1>15 DEF Quiet, Decide

(* Each step follows the one before it, and carries an approval only on    *)
(* the way from _validate_approval to _mark_redeemed.                      *)
LEMMA QuietOrder ==
  ASSUME Sound, NEW o \in Ops, Quiet(o)
  PROVE  StepsInOrder'
<1> USE DEF Sound, TypeOK, database, world, session, StepsInOrder
<1>1. CASE Evaluate(o)
  BY <1>1 DEF Evaluate, ChecksApproval
<1>2. CASE Validate(o)
  BY <1>2 DEF Validate, Redeemable
<1>3. CASE PipelineFails(o)
  BY <1>3 DEF PipelineFails
<1>4. CASE Guard(o)
  BY <1>4 DEF Guard
<1>5. CASE Record(o)
  BY <1>5 DEF Record, AfterRecord
<1>6. CASE RecordFailure(o)
  BY <1>6 DEF RecordFailure
<1>7. CASE MarkRedeemed(o)
  BY <1>7 DEF MarkRedeemed
<1>8. CASE FindTicket(o)
  BY <1>8 DEF FindTicket
<1>9. CASE Park(o)
  BY <1>9 DEF Park
<1>10. CASE ReadTicket(o)
  BY <1>10 DEF ReadTicket
<1>11. CASE Expire(o)
  BY <1>11 DEF Expire
<1>12. CASE Update(o)
  BY <1>12 DEF Update
<1>13. CASE SealVerdict(o)
  BY <1>13 DEF SealVerdict
<1>14. CASE Answer(o)
  BY <1>14 DEF Answer
<1>15. CASE Rollback(o)
  BY <1>15 DEF Rollback, Release
<1> QED
  BY <1>1, <1>2, <1>3, <1>4, <1>5, <1>6, <1>7, <1>8, <1>9, <1>10, <1>11, <1>12, <1>13, <1>14,
     <1>15 DEF Quiet, Decide

(* A request comes with the ticket and the question its steps use.         *)
LEMMA QuietWhole ==
  ASSUME Sound, NEW o \in Ops, Quiet(o)
  PROVE  RequestsAreWhole'
<1> USE DEF Sound, TypeOK, database, world, session, StepsInOrder, RequestsAreWhole
<1>1. CASE Evaluate(o)
  BY <1>1, NoneAssumption DEF Evaluate, ChecksApproval
<1>2. CASE Validate(o)
  BY <1>2 DEF Validate
<1>3. CASE PipelineFails(o)
  BY <1>3 DEF PipelineFails
<1>4. CASE Guard(o)
  BY <1>4 DEF Guard
<1>5. CASE Record(o)
  BY <1>5 DEF Record, AfterRecord
<1>6. CASE RecordFailure(o)
  BY <1>6 DEF RecordFailure
<1>7. CASE MarkRedeemed(o)
  BY <1>7 DEF MarkRedeemed
<1>8. CASE FindTicket(o)
  BY <1>8 DEF FindTicket
<1>9. CASE Park(o)
  BY <1>9 DEF Park
<1>10. CASE ReadTicket(o)
  BY <1>10, NoneAssumption DEF ReadTicket
<1>11. CASE Expire(o)
  BY <1>11 DEF Expire
<1>12. CASE Update(o)
  BY <1>12 DEF Update
<1>13. CASE SealVerdict(o)
  BY <1>13 DEF SealVerdict
<1>14. CASE Answer(o)
  BY <1>14 DEF Answer
<1>15. CASE Rollback(o)
  BY <1>15 DEF Rollback, Release, NoRequest
<1> QED
  BY <1>1, <1>2, <1>3, <1>4, <1>5, <1>6, <1>7, <1>8, <1>9, <1>10, <1>11, <1>12, <1>13, <1>14,
     <1>15 DEF Quiet, Decide

(* The tables and the trail change at commits only. *)
LEMMA QuietTables ==
  ASSUME NEW o \in Ops, Quiet(o)
  PROVE  UNCHANGED database
BY DEF Quiet, Decide, Evaluate, Validate, PipelineFails, Guard, Record, RecordFailure,
  MarkRedeemed, FindTicket, Park, ReadTicket, Expire, Update, SealVerdict, Answer, Rollback

(* A granted ticket has a sealed grant. *)
LEMMA GrantsAreSealed ==
  ASSUME TypeOK, TicketsMatchTheTrail, NEW k \in Ops, tickets[k].status = "granted"
  PROVE  Granted(k)
<1>1. [event |-> "granted", ticket |-> k, op |-> tickets[k].decided_by] \in Event
  BY DEF TypeOK, TicketsMatchTheTrail
<1> QED
  BY <1>1 DEF Event, Granted, TicketsMatchTheTrail

(* What has been validated stands while the tables and the trail do.       *)
LEMMA ValidationStands ==
  ASSUME Sound, UNCHANGED <<tickets, audit>>,
         NEW p \in Ops, via'[p] = via[p], via[p] # NONE, req'[p] = req[p], asOf'[p] = asOf[p]
  PROVE  Holds(p, via[p])'
<1>1. Holds(p, via[p])
  BY DEF Sound, Validated
<1> QED
  BY <1>1 DEF Holds, Granted

(* An approval a request takes up without a commit is one it has validated. *)
LEMMA QuietValidated ==
  ASSUME Sound, NEW o \in Ops, Quiet(o)
  PROVE  Validated'
<1> DEFINE Kept(p) == via'[p] = via[p] /\ req'[p] = req[p] /\ asOf'[p] = asOf[p]
<1>1. CASE Validate(o)
  <2>1. req[o].ticket \in Ops /\ req[o].mode # "unrecorded"
    BY <1>1 DEF Validate, Sound, TypeOK, RequestsAreWhole, Request, MaybeOp
  <2>2. tickets[req[o].ticket].status = "granted" => Granted(req[o].ticket)
    BY <2>1, GrantsAreSealed DEF Sound
  <2>3. UNCHANGED <<tickets, audit, req>>
    BY <1>1 DEF Validate, database
  <2>4. \A p \in Ops \ {o} : via'[p] = via[p] /\ asOf'[p] = asOf[p]
    BY <1>1 DEF Validate, Sound, TypeOK
  <2>5. \/ /\ Redeemable(req[o].ticket, req[o].fp, now)
           /\ via'[o] = req[o].ticket
           /\ asOf'[o] = now
        \/ via'[o] = NONE
    BY <1>1 DEF Validate, Sound, TypeOK, StepsInOrder
  <2>6. ASSUME NEW p \in Ops, via'[p] # NONE, p = o PROVE Holds(p, via[p])'
    <3>1. Redeemable(req[o].ticket, req[o].fp, now)
      BY <2>5, <2>6
    <3> QED
      BY <2>1, <2>2, <2>3, <2>5, <2>6, <3>1 DEF Redeemable, Resolved, Holds, Granted
  <2>7. ASSUME NEW p \in Ops, via'[p] # NONE, p # o PROVE Holds(p, via[p])'
    BY <2>3, <2>4, <2>7, ValidationStands
  <2> QED
    BY <2>6, <2>7 DEF Validated
<1>2. CASE ~Validate(o)
  <2>1. \A p \in Ops : via'[p] # NONE => Kept(p)
    <3> USE DEF Sound, TypeOK, StepsInOrder
    <3>1. CASE Evaluate(o)
      BY <3>1 DEF Evaluate
    <3>2. CASE PipelineFails(o)
      BY <3>2 DEF PipelineFails
    <3>3. CASE Guard(o)
      BY <3>3 DEF Guard
    <3>4. CASE Record(o)
      BY <3>4 DEF Record
    <3>5. CASE RecordFailure(o)
      BY <3>5 DEF RecordFailure
    <3>6. CASE MarkRedeemed(o)
      BY <3>6 DEF MarkRedeemed
    <3>7. CASE FindTicket(o)
      BY <3>7 DEF FindTicket
    <3>8. CASE Park(o)
      BY <3>8 DEF Park
    <3>9. CASE ReadTicket(o)
      BY <3>9 DEF ReadTicket
    <3>10. CASE Expire(o)
      BY <3>10 DEF Expire
    <3>11. CASE Update(o)
      BY <3>11 DEF Update
    <3>12. CASE SealVerdict(o)
      BY <3>12 DEF SealVerdict
    <3>13. CASE Answer(o)
      BY <3>13 DEF Answer
    <3>14. CASE Rollback(o)
      BY <3>14 DEF Rollback, Release
    <3> QED
      BY <1>2, <3>1, <3>2, <3>3, <3>4, <3>5, <3>6, <3>7, <3>8, <3>9, <3>10, <3>11, <3>12, <3>13,
         <3>14 DEF Quiet, Decide
  <2>2. UNCHANGED <<tickets, audit>>
    BY QuietTables DEF database
  <2> HIDE DEF Kept
  <2>3. ASSUME NEW p \in Ops, via'[p] # NONE
        PROVE  Holds(p, via[p])'
    <3>1. via'[p] = via[p] /\ req'[p] = req[p] /\ asOf'[p] = asOf[p]
      BY <2>1, <2>3 DEF Kept
    <3> QED
      BY <2>2, <2>3, <3>1, ValidationStands
  <2> QED
    BY <2>3 DEF Validated
<1> QED
  BY <1>1, <1>2

(* A request that has committed does not change its mind, and one that is  *)
(* answered without a commit has no approval to spend.                     *)
LEMMA QuietSpends ==
  ASSUME Sound, NEW o \in Ops, Quiet(o)
  PROVE  Settled' /\ SpendsCommitted' /\ TicketsMatchTheTrail' /\ UpgradesAreSpent'
<1> DEFINE Firm(p) == pc[p] \in {"answer", "ended"} =>
                        /\ pc'[p] \in {"answer", "ended"}
                        /\ via'[p] = via[p] /\ effect'[p] = effect[p] /\ req'[p] = req[p]
           Spendless(p) == pc'[p] = "answer" =>
                        \/ pc[p] = "answer"
                        \/ via'[p] = NONE
                        \/ req'[p].mode = "simulated"
<1>1. UNCHANGED <<decisions, tickets, audit>>
  BY QuietTables DEF database
<1>2. \A p \in Ops : Firm(p) /\ Spendless(p)
  <2> USE DEF Sound, TypeOK, StepsInOrder
  <2>1. CASE Evaluate(o)
    BY <2>1 DEF Evaluate
  <2>2. CASE Validate(o)
    BY <2>2 DEF Validate
  <2>3. CASE PipelineFails(o)
    BY <2>3 DEF PipelineFails
  <2>4. CASE Guard(o)
    BY <2>4 DEF Guard, Validated, Holds, Request, Modes
  <2>5. CASE Record(o)
    BY <2>5 DEF Record, AfterRecord
  <2>6. CASE RecordFailure(o)
    BY <2>6 DEF RecordFailure
  <2>7. CASE MarkRedeemed(o)
    BY <2>7 DEF MarkRedeemed
  <2>8. CASE FindTicket(o)
    BY <2>8 DEF FindTicket
  <2>9. CASE Park(o)
    BY <2>9 DEF Park
  <2>10. CASE ReadTicket(o)
    BY <2>10 DEF ReadTicket
  <2>11. CASE Expire(o)
    BY <2>11 DEF Expire
  <2>12. CASE Update(o)
    BY <2>12 DEF Update
  <2>13. CASE SealVerdict(o)
    BY <2>13 DEF SealVerdict
  <2>14. CASE Answer(o)
    BY <2>14 DEF Answer
  <2>15. CASE Rollback(o)
    BY <2>15 DEF Rollback, Release
  <2> QED
    BY <2>1, <2>2, <2>3, <2>4, <2>5, <2>6, <2>7, <2>8, <2>9, <2>10, <2>11, <2>12, <2>13, <2>14,
       <2>15 DEF Quiet, Decide
<1>3. Settled' /\ TicketsMatchTheTrail'
  BY <1>1, <1>2 DEF Sound, Settled, TicketsMatchTheTrail
<1>4. SpendsCommitted'
  <2> SUFFICES ASSUME NEW k \in Ops, NEW p \in Ops, Redeemed(k, p)'
               PROVE  /\ via'[p] = k
                      /\ pc'[p] \in {"answer", "ended"}
                      /\ decisions'[p] = [effect |-> effect'[p], fp |-> req'[p].fp]
                      /\ tickets'[k].redeemed # NONE
    BY DEF SpendsCommitted
  <2>1. Redeemed(k, p)
    BY <1>1 DEF Redeemed
  <2>2. /\ via[p] = k /\ pc[p] \in {"answer", "ended"}
        /\ decisions[p] = [effect |-> effect[p], fp |-> req[p].fp]
        /\ tickets[k].redeemed # NONE
    BY <2>1, Zenon DEF Sound, SpendsCommitted
  <2> QED
    BY <1>1, <1>2, <2>2
<1>5. UpgradesAreSpent'
  BY <1>1, <1>2 DEF Sound, UpgradesAreSpent, Redeemed
<1> QED
  BY <1>3, <1>4, <1>5

(* What a commit leaves of a ticket, column by column. *)
LEMMA CommitWrites ==
  ASSUME Sound, NEW o \in Ops, Commit(o), NEW k \in Ops
  PROVE  /\ tickets'[k].status = IF flushed[o] = "park" /\ k = o THEN "pending"
                                 ELSE IF flushed[o] = "resolve" /\ k = req[o].ticket THEN Verdict(o)
                                 ELSE tickets[k].status
         /\ tickets'[k].decided_by = IF flushed[o] = "park" /\ k = o THEN NONE
                                     ELSE IF flushed[o] = "resolve" /\ k = req[o].ticket THEN o
                                     ELSE tickets[k].decided_by
         /\ tickets'[k].redeemed = IF flushed[o] = "park" /\ k = o THEN NONE
                                   ELSE IF flushed[o] = "spend" /\ k = via[o] THEN o
                                   ELSE tickets[k].redeemed
         /\ ~(flushed[o] = "park" /\ k = o) => tickets'[k].fp = tickets[k].fp
                                            /\ tickets'[k].expires = tickets[k].expires
         /\ flushed[o] = "park" => tickets'[o].fp = req[o].fp
<1>1. tickets \in [Ops -> Ticket] /\ tickets' = Written(o)
  BY DEF Commit, Sound, TypeOK
<1>2. CASE flushed[o] = "spend"
  BY <1>1, <1>2 DEF Written, Ticket
<1>3. CASE flushed[o] = "park"
  BY <1>1, <1>3 DEF Written, Ticket
<1>4. CASE flushed[o] = "resolve"
  BY <1>1, <1>4 DEF Written, Ticket
<1>5. CASE flushed[o] \notin {"spend", "park", "resolve"}
  BY <1>1, <1>5 DEF Written, Ticket
<1> QED
  BY <1>2, <1>3, <1>4, <1>5

(* A commit keeps the types. *)
LEMMA CommitTypes ==
  ASSUME Sound, NEW o \in Ops, Commit(o)
  PROVE  TypeOK'
<1> USE DEF Sound, TypeOK
<1>1. tickets' \in [Ops -> Ticket]
  <2>1. CASE flushed[o] = "spend"
    <3>1. via[o] \in Ops => [tickets[via[o]] EXCEPT !.redeemed = o] \in Ticket
      BY DEF Ticket, MaybeOp
    <3>2. tickets' = [tickets EXCEPT ![via[o]] = [tickets[via[o]] EXCEPT !.redeemed = o]]
      BY <2>1 DEF Commit, Written
    <3> QED
      BY <3>1, <3>2
  <2>2. CASE flushed[o] = "park"
    <3>1. [status |-> "pending", fp |-> req[o].fp, expires |-> asOf[o] + TTL,
           decided_by |-> NONE, redeemed |-> NONE] \in Ticket
      BY TimeAssumption DEF Ticket, Statuses, MaybeOp, Request
    <3> QED
      BY <2>2, <3>1 DEF Commit, Written
  <2>3. CASE flushed[o] = "resolve"
    <3> DEFINE k == req[o].ticket
               resolved == [tickets[k] EXCEPT !.status = Verdict(o), !.decided_by = o]
    <3>1. k \in Ops => resolved \in Ticket
      <4>1. Verdict(o) \in Statuses /\ o \in MaybeOp
        BY DEF Verdict, Statuses, MaybeOp
      <4> HIDE DEF k
      <4>2. k \in Ops => tickets[k] \in Ticket
        OBVIOUS
      <4> QED
        BY <4>1, <4>2 DEF Ticket
    <3>2. k \in Ops => tickets' = [tickets EXCEPT ![k] = resolved]
      BY <2>3 DEF Commit, Written
    <3>3. k \in Ops
      BY <2>3 DEF RequestsAreWhole, Request, MaybeOp
    <3> QED
      BY <3>1, <3>2, <3>3
  <2>4. CASE flushed[o] \notin {"spend", "park", "resolve"}
    BY <2>4 DEF Commit, Written
  <2> QED
    BY <2>1, <2>2, <2>3, <2>4
<1>2. audit' \subseteq Event
  BY DEF Commit, Sealed, Verdict, Event, StepsInOrder, RequestsAreWhole, Request, MaybeOp
<1>3. decisions' \in [Ops -> Decision]
  <2>1. [effect |-> effect[o], fp |-> req[o].fp] \in Decision
    BY DEF Decision, Effects, Request
  <2> QED
    BY <2>1 DEF Commit
<1>4. pc' \in [Ops -> PCs] /\ streams' \in [Ops -> SUBSET Streams]
  BY DEF Commit, Release, PCs
<1>5. flushed' \in [Ops -> {"nothing", "decision", "spend", "park", "resolve", "expire"}]
  BY DEF Commit, Release
<1> QED
  BY <1>1, <1>2, <1>3, <1>4, <1>5 DEF Commit, world

(* A commit keeps the steps of every request in order and its ticket there. *)
LEMMA CommitOrder ==
  ASSUME Sound, NEW o \in Ops, Commit(o)
  PROVE  StepsInOrder' /\ RequestsAreWhole'
<1> USE DEF Sound, TypeOK
<1>1. StepsInOrder'
  BY DEF Commit, Release, StepsInOrder
<1>2. \A k \in Ops : tickets[k].status # "none" => tickets'[k].status # "none"
  BY CommitWrites DEF Verdict
<1>3. \A p \in Ops : req[p].ticket # NONE => req[p].ticket \in Ops
  BY DEF Request, MaybeOp
<1>4. RequestsAreWhole'
  BY <1>2, <1>3 DEF Commit, Release, RequestsAreWhole
<1> QED
  BY <1>1, <1>4

(* A commit leaves what other requests have validated as it was: it parks  *)
(* only a new ticket, and resolves one to granted or denied.               *)
LEMMA CommitValidated ==
  ASSUME Sound, NEW o \in Ops, Commit(o)
  PROVE  Validated'
<1> SUFFICES ASSUME NEW p \in Ops, via[p] # NONE, UNCHANGED <<req, asOf, via>>
             PROVE  Holds(p, via[p])'
  BY DEF Commit, Validated
<1>1. via[p] \in Ops /\ tickets[via[p]].status \in Resolved
  BY DEF Sound, TypeOK, MaybeOp, Validated, Holds
<1>2. ~(flushed[o] = "park" /\ via[p] = o)
  BY <1>1 DEF Commit, Sound, Settled, Resolved
<1>3. Granted(via[p])'
  BY DEF Sound, Validated, Holds, Granted, Commit
<1> QED
  BY <1>1, <1>2, <1>3, CommitWrites DEF Sound, Validated, Holds, Verdict, Resolved

(* A commit spends a resolved ticket, and parks one that was not there.    *)
LEMMA CommitSettled ==
  ASSUME Sound, NEW o \in Ops, Commit(o)
  PROVE  Settled'
<1> SUFFICES ASSUME NEW k \in Ops
             PROVE  /\ tickets'[k].status # "none" => pc'[k] \in {"answer", "ended"}
                    /\ tickets'[k].redeemed # NONE => tickets'[k].status \in Resolved
  BY DEF Settled
<1>1. pc' = [pc EXCEPT ![o] = "answer"]
  BY DEF Commit
<1>2. flushed[o] = "resolve" => tickets[req[o].ticket].status # "none"
  BY DEF Sound, RequestsAreWhole
<1>3. flushed[o] = "spend" => via[o] \in Ops /\ tickets[via[o]].status \in Resolved
  BY DEF Sound, StepsInOrder, Validated, Holds, TypeOK, MaybeOp
<1>4. tickets'[k].status # "none" => pc'[k] \in {"answer", "ended"}
  BY <1>1, <1>2, CommitWrites DEF Sound, TypeOK, Settled
<1>5. tickets'[k].redeemed # NONE => tickets'[k].status \in Resolved
  BY <1>3, CommitWrites DEF Sound, Settled, Verdict, Resolved
<1> QED
  BY <1>4, <1>5

(* A commit adds a spend together with the decision it went into.          *)
LEMMA CommitSpends ==
  ASSUME Sound, NEW o \in Ops, Commit(o)
  PROVE  SpendsCommitted' /\ UpgradesAreSpent'
<1> USE DEF Sound, TypeOK
<1>1. pc[o] = "commit" /\ pc' = [pc EXCEPT ![o] = "answer"] /\ UNCHANGED <<via, effect, req>>
  BY DEF Commit
<1>2. flushed[o] # "resolve" => decisions'[o] = [effect |-> effect[o], fp |-> req[o].fp]
  BY DEF Commit
<1>3. \A p \in Ops \ {o} : decisions'[p] = decisions[p]
  BY DEF Commit
<1>4. ASSUME NEW k \in Ops, NEW p \in Ops, Redeemed(k, p)', ~Redeemed(k, p)
      PROVE  p = o /\ flushed[o] = "spend" /\ via[o] = k
  BY <1>4 DEF Commit, Sealed, Redeemed, Verdict
<1>5. \A k \in Ops : tickets[k].redeemed # NONE => tickets'[k].redeemed # NONE
  BY CommitWrites, NoneAssumption, <1>1 DEF Settled, Resolved
<1>6. ASSUME NEW k \in Ops, NEW p \in Ops, Redeemed(k, p)'
      PROVE  /\ via[p] = k
             /\ pc'[p] \in {"answer", "ended"}
             /\ decisions'[p] = [effect |-> effect[p], fp |-> req[p].fp]
             /\ tickets'[k].redeemed # NONE
  <2>1. CASE Redeemed(k, p)
    BY <2>1, <1>1, <1>3, <1>5 DEF SpendsCommitted
  <2>2. CASE ~Redeemed(k, p)
    BY <2>2, <1>1, <1>2, <1>4, <1>6, CommitWrites, NoneAssumption
  <2> QED
    BY <2>1, <2>2
<1>7. SpendsCommitted'
  BY <1>1, <1>6 DEF SpendsCommitted
<1>8. via[o] # NONE => Redeemed(via[o], o)'
  BY <1>1 DEF StepsInOrder, Commit, Sealed, Redeemed
<1>9. \A k, p \in Ops : Redeemed(k, p) => Redeemed(k, p)'
  BY DEF Commit, Redeemed
<1>10. ASSUME NEW p \in Ops, pc'[p] = "answer", via[p] # NONE, effect[p] = "allow",
              req[p].mode # "simulated"
       PROVE  Redeemed(via[p], p)' /\ decisions'[p].effect = "allow"
  <2>1. CASE p = o
    BY <2>1, <1>1, <1>2, <1>8, <1>10 DEF StepsInOrder
  <2>2. CASE p # o
    BY <2>2, <1>1, <1>3, <1>9, <1>10 DEF UpgradesAreSpent, MaybeOp
  <2> QED
    BY <2>1, <2>2
<1>11. UpgradesAreSpent'
  BY <1>1, <1>10 DEF UpgradesAreSpent
<1> QED
  BY <1>7, <1>11

(* A commit seals what it writes of a ticket. *)
LEMMA CommitTrail ==
  ASSUME Sound, NEW o \in Ops, Commit(o)
  PROVE  TicketsMatchTheTrail'
<1> SUFFICES ASSUME NEW k \in Ops, tickets'[k].status # "none"
             PROVE  /\ decisions'[k] = [effect |-> "require_approval", fp |-> tickets'[k].fp]
                    /\ [event |-> "requested", ticket |-> k, op |-> k] \in audit'
                    /\ tickets'[k].status # "pending" =>
                          [event |-> tickets'[k].status, ticket |-> k,
                           op |-> tickets'[k].decided_by] \in audit'
  BY DEF TicketsMatchTheTrail
<1>1. CASE flushed[o] = "park" /\ k = o
  <2>1. tickets'[k].status = "pending" /\ tickets'[k].fp = req[o].fp
    BY <1>1, CommitWrites
  <2>2. effect[o] = "require_approval"
    BY <1>1 DEF Sound, StepsInOrder
  <2>3. [event |-> "requested", ticket |-> k, op |-> k] \in audit'
    BY <1>1 DEF Commit, Sealed
  <2>4. decisions'[k] = [effect |-> "require_approval", fp |-> req[o].fp]
    BY <1>1, <2>2 DEF Commit, Sound, TypeOK
  <2> QED
    BY <2>1, <2>3, <2>4
<1>2. CASE ~(flushed[o] = "park" /\ k = o)
  <2>1. tickets[k].status # "none"
    BY <1>2, CommitWrites DEF Sound, RequestsAreWhole
  <2>2. k # o
    BY <2>1 DEF Commit, Sound, Settled
  <2>3. decisions'[k] = decisions[k] /\ audit \subseteq audit'
    BY <2>2 DEF Commit, Sound, TypeOK
  <2>4. CASE flushed[o] = "resolve" /\ k = req[o].ticket
    <3>1. [event |-> Verdict(o), ticket |-> k, op |-> o] \in audit'
      BY <2>4 DEF Commit, Sealed
    <3>2. /\ tickets'[k].status = Verdict(o)
          /\ tickets'[k].decided_by = o
          /\ tickets'[k].fp = tickets[k].fp
      BY <1>2, <2>4, CommitWrites
    <3> QED
      BY <2>1, <2>3, <3>1, <3>2 DEF Sound, TicketsMatchTheTrail
  <2>5. CASE ~(flushed[o] = "resolve" /\ k = req[o].ticket)
    BY <1>2, <2>1, <2>3, <2>5, CommitWrites DEF Sound, TicketsMatchTheTrail
  <2> QED
    BY <2>4, <2>5
<1> QED
  BY <1>1, <1>2

(* The world moves, and no request or table does. *)
LEMMA WorldSound ==
  ASSUME Sound, World
  PROVE  Sound'
<1>1. UNCHANGED <<database, session>>
  BY DEF World, EditPolicy, EditCapabilities, Tick, vars, database, session
<1>2. TypeOK'
  <2>1. policy' \in [Fingerprints -> Effects]
    BY DEF World, EditPolicy, EditCapabilities, Tick, vars, Sound, TypeOK
  <2>2. unmet' \in [Fingerprints -> SUBSET {"allow", "require_approval"}]
    BY DEF World, EditPolicy, EditCapabilities, Tick, vars, Sound, TypeOK
  <2>3. edits' \in 0 .. MaxEdits /\ now' \in 0 .. MaxTime
    BY TimeAssumption DEF World, EditPolicy, EditCapabilities, Tick, vars, Sound, TypeOK
  <2> QED
    BY <1>1, <2>1, <2>2, <2>3 DEF Sound, TypeOK, database, session
<1>3. StepsInOrder' /\ RequestsAreWhole' /\ Settled'
  BY <1>1 DEF Sound, StepsInOrder, RequestsAreWhole, Settled, database, session
<1>4. Validated' /\ SpendsCommitted' /\ TicketsMatchTheTrail' /\ UpgradesAreSpent'
  BY <1>1 DEF Sound, Validated, Holds, Granted, SpendsCommitted, TicketsMatchTheTrail, UpgradesAreSpent,
    Redeemed, database, session
<1> QED
  BY <1>2, <1>3, <1>4 DEF Sound

----------------------------------------------------------------------------
(* The inductive invariant holds of every behaviour. *)
LEMMA SoundHolds == Spec => []Sound
<1>1. Init => Sound
  <2> SUFFICES ASSUME Init PROVE Sound
    OBVIOUS
  <2>1. TypeOK
    BY TimeAssumption DEF Init, TypeOK, Decision, Ticket, Statuses, Effects, Request, Modes, PCs,
      MaybeOp, NoDecision, NoTicket, NoRequest
  <2>2. StepsInOrder /\ RequestsAreWhole /\ Validated /\ Settled
    BY DEF Init, StepsInOrder, RequestsAreWhole, Validated, Settled, NoTicket
  <2>3. SpendsCommitted /\ TicketsMatchTheTrail /\ UpgradesAreSpent
    BY DEF Init, SpendsCommitted, TicketsMatchTheTrail, UpgradesAreSpent, Redeemed, NoTicket
  <2> QED
    BY <2>1, <2>2, <2>3 DEF Sound
<1>2. Sound /\ [Next]_vars => Sound'
  <2> SUFFICES ASSUME Sound, [Next]_vars PROVE Sound'
    OBVIOUS
  <2>1. CASE World
    BY <2>1, WorldSound
  <2>2. ASSUME NEW o \in Ops, Quiet(o) PROVE Sound'
    BY <2>2, QuietTypes, QuietOrder, QuietWhole, QuietValidated, QuietSpends DEF Sound
  <2>3. ASSUME NEW o \in Ops, Commit(o) PROVE Sound'
    BY <2>3, CommitTypes, CommitOrder, CommitValidated, CommitSettled, CommitSpends, CommitTrail
      DEF Sound
  <2> QED
    BY <2>1, <2>2, <2>3, StepKinds
<1> QED
  BY <1>1, <1>2, PTL DEF Spec

(* Approvals keeps its types. *)
THEOREM ApprovalsTypeCorrect == Spec => []TypeOK
<1>1. Sound => TypeOK
  BY DEF Sound
<1> QED
  BY <1>1, SoundHolds, PTL

(* An approval is spent only where a reviewer granted it, on a recorded    *)
(* decision about the question it was granted for, checked before it       *)
(* expired; no answer it upgraded is unrecorded; and every ticket has the  *)
(* history its row claims.                                                 *)
THEOREM RedemptionsAreBacked == Spec => []RedemptionIsBacked
<1>1. Sound => RedemptionIsBacked
  <2> SUFFICES ASSUME Sound PROVE SpendsAreBacked
    BY DEF Sound, RedemptionIsBacked
  <2> SUFFICES ASSUME NEW k \in Ops, NEW o \in Ops, Redeemed(k, o)
               PROVE  /\ decisions[o].fp = tickets[k].fp
                      /\ Granted(k)
                      /\ asOf[o] < tickets[k].expires
                      /\ tickets[k].redeemed # NONE
    BY DEF SpendsAreBacked
  <2>1. /\ via[o] = k /\ via[o] # NONE
        /\ decisions[o].fp = req[o].fp
        /\ tickets[k].redeemed # NONE
    <3>1. /\ via[o] = k
          /\ decisions[o] = [effect |-> effect[o], fp |-> req[o].fp]
          /\ tickets[k].redeemed # NONE
      BY Zenon DEF Sound, SpendsCommitted
    <3>2. k # NONE
      BY NoneAssumption
    <3> QED
      BY <3>1, <3>2
  <2> QED
    BY <2>1 DEF Sound, Validated, Holds
<1> QED
  BY <1>1, SoundHolds, PTL

(* What is spent stays spent, and on a resolved ticket, although a late    *)
(* verdict writes the row the spend is in.                                 *)
THEOREM SpentForGood == Spec => NeverUnspent
<1> DEFINE Kept == \A k \in Ops : tickets[k].redeemed # NONE =>
                      tickets'[k].redeemed # NONE /\ tickets'[k].status # "pending"
<1>1. Sound /\ [Next]_vars => [Kept]_tickets
  <2> SUFFICES ASSUME Sound, [Next]_vars PROVE tickets' = tickets \/ Kept
    OBVIOUS
  <2>1. CASE World
    BY <2>1 DEF World, EditPolicy, EditCapabilities, Tick, vars, database
  <2>2. ASSUME NEW o \in Ops, Quiet(o) PROVE tickets' = tickets
    BY <2>2, QuietTables DEF database
  <2>3. ASSUME NEW o \in Ops, Commit(o) PROVE Kept
    <3>1. Settled /\ Settled'
      BY <2>3, CommitSettled DEF Sound
    <3>2. flushed[o] = "park" => tickets[o].status = "none"
      BY <2>3, <3>1 DEF Commit, Settled
    <3> QED
      BY <2>3, <3>1, <3>2, CommitWrites, NoneAssumption DEF Settled, Resolved
  <2> QED
    BY <2>1, <2>2, <2>3, StepKinds
<1> QED
  BY <1>1, SoundHolds, PTL DEF Spec, NeverUnspent

----------------------------------------------------------------------------
(* One ticket per question, for callers who share the audit stream s.  The *)
(* lock that recording a decision takes is held until the transaction      *)
(* ends, so it covers looking for an open ticket and inserting one.        *)
Asking(o) == pc[o] \in {"find", "park"} \/ flushed[o] = "park"
Parking(o) == pc[o] = "park" \/ flushed[o] = "park"

Covered(s) ==
  /\ \A o, p \in Ops : s \in streams[o] /\ s \in streams[p] => o = p
  /\ \A o \in Ops : Asking(o) => s \in streams[o]

Lone ==
  /\ \A o \in Ops : Parking(o) => OpenTickets(req[o].fp) = {}
  /\ \A f \in Fingerprints : \A j, k \in OpenTickets(f) : j = k

(* Some ticket of any set of them expires last. *)
LEMMA SomeNewest ==
  ASSUME TypeOK, NEW K, K \subseteq Ops, K # {}
  PROVE  Newest(K) # {}
<1> DEFINE left(k) == MaxTime + TTL - tickets[k].expires
           T == {left(k) : k \in K}
<1>1. \A k \in K : tickets[k].expires \in 0 .. MaxTime + TTL
  BY DEF TypeOK, Ticket
<1>2. \A k \in K : left(k) \in Nat
  BY <1>1, TimeAssumption
<1>3. T \subseteq Nat /\ T # {}
  BY <1>2
<1>4. PICK x \in T : \A y \in T : <<y, x>> \notin OpToRel(<, Nat)
  <2> HIDE DEF T
  <2> QED
    BY <1>3, NatLessThanWellFounded, WFMin
<1>5. PICK k \in K : x = left(k)
  OBVIOUS
<1>6. ASSUME NEW j \in K PROVE tickets[j].expires <= tickets[k].expires
  <2>1. ~(left(j) < left(k))
    BY <1>2, <1>4, <1>5, <1>6 DEF OpToRel
  <2> QED
    BY <1>1, <1>6, <2>1, TimeAssumption
<1> QED
  BY <1>6 DEF Newest

(* _park_for_approval looks only at the newest ticket that waits: when     *)
(* that one has expired, all have.                                         *)
LEMMA NewestDecides ==
  ASSUME TypeOK, NEW f, {k \in Newest(Pending(f)) : now < tickets[k].expires} = {}
  PROVE  OpenTickets(f) = {}
<1> SUFFICES ASSUME NEW j \in OpenTickets(f) PROVE FALSE
  OBVIOUS
<1>1. j \in Pending(f) /\ Pending(f) \subseteq Ops
  BY DEF OpenTickets, Pending
<1>2. PICK k \in Newest(Pending(f)) : TRUE
  BY <1>1, SomeNewest
<1>3. k \in Ops /\ j \in Ops /\ tickets[j].expires <= tickets[k].expires
  BY <1>1, <1>2 DEF Newest
<1>4. tickets[j].expires \in Int /\ tickets[k].expires \in Int /\ now \in Int
  BY <1>3, TimeAssumption DEF TypeOK, Ticket
<1>5. now < tickets[j].expires
  BY DEF OpenTickets
<1>6. now < tickets[k].expires
  BY <1>3, <1>4, <1>5
<1> QED
  BY <1>2, <1>6

(* Who looks for a ticket, or parks one, holds the stream; it is taken     *)
(* where nobody else holds it, and given up with everything else.          *)
LEMMA QuietCovered ==
  ASSUME NEW s, Streams = {s}, Sound, Covered(s), NEW o \in Ops, Quiet(o)
  PROVE  Covered(s)'
<1> USE DEF Sound, TypeOK, database, world, session, StepsInOrder, Covered, Asking
<1>1. CASE Evaluate(o)
  BY <1>1 DEF Evaluate
<1>2. CASE Validate(o)
  BY <1>2 DEF Validate
<1>3. CASE PipelineFails(o)
  BY <1>3 DEF PipelineFails
<1>4. CASE Guard(o)
  BY <1>4 DEF Guard
<1>5. CASE Record(o)
  <2>1. req[o].stream = s
    BY <1>5 DEF Record, RequestsAreWhole
  <2> QED
    BY <1>5, <2>1 DEF Record, AfterRecord, CanAppend
<1>6. CASE RecordFailure(o)
  BY <1>6 DEF RecordFailure, CanAppend
<1>7. CASE MarkRedeemed(o)
  BY <1>7 DEF MarkRedeemed
<1>8. CASE FindTicket(o)
  BY <1>8 DEF FindTicket
<1>9. CASE Park(o)
  BY <1>9 DEF Park, CanAppend
<1>10. CASE ReadTicket(o)
  BY <1>10 DEF ReadTicket
<1>11. CASE Expire(o)
  BY <1>11 DEF Expire
<1>12. CASE Update(o)
  BY <1>12 DEF Update
<1>13. CASE SealVerdict(o)
  BY <1>13 DEF SealVerdict, CanAppend
<1>14. CASE Answer(o)
  BY <1>14 DEF Answer
<1>15. CASE Rollback(o)
  BY <1>15 DEF Rollback, Release
<1> QED
  BY <1>1, <1>2, <1>3, <1>4, <1>5, <1>6, <1>7, <1>8, <1>9, <1>10, <1>11, <1>12, <1>13, <1>14,
     <1>15 DEF Quiet, Decide

(* A commit gives the stream up, and nothing is being parked any more.     *)
LEMMA CommitCovered ==
  ASSUME NEW s, Sound, Covered(s), NEW o \in Ops, Commit(o)
  PROVE  Covered(s)'
BY DEF Commit, Release, Covered, Asking, Sound, TypeOK

(* A request gets to park only by way of _park_for_approval's question.    *)
LEMMA QuietLone ==
  ASSUME NEW s, Streams = {s}, Sound, Covered(s), Lone, NEW o \in Ops, Quiet(o)
  PROVE  Lone'
<1> DEFINE Kept(p) == Parking(p)' => Parking(p) /\ req'[p] = req[p]
<1>1. UNCHANGED <<tickets, now>>
  BY DEF Quiet, Decide, Evaluate, Validate, PipelineFails, Guard, Record, RecordFailure, MarkRedeemed,
    FindTicket, Park, ReadTicket, Expire, Update, SealVerdict, Answer, Rollback, database, world
<1>2. \A f : OpenTickets(f)' = OpenTickets(f)
  BY <1>1 DEF OpenTickets, Pending
<1>3. CASE FindTicket(o)
  <2>1. UNCHANGED req /\ \A p \in Ops \ {o} : Parking(p)' => Parking(p)
    BY <1>3 DEF FindTicket, session, Parking, Sound, TypeOK
  <2>2. Parking(o)' => OpenTickets(req[o].fp) = {}
    <3>1. ASSUME Parking(o)'
          PROVE  {k \in Newest(Pending(req[o].fp)) : now < tickets[k].expires} = {}
      BY <1>3, <3>1 DEF FindTicket, Parking, Sound, TypeOK, StepsInOrder
    <3> QED
      BY <3>1, NewestDecides DEF Sound
  <2> QED
    BY <1>2, <2>1, <2>2 DEF Lone
<1>4. CASE ~FindTicket(o)
  <2>1. \A p \in Ops : Kept(p)
    <3> USE DEF Sound, TypeOK, StepsInOrder, session, Parking
    <3>1. CASE Evaluate(o)
      BY <3>1 DEF Evaluate
    <3>2. CASE Validate(o)
      BY <3>2 DEF Validate
    <3>3. CASE PipelineFails(o)
      BY <3>3 DEF PipelineFails
    <3>4. CASE Guard(o)
      BY <3>4 DEF Guard
    <3>5. CASE Record(o)
      BY <3>5 DEF Record, AfterRecord
    <3>6. CASE RecordFailure(o)
      BY <3>6 DEF RecordFailure
    <3>7. CASE MarkRedeemed(o)
      BY <3>7 DEF MarkRedeemed
    <3>8. CASE Park(o)
      BY <3>8 DEF Park
    <3>9. CASE ReadTicket(o)
      BY <3>9 DEF ReadTicket
    <3>10. CASE Expire(o)
      BY <3>10 DEF Expire
    <3>11. CASE Update(o)
      BY <3>11 DEF Update
    <3>12. CASE SealVerdict(o)
      BY <3>12 DEF SealVerdict
    <3>13. CASE Answer(o)
      BY <3>13 DEF Answer
    <3>14. CASE Rollback(o)
      BY <3>14 DEF Rollback, Release
    <3> QED
      BY <1>4, <3>1, <3>2, <3>3, <3>4, <3>5, <3>6, <3>7, <3>8, <3>9, <3>10, <3>11, <3>12, <3>13,
         <3>14 DEF Quiet, Decide
  <2> QED
    BY <1>2, <2>1 DEF Lone
<1> QED
  BY <1>3, <1>4

(* The question that is being parked has no other open ticket; a verdict   *)
(* closes one, and a spend leaves them as they are.                        *)
LEMMA CommitLone ==
  ASSUME NEW s, Sound, Covered(s), Lone, NEW o \in Ops, Commit(o)
  PROVE  Lone'
<1> DEFINE parks == flushed[o] = "park"
<1>1. UNCHANGED <<now, req>> /\ \A p \in Ops : Parking(p)' => Parking(p) /\ p # o
  BY DEF Commit, Release, world, Parking, Sound, TypeOK
<1>2. ASSUME NEW f, NEW k \in OpenTickets(f)'
      PROVE  k \in OpenTickets(f) \/ (parks /\ k = o /\ f = req[o].fp)
  <2>1. /\ k \in Ops /\ tickets'[k].status = "pending"
        /\ tickets'[k].fp = f /\ now < tickets'[k].expires
    BY <1>1 DEF OpenTickets, Pending
  <2>2. CASE parks /\ k = o
    BY <2>1, <2>2, CommitWrites
  <2>3. CASE ~(parks /\ k = o)
    <3>1. tickets[k].status = "pending"
      BY <2>1, <2>3, CommitWrites DEF Verdict
    <3> QED
      BY <2>1, <2>3, <3>1, CommitWrites DEF OpenTickets, Pending
  <2> QED
    BY <2>2, <2>3
<1>3. parks => OpenTickets(req[o].fp) = {}
  BY DEF Lone, Parking
<1>4. ASSUME NEW p \in Ops, Parking(p)' PROVE OpenTickets(req[p].fp)' = {}
  <2>1. Parking(p) /\ p # o /\ req'[p] = req[p]
    BY <1>1, <1>4
  <2>2. ~parks
    BY <2>1 DEF Covered, Asking, Parking
  <2>3. OpenTickets(req[p].fp) = {}
    BY <2>1 DEF Lone
  <2> QED
    BY <1>2, <2>1, <2>2, <2>3
<1>5. ASSUME NEW f \in Fingerprints, NEW j \in OpenTickets(f)', NEW k \in OpenTickets(f)'
      PROVE  j = k
  BY <1>2, <1>3, <1>5 DEF Lone
<1> QED
  BY <1>4, <1>5 DEF Lone

(* Time only closes tickets. *)
LEMMA WorldLone ==
  ASSUME NEW s, Sound, Covered(s), Lone, World
  PROVE  Covered(s)' /\ Lone'
<1>1. UNCHANGED <<tickets, pc, flushed, streams, req>>
  BY DEF World, EditPolicy, EditCapabilities, Tick, vars, database, session
<1>2. now \in Int /\ (now' = now \/ now' = now + 1)
  BY TimeAssumption DEF World, EditPolicy, EditCapabilities, Tick, vars, Sound, TypeOK
<1>3. ASSUME NEW f, NEW k \in OpenTickets(f)' PROVE k \in OpenTickets(f)
  <2>1. k \in Pending(f) /\ now' < tickets[k].expires
    BY <1>1 DEF OpenTickets, Pending
  <2>2. tickets[k].expires \in Int
    BY <2>1, TimeAssumption DEF Pending, Sound, TypeOK, Ticket
  <2> QED
    BY <1>2, <2>1, <2>2 DEF OpenTickets
<1>4. Covered(s)'
  BY <1>1 DEF Covered, Asking
<1>5. Lone'
  <2>1. \A o \in Ops : Parking(o)' => OpenTickets(req[o].fp)' = {}
    BY <1>1, <1>3 DEF Lone, Parking
  <2>2. \A f \in Fingerprints : \A j, k \in OpenTickets(f)' : j = k
    BY <1>3 DEF Lone
  <2> QED
    BY <2>1, <2>2 DEF Lone
<1> QED
  BY <1>4, <1>5

(* The queue stays a list of distinct things to review: where callers      *)
(* share an audit stream, one question never has two open tickets.         *)
THEOREM QueueIsDistinct ==
  ASSUME NEW s, Streams = {s}
  PROVE  Spec => []OneTicketPerQuestion
<1>1. Init => Covered(s) /\ Lone
  BY DEF Init, Covered, Lone, Asking, Parking, OpenTickets, Pending, NoTicket
<1>2. Sound /\ Covered(s) /\ Lone /\ [Next]_vars => (Covered(s) /\ Lone)'
  <2> SUFFICES ASSUME Sound, Covered(s), Lone, [Next]_vars PROVE Covered(s)' /\ Lone'
    OBVIOUS
  <2>1. CASE World
    BY <2>1, WorldLone
  <2>2. ASSUME NEW o \in Ops, Quiet(o) PROVE Covered(s)' /\ Lone'
    BY <2>2, QuietCovered, QuietLone
  <2>3. ASSUME NEW o \in Ops, Commit(o) PROVE Covered(s)' /\ Lone'
    BY <2>3, CommitCovered, CommitLone
  <2> QED
    BY <2>1, <2>2, <2>3, StepKinds
<1>3. Lone => OneTicketPerQuestion
  <2> SUFFICES ASSUME Lone, NEW f \in Fingerprints PROVE Cardinality(OpenTickets(f)) <= 1
    BY DEF OneTicketPerQuestion
  <2>1. CASE OpenTickets(f) = {}
    BY <2>1, FS_EmptySet
  <2>2. CASE OpenTickets(f) # {}
    <3>1. PICK k \in OpenTickets(f) : TRUE
      BY <2>2
    <3>2. OpenTickets(f) = {k}
      BY <3>1 DEF Lone
    <3> QED
      BY <3>2, FS_Singleton
  <2> QED
    BY <2>1, <2>2
<1> QED
  BY <1>1, <1>2, <1>3, SoundHolds, PTL DEF Spec
=============================================================================
