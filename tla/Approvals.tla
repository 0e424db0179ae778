----------------------------- MODULE Approvals -----------------------------
(***************************************************************************)
(* Approvals as single-use capabilities: PolicyDecisionPoint.decide        *)
(* (control_plane/pdp.py) and resolve_approval (control_plane/api/v1/      *)
(* approvals.py) as concurrent Postgres transactions over the decisions,   *)
(* approval_requests and audit_records tables.                             *)
(*                                                                         *)
(* Every SELECT sees what is committed at that moment (READ COMMITTED); a  *)
(* flush takes the row lock of the row it updates and writes only the      *)
(* columns that changed; an audit append takes its stream's advisory lock. *)
(* Both kinds of lock last until the transaction ends.  An operation is a  *)
(* request: it is its own transaction, its id is the id of the decision it *)
(* records, and, as approval_requests.decision_id is unique, of the ticket *)
(* it parks.                                                               *)
(***************************************************************************)
EXTENDS Integers, FiniteSets

CONSTANTS Ops,            \* requests, of callers and of reviewers
          NONE,           \* a null column or variable
          Fingerprints,   \* the questions a request can ask (_fingerprint)
          Streams,        \* audit streams
          PrincipalStream,\* fingerprint -> the stream of the principal it names
          TTL,            \* APPROVAL_TTL
          MaxTime,        \* bound on the clock
          MaxEdits        \* bound on policy and catalog edits

ASSUME NoneAssumption == NONE \notin Ops
ASSUME TimeAssumption == TTL \in Nat \ {0} /\ MaxTime \in Nat /\ MaxEdits \in Nat
ASSUME StreamAssumption == PrincipalStream \in [Fingerprints -> Streams]

VARIABLES
  \* the database, as committed
  decisions,  \* id -> decision record
  tickets,    \* id -> approval request
  audit,      \* the sealed audit events that concern approvals
  \* the policy set and the catalog, as the pipeline sees them
  policy,     \* fingerprint -> the effect the policies combine to
  unmet,      \* fingerprint -> the effects whose obligations cannot be met
  edits,      \* edits so far
  now,        \* the clock
  \* one entry per request
  pc,
  req,        \* what was asked
  effect,     \* the effect of the decision so far
  via,        \* the approval being redeemed, or NONE
  asOf,       \* the clock at the check that mattered
  flushed,    \* the ticket write that is flushed and not yet committed
  streams     \* the advisory locks held

database == <<decisions, tickets, audit>>
world    == <<policy, unmet, edits, now>>
session  == <<pc, req, effect, via, asOf, flushed, streams>>
vars     == <<decisions, tickets, audit, policy, unmet, edits, now,
              pc, req, effect, via, asOf, flushed, streams>>

----------------------------------------------------------------------------
Effects  == {"allow", "deny", "require_approval"}
Statuses == {"none", "pending", "granted", "denied", "expired"}
Modes    == {"recorded", "unrecorded", "simulated"}  \* persist; persist=false; /v1/simulate
MaybeOp  == Ops \union {NONE}

Decision == [effect : Effects \union {"none"}, fp : Fingerprints \union {NONE}]

Ticket == [status : Statuses, fp : Fingerprints \union {NONE},
           expires : 0 .. MaxTime + TTL, decided_by : MaybeOp, redeemed : MaybeOp]

Event == [event : {"requested", "granted", "denied", "redeemed"},
          ticket : Ops, op : Ops]

NoDecision == [effect |-> "none", fp |-> NONE]
NoTicket   == [status |-> "none", fp |-> NONE, expires |-> 0,
               decided_by |-> NONE, redeemed |-> NONE]

Request == [fp : Fingerprints \union {NONE}, ticket : MaybeOp, mode : Modes,
            grant : BOOLEAN, stream : Streams \union {NONE}]

NoRequest == [fp |-> NONE, ticket |-> NONE, mode |-> "recorded",
              grant |-> FALSE, stream |-> NONE]

PCs == {"idle", "validate", "guard", "record", "fail", "spend", "find", "park",
        "update", "seal", "expire", "raise", "commit", "answer", "ended"}

----------------------------------------------------------------------------
(* Mutant: persist=false is no reason not to redeem. *)
BugUnrecordedRedeems(e, k, m) == e = "require_approval" /\ k # NONE

(* A presented approval is looked up only where one is needed, and not for *)
(* a request that has opted out of the record its redemption would be.     *)
ChecksApproval(e, k, m) ==
  e = "require_approval" /\ k # NONE /\ m # "unrecorded"

(* Mutants of redemption_error: the binding or the window is not checked.  *)
BugUnbound(k, f, t) ==
  tickets[k].status = "granted" /\ tickets[k].redeemed = NONE /\ t < tickets[k].expires

BugNoExpiry(k, f, t) ==
  tickets[k].status = "granted" /\ tickets[k].redeemed = NONE /\ tickets[k].fp = f

(* ApprovalRequest.redemption_error is None. *)
Redeemable(k, f, t) ==
  /\ tickets[k].status = "granted"
  /\ tickets[k].redeemed = NONE
  /\ t < tickets[k].expires
  /\ tickets[k].fp = f

(* The tickets _park_for_approval finds waiting for this question: it      *)
(* takes the newest, which is the one that expires last.                   *)
Pending(f) == {k \in Ops : tickets[k].status = "pending" /\ tickets[k].fp = f}
Newest(K)  == {k \in K : \A j \in K : tickets[j].expires <= tickets[k].expires}

(* _guard_tokenization and _resolve_routing: an obligation that cannot be  *)
(* met turns the decision into a denial.  A redeemed decision carries the  *)
(* obligations of the allow and of the require_approval policies.          *)
CannotDischarge(o) ==
  IF via[o] # NONE THEN unmet[req[o].fp] # {} ELSE effect[o] \in unmet[req[o].fp]

----------------------------------------------------------------------------
(* Locks. *)

(* Mutant: appends are not serialised. *)
BugNoAdvisoryLock(o, s) == TRUE

CanAppend(o, s) == \A p \in Ops \ {o} : s \notin streams[p]

LockedRow(o) ==
  CASE flushed[o] = "spend"                -> via[o]
    [] flushed[o] \in {"resolve", "expire"} -> req[o].ticket
    [] OTHER                               -> NONE

CanUpdate(o, k) == \A p \in Ops \ {o} : LockedRow(p) # k

(* The stream or the row a request is blocked on by another one. *)
Waits(o, p) ==
  /\ o # p
  /\ \/ pc[o] \in {"record", "fail", "seal"} /\ req[o].stream \in streams[p]
     \/ pc[o] = "park" /\ PrincipalStream[req[o].fp] \in streams[p]
     \/ pc[o] = "spend" /\ LockedRow(p) = via[o]
     \/ pc[o] \in {"update", "expire"} /\ LockedRow(p) = req[o].ticket

Deadlocked(o) ==
  \E S \in SUBSET Ops : o \in S /\ \A p \in S : \E q \in S : Waits(p, q)

----------------------------------------------------------------------------
Init ==
  /\ decisions = [o \in Ops |-> NoDecision]
  /\ tickets = [o \in Ops |-> NoTicket]
  /\ audit = {}
  /\ policy \in [Fingerprints -> Effects]
  /\ unmet = [f \in Fingerprints |-> {}]
  /\ edits = 0
  /\ now = 0
  /\ pc = [o \in Ops |-> "idle"]
  /\ req = [o \in Ops |-> NoRequest]
  /\ effect = [o \in Ops |-> "deny"]
  /\ via = [o \in Ops |-> NONE]
  /\ asOf = [o \in Ops |-> 0]
  /\ flushed = [o \in Ops |-> "nothing"]
  /\ streams = [o \in Ops |-> {}]

(* decide, up to engine.evaluate: the policies are read, and a request     *)
(* that presents an approval where one is needed has it checked next,      *)
(* unless it has opted out of the record the redemption would need.        *)
Evaluate(o) ==
  /\ pc[o] = "idle"
  /\ \E f \in Fingerprints, m \in Modes, s \in Streams,
        k \in {NONE} \union {j \in Ops : tickets[j].status # "none"} :
        /\ req' = [req EXCEPT ![o] = [fp |-> f, ticket |-> k, mode |-> m,
                                      grant |-> FALSE, stream |-> s]]
        /\ effect' = [effect EXCEPT ![o] = policy[f]]
        /\ pc' = [pc EXCEPT ![o] = IF ChecksApproval(policy[f], k, m)
                                   THEN "validate" ELSE "guard"]
  /\ UNCHANGED <<database, world, via, asOf, flushed, streams>>

(* _validate_approval, and _redeemed_decision when it applies. *)
Validate(o) ==
  /\ pc[o] = "validate"
  /\ IF Redeemable(req[o].ticket, req[o].fp, now)
     THEN /\ via' = [via EXCEPT ![o] = req[o].ticket]
          /\ effect' = [effect EXCEPT ![o] = "allow"]
     ELSE UNCHANGED <<via, effect>>
  /\ asOf' = [asOf EXCEPT ![o] = now]
  /\ pc' = [pc EXCEPT ![o] = "guard"]
  /\ UNCHANGED <<database, world, req, flushed, streams>>

(* The pipeline raises before an approval has been found to apply: fail    *)
(* closed, and still record the denial.                                    *)
PipelineFails(o) ==
  /\ pc[o] \in {"validate", "guard"}
  /\ via[o] = NONE
  /\ effect' = [effect EXCEPT ![o] = "deny"]
  /\ pc' = [pc EXCEPT ![o] = IF req[o].mode = "recorded" THEN "fail" ELSE "answer"]
  /\ UNCHANGED <<database, world, req, via, asOf, flushed, streams>>

Guard(o) ==
  /\ pc[o] = "guard"
  /\ effect' = [effect EXCEPT ![o] = IF CannotDischarge(o) THEN "deny" ELSE @]
  /\ pc' = [pc EXCEPT ![o] = IF req[o].mode = "recorded" THEN "record" ELSE "answer"]
  /\ UNCHANGED <<database, world, req, via, asOf, flushed, streams>>

(* Mutant: everything that is not allowed is parked. *)
BugParksDenials(o) ==
  CASE via[o] # NONE -> "spend"
    [] via[o] = NONE /\ effect[o] # "allow" -> "find"
    [] OTHER -> "commit"

(* Once the decision is recorded: spend the approval, whatever the decision *)
(* has become since it was validated, or park, or neither.                  *)
AfterRecord(o) ==
  CASE via[o] # NONE -> "spend"
    [] via[o] = NONE /\ effect[o] = "require_approval" -> "find"
    [] OTHER -> "commit"

(* _persist: insert the decision, append the audit record. *)
Record(o) ==
  /\ pc[o] = "record"
  /\ CanAppend(o, req[o].stream)
  /\ streams' = [streams EXCEPT ![o] = @ \union {req[o].stream}]
  /\ flushed' = [flushed EXCEPT ![o] = "decision"]
  /\ pc' = [pc EXCEPT ![o] = AfterRecord(o)]
  /\ UNCHANGED <<database, world, req, effect, via, asOf>>

(* _persist_failure; if it raises, the session is rolled back and the      *)
(* denial is answered all the same.                                        *)
RecordFailure(o) ==
  /\ pc[o] = "fail"
  /\ \/ /\ CanAppend(o, req[o].stream)
        /\ streams' = [streams EXCEPT ![o] = @ \union {req[o].stream}]
        /\ flushed' = [flushed EXCEPT ![o] = "decision"]
        /\ pc' = [pc EXCEPT ![o] = "commit"]
     \/ /\ pc' = [pc EXCEPT ![o] = "answer"]
        /\ UNCHANGED <<streams, flushed>>
  /\ UNCHANGED <<database, world, req, effect, via, asOf>>

(* _mark_redeemed: the ticket is the object _validate_approval loaded; the *)
(* update names its primary key and nothing else.  The audit record goes   *)
(* to the stream whose lock the decision's record already took.            *)
MarkRedeemed(o) ==
  /\ pc[o] = "spend"
  /\ CanUpdate(o, via[o])
  /\ flushed' = [flushed EXCEPT ![o] = "spend"]
  /\ pc' = [pc EXCEPT ![o] = "commit"]
  /\ UNCHANGED <<database, world, req, effect, via, asOf, streams>>

(* _park_for_approval: hand back the ticket this question already has, if  *)
(* it is still open ...                                                    *)
FindTicket(o) ==
  /\ pc[o] = "find"
  /\ LET open == {k \in Newest(Pending(req[o].fp)) : now < tickets[k].expires}
     IN  pc' = [pc EXCEPT ![o] = IF open # {} THEN "commit" ELSE "park"]
  /\ asOf' = [asOf EXCEPT ![o] = now]
  /\ UNCHANGED <<database, world, req, effect, via, flushed, streams>>

(* ... or insert one, recorded in the stream of the principal. *)
Park(o) ==
  /\ pc[o] = "park"
  /\ LET s == PrincipalStream[req[o].fp]
     IN  /\ CanAppend(o, s)
         /\ streams' = [streams EXCEPT ![o] = @ \union {s}]
  /\ flushed' = [flushed EXCEPT ![o] = "park"]
  /\ pc' = [pc EXCEPT ![o] = "commit"]
  /\ UNCHANGED <<database, world, req, effect, via, asOf>>

(* resolve_approval, up to its guards: a ticket that is not pending gets a *)
(* 409 at once, one whose window has closed goes the way of "expired".     *)
ReadTicket(o) ==
  /\ pc[o] = "idle"
  /\ \E k \in {j \in Ops : tickets[j].status = "pending"}, g \in BOOLEAN, s \in Streams :
        /\ req' = [req EXCEPT ![o] = [fp |-> NONE, ticket |-> k, mode |-> "recorded",
                                      grant |-> g, stream |-> s]]
        /\ pc' = [pc EXCEPT ![o] = IF tickets[k].expires <= now THEN "expire" ELSE "update"]
  /\ asOf' = [asOf EXCEPT ![o] = now]
  /\ UNCHANGED <<database, world, effect, via, flushed, streams>>

(* status = "expired" is flushed, and then the 409 is raised. *)
Expire(o) ==
  /\ pc[o] = "expire"
  /\ CanUpdate(o, req[o].ticket)
  /\ flushed' = [flushed EXCEPT ![o] = "expire"]
  /\ pc' = [pc EXCEPT ![o] = "raise"]
  /\ UNCHANGED <<database, world, req, effect, via, asOf, streams>>

Update(o) ==
  /\ pc[o] = "update"
  /\ CanUpdate(o, req[o].ticket)
  /\ flushed' = [flushed EXCEPT ![o] = "resolve"]
  /\ pc' = [pc EXCEPT ![o] = "seal"]
  /\ UNCHANGED <<database, world, req, effect, via, asOf, streams>>

SealVerdict(o) ==
  /\ pc[o] = "seal"
  /\ CanAppend(o, req[o].stream)
  /\ streams' = [streams EXCEPT ![o] = @ \union {req[o].stream}]
  /\ pc' = [pc EXCEPT ![o] = "commit"]
  /\ UNCHANGED <<database, world, req, effect, via, asOf, flushed>>

----------------------------------------------------------------------------
(* The end of a transaction. *)

(* Mutant: session-level locks, which outlive the transaction. *)
BugKeepsLocks(o) ==
  /\ flushed' = [flushed EXCEPT ![o] = "nothing"]
  /\ UNCHANGED streams

Release(o) ==
  /\ flushed' = [flushed EXCEPT ![o] = "nothing"]
  /\ streams' = [streams EXCEPT ![o] = {}]

Verdict(o) == IF req[o].grant THEN "granted" ELSE "denied"

(* Mutant: the update of a resolved ticket writes every column back from   *)
(* the object that was loaded while it was pending.                        *)
BugWholeRow(o) ==
  CASE flushed[o] = "spend" -> [tickets EXCEPT ![via[o]].redeemed = o]
    [] flushed[o] = "park"  ->
         [tickets EXCEPT ![o] = [status |-> "pending", fp |-> req[o].fp,
                                 expires |-> asOf[o] + TTL,
                                 decided_by |-> NONE, redeemed |-> NONE]]
    [] flushed[o] = "resolve" ->
         [tickets EXCEPT ![req[o].ticket].status = Verdict(o),
                         ![req[o].ticket].decided_by = o,
                         ![req[o].ticket].redeemed = NONE]
    [] OTHER -> tickets

(* What the flushed writes of o make of the tables: whole rows for an      *)
(* insert, the changed columns for an update.                              *)
Written(o) ==
  CASE flushed[o] = "spend" -> [tickets EXCEPT ![via[o]].redeemed = o]
    [] flushed[o] = "park"  ->
         [tickets EXCEPT ![o] = [status |-> "pending", fp |-> req[o].fp,
                                 expires |-> asOf[o] + TTL,
                                 decided_by |-> NONE, redeemed |-> NONE]]
    [] flushed[o] = "resolve" ->
         [tickets EXCEPT ![req[o].ticket].status = Verdict(o),
                         ![req[o].ticket].decided_by = o]
    [] OTHER -> tickets

Sealed(o) ==
  CASE flushed[o] = "spend"   -> {[event |-> "redeemed", ticket |-> via[o], op |-> o]}
    [] flushed[o] = "park"    -> {[event |-> "requested", ticket |-> o, op |-> o]}
    [] flushed[o] = "resolve" -> {[event |-> Verdict(o), ticket |-> req[o].ticket, op |-> o]}
    [] OTHER                  -> {}

Commit(o) ==
  /\ pc[o] = "commit"
  /\ decisions' = IF flushed[o] = "resolve" THEN decisions
                  ELSE [decisions EXCEPT ![o] = [effect |-> effect[o], fp |-> req[o].fp]]
  /\ tickets' = Written(o)
  /\ audit' = audit \union Sealed(o)
  /\ pc' = [pc EXCEPT ![o] = "answer"]
  /\ Release(o)
  /\ UNCHANGED <<world, req, effect, via, asOf>>

(* The caller gets its answer. *)
Answer(o) ==
  /\ pc[o] = "answer"
  /\ pc' = [pc EXCEPT ![o] = "ended"]
  /\ UNCHANGED <<database, world, req, effect, via, asOf, flushed, streams>>

(* get_db rolls back when the handler raises: after the flush of an        *)
(* expired ticket, or on any other failure before the commit.              *)
Rollback(o) ==
  /\ pc[o] \in PCs \ {"idle", "answer", "ended"}
  /\ pc' = [pc EXCEPT ![o] = "ended"]
  /\ req' = [req EXCEPT ![o] = NoRequest]
  /\ effect' = [effect EXCEPT ![o] = "deny"]
  /\ via' = [via EXCEPT ![o] = NONE]
  /\ asOf' = [asOf EXCEPT ![o] = 0]
  /\ Release(o)
  /\ UNCHANGED <<database, world>>

DeadlockDetected(o) == Deadlocked(o) /\ Rollback(o)

Raise(o) == pc[o] = "raise" /\ Rollback(o)

----------------------------------------------------------------------------
(* The world the requests meet. *)

EditPolicy ==
  /\ edits < MaxEdits
  /\ \E f \in Fingerprints, e \in Effects : policy' = [policy EXCEPT ![f] = e]
  /\ edits' = edits + 1
  /\ UNCHANGED <<database, session, unmet, now>>

(* A tokenization key or the last eligible model comes or goes. *)
EditCapabilities ==
  /\ edits < MaxEdits
  /\ \E f \in Fingerprints, E \in SUBSET {"allow", "require_approval"} :
        unmet' = [unmet EXCEPT ![f] = E]
  /\ edits' = edits + 1
  /\ UNCHANGED <<database, session, policy, now>>

Tick ==
  /\ now < MaxTime
  /\ now' = now + 1
  /\ UNCHANGED <<database, session, policy, unmet, edits>>

Decide(o) ==
  \/ Validate(o) \/ PipelineFails(o) \/ Guard(o) \/ Record(o) \/ RecordFailure(o)
  \/ MarkRedeemed(o) \/ FindTicket(o) \/ Park(o)

Resolve(o) == Expire(o) \/ Raise(o) \/ Update(o) \/ SealVerdict(o)

Step(o) == Decide(o) \/ Resolve(o) \/ Commit(o) \/ Answer(o)

Next ==
  \/ \E o \in Ops :
        \/ Evaluate(o) \/ ReadTicket(o)
        \/ Step(o)
        \/ Rollback(o)
        \/ DeadlockDetected(o)
  \/ EditPolicy
  \/ EditCapabilities
  \/ Tick

Spec == Init /\ [][Next]_vars

(* Handlers keep running and Postgres detects deadlocks; nothing obliges a *)
(* request to arrive, an edit to be made or the clock to pass a deadline.  *)
Fairness == \A o \in Ops : WF_vars(Step(o)) /\ WF_vars(DeadlockDetected(o))

FairSpec == Spec /\ Fairness

----------------------------------------------------------------------------
(* Properties.                                                             *)

Redeemed(k, o) == [event |-> "redeemed", ticket |-> k, op |-> o] \in audit
Granted(k)     == \E o \in Ops : [event |-> "granted", ticket |-> k, op |-> o] \in audit

TypeOK ==
  /\ decisions \in [Ops -> Decision]
  /\ tickets \in [Ops -> Ticket]
  /\ audit \subseteq Event
  /\ policy \in [Fingerprints -> Effects]
  /\ unmet \in [Fingerprints -> SUBSET {"allow", "require_approval"}]
  /\ edits \in 0 .. MaxEdits
  /\ now \in 0 .. MaxTime
  /\ pc \in [Ops -> PCs]
  /\ req \in [Ops -> Request]
  /\ effect \in [Ops -> Effects]
  /\ via \in [Ops -> MaybeOp]
  /\ asOf \in [Ops -> 0 .. MaxTime]
  /\ flushed \in [Ops -> {"nothing", "decision", "spend", "park", "resolve", "expire"}]
  /\ streams \in [Ops -> SUBSET Streams]

(* Bound, granted and in time: an approval is spent only on a recorded     *)
(* decision about the very question it was granted for, after a reviewer   *)
(* granted it, and the check that admitted it ran before it expired.       *)
SpendsAreBacked ==
  \A k, o \in Ops : Redeemed(k, o) =>
     /\ decisions[o].fp = tickets[k].fp
     /\ Granted(k)
     /\ asOf[o] < tickets[k].expires
     /\ tickets[k].redeemed # NONE

(* No capability is exercised for free (ADR 0019): whoever is told "allow" *)
(* because of an approval, other than by /v1/simulate, has spent it on a   *)
(* decision that is on record.                                             *)
UpgradesAreSpent ==
  \A o \in Ops :
     pc[o] = "answer" /\ via[o] # NONE /\ effect[o] = "allow" /\ req[o].mode # "simulated"
     => Redeemed(via[o], o) /\ decisions[o].effect = "allow"

(* A ticket exists only for a question that a recorded decision parked,    *)
(* with the event that announces it; and its verdict is the one some       *)
(* reviewer's sealed record carries.                                       *)
TicketsMatchTheTrail ==
  \A k \in Ops : tickets[k].status # "none" =>
     /\ decisions[k] = [effect |-> "require_approval", fp |-> tickets[k].fp]
     /\ [event |-> "requested", ticket |-> k, op |-> k] \in audit
     /\ tickets[k].status # "pending" =>
           [event |-> tickets[k].status, ticket |-> k, op |-> tickets[k].decided_by] \in audit

(* What a redemption gives and what it costs is on record from the         *)
(* question that was parked to the decision the approval went into.        *)
RedemptionIsBacked == SpendsAreBacked /\ UpgradesAreSpent /\ TicketsMatchTheTrail

(* The queue stays "a list of distinct things to review": one question     *)
(* never has two open tickets.                                             *)
OpenTickets(f)       == {k \in Pending(f) : now < tickets[k].expires}
OneTicketPerQuestion == \A f \in Fingerprints : Cardinality(OpenTickets(f)) <= 1

(* What is spent stays spent, and on a resolved ticket.                    *)
NeverUnspent ==
  [][\A k \in Ops : tickets[k].redeemed # NONE =>
        tickets'[k].redeemed # NONE /\ tickets'[k].status # "pending"]_tickets

(* Every request that a handler has begun is finished, whatever locks it   *)
(* meets on the way.                                                       *)
EveryRequestEnds == \A o \in Ops : (pc[o] # "idle") ~> (pc[o] = "ended")

(* "It is single-use": an approval is spent on one decision.               *)
SingleUse == \A k, o, p \in Ops : Redeemed(k, o) /\ Redeemed(k, p) => o = p
=============================================================================
