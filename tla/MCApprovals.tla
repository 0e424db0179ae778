---------------------------- MODULE MCApprovals ----------------------------
(* Approvals for TLC. *)
EXTENDS Approvals, TLC

CONSTANTS o1, o2, o3, o4, f1, f2, s1, s2

Ops2 == {o1, o2}
Ops3 == {o1, o2, o3}
Ops4 == {o1, o2, o3, o4}
OneQuestion  == {f1}
TwoQuestions == {f1, f2}
OneStream  == {s1}
TwoStreams == {s1, s2}
AllInS1 == [f \in Fingerprints |-> s1]
OneEach == (f1 :> s1) @@ (f2 :> s2)

(* An edit where it can tell: policies are read by Evaluate, so that one    *)
(* is made after the first request and before the last (an earlier one is  *)
(* another initial policy); capabilities by Guard alone, so that one comes *)
(* just before it.  One that cannot be met there is one that it asks for.  *)
EditTells ==
  \/ edits' = edits
  \/ policy' # policy /\ \E o, p \in Ops : pc[o] = "idle" /\ pc[p] # "idle"
  \/ \E o \in Ops, e \in {"allow", "require_approval"} :
        /\ pc[o] = "guard"
        /\ unmet'[req[o].fp] = {e}
        /\ policy[req[o].fp] \in {e, "require_approval"}

Interchangeable == Permutations(Ops) \union Permutations(Fingerprints)

(* Where locks are taken in opposite orders.  Either two requests come,    *)
(* and may both park, each with its stream first and then its principal's. *)
(* Or o1 has parked its question and is gone, and two reviewers have read  *)
(* the ticket while it was pending.  One of them is going to grant it; o4  *)
(* may then redeem it, with its stream in hand and the row to come, while  *)
(* the other has the row and wants a stream.                               *)
Untouched ==
  /\ unmet = [f \in Fingerprints |-> {}] /\ edits = 0 /\ now = 0
  /\ via = [o \in Ops |-> NONE] /\ asOf = [o \in Ops |-> 0]
  /\ flushed = [o \in Ops |-> "nothing"] /\ streams = [o \in Ops |-> {}]

Two ==
  /\ Untouched
  /\ decisions = [o \in Ops |-> NoDecision] /\ tickets = [o \in Ops |-> NoTicket]
  /\ audit = {} /\ policy = [f \in Fingerprints |-> "require_approval"]
  /\ pc = [o \in Ops |-> IF o \in Ops2 THEN "idle" ELSE "ended"]
  /\ req = [o \in Ops |-> NoRequest] /\ effect = [o \in Ops |-> "deny"]

Asked == [o \in Ops |-> IF o = o1 THEN [NoRequest EXCEPT !.fp = f1, !.stream = s1] ELSE NoRequest]
Reviews(o, grant, stream) ==
  o :> [NoRequest EXCEPT !.ticket = o1, !.grant = grant, !.stream = stream]

InReview ==
  /\ Untouched
  /\ decisions = [o \in Ops |-> IF o = o1 THEN [effect |-> "require_approval", fp |-> f1]
                                ELSE NoDecision]
  /\ tickets = [o \in Ops |-> IF o = o1 THEN [NoTicket EXCEPT !.status = "pending", !.fp = f1,
                                                              !.expires = TTL]
                              ELSE NoTicket]
  /\ audit = {[event |-> "requested", ticket |-> o1, op |-> o1]}
  /\ policy = [f \in Fingerprints |-> IF f = f1 THEN "require_approval" ELSE "deny"]
  /\ pc = (o1 :> "ended") @@ (o2 :> "update") @@ (o3 :> "update") @@ (o4 :> "idle")
  /\ \E grant \in BOOLEAN, stream \in Streams :
       req = Reviews(o2, TRUE, s1) @@ Reviews(o3, grant, stream) @@ Asked
  /\ effect = [o \in Ops |-> IF o = o1 THEN "require_approval" ELSE "deny"]

Contention == Two \/ InReview

ContentionSpec == Contention /\ [][Next]_vars /\ Fairness
=============================================================================
