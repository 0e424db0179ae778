------------------------------- MODULE Client -------------------------------
(***************************************************************************)
(* The Python SDK (sdk/python/control_plane_sdk/client.py): the calls of   *)
(* one process that share a client and its decision cache, the requests    *)
(* they send, try again and give up, the approvals they wait for, and the  *)
(* outcomes they report, which Outcomes records.                           *)
(*                                                                         *)
(* A call asks a question: to act on the answer, for advice (persist is    *)
(* false), or to redeem an approval it has waited for; or it is not made.  *)
(* Time is counted down: Tick passes one unit, no request stays out for    *)
(* longer than the HTTP timeout, and handling an answer takes no time.     *)
(*                                                                         *)
(* The control plane answers by a policy that changes, keeps approvals,    *)
(* and records decisions.  One recorded decision, any, is followed to its  *)
(* outcome; the identity of the others does not matter.                    *)
(***************************************************************************)
EXTENDS Outcomes, SequencesExt

CONSTANTS Keys,         \* questions, as _cache_key tells them apart
          Starts,       \* [policy, ask, followed]: ways to start
          Becomes,      \* policy -> those that may replace it
          Abilities,    \* what callers pass as can_satisfy
          Skips,        \* what callers report as undischarged
          TTL, Size,    \* cache_ttl and cache_max_entries
          Timeout,      \* of one request
          Retries,
          Patience,     \* of await_approval
          MaxApprovals, MaxEdits  \* bounds

ASSUME ClientAssumption ==
  /\ {TTL, Timeout, Patience, Size} \subseteq Nat \ {0} /\ Retries \in Nat
  /\ IsFiniteSet(Calls)
  /\ Skips \subseteq (SUBSET Duties) \ {{}} \* a partial outcome names what is undischarged

VARIABLES policy,     \* what the control plane answers
          edits,      \* changes of it so far
          approvals,  \* approvals parked so far: [key, status, late: handlers that are
                      \* redeeming it for nobody, and as history spends: redemptions
                      \* recorded, raced: was it ever validated for two at a time]
          followed,   \* is a decision followed already (or none is to be)
          ask,        \* call -> [key, kind]
          at,         \* call -> where it is
          tries,      \* call -> attempts that failed
          left,       \* call -> time left, of a request or of an approval awaited
          wire,       \* call -> its request or the answer to it
          answer,     \* call -> the decision it holds
          cache,      \* _DecisionCache._entries, oldest insertion first
          fair        \* call -> did it report through enforce or enforcing, claiming
                      \* no duty of the control plane as its own (history)

server == <<policy, edits, approvals, followed>>
local  == <<ask, at, tries, left, answer, cache, fair>>
vars   == <<outcomeVars, server, local, wire>>

----------------------------------------------------------------------------
Effects == {"allow", "deny", "require_approval"}
Ask     == [key : Keys, kind : {"act", "advise", "redeem", "none"}]

(* Nobody starts with an approval: it has to be waited for. *)
ASSUME StartsAssumption ==
  /\ Becomes \in [DOMAIN Becomes -> SUBSET DOMAIN Becomes] /\ DOMAIN Becomes \subseteq [Keys -> Effects]
  /\ \A start \in Starts :
       /\ start.policy \in DOMAIN Becomes /\ start.followed \in BOOLEAN
       /\ start.ask \in [Calls -> {a \in Ask : a.kind # "redeem"}]

(* A decision: id is "followed", "other", or "none" if it was not recorded *)
(* (an advisory one) or not made by the control plane at all; approval is  *)
(* the number of the ticket it parks, redeemed of the one it redeems, or   *)
(* 0; age is the time since it was made.                                   *)
Decision == [effect : Effects, key : Keys, id : {"followed", "other", "none"}, approval : Nat,
             redeemed : Nat, age : 0 .. Timeout + TTL]

denial(key) == [effect |-> "deny", key |-> key, id |-> "none", approval |-> 0,
                redeemed |-> 0, age |-> 0]

(* What is on the wire: nothing, a request, one whose handler has found    *)
(* the approval good and has not recorded the redemption, or a decision.   *)
Nothing   == [phase |-> "nothing"]
Request   == [phase |-> "request"]
Redeeming(decision) == [phase |-> "redeeming", decision |-> decision]
Answer(decision)    == [phase |-> "answer", decision |-> decision]
Carried   == {"redeeming", "answer"}   \* phases with a decision

Older(decision) == [decision EXCEPT !.age = IF @ = Timeout + TTL THEN @ ELSE @ + 1]

Init ==
  /\ OutcomeInit
  /\ \E start \in Starts : policy = start.policy /\ ask = start.ask /\ followed = start.followed
  /\ edits = 0 /\ approvals = <<>>
  /\ at = [c \in Calls |-> IF ask[c].kind = "none" THEN "ended" ELSE "idle"]
  /\ tries = [c \in Calls |-> 0]
  /\ left = [c \in Calls |-> 0] /\ wire = [c \in Calls |-> Nothing]
  /\ answer = [c \in Calls |-> denial(ask[c].key)]
  /\ cache = <<>>
  /\ fair = [c \in Calls |-> FALSE]

(* The call is over; only that it redeemed an approval is remembered. *)
End(c) ==
  /\ at' = [at EXCEPT ![c] = "ended"] /\ tries' = [tries EXCEPT ![c] = 0]
  /\ left' = [left EXCEPT ![c] = 0]
  /\ answer' = [answer EXCEPT ![c] = [denial(ask[c].key) EXCEPT !.redeemed = answer[c].redeemed]]

----------------------------------------------------------------------------
(* The cache.                                                              *)

(* Mutant: redemptions are cached like any other answer. *)
BugCachesRedemptions(c) == TRUE

(* What is asked about content or with an approval is not.  An advisory    *)
(* question is, under the same key as the real one.                        *)
cacheable(c) == ask[c].kind # "redeem"

(* Mutant: an entry lives until it is evicted. *)
BugNeverExpires(entry) == TRUE

Alive(entry) == entry.left > 0

Entries(c) == {i \in DOMAIN cache : cache[i].key = ask[c].key}

(* set: a key that is there keeps its place; the oldest entry goes when    *)
(* the cache is full, even if it is another one.                           *)
Kept(c, decision) ==
  LET entry  == [key |-> ask[c].key, decision |-> decision, left |-> TTL]
      pruned == IF Len(cache) >= Size THEN Tail(cache) ELSE cache
      mine   == {i \in DOMAIN pruned : pruned[i].key = entry.key}
  IN  IF mine = {} THEN Append(pruned, entry)
      ELSE [i \in DOMAIN pruned |-> IF i \in mine THEN entry ELSE pruned[i]]

----------------------------------------------------------------------------
(* decide, on the side of the caller.                                      *)

Send(c) ==
  /\ at' = [at EXCEPT ![c] = "out"]
  /\ wire' = [wire EXCEPT ![c] = Request]
  /\ left' = [left EXCEPT ![c] = Timeout]

Hit(c) ==
  /\ at[c] = "idle" /\ cacheable(c)
  /\ \E i \in Entries(c) :
       /\ Alive(cache[i])
       /\ answer' = [answer EXCEPT ![c] = cache[i].decision]
  /\ at' = [at EXCEPT ![c] = "holding"]
  /\ UNCHANGED <<outcomeVars, server, ask, tries, left, cache, fair, wire>>

(* No entry, or one that has expired and is dropped. *)
Miss(c) ==
  /\ at[c] = "idle"
  /\ cacheable(c) => \A i \in Entries(c) : ~Alive(cache[i])
  /\ IF cacheable(c) /\ Entries(c) # {}
     THEN \E i \in Entries(c) : cache' = RemoveAt(cache, i)
     ELSE UNCHANGED cache
  /\ Send(c)
  /\ UNCHANGED <<outcomeVars, server, ask, tries, answer, fair>>

(* After the backoff. *)
Resend(c) ==
  /\ at[c] = "backoff"
  /\ Send(c)
  /\ UNCHANGED <<outcomeVars, server, ask, tries, answer, cache, fair>>

_on_unreachable(c) == denial(ask[c].key)

Again(c) == tries[c] < Retries

(* A handler whose caller is gone goes on, or goes down with it.           *)
Abandon(c) ==
  IF wire[c].phase = "redeeming"
  THEN approvals' \in {approvals, [approvals EXCEPT ![wire[c].decision.redeemed].late = @ + 1]}
  ELSE UNCHANGED approvals

(* The request timed out or the connection broke: it is tried again after  *)
(* a pause, or the caller is denied.  The request may have been answered   *)
(* (one that arrives later still is taken to have arrived by now) or lost. *)
Unreachable(c) ==
  /\ at[c] = "out" /\ Abandon(c)
  /\ IF Again(c)
     THEN /\ at' = [at EXCEPT ![c] = "backoff"] /\ tries' = [tries EXCEPT ![c] = @ + 1]
          /\ UNCHANGED answer
     ELSE /\ at' = [at EXCEPT ![c] = "holding"] /\ answer' = [answer EXCEPT ![c] = _on_unreachable(c)]
          /\ tries' = [tries EXCEPT ![c] = 0]
  /\ left' = [left EXCEPT ![c] = 0]
  /\ wire' = [wire EXCEPT ![c] = Nothing]
  /\ UNCHANGED <<outcomeVars, policy, edits, followed, ask, cache, fair>>

(* _handle: a decision, or a refusal of this enforcement point (401, 403), *)
(* which is a denial and cached as one.                                    *)
Take(c, decision) ==
  /\ at' = [at EXCEPT ![c] = "holding"] /\ tries' = [tries EXCEPT ![c] = 0]
  /\ left' = [left EXCEPT ![c] = 0] /\ wire' = [wire EXCEPT ![c] = Nothing]
  /\ answer' = [answer EXCEPT ![c] = decision]
  /\ cache' = IF cacheable(c) THEN Kept(c, decision) ELSE cache
  /\ UNCHANGED <<outcomeVars, server, ask, fair>>

Receive(c) == at[c] = "out" /\ wire[c].phase = "answer" /\ Take(c, wire[c].decision)

Rejected(c) == at[c] = "out" /\ wire[c] = Request /\ Take(c, denial(ask[c].key))

(* Any other status raises; nothing of such a request was committed.       *)
ServerError(c) ==
  /\ at[c] = "out" /\ wire[c].phase \in {"request", "redeeming"}
  /\ wire' = [wire EXCEPT ![c] = Nothing]
  /\ End(c)
  /\ UNCHANGED <<outcomeVars, server, ask, cache, fair>>

----------------------------------------------------------------------------
(* POST /v1/decide.                                                        *)

(* Mutant: a spent approval is as good as a granted one. *)
BugRedeemsSpent(c) ==
  LET parked == answer[c].approval
  IN  /\ ask[c].kind = "redeem" /\ policy[ask[c].key] = "require_approval"
      /\ approvals[parked].key = ask[c].key /\ approvals[parked].status \in {"granted", "spent"}

Redeems(c) ==
  LET parked == answer[c].approval
  IN  /\ ask[c].kind = "redeem" /\ policy[ask[c].key] = "require_approval"
      /\ approvals[parked].key = ask[c].key /\ approvals[parked].status = "granted"

Parks(c) == policy[ask[c].key] = "require_approval" /\ ~Redeems(c) /\ ask[c].kind # "advise"

(* The approval a parked request is handed: the open one, or a new one. *)
Ticket(c) ==
  LET open == {i \in DOMAIN approvals : approvals[i].key = ask[c].key /\ approvals[i].status = "pending"}
  IN  IF open = {} THEN Len(approvals) + 1 ELSE CHOOSE i \in open : TRUE

Opened(key) == [key |-> key, status |-> "pending", spends |-> 0, late |-> 0, raced |-> FALSE]

Decided(c, id) ==
  [effect |-> IF Redeems(c) THEN "allow" ELSE policy[ask[c].key], key |-> ask[c].key, id |-> id,
   approval |-> IF Parks(c) THEN Ticket(c) ELSE 0,
   redeemed |-> IF Redeems(c) THEN answer[c].approval ELSE 0, age |-> 0]

Ids(c) == IF ask[c].kind = "advise" THEN {"none"}
          ELSE IF followed THEN {"other"} ELSE {"other", "followed"}

Record(c, id) ==
  /\ followed' = (followed \/ id = "followed")
  /\ approvals' = IF Parks(c) /\ Ticket(c) > Len(approvals)
                  THEN Append(approvals, Opened(ask[c].key)) ELSE approvals

Room(c) == Parks(c) => Ticket(c) <= MaxApprovals

(* A decision that redeems nothing: what other requests do meanwhile does  *)
(* not matter to it, but for the ticket it parks, which the stream's lock  *)
(* sees to.                                                                *)
Serve(c) ==
  /\ wire[c] = Request /\ ~Redeems(c) /\ Room(c)
  /\ \E id \in Ids(c) :
       Record(c, id) /\ wire' = [wire EXCEPT ![c] = Answer(Decided(c, id))]
  /\ UNCHANGED <<outcomeVars, policy, edits, local>>

(* Somebody else's handler has found approval i good, and is not done.     *)
InUse(i) ==
  \/ approvals[i].late > 0
  \/ \E d \in Calls : wire[d].phase = "redeeming" /\ wire[d].decision.redeemed = i

(* The presented approval is read, without a lock, and found good ...      *)
Validate(c) ==
  /\ wire[c] = Request /\ Redeems(c)
  /\ \E id \in Ids(c) :
       /\ followed' = (followed \/ id = "followed")
       /\ wire' = [wire EXCEPT ![c] = Redeeming(Decided(c, id))]
  /\ LET i == answer[c].approval
     IN  approvals' = [approvals EXCEPT ![i].raced = @ \/ InUse(i)]
  /\ UNCHANGED <<outcomeVars, policy, edits, local>>

Spent(approval) == [approval EXCEPT !.status = "spent", !.spends = @ + 1]

(* ... and marked, whatever has become of it, as the decision is recorded. *)
Spend(c) ==
  /\ wire[c].phase = "redeeming"
  /\ approvals' = [approvals EXCEPT ![wire[c].decision.redeemed] = Spent(@)]
  /\ wire' = [wire EXCEPT ![c] = Answer(wire[c].decision)]
  /\ UNCHANGED <<outcomeVars, policy, edits, followed, local>>

(* A handler does so although its caller has given it up.                  *)
SpendLate ==
  /\ \E i \in DOMAIN approvals :
       /\ approvals[i].late > 0
       /\ approvals' = [approvals EXCEPT ![i] = [Spent(approvals[i]) EXCEPT !.late = @ - 1]]
  /\ UNCHANGED <<outcomeVars, policy, edits, followed, local, wire>>

(* A reviewer, and whoever edits the policies. *)
Resolve ==
  /\ \E i \in DOMAIN approvals, verdict \in {"granted", "denied"} :
       /\ approvals[i].status = "pending"
       /\ approvals' = [approvals EXCEPT ![i].status = verdict]
  /\ UNCHANGED <<outcomeVars, policy, edits, followed, local, wire>>

EditPolicies ==
  /\ edits < MaxEdits /\ edits' = edits + 1
  /\ policy' \in Becomes[policy]
  /\ UNCHANGED <<outcomeVars, approvals, followed, local, wire>>

----------------------------------------------------------------------------
(* await_approval: polls until somebody has decided or patience ends; a    *)
(* granted approval is presented with the question again.                  *)

Await(c) ==
  /\ at[c] = "holding" /\ ask[c].kind = "act" /\ answer[c].approval # 0
  /\ at' = [at EXCEPT ![c] = "polling"] /\ left' = [left EXCEPT ![c] = Patience]
  /\ UNCHANGED <<outcomeVars, server, ask, tries, answer, cache, fair, wire>>

Poll(c) ==
  /\ at[c] = "polling"
  /\ LET status == approvals[answer[c].approval].status
     IN  CASE status \in {"granted", "spent"} ->
                /\ at' = [at EXCEPT ![c] = "idle"] /\ left' = [left EXCEPT ![c] = 0]
                /\ ask' = [ask EXCEPT ![c].kind = "redeem"]
                /\ UNCHANGED <<tries, answer>>
           [] status = "denied" \/ (status = "pending" /\ left[c] = 0) ->
                End(c) /\ UNCHANGED ask
           [] OTHER -> at' = [at EXCEPT ![c] = "napping"] /\ UNCHANGED <<ask, tries, left, answer>>
  /\ UNCHANGED <<outcomeVars, server, cache, fair, wire>>

(* The read of the approval fails, and the call raises. *)
PollFails(c) ==
  /\ at[c] = "polling"
  /\ End(c)
  /\ UNCHANGED <<outcomeVars, server, ask, cache, fair, wire>>

----------------------------------------------------------------------------
(* enforce, enforcing and report_partial: what is done with an allow, and  *)
(* what is reported about it.                                              *)

Body(outcome, undischarged) ==
  [outcome |-> outcome, undischarged |-> undischarged, discharged |-> Duties \ undischarged]

(* Mutant: what the server can do, it has done. *)
BugStatic(can_satisfy) == Duties \ (ControlPlane \union can_satisfy)

outstanding(can_satisfy) == Duties \ ((ControlPlane \ unsupported) \union can_satisfy)

(* The ways to act and what each reports: refused for an outstanding duty, *)
(* refused because the work failed, enforced, or partly discharged by a    *)
(* caller that does without enforce.                                       *)
Acts(can_satisfy) ==
  LET unmet == outstanding(can_satisfy)
      honest == can_satisfy \intersect ControlPlane = {}
  IN  [fair : {FALSE}, body : {Body("partial", skipped) : skipped \in Skips}]
      \union [fair : {honest}, body : IF unmet # {} THEN {Body("refused", unmet)}
                                  ELSE {Body("refused", Duties), Body("enforced", {})}]

Act(c) ==
  /\ at[c] = "holding" /\ answer[c].effect = "allow" /\ ask[c].kind # "advise"
  /\ \E can_satisfy \in Abilities : \E act \in Acts(can_satisfy) :
       IF answer[c].id = "followed"
       THEN /\ Post(c, act.body)
            /\ fair' = [fair EXCEPT ![c] = act.fair]
       ELSE UNCHANGED <<outcomeVars, fair>>
  /\ End(c)
  /\ UNCHANGED <<server, ask, cache, wire>>

(* Advice taken, a denial, an approval nobody waits for; or the process    *)
(* dies, or its report is lost.                                            *)
Leave(c) ==
  /\ at[c] = "holding"
  /\ End(c)
  /\ UNCHANGED <<outcomeVars, server, ask, cache, fair, wire>>

----------------------------------------------------------------------------
Waiting(c) == at[c] \in {"out", "polling", "napping"}

Tick ==
  /\ \A c \in Calls : at[c] = "out" => left[c] > 0
  /\ left' = [c \in Calls |-> IF Waiting(c) /\ left[c] > 0 THEN left[c] - 1 ELSE left[c]]
  /\ at' = [c \in Calls |-> IF at[c] = "napping" THEN "polling" ELSE at[c]]
  /\ wire' = [c \in Calls |-> IF wire[c].phase \in Carried
                              THEN [wire[c] EXCEPT !.decision = Older(@)] ELSE wire[c]]
  /\ cache' = [i \in DOMAIN cache |->
                 [cache[i] EXCEPT !.left = IF @ = 0 THEN 0 ELSE @ - 1, !.decision = Older(@)]]
  /\ UNCHANGED <<outcomeVars, server, ask, tries, answer, fair>>

Caller(c) ==
  Hit(c) \/ Miss(c) \/ Resend(c) \/ Unreachable(c) \/ Receive(c) \/ Rejected(c)
  \/ ServerError(c) \/ Await(c) \/ Poll(c) \/ PollFails(c) \/ Act(c) \/ Leave(c)

Next ==
  \/ \E c \in Calls :
       \/ Caller(c) \/ Serve(c) \/ Validate(c) \/ Spend(c)
       \/ Handle(c) /\ UNCHANGED <<server, local, wire>>
  \/ SpendLate \/ Resolve \/ EditPolicies \/ Tick

Spec == Init /\ [][Next]_vars

----------------------------------------------------------------------------
(* Properties.                                                             *)

(* Whoever holds an allow has it from the control plane, which gave it for *)
(* this very question, and less than the HTTP timeout and the life of a    *)
(* cache entry ago: lost answers, retries and refusals never turn into     *)
(* permission, and a withdrawn one is not used for longer than that.       *)
AllowsAreGivenAndFresh ==
  \A c \in Calls : at[c] = "holding" /\ answer[c].effect = "allow" =>
    /\ answer[c].key = ask[c].key
    /\ answer[c].age < Timeout + TTL
    /\ answer[c].id = "none" => \E d \in Calls : ask[d] = [key |-> ask[c].key, kind |-> "advise"]

(* An approval is for one action ("an approval redemption is a state       *)
(* change that must happen exactly once", client.py:434).  However it is   *)
(* retried, cached or raced for, each allow a call holds that comes of     *)
(* redeeming an approval has a recorded redemption to itself; and unless   *)
(* two requests had found the approval good at one time (ApprovalsSingleUse*)
(* shows what the server does then), there is one.                         *)
Redeemed(i) == {c \in Calls : answer[c].redeemed = i}
OneRedemptionEach ==
  \A i \in DOMAIN approvals :
    /\ Cardinality(Redeemed(i)) <= approvals[i].spends
    /\ approvals[i].spends <= 1 \/ approvals[i].raced

(* A caller that acts through enforce or enforcing, and claims no duty of  *)
(* the control plane as its own, never has its report corrected, also not  *)
(* when it acts on a decision somebody else was given                      *)
(* (control_plane/api/v1/decisions.py: "unreachable from either shipped    *)
(* SDK").                                                                  *)
EnforcingIsBelieved ==
  \A e \in trail : e.event = "contradicted" => ~fair[e.by]

(* An honest report is neither corrected nor refused.                      *)
HonestReportsStand == EnforcingIsBelieved /\ RetryNotPunished
=============================================================================
