# Verification of the data governance control plane

This directory holds TLA+ models of the control plane in `src/`, the TLC
configurations that check them on small instances, and proofs, checked by the
TLA+ proof system, of what holds for instances of any size. Paths below are
relative to `src/`.

* [The system](#the-system): its parts, their state, how they interact
* [The modules](#the-modules): what models what
* [The runs](#the-runs): what is checked, within which bounds
* [The proofs](#the-proofs): what is proved, and along which argument
* [Where the code and its documents disagree](#where-the-code-and-its-documents-disagree)
* [What is left out](#what-is-left-out)
* [The plan](#the-plan)

## The system

A *control plane* (`control_plane/`, FastAPI over SQLAlchemy and Postgres)
answers one question: may this principal do this action to this resource with
this payload, and under which obligations. *Enforcement points* (`pep/`: a
reverse proxy in front of model providers, a proxy in front of MCP servers) and
clients (`sdk/`) ask it, do what it says, and report what they did. Every
answer is sealed in a hash-chained audit log.

| part | state | operations | correct when |
|---|---|---|---|
| audit chain and service (`audit/`) | `audit_records`, one hash chain per stream, a stream of checkpoints; advisory locks | `append`, `checkpoint`, `stream_heads`, `verify_stream`, `verify_all` | chains verify whatever transactions overlap or fail; a key is never used twice; what a checkpoint recorded holds; tampering is found |
| policy decision point (`pdp.py`) | `decisions`; none in memory | `decide`, `simulate`: scan, label, evaluate, validate an approval, guard, route, redact, record, redeem or park | fails closed; every upgraded answer is recorded; obligations that cannot be met deny |
| approvals (`api/v1/approvals.py`, `models/decision.py`) | `approval_requests`: pending, granted, denied, redeemed | park, resolve, redeem, expire | bound, granted, in time, single use; one ticket per open question; verdicts are final |
| outcomes (`api/v1/decisions.py`) | outcome columns of `decisions` | `report_outcome` | written once, repeats accepted, contradictions corrected and sealed, conflicts sealed |
| policy store and engine cache (`policy/store.py`) | `policies`, `policy_versions`; per process: a compiled engine and its deadline | create, update, enable, delete, sync, load | a decision never sees policies staler than the TTL; own writes are visible; versions are distinct |
| policy engine (`policy/engine.py`, `model.py`) | none | compile, match, combine, collect obligations | deny overrides; obligations of every applicable policy are kept; one more policy never loosens an answer |
| model router (`routing/`) | none | choose a model that meets the `route` obligations | a chosen model satisfies each of them by itself; none, then deny |
| catalog and discovery (`catalog/`, `adapters/`) | `data_assets`, `asset_classifications` | register, label, scan, replace scan results, discover, resolve with the patterns that cover an asset | labels of one origin never erase another's; the last scan's labels stand; a resolution misses nothing; a discovery run is kept as a whole |
| API keys (`auth/`) | `api_keys` | authenticate, issue, revoke, mark as used, rehash | a revocation stands; requests of one key do not deadlock |
| classification, redaction, tokenisation | none; tokenisation keys from the environment | find sensitive values, arbitrate, replace them; read tokens back | only findings are touched; what is left standing has a reason; tokens outlive a rotation |
| reverse proxy (`pep/reverse_proxy/`) | per request: decision, governed text, emitted text | decide inbound, call the provider, decide outbound, discharge obligations, report | nothing leaves ungoverned; every duty of a decision is discharged or the request refused; what is reported is what happened |
| MCP proxy (`pep/mcp_proxy/`) | per request: decisions, the server's answer | govern calls, results and tool listings; pass the rest on | calls and results obey their decisions; no text is lost; the agent is never told what did not happen |
| SDKs (`sdk/`) | decision cache, retry counters | decide, enforce, report, wait for an approval | caches only what may be cached; a block that fails is reported as refused |

How they meet: a request handler runs in one database session (`api/deps.py:
get_db`), which commits when the handler returns and rolls back when it raises;
the decision endpoint commits by itself before it answers. The session is in
Postgres' default READ COMMITTED mode, so each statement sees what is committed
at that moment. `decide`, `resolve_approval`, `report_outcome` and every policy
edit call `AuditService.append` inside their own transaction and so hold the
advisory lock of an audit stream until they end. Policy writes empty the engine
cache of their own process; the caches of other processes expire. Enforcement
points call the control plane over HTTP and may lose an answer at any time.

What is hard: check-then-write sequences under READ COMMITTED (redemption,
verdicts, outcomes, parking); locks of two kinds taken in different orders; a
cache that is emptied before the transaction that made it stale commits;
handlers that flush evidence and then raise; checkpoints that read many streams
without a lock; text that has to be released before all of it is known; reads
of a connection whose boundaries fall anywhere. PROJECT.json lists each of these
hazards with its line and the properties aimed at it.

## The modules

    AuditLedger           the promise: chains that grow by whole transactions
      ^ refined by
    AuditLog              sessions, advisory locks, flushes, commits     <- MCAuditLog
      ^ AuditVerification an audit, and a table that may be damaged      <- MCAuditVerification
          ^ AuditProofs   theorems about both
    Approvals             decide and resolve_approval over one database  <- MCApprovals
      ^ ApprovalsProofs   theorems about Approvals
    Outcomes              report_outcome by several callers
      ^ Client            the SDK: cache, retries, approvals, reports    <- MCClient
          ^ ClientProofs  theorems about Client and Outcomes
    PolicyCache           engine caches, loads and policy writes         <- MCPolicies
    Administration        edits of policies, keys, authentication        <- MCPolicies
    Matching              match trees, from document to verdict          <- MCPayloads
      ^ PoliciesProofs    theorems about all three
    Catalog               labels, scans, discovery, resolution           <- MCCatalog
      ^ CatalogProofs     theorems about Catalog
    Redaction             a payload scanned and rewritten, tokens        <- MCPayloads
    StreamGovernor        a streamed answer through the reverse proxy    <- MCPayloads
    PolicyEngine, Routing
      ^ extended by
    DecisionPoint         the contents of a decision
      ^ extended by
    Enforcement           what is left for an enforcement point to do
      ^ EnforcementProofs lemmas the proxies' proofs share
      ^ extended by
    ChatProxy             a chat completion through the reverse proxy    <- MCChatProxy
      ^ PayloadProofs     theorems about it, StreamGovernor and Redaction
    McpProxy              a message through the proxy for tool servers   <- MCMcpProxy
      ^ McpProxyProofs    theorems about McpProxy

Mutants (`Bug...` operators) stand before the definition they distort; each
property of a passing run has one that breaks it.

**AuditLedger** is the abstract specification: a set of streams, each a sequence
of sealed rows, and one action: a transaction extends any number of streams, each
by rows that continue its chain. A digest is an injective constructor,
`Digest(x)` of the body it seals: the model takes SHA-256 for collision-free.

**AuditLog** is `audit/service.py` under concurrent transactions. `log` is the
committed table and `pending[t]` what transaction `t` has flushed. An append is
three steps, between which anyone may run: `Lock` (`_lock`,
`pg_advisory_xact_lock`), `ReadHead` (`head`), `Insert` (seal against that head,
add, flush). `plan[t]` is the sequence of streams a handler will append to: one
record, two of the caller, or one of the caller and one of a principal
(parking). A checkpoint lists the streams, reads each head in a statement of its
own and without a lock, and then appends like anybody else. `Rollback` may happen
anywhere and stands for an exception, a lost connection or a dead process.
`DeadlockDetected` aborts one transaction of a waits-for cycle.

**Approvals** has the tables `decisions`, `approval_requests` (as `tickets`) and
the audit events about approvals, and one entry per request. `Evaluate ->
Validate -> Guard -> Record -> MarkRedeemed | FindTicket -> Park -> Commit ->
Answer` are the statements of `PolicyDecisionPoint.decide`; `PipelineFails` and
`RecordFailure` are its fail-closed path; `ReadTicket -> Update -> SealVerdict ->
Commit` (or `Expire -> Raise`) is `resolve_approval`. A flush takes the lock of
the row it updates, and writes only the changed columns. `Evaluate` reads the
policies, and `EditPolicy`, `EditCapabilities` and `Tick` change the world while
a request is under way. A question (`Fingerprints`) stands for principal, action,
resource and payload digest; `unmet` is whether the obligations of an effect can
be carried out (a tokenisation key, an eligible model).

**AuditVerification** extends AuditLog with an auditor (`verify_all`: a statement
per stream, one for the newest checkpoint, one or two per head it names) who
takes no lock while three transactions append or checkpoint, and with `Damage`:
any rows of a stream are lost, one is altered or moved to another stream, by
somebody without the audit key. `before` is the table as it was.

**Outcomes** is one decision and several calls that report its outcome. What the
decision says could not be done (`unsupported`) is arbitrary and fixed. It has
no process of its own: `Post` is where the caller comes in. A report that was
accepted writes the columns in which its corrected draft differs from the
unreported decision its transaction had loaded (`Written`), so that an empty list
leaves there what an overlapping report has put.

**Client** composes it with the Python SDK. `Hit | Miss -> Serve -> Receive`, with
`Unreachable -> Resend` until the retries are used up, `Rejected` (401, 403) and
`ServerError`; `Await -> Poll` for a parked question; `Act` and `Leave` for
`enforce`, `enforcing` and `report_partial`, which post a report. Answers have an
age, cache entries a remaining life. The control plane is `Serve`, or, for a
request with an approval, `Validate` and later `Spend`: the approval is read
without a lock and found good, and marked when the decision is recorded, whatever
has become of it in between. A handler whose caller gives up may still get there
(`Abandon`, `SpendLate`), so that the request sent again overlaps the first.
Otherwise a late request is taken to have arrived before its caller gave up on it.

**PolicyCache** is one version number for the stored policy set, a cache per
process, decisions that hit or load, and writes that invalidate and commit
later. A load takes up to `MaxLoad` from its snapshot to its use.

**Administration** is a request as one transaction: `Arrive -> Authenticate -> Read
-> Flush -> Seal -> Return -> CommitRequest`, with `Lock` for one row or advisory
lock at a time, in the order in which a flush writes rows (`Unlocked`, `Wants`),
and `Refuse`, `Reject` and `Fail` anywhere. `Return` stands before the commit
because `get_db` commits when the answer is out; only `decide` and the command
line commit first (`CommitsFirst`). It has one policy with its `policy_versions`,
two API keys, and one audit stream.

**Catalog** runs the statements of each handler (`Program`) under READ COMMITTED: a
write is a `Select` and later a flush of what the `Select` saw, a written row stays
locked to the end, unique indexes and the foreign key are checked at the flush,
and `Commit` makes `put` and `cut` visible at once. A row that already is as it
would be written is not updated and so not locked: SQLAlchemy flushes changed
columns only (`LeaveRow`, whose history is `left`); `by` is the call that
inserted a row and stands for its primary key. A discovery run is one
transaction that upserts asset after asset; a failed flush rolls all of it back,
a failed sample is an error of its asset only.

**Redaction** is `scan_structured` leaf by leaf, `_resolve_overlaps`, the floor of
`_filter_findings`, then `apply_to_structured` leaf by leaf and
`apply_to_text` from right to left. Where the patterns of a leaf may match is
given (`spots`), and any subset that one pattern's `finditer` could return is tried.
The loops over sorted matches are folds over the set of them, `Weakest` and
`Leftmost` choosing whom the loop comes to last.
Tokens are an injective encryption per key; `Rotate` brings one process after the
other to the next generation of keys.

**Matching** has the operators of `operators.py`, `normalise_match` and
`_eval_node` as operators of the same names. A document is the list of its nodes,
parents before children, which they know by their places; normalising it is
normalising each node (`Canonical`), and the recursion of `_eval_node` is a
function of the places (`Evaluated`). `Author` normalises and stores a document,
`LoadDocument` normalises what was stored, `EvaluateMatch` evaluates it with or
without a trace. The reference definition, `Means`, is read off the document as it
was written. `resolve_path` walks mappings as far as there are any; what remains of
the selector names an element of a list by its place (`Element`, which raises
what `int` raises) or an attribute of an object (`Attribute`). Comparisons are of
floats (`Float`), in the order of the items: one too large raises (`Overflows`)
unless an earlier one has settled the test. What Python gives (`sorted`, `int`,
`float`, `getattr`) are constants.

**StreamGovernor** is `StreamGovernor.feed`, `finish` and `_drain` under
`govern_stream` (window mode) and `_stream_buffered` (buffer mode). Text is a
sequence of harmless characters and of `x`; `SecretLen` of the latter in a row
are a sensitive value, which redaction replaces by one placeholder. The provider
sends events of any size; an event that two reads of the connection share is
lost (`LoseEvent`), because each read is split into lines by itself. `Drain`
governs and says what may go out, `Forward` what of it does (`streamed`).

**PolicyEngine** has the pure part of `policy/engine.py`: which policies match
(a match tree is the set of the questions it accepts), how their effects combine
under each of the three algorithms, and which obligations come with the outcome
(`CollectObligations`) or with a redeemed approval (`obligations_for`).

**Routing** is `ModelRouter.resolve` with `_intersect` and `satisfies`: requirements
of several obligations are merged attribute by attribute, and the model must
meet the merge.

**DecisionPoint** strings them together the way `PolicyDecisionPoint.decide`
does: `Ask` (scan the head of the payload, up to `ScanLimit`), `evaluate`,
`guard_tokenization`, `resolve_routing`, `build_response` (redact, and say which
duties the control plane did not carry out). `Actions` are the questions' verbs.
**Enforcement** is the SDK's `outstanding` and what a payload must not contain
(`Clean`), for both proxies. A payload is a sequence of pieces,
the texts between blank lines, each plain, masked, or sensitive.

**ChatProxy** is `chat_completions` without `stream`: `DecideInbound ->
(RefuseInbound | Send | SendFails) -> DecideOutbound -> (RefuseOutbound |
EnforceOutbound -> Deliver)`, with `InboundUnavailable` and `OutboundUnavailable`
for decisions that do not arrive. The request's and the answer's obligations are
applied by the operators of the names they have in `obligations.py` and
`main.py`; `outstanding` and `Reported` are the SDK's. `SendFails` covers both a
connection that was never made and a provider that failed after it had the
prompt. `EditPolicies` changes the set of policies while a decision is awaited.

**McpProxy** is one JSON-RPC message: `Forward` for what is not governed;
`DecideCall -> (RefuseCall | CallTool | CallFails) -> (PassReply | DecideResult ->
(RefuseResult | DeliverResult))` for a call; `ForwardListing -> DecideTool* ->
DeliverListing` for a listing, whose answers may come from the SDK's cache
(`recent`). `_content_text` and `_rewrite_content` move lines between blocks;
`declared_action` and `infer_action` choose the verb a tool stands for: the word an
operator wrote into the listing as an override, else the hints, else the name.

### Side by side

`MCPolicies` and `MCPayloads` explore modules that share no variable in one run,
one behaviour belonging to one of them: two models of the policy tables that
look at different hazards (the cache's clock, and the transactions' locks), and
three of what happens to a payload. A state of the run is a state of one model
with the others at rest, so an invariant of each is checked over its whole state
space; nothing is checked about their combination.

## The runs

Invariants and action properties are checked over every reachable state.
Deadlock is not looked for: each run has finitely many requests, and the
system stops when they have all ended; that they do end is a liveness property.

| run | expects | instance | properties |
|---|---|---|---|
| AuditLog | pass | three transactions, two streams and the checkpoints', two actors on different streams | `EveryStreamVerifies`, `CheckpointsHold`, `ImplementsLedger` (the refinement), `EveryTransactionEnds` (liveness) |
| AuditVerification | pass | the same, an auditor, and a table from which any rows are lost, or one row altered or moved | `NoFalseAlarm`, `VouchedIsIntact`, `SlicesAgree` |
| Approvals | pass | four requests about one question on one stream, clock 0..1, TTL 1 | `OneTicketPerQuestion`, `NeverUnspent` |
| ApprovalsEdits | pass | three requests, two questions, one edit of policies or capabilities at any point | `RedemptionIsBacked` |
| ApprovalsEnd | pass | two streams, and two requests that park questions of principals of different streams; or a pending ticket that two reviewers have read, and its redeemer | `EveryRequestEnds` (liveness) |
| ApprovalsSingleUse | violation | as Approvals | `SingleUse` |
| Policies | pass | two processes, two decisions, two writes, clock 0..5, TTL 2, loads up to 1; or three requests out of fifteen calls by an administrator, a gateway and the command line | `StalenessBounded`, `OwnWritesVisible`; `RecordsAgree`, `RevocationStands`, `OnlyIdleCallsDeadlock` |
| Catalog | pass | a table, the pattern that covers it, two labels; three calls at once: a scan or a discovery, with two of a second scan, a call that labels, unlabels or deletes, and a resolution | `LastScanStands`, `ResolvedIsComplete`, `HumanAssertionsStand`, `RunsAreWhole` |
| Payloads | pass | every answer of up to 7 characters in events of 1 to 3, values of 3, a window of 2, governed every 2; or five payloads under six lists of rules, two floors and two processes through two rotations; or 668 documents and 112 requests | `NothingSensitiveDelivered`, `StreamEndsAsReported`; `OnlyFindingsTouched`, `LeftoversExplained`, `TokensReadBack`; `AnswersAsWritten`, `MoreLabelsStillMatch` |
| ChatProxy | pass | every subset of seven policies, one changed on the way, three models, five prompts, three answers, two purposes | `SentAsDecided`, `DeliveredAsDecided`, `RedactedAsDecided`, `MoreRulesNeverLoosen`, `RedeemingShedsNothing` |
| McpProxy | pass | every subset of six policies, one changed on the way, twelve messages, six replies, four listings | `CallsGoAsDecided`, `ResultsComeBackAsDecided`, `OutcomesAreTrue`, `OfferedAsDeclared` |
| Client | pass | three calls, two questions, a cache of one entry and TTL 2, a timeout of 1, one retry, two approvals, one edit | `AllowsAreGivenAndFresh`, `OneRedemptionEach`, `HonestReportsStand`, `RecordMatchesTrail` |

Several of these are conjunctions of named parts: `RedemptionIsBacked`,
`RecordsAgree`, `StreamEndsAsReported`, `RedactedAsDecided`, `LastScanStands`,
`RecordMatchesTrail` and others. The mutants break the parts one by one.

Why the bounds are enough for what is asked:

* AuditLog. A wrong link or number needs two writers of one stream; a deadlock
  needs two that take two locks in opposite orders; a checkpoint that reads
  around them is the third. One more transaction of any kind adds nothing the
  proofs do not already cover: the safety properties and the refinement are
  theorems for any number of each.
* AuditVerification. A stream that was cut has to grow back past the length that
  was recorded, which takes a writer before, a checkpoint and a writer after.
* Approvals. An approval's life takes three requests (park, resolve, redeem); the
  fourth is a second of any of them, which is what it takes for two redemptions,
  two verdicts or two parkings to overlap. Clock values 0 and 1 with a TTL of 1
  have a ticket expire before, between and after the steps of the others. Three
  requests and one edit have the policy or the capabilities change before,
  between and after the steps of one life; the initial policies are
  arbitrary. `EditTells`, an action constraint, leaves out the edits that no request
  can tell: policies are read by `Evaluate` alone, so that an edit before the first
  request is another initial policy and one after the last is never read;
  capabilities are read by `Guard` alone, so that an edit of them can wait until a
  request about that question is there, and is felt only if it takes away what
  an effect of that question needs. With one edit nothing else is left out.
* ApprovalsEnd. Locks are taken in opposite orders in two ways. A request that
  parks takes the caller's stream and then the principal's: two requests about
  two questions, under policies that park both (`Two`). And a redemption takes a stream and
  then the ticket's row, a resolution the row and then a stream: this takes a
  ticket that is parked and granted, its redeemer, and a second reviewer who read
  it while it was pending, which is four requests. From every start four are too
  many for a liveness property; so that the run begins where one has parked and
  two reviewers have read (`InReview`), a state that is reachable. From there both
  reviewers may resolve, in any order, with any verdict of the second and through
  any stream, beside a request that redeems, is denied or parks. The deadlock of
  row and stream does occur, and its detector ends it.
* Policies. One process has a load overlap a write, the other has only its
  TTL; two writes make an engine two versions old; the clock runs past two TTLs.
  Of the requests, two edit from the same version and a third deletes or
  recreates between them; a circle of waits takes two requests, and the third
  is the one that revokes the key the others have still to write back.
* Catalog. Two scans race while a bystander touches the same rows by hand, or
  while a resolution reads between any two statements of theirs; or one scan, a
  bystander and a resolution do. The bystander may delete the asset or the
  pattern. The seeded rows have each source, one of them is as the discovery would
  write it, and the schema's row is there to be inherited. All four at once take
  ten times as many states and show no bug of the mutants that three do not;
  the theorems are about any number of calls.
* Payloads. Answers of 7 hold two whole values next to each other, or one
  at any distance from the released end; the window is the least that suffices
  (`SecretLen - 1`), so one character less in the code would show. The payloads
  have matches that overlap partly and wholly, within and across detectors, two
  pointers that differ by the escaping alone, and a string deeper than the
  limit. Two rotations of which one generation is kept leave a token that is no
  longer readable. The documents put every operator on every kind of operand, on
  names, places in and out of range, places that are none, and attributes; and
  every tree of two levels over four leaves under `all`, `any` and `not`, with
  leaves that raise before and behind leaves that settle the outcome. Floats have a
  significand of two bits and end at 8, so that 5 and 4 are equal as floats and 9
  overflows: the same happens from 2^53 and at 2^1024.
* ChatProxy. The seven policies have two of every kind of obligation whose
  combination is at stake (route requirements that overlap without being equal,
  token caps, purposes), a deny, a parking rule, and a redaction that needs a
  tokenisation key which is not there. Of the three models one satisfies
  both route requirements, one only either of them, and one, which callers may
  ask for, has no backend.
  `ScanLimit` is 2 pieces and one prompt has 3. One edit changes policies
  between the two decisions. Prompts include an empty message, a message in the
  blocks form and one with a blank line.
* McpProxy. Tools whose names and annotations contradict each other, in each
  direction, one whose override contradicts its hints, one whose override is no
  verb and hides them, and one without a name; replies with empty blocks, other
  blocks, several text blocks, an error, a notice before the reply, and nothing
  at all.
* Client. Two calls share a question, the third asks another one and so evicts
  its answer; or two wait for one approval and redeem it together; or two wait
  for an approval each while the policies change. One retry is what it takes to
  lose an answer and ask again while the first request is still served.

Symmetry is used for interchangeable requests, questions, writers and calls, in runs
without liveness properties only.

Fairness. `WF(Step)` per request: an event loop keeps running a handler whose
next statement can be executed, and Postgres hands a lock that is free to a
waiter. `WF(DeadlockDetected)`: Postgres looks for cycles after
`deadlock_timeout`. Nothing obliges a request to arrive, a policy to be edited
or a transaction to fail. Weak fairness is enough because a lock, once held by
somebody, is given up at the end of a transaction, and no instance has enough
requests to overtake a waiter for ever; in Postgres waiters queue.

### What the properties say

`OneTicketPerQuestion` holds only where callers share one audit stream: the
advisory lock that `Record` takes is what serialises looking for an open ticket
and inserting one. With callers on two streams (`Streams <- TwoStreams`) two
tickets for one question appear, although `_park_for_approval` says a second
worker "must not create a second approval each time".

`UpgradesAreSpent`, part of `RedemptionIsBacked`, is ADR 0019: whoever is told
"allow" because of an approval has spent it on a decision on record. The converse
fails: a redeemed decision that a guard turns into a denial (`CannotDischarge`)
still spends its approval. Nor does it say that an approval is spent once; that is
`SingleUse`, and false.

`CheckpointsHold` says a checkpoint that was read without a lock never reports
damage that did not happen. It does not say that a later checkpoint vouches for
more than an earlier one: two that overlap may be sealed in the opposite order
of their reads, and `verify_all` looks at the last one only. `NoFalseAlarm` says
the same of the audit, which reads in several statements. `VouchedIsIntact` is
its converse, and as much of it as is true: what the last checkpoint recorded is
there unchanged, and beyond that only the end of a stream can be missing. Damage
happens while no transaction is open and before the audit starts.

`OwnWritesVisible` has a condition, that no load ran in the process between a
write's invalidation and its commit. Without it the property fails: such a load
puts the old policies back for a whole TTL. `StalenessBounded` has none.

`RecordsAgree` has to say "of the stored policy": deleting a policy deletes its
versions, and a key that is created again starts at version 1. Edits from the
command line are excepted from the trail, since `cpctl policy sync` seals
nothing. Only for `decide` does an answer mean that something is stored: the
other handlers answer before `get_db` commits.

`OnlyIdleCallsDeadlock` names the one way in which administration can deadlock. A
request marks its key as used at its first flush; one that has nothing of its own
to flush does so after it has taken the audit stream's lock, everybody else
before.

`LastScanStands` says less of a scan that met another one of the same asset:
labels of both may then be there. And it excepts, as `RunsAreWhole` does, a row
that the call found just as it would have written it: such a row is neither
written nor locked, so that another call may take it before this one commits.
`ResolvedIsComplete` is about labels that were there all the while; a resolution
that overlaps a write may or may not have it.
`_merge_labels` takes the highest confidence of the best source, where a comment
says an exact registration overwrites an inherited label.

`LeftoversExplained` allows three reasons for a value to stand: the answer
reports the payload as truncated, the rule spares part of it, or a stronger match
overlaps it. The last is wide: the stronger match may be below the request's
floor, which is applied after the arbitration (`pdp.py:316`), or have no rule.
`TokensReadBack` is about `detokenize`; `verify` says no of a token minted under a
retired key that `detokenize` still reads.

`AnswersAsWritten` compares with `Means`, which has no trace, no normal form and no
short cuts. `MoreLabelsStillMatch` is about trees without `not` and without the
negative operators, which pass on a missing field. It allows counts only where
every label is kept: a label that becomes more specific may become one that is
there already, and `count_gte` then counts one label less. And its selectors go
by name: the labels of a request are sorted, so that `findings.0` reads another
label once there are more, and a rule on it can indeed be escaped by carrying
more. `AnswersAsWritten` allows evaluation to raise, and says where it can
(`Trips`): at a place like `--1`, which passes for an integer and is none, and at a
comparison with a number beyond every float. Documents of both kinds are accepted
and do raise.

`SentAsDecided` asks that the model chosen meets each route obligation, not that
the router ran; `Serves` does not mention the merge. `RedactedAsDecided`
speaks of string messages: `_messages_text` reads the text
blocks of the multimodal form, and `_replace_messages_text` puts nothing back into
them. Such a message is among the prompts. The caps of
`DeliveredAsDecided` are on the model's text: the notice of a cut and the marking
come on top of `max_bytes`.

`NothingSensitiveDelivered` is about what has arrived: whatever arrives later,
what the client was sent stays a beginning of the redaction of all of it. A
value whose middle was lost between two reads is not recognised by anybody.
`StreamEndsAsReported` speaks of the window mode, and of text: no duty other than
redaction is applied to a streamed answer (a known defect noted at `main.py:472`).

`OutcomesAreTrue` calls a call refused whose server answered with an error, also
where the tool may have run; what it never says is that a tool ran that did not.
`OfferedAsDeclared` is about listings only: a call is decided on the tool's name,
since `_governed_call` passes no declared action. What is declared is
`annotations["action"]` before any hint (`mcp_gateway.py:121`), which is not part of
the protocol: a tool that says `action: read` and `destructiveHint: true` is listed
wherever a read is allowed. A word there that is none of the four verbs hides the
hints as well, and the name is read. The property says all three.

`AllowsAreGivenAndFresh` bounds the age of an allow by the cache's TTL and one
HTTP timeout. The cache's key has neither the principal's nor the resource's
attributes, so that "the same question" is what `_cache_key` takes for it.
`HonestReportsStand` is about reports that needed no correction, by callers that
agree: a cached decision has one id for all its callers, so that two whose
outcomes differ collide; and a report that was corrected to `partial` is stored
under an outcome it did not have, and refused as a conflict when sent again.
`OneRedemptionEach` is what the SDK owes in spite of the double spend that
ApprovalsSingleUse shows: each call that holds what a redemption gave has a
recorded redemption to itself, and a second redemption of one approval is
recorded only where the server had found it good for two requests at one time, be
they two calls or one call's request and its repetition. `RecordMatchesTrail` says
of a row that several overlapping reports have written: outcome and reporter are
one report's, what that report named stands as it named it, and no duty is shown
that no sealed report names. That such a row is one of the reports is false: an
UPDATE leaves the columns its transaction sees unchanged.

## The proofs

The proofs are for constants of any size. Every property of a passing run is a
theorem but two, `EveryTransactionEnds` and `EveryRequestEnds`, which are liveness
under fairness and out of the proof system's reach.

### The audit log

`AuditProofs`, about AuditLog, for any set of transactions and
actors, any number of partitions (`PartitionsAssumption`) and any assignment of
actors to them (`StreamOfAssumption`):

* `TypeCorrect`: `TypeOK`;
* `StreamsVerify`: `EveryStreamVerifies`;
* `KeysAreUnique`: `PrimaryKeyNeverRejects`;
* `CheckpointsAlwaysHold`: `CheckpointsHold`;
* `LedgerImplemented`: `Spec => Ledger!Spec`, the refinement.

None of these is inductive as it stands. The invariant is built in four layers,
each proved from the ones below it:

1. `Shape`: the variables are functions of the right kind and a plan is not empty
   while there is something to append.
2. `Locking` (`AlwaysLocking`): locks exclude one another (`Exclusion`), a
   transaction holds the lock of every stream it has flushed rows to
   (`FlushedUnderLock`) and of the stream it is appending to (`AppendUnderLock`),
   and one that has not appended yet holds none (`NoLockYet`).
3. `Linked`: committed rows followed by the flushed rows of any one transaction
   are a chain (`Chained`), and the head a transaction is about to seal against
   is still the head (`FreshHead`). Both rest on 2: only the holder of the lock
   can have flushed rows of a stream, so nobody else's commit can come between
   a head that was read and the row that links to it.
4. `Faithful`: the next number is positive (`Countable`), rows name their stream
   and writer (`Owned`), and every head in a checkpoint, read, flushed or
   committed, is that of a row of the stream it names (`Vouched`).

What a step may do to one stream is said once, by `StreamStep`: what is committed
stays or becomes what one transaction saw, and what a transaction sees stays,
becomes what is committed or gets one sealed row more. It does not need the
chains, so that it can be used of a damaged table too.

`EveryStreamVerifies` is `Chained`; unique keys follow from the chains and
`FlushedUnderLock`; `CheckpointsHold` from `Vouched` and from chains only growing;
the refinement maps `Commit` to the ledger's transaction, since `Chained` says
the flushed rows continue the chains, and every other step to a stutter.

`AuditProofs`, about AuditVerification, for the same constants and any damage that is
a loss, an alteration or a move:

* `AlwaysTraced`: `TableInv`, below;
* `SlicesAlwaysAgree`: `SlicesAgree`;
* `NeverAFalseAlarm`: `NoFalseAlarm`;
* `VouchedStaysIntact`: `VouchedIsIntact`.

A damaged table is no chain, so that `Linked` and `Faithful` hold only while there
is no damage (`WholeWhileUndamaged`). What holds always is `StreamsTraced`: numbers
ascend, and each row is either sealed where it stands, onto the row before it, by
a transaction that had written nothing before the damage (`SealedThere`), or
carries a digest that was there before (`Survivor`). `WasWhole` says that the table
before the damage was chains with checkpoints that hold; `WritersWereDone` that
who writes now had not written then. So a row that matches its own digest is one
of the table before, with its number, unless it was sealed since; a stream that
passes has such rows only, counts from 1 (`Counted`), and a row that was there
fixes all those before it, link by link (`RowVouches`). `SlicesSayTheSame` needs
the ascending numbers and, for the first row of a stream, `StartsAtOne`: what
links to the genesis record has number 1. `AuditInv` carries this along an audit:
a stream it has passed stays `Sound` while it grows, what it has observed is still
there (`ObservedIsThere`), and while there is no damage nothing has failed
(`NothingWrongYet`). The digest is injective here by its definition in AuditLedger.

### Approvals and the client

`ApprovalsProofs`, for any requests of callers and reviewers, questions, streams
and edits, any TTL (`TimeAssumption`) and any stream for a question's principal
(`StreamAssumption`):

* `ApprovalsTypeCorrect`: `TypeOK`;
* `RedemptionsAreBacked`: `RedemptionIsBacked`, all three parts;
* `SpentForGood`: `NeverUnspent`.

`TypeOK` is not inductive by itself: a request appends to a stream and parks a
question that it must have. The invariant is `Sound`. `StepsInOrder` says which
step a flushed write belongs to and that only `Validate` hands out an approval;
`RequestsAreWhole` that a request has the ticket, question and stream its steps
use; `Validated` that whatever a request has validated has been granted on the
trail, is about its question and was in time, and is resolved still: a second
reviewer may have turned it into a denied one, which is why "granted" here is
the sealed event and not the status; `Settled` that a ticket is there only once
its parking has committed, so that no commit can overwrite one by inserting it;
`SpendsCommitted` that a sealed spend is the one its request committed. A step
that is not a commit changes no table (the lemmas named `Quiet...`), a commit is
described column by column by `CommitWrites`, and the lemmas named `Commit...`
take one part each. That an approval is spent once does not follow, and is false:
the run ApprovalsSingleUse shows two spends.

* `QueueIsDistinct`: `OneTicketPerQuestion`, for requests that all seal into one
  stream, as they do with the default `CP_AUDIT_PARTITIONS` of 1 and in the run.

Parking looks for an open ticket and inserts one without a lock of its own; the
stream's lock, which recording the decision took before and keeps to the end, is
what makes that atomic. `Covered` says that of every request between the two,
`Lone` that while one of them is about to insert there is no open ticket. Where
the requests that ask one question seal into different streams, nothing excludes
two tickets, and none is claimed.

`ClientProofs`, for any calls (finitely many, `ClientAssumption`), questions,
policies, times and numbers of retries, and any starts (`StartsAssumption`: nobody
starts with an approval):

* `ClientTypeCorrect`: the types of Client and of the Outcomes it extends;
* `RecordAlwaysMatches`: `RecordMatchesTrail`;
* `HonestReportsAlwaysStand`: `HonestReportsStand`;
* `AllowsAlwaysGivenAndFresh`: `AllowsAreGivenAndFresh`;
* `AlwaysOneRedemptionEach`: `OneRedemptionEach`.

`Story` is the first half: what is flushed is the corrected report of its call,
each column that is committed is that of a call that has sealed it (`Recorded`,
`Backed`, `DetailBacked`), the trail speaks of reports that were made, and a
conflict has a reason. `Believed` adds who reports through `enforce`. `Held` is the
other half: what a call holds, waits for or finds in the cache was decided for
its question, and its age is bounded by the time left to the entry and to the
request. For `OneRedemptionEach`, the calls that hold a redemption of an approval
or have its answer on the wire are its `Bearers`, and are never more than the
redemptions recorded (`Tallied`): only `Spend` adds a bearer, and it records one.
`Single` says that an approval that was never found good for two at a time is
being redeemed by at most one, and by nobody once it is spent.

### Policies and keys

`PoliciesProofs`, for any processes, decisions and writes, any TTL and any
bound on the duration of a load (`TimeAssumption`):

* `CacheTypeCorrect`: `TypeOK`;
* `EditsSurface`: `StalenessBounded`;
* `WritersSeeTheirWrites`: `OwnWritesVisible`.

`StalenessBounded` says nothing of a load on its way, so that `Aging` adds
`LoadsAreRecent` (a loaded set that is no longer the newest was superseded after
the load began) and `EnginesExpire` (an engine's deadline is at most a TTL and a
load after its successor's commit). `WritesTakeEffect` is what a write that
no load overlapped knows of its process: no engine and no load until it commits,
and nothing older than itself afterwards.

`PoliciesProofs`, about Administration, for any requests, texts, scopes and calls
of the right types (`CallsAssumption`) and any finite set of keys
(`KeysAssumption`; `NOROW` is no row):

* `AdministrationTypeCorrect`: `AdminTypeOK`;
* `RecordsAlwaysAgree`: `RecordsAgree`;
* `RevocationsStand`: `RevocationStands`;
* `DeadlocksAreIdle`: `OnlyIdleCallsDeadlock`.

The invariant is `Ordered`. A pending write holds the policy's row lock
(`LocksExclude`), so that what it read cannot change before it commits; `WritesFit`
says what the commit will find, `NothingNewer` that nobody has seen, and nothing
on the trail is, newer than what is stored, and `Linear` states the history
without counting: every number up to the row's has its one version, the newest
is the row, and a switch keeps the text before it. `RecordsAgree` counts them;
the step from one to the other is a bijection. For deadlocks `Climbs` gives the
order in which locks are taken: the rows of keys by number, the policy's row, the
stream. Only a request that seals before it has flushed goes against it, and it
has changed nothing; in a circle of waiting requests, finite keys give one that
waits for the least lock, and it is such a request.

`PoliciesProofs`, about Matching, for any documents that are trees, any requests and
any labels, of which a request has finitely many (`DocumentsAssumption`,
`RequestsAssumption`, `LabelsAssumption`), any reading of places by `int`
(`SegmentsAssumption`), any attributes, and any `float` that gives integers
integers (`FloatsAssumption`):

* `MatchIsAsStored`: what the engine has is what was stored, which is the canonical
  form of the document;
* `MatchesAsWritten`: `AnswersAsWritten`;
* `MatchesMoreLabels`: `MoreLabelsStillMatch`.

Since children come after their parents, what holds of a node if it holds of those
behind it holds of the tree (`FromTheEnd`), and a function that takes each
node's value from those behind it exists (`FromBehind`); so `_eval_node` has
outcomes (`OutcomesOf`), each of them "pass", "fail" or "error". With a trace or
without, a node that passes does so for the same reason, one that fails likewise,
and one that raises has something in it that raises (`Passes`, `Fails`, `Errs`,
`NodeSettles`); a trace only makes it raise more often. A test that
`validate_condition` accepts raises for a selector that does or for a number
without a float (`TestSettles`), and a selector for a place (`RaisesAtPlace`), which
is what `Trips` names (`StumblesTrips`, `ErrorTrips`). A condition says what its
canonical form says (`SaysRefined`), a canonical node is its own canonical form
(`NodeCanonical`), and so the normaliser changes nothing that it has returned
(`Normalised`), and nothing of what a document means wherever the outcome is not an
error (`SettlesAsMeant`, `MeansAsWritten`). For labels: a selector without places
reads what it did, or more labels, or one below each (`ReadsSharpened`), the
tests on labels are monotone in both (`TestsMonotone`), and no node of such a
tree raises (`NodeMonotone`).

The proof changed the property: it claimed that counts cannot go down when a label
becomes more specific, which is false if a request carries both `pii` and
`pii.email`. No request of the run did; now some do.

### The catalog

`CatalogProofs`, for any calls, urns, patterns and labels, any rows at the start
and any lists of discovered assets (`CatalogAssumption`: urns, labels and
confidences are finite sets, which iterating over them needs; confidences are
positive; the rows at the start are of registered assets, one to a key):

* `CatalogTypeCorrect`: `TypeOK`;
* `ScansStand`: `LastScanStands`;
* `ResolutionsAreComplete`: `ResolvedIsComplete`;
* `HumansAreHeard`: `HumanAssertionsStand`;
* `RunsAreNeverHalved`: `RunsAreWhole`.

What holds of the tables between two commits depends on what each call is still
going to do, so that most of the invariant `Inv` is about the statements left.
`Plan` says what they are: the statements of a scan form a block (`Blocks`: the old
rows go, the new ones come label by label, a touch of the asset ends it), nothing
is written of an asset that was not looked up (`Looks`), and what a SELECT saw is
what the next statement is about (`SeenOk`). `Pending` says that the uncommitted
rows will fit the tables: it needs `Apart`, that two open calls have locked
different rows, and that none has written under an asset the other deletes.
`Accounted` traces each scan row written or deleted to a scan that is, or will be,
recorded, and each manual one deleted to the call that is about it, which is all
`HumanAssertionsStand` needs. `Scanned` follows a scan: within a block the foreign
scan rows are gone and each label found is on the asset or still to be put; after
the block all are. `Whole` says the same of the assets a discovery lists, and
`Complete` of the rows a resolution has still to read. Together with the types,
`TablesConsistent` and `LastScanOk` (the committed scans stand) these are inductive.

A step is one of three kinds, and the proof is cut accordingly: a call begins; a
call does something of its own and changes no table (`SameTables`), so that for
the others only `Apart` is at stake; or it commits, and for the others the tables
change. That a scan's block is well formed is an induction over the labels
found, by the least counterexample (`LeastOf`).

The proof changed the model. `RunsAreWhole` and `LastLabelsStand`, as they were
stated first, could not be proved, because a row that is as it should be is not
written by the code, and so not locked: a deletion of the label can commit in
between. The model had no such rows; now it has (`LeaveRow`), the properties name
the exception, and the run has the case.

### Requests and their payloads

`PayloadProofs`, about ChatProxy, for any policies, models, prompts, answers, backends and
limits that satisfy the assumptions of the modules (a deny carries no obligation,
keys are unique, limits and ranks are natural numbers, an answer is a sequence of
sequences):

* `PromptsGoOutAsDecided`: `SentAsDecided`;
* `AnswersComeBackAsDecided`: `DeliveredAsDecided`;
* `RecordsAreTrue`: `EnforcedIsTrue`, which no run checks;
* `ApprovedRequestsKeepTheirDuties`: `RedeemingShedsNothing`, under each algorithm;
* `StricterOnly`: `MoreRulesNeverLoosen`, under deny overrides, the algorithm of
  every live decision (`PolicyStore.build_engine`). Under the other two it is
  false, as it should be.

The first two rest on `Sound`: the duties of a decision are duties of the policies
in force when it was taken, and if there are routes among them, `resolved` names
a model that serves each. `DecisionsAreSound` proves it of `decide`, from
`TargetServes` about the router (a merged requirement implies every requirement
that was merged). `SentAsDecided` alone is not inductive, since it says nothing of
a decision that has been taken and not yet acted on; `RequestInv` adds `Sound` and
the effect at `enforce`, and `AnswerInv` the same for the answer, with the shape
of the completion, which the lemmas about caps need (`ShortenedIsShort`,
`AppliedDuties`). `StrictestWins` says what the `CHOOSE` of `CombinedEffect` chooses.

* `AlwaysRedactedAsDecided`: `RedactedAsDecided`.

Its invariant `TextInv` says which text a decision about to be enforced was asked
about. `AllowedTextIsClean` (in `EnforcementProofs`) says that what an allow
returns has nothing left that its redactions cover; the rest is what putting the
texts of messages end to end and taking them apart again does. The operators that
do so are recursive functions over sequences. The library's theorem of induction
takes an operator, which the provers cannot instantiate; induction goes by the
least counterexample instead (`LeastOf`, `ReachesAll`, from the theorem on well
founded sets), over the set of the lengths for which the claim holds.

`PayloadProofs`, about StreamGovernor, for any answer, sizes of events, window,
interval of governing and length of a value (`ModesAssumption`,
`SizeAssumption`):

* `NothingLeavesEarly`: `NothingSensitiveDelivered`, for a window of at least
  `SecretLen - 1`: `streaming.py:10` asks that "the longest thing worth catching is
  shorter than the window", which is more than is needed;
* `StreamsEndAsReported`: `StreamEndsAsReported`, for any window.

The first is about `Redact`, a recursive function over the text. Which part of its
value cannot change any more when text arrives is settled character by
character: one that is no `x`, lies in a run of them that has ended, or in a
whole value is rendered the same for good (`Settled`). So only an end shorter than
a value can still be read otherwise (`CutExists`), and what lies a window behind the
governed end begins the redaction of every continuation (`Stable`). `StreamInv` adds
to the types that the client has been sent what was emitted (`Together`), that
this stays a beginning of the redaction of everything seen (`Steady`), that a
refusal has been told (`Told`), that at the end all is out (`Flushed`), and in
buffer mode that nothing leaves before the end (`AtOnce`).

`PayloadProofs`, about Redaction, for payloads of any leaves and any detectors,
rules, floors, limits and rotations:

* `OnlyFindingsAreTouched`: `OnlyFindingsTouched`;
* `NothingIsLeftUnexplained`: `LeftoversExplained`;
* `TokensStayReadable`: `TokensReadBack`.

Assumed is that the leaves of one payload have different paths, that there are
finitely many matches, not empty and inside their text (`PayloadsAssumption`), that
severities and base confidences are natural numbers (`DetectorsAssumption`), and the
types of obligations and limits (`ObligationsAssumption`). That the matches of one
pattern do not overlap is `finditer`, and part of the model (`Possible`).

* Loops. Arbitration and editing fold over finite sets. That a fold over a set
  has a value for every part of it (`FoldExists`) is an induction over subsets,
  which the least counterexample of their sizes gives (`AllSubsets`).
* Arbitration. Different ranks are ordered (`AboveIsTotal`), and two matches with
  one rank are of one detector and do not overlap (`MatchesFit`); so a match that
  was dropped yields to one that stands above it (`DroppedYield`), and what is
  kept does not overlap (`FindingsDisjoint`).
* Editing. The loop goes from the right; `Edited` says of the buffer that it is the
  original up to the leftmost finding replaced so far, and holds in order exactly
  what is to be kept; an edit touches nothing to its left (`Spliced`). For tokens,
  `Readable` gives each place of the buffer the place of the original it stands
  for, so that every piece reads as the stretch between two of them.
* Pointers. A finding is filed under an escaped pointer and taken up again by it;
  that two leaves never share one is `PointersTellApart`. What characters are
  escaped to can be told apart in a text (`EscapeTellsApart`, `Decodable`), as can
  path segments behind their separators, and texts put together of such words
  can be taken apart in one way only (`SameWords`).

`PayloadInv` says of each leaf that has been walked that its matches are those of the
detectors, arbitrated, or the answer says that it was truncated, that nothing
is rewritten before all leaves are walked, and that what is rewritten is well
edited (`WellEdited`).

### Tool calls

`McpProxyProofs`, for any policies, requests, results, listings and names of the
right types (`RequestsAssumption`, `AnswersAssumption`) whose redactions cover
labels (`RulesAssumption`):

* `CallsAlwaysGoAsDecided`: `CallsGoAsDecided`;
* `OutcomesAlwaysTrue`: `OutcomesAreTrue`;
* `ResultsAlwaysComeBackAsDecided`: `ResultsComeBackAsDecided`;
* `AlwaysOfferedAsDeclared`: `OfferedAsDeclared`.

`Stage` is the inductive invariant: for each stage of a message's way, what has
been sent and told, and that a decision about to be enforced is one that some
policies gave about this text. `RewritingReadsBack` says that the blocks that
`_rewrite_content` writes read as the text it was given, and that other blocks
keep their places; `PicksStand` and `ListingDelivered`, that a listing is filtered
in its order, whatever becomes of the policies on the way.

The assumptions are type assumptions about what the code takes as input, except
these: keys and calls are finite sets (a lock order and a count need it), labels
are not the marks of text that has none or is masked (`LabelsAssumption`), and a
redaction covers labels. Beyond types are also the window of `NothingLeavesEarly`,
the paths of `PayloadsAssumption`, which are those of a JSON document, and that the
nodes of a document form a tree (`DocumentsAssumption`). TLC
evaluates the assumptions on the constants of the runs.

Model-checked only: `EveryTransactionEnds` and `EveryRequestEnds`, which are
liveness under fairness.

## Where the code and its documents disagree

One disagreement is kept as a run that TLC must find violated, ApprovalsSingleUse:
`pdp.py:740-793` reads the ticket and marks it redeemed later, without a row lock
and without a condition in the UPDATE; two requests that validate before either
commits both spend it. The stream's advisory lock delays the second and does not
make it look again. `models/decision.py:113` says "It is single-use".

Seen while modelling, and not kept as runs:

* Approvals. Two reviewers who have both read a ticket as pending both resolve it,
  and the second verdict stands (`approvals.py:118-139`; a test expects 409 of the
  second when they come one after the other). An approval is spent on a decision
  that the guards turned into a denial (`pdp.py:237-266`). The status `expired` is
  flushed and then rolled back by the exception that reports it
  (`approvals.py:131-133`), so that nobody ever reads it and a caller that waits
  for an expired ticket waits for its own timeout.
* Outcomes. A corrected report is refused when it is sent again
  (`decisions.py:338`, against 325: "a retrying caller is not punished"). "An outcome
  is written once" (325), but two reports in flight both write one, and the UPDATE
  (`decisions.py:419-425`) names the columns that differ from what its transaction
  loaded: of a report of enforced, with every duty discharged, and one of refused,
  with none, the row keeps the second's outcome and the first's duties, which
  `models/decision.py:84` has as what the reporter "says it carried out". A second
  report with the same outcome and other discharged duties is dropped as a repeat.
* Answers before commits. All handlers but `decide` answer before `get_db` commits
  (`deps.py:33`), although `decisions.py` says "An identifier handed to a caller has
  to refer to something that exists".
* Administration. `PolicyVersion` calls itself a snapshot of every version
  (`models/policy.py:49`), and goes with its policy. Of two edits that read the
  same version the second fails on the unique constraint, with a 500 where a 409
  is meant. Two deletes both answer 204 and are both sealed; a second concurrent
  revocation overwrites `revoked_at`. `cpctl policy sync` seals no record
  (`policies.py:3`: "Every mutation writes an audit record") and leaves the
  servers' caches as they are. More than 1000 enabled policies are not loaded
  (`store.py:151`), and nothing says so.
* Reverse proxy. `_replace_messages_text` splits the governed conversation on every
  blank line, those inside the caller's messages included, and the texts shift
  (`main.py:159`, against 152: "preserving the original message structure").
  `_stream_buffered` drops what `feed` returns (`main.py:547`, against ADR 0012:
  "collects the whole answer, governs it, and emits once"), and posts to the
  default upstream whatever model was routed to (`main.py:538`). `govern_stream`
  splits each read into lines and keeps no remainder (`streaming.py:240-244`,
  against ADR 0012: "Latency, not correctness, is what the window costs"). A
  streamed answer is reported with every duty discharged. `max_rows` is claimed
  and applied by nobody (`obligations.py:49`). A request whose provider failed
  after it had the prompt is reported as refused (`client.py:564`).
* MCP proxy. `_as_wire` drops the other messages of an event stream when it
  rewrites the reply; a server's own request with the same id is taken for the
  reply; batches and calls without an id pass ungoverned; a decision about the
  result that fails surfaces as an HTTP 500 although the tool has run.
* SDK. `_cache_key` promises "A key that distinguishes questions the policy engine
  distinguishes" (`client.py:240`) and leaves out attributes and the resource's
  kind. A decision that is asked for again after its answer was lost is refused
  its approval, which the first one spent. Denials by 401 and 403 are cached.
* Catalog. A call that finds a row as it would write it neither writes nor locks
  it, so that an `unlabel` that commits before the call does takes away what the
  call then counts as applied: a label that a discovery imports again, or one
  that another scan put between this scan's delete and its insert. A comment
  (`service.py:337`) says an exact registration overwrites an inherited label.
  Discovery says "One asset's failure is not the run's failure", which a failed
  flush is (`discovery.py:271`). A discovery overwrites attributes, owner and
  description that an operator has set.
* Redaction. The floor is applied after the arbitration (`pdp.py:316`), where
  `scanner.py:174` has findings below it "discarded before overlap resolution".
  `partial` keeps a value that is no longer than `keep_last` whole, and counts it as
  redacted. A value of more than 4096 bytes under `tokenize` fails the request.
* Matching. "Every operator here is total" (`operators.py:3`), but `resolve_path`
  (306-308) takes a segment like `--1` for an integer, which `int` refuses, and
  `_numeric` (76) takes integers that `float` refuses. Neither is found when the policy
  is written, and both are other exceptions than the `PolicyError` the engine sets
  aside with its policy (`engine.py:295`): the request falls to the fail-closed path.
  `any: []` matches everything. Attributes shadow the fields `id`, `type` and
  `classifications` of principals and resources (`model.py:497-506`). A policy that
  raises is skipped and listed among the errors (`engine.py:295`).

## What is left out

* Postgres is modelled as its documentation and the code's use of it have it:
  READ COMMITTED, row locks, transaction-scoped advisory locks, deadlock
  detection. SQLite, which the tests use, has no advisory locks and one writer.
* Only Administration has the row of the request's API key, which serialises
  requests with one key at their first flush. The other models are of requests
  with different keys, or with authentication off.
* A client that disconnects in the middle of a stream; a crash of a process
  between the last frame of a stream and its report.
* In StreamGovernor the policy is one redaction that treats equal text equally;
  events without text, usage totals and `finish_reason`, are not modelled.
* In Redaction the patterns are given by where they may match; field names are
  not scanned by the code, nor here. In Matching, what is in `context`, fractions,
  attributes of a principal or a resource that hold objects or nested lists, and
  which policies a request targets.
* In Catalog, attributes and owners, and labels that the API attaches under another
  source than `manual`; and a source that yields several samples for one asset: the
  loop at `discovery.py:387-392` applies a scan for each, every one deleting what the
  one before found, and the shipped adapters yield one, which is what `Sample`
  has. In AuditVerification, listing and paging.
* Listings, exports, statistics and metrics: they read.
* Regular expressions, cryptography, YAML, HTML, DDL, and the user interface; the
  TypeScript SDK, which follows the same contract as the Python one. PROJECT.json
  gives the reason for each component.

## The plan

The order was: the audit log, which everything else appends to; approvals, where
the concurrency is; the proxies and the client, where decisions take effect; then
the tables that decisions are made from (policies, keys, catalog), and what is
done to payloads. All of these are written, and what the runs check of them is
proved where it can be. What is left, most important first:

1. The streamed handler `_stream` with its obligations, composed with
   StreamGovernor.
2. The labels a catalog resolves, as the labels a decision is about: Catalog
   composed with DecisionPoint.
