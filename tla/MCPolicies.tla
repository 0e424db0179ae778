------------------------------ MODULE MCPolicies ------------------------------
(***************************************************************************)
(* PolicyCache and Administration for TLC.  What the two models have in    *)
(* common is the order of a write's steps, so that TLC explores them side  *)
(* by side: a behaviour is one of the cache or one of the requests.        *)
(***************************************************************************)
EXTENDS PolicyCache, Administration, TLC

CONSTANTS p1, p2, r1, r2, w1, w2, q1, q2, q3

TwoProcs      == {p1, p2}
TwoReaders    == {r1, r2}
TwoWriters    == {w1, w2}
ThreeRequests == {q1, q2, q3}

Call(by, op, text, on, target) ==
  [by |-> by, op |-> op, text |-> text, on |-> on, target |-> target]

(* Key 1 is an administrator's, key 2 a gateway's, issued on the way. *)
AdminCalls ==
  {Call(1, op, "b", TRUE, 0) : op \in {"create", "update", "delete", "sync"}}
    \union {Call(1, "set_enabled", NOROW, on, 0) : on \in BOOLEAN}
    \union {Call(1, "revoke", NOROW, TRUE, k) : k \in {1, 2}}
    \union {Call(1, "issue", NOROW, TRUE, 2)}

GatewayCalls ==
  {Call(2, "decide", p, TRUE, 0) : p \in {"own", "other"}}
    \union {Call(2, "update", "b", TRUE, 0), Call(2, "issue", NOROW, TRUE, 2)}

CommandLine ==
  {Call(0, "revoke", NOROW, TRUE, 1)}
    \union {Call(0, "sync", text, TRUE, 0) : text \in {"b", NOROW}}

SomeCalls  == AdminCalls \union GatewayCalls \union CommandLine
Scopes     == [k \in {1, 2} |-> IF k = 1 THEN {"admin"} ELSE {"decide", "policy:write"}]
Principals == [k \in {1, 2} |-> IF k = 1 THEN {} ELSE {"own"}]

Untouched == policy = NOROW /\ ~keys[1].expired /\ \A r \in Requests : at[r] = "idle"
CacheCold == now = 0 /\ \A r \in Readers, w \in Writers : rpc[r] = "idle" /\ wpc[w] = "idle"

SideBySide ==
  \/ Untouched /\ Next /\ UNCHANGED adminVars
  \/ CacheCold /\ AdminNext /\ UNCHANGED vars

PoliciesInit == Init /\ AdminInit

PoliciesSpec == PoliciesInit /\ [][SideBySide]_<<vars, adminVars>>

Interchangeable == Permutations(Writers) \union Permutations(Requests)
=============================================================================
