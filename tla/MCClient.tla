------------------------------ MODULE MCClient ------------------------------
(* Client for TLC: two questions and a cache with room for one answer;     *)
(* three calls that are allowed, or two that may have to wait for approval *)
(* while the policies change.                                              *)
EXTENDS Client, TLC

CONSTANTS c1, c2, c3

ThreeCalls == {c1, c2, c3}
TwoKeys    == {"export", "read"}

A(key, kind) == [key |-> key, kind |-> kind]
(* Either way round: SYMMETRY needs starts that a swap of the two keeps.   *)
Asked(first, second, third) ==
  {(c1 :> first) @@ (c2 :> second) @@ (c3 :> third),
   (c1 :> second) @@ (c2 :> first) @@ (c3 :> third)}
Answers(export, read) == [k \in TwoKeys |-> IF k = "export" THEN export ELSE read]
Open    == Answers("allow", "allow")
Parked  == Answers("require_approval", "allow")
Settled == Answers("require_approval", "deny")
Edited  == Answers("allow", "deny")

None   == A("export", "none")
Others == {A("export", "advise"), A("read", "act")}
SomeStarts ==
  [policy : {Open}, followed : {FALSE},
   ask : UNION {Asked(A("export", "act"), A("export", "act"), s) : s \in Others}]
  \union [policy : {Settled}, followed : {TRUE}, ask : Asked(A("export", "act"), A("export", "act"), None)]
  \union [policy : {Parked}, followed : {TRUE}, ask : Asked(A("export", "act"), A("read", "act"), None)]
  \union [policy : {Edited}, followed : {FALSE}, ask : Asked(A("export", "act"), A("export", "advise"), None)]
(* Two that wait for one approval are checked under a policy that stays.   *)
SomeEdits ==
  [p \in {Open, Parked, Settled, Edited} |->
     CASE p = Parked -> {Edited} [] p = Edited -> {Parked} [] OTHER -> {}]

Interchangeable == Permutations({c1, c2})
=============================================================================
