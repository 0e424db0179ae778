--------------------------- MODULE McpProxyProofs ---------------------------
(***************************************************************************)
(* Proofs about McpProxy: for every set of policies, requests, answers and *)
(* listings.  First that text put into the blocks of a result reads back,  *)
(* then what holds at each stage of a message's way, and from it the four  *)
(* properties of the module.                                               *)
(***************************************************************************)
EXTENDS McpProxy, EnforcementProofs

----------------------------------------------------------------------------
(* Text into blocks and back.                                              *)

Texts(blocks) == [i \in DOMAIN blocks |-> IF i \in TextBlocks(blocks) THEN blocks[i].text ELSE <<>>]

LEMMA TextsType ==
  ASSUME NEW blocks \in Seq(Block)
  PROVE  /\ Texts(blocks) \in Seq(Seq(Piece)) /\ Len(Texts(blocks)) = Len(blocks)
         /\ _content_text(blocks) = FlattenSeq(Texts(blocks))
         /\ _content_text(blocks) \in Seq(Piece)
<1>1. \A i \in 1 .. Len(blocks) : blocks[i].text \in Seq(Piece)
  <2> SUFFICES ASSUME NEW i \in 1 .. Len(blocks) PROVE blocks[i].text \in Seq(Piece)
    OBVIOUS
  <2>1. blocks[i] \in Block
    OBVIOUS
  <2> QED
    BY <2>1 DEF Block
<1>2. Texts(blocks) \in Seq(Seq(Piece)) /\ Len(Texts(blocks)) = Len(blocks)
  <2>1. DOMAIN blocks = 1 .. Len(blocks) /\ Len(blocks) \in Nat
    OBVIOUS
  <2>2. Texts(blocks) = [i \in 1 .. Len(blocks) |->
                           IF i \in TextBlocks(blocks) THEN blocks[i].text ELSE <<>>]
    BY <2>1 DEF Texts
  <2> QED
    BY <1>1, <2>1, <2>2
<1>3. _content_text(blocks) = FlattenSeq(Texts(blocks))
  BY DEF _content_text, Texts
<1> QED
  BY <1>2, <1>3, FlattenType

(* The lines that the blocks have place for, and those left over.          *)
LEMMA HeadAndTail ==
  ASSUME NEW lines \in Seq(Piece), NEW k \in Nat
  PROVE  LET tail == SubSeq(lines, k + 1, Len(lines))
         IN  /\ tail \in Seq(Piece)
             /\ tail = <<>> => Taken(lines, k) = lines
             /\ tail # <<>> => Taken(lines, k) \o tail = lines
<1> DEFINE n == Len(lines)
           tail == SubSeq(lines, k + 1, n)
<1>1. n \in Nat
  OBVIOUS
<1>2. CASE k < n
  <2> DEFINE head == SubSeq(lines, 1, k)
  <2>1. head \in Seq(Piece) /\ Len(head) = k /\ \A i \in 1 .. k : head[i] = lines[i]
    BY <1>2
  <2>2. Taken(lines, k) = head
    BY <1>2 DEF Taken
  <2>3. tail \in Seq(Piece) /\ Len(tail) = n - k /\ \A i \in 1 .. n - k : tail[i] = lines[k + i]
    BY <1>2
  <2> HIDE DEF head, tail
  <2>4. tail # <<>>
    <3>1. n - k # 0
      <4> HIDE DEF n
      <4> QED
        BY <1>1, <1>2
    <3> QED
      BY <2>3, <3>1
  <2>5. head \o tail = lines
    <3>1. head \o tail \in Seq(Piece) /\ Len(head \o tail) = n
      <4>1. head \o tail \in Seq(Piece) /\ Len(head \o tail) = Len(head) + Len(tail)
        BY <2>1, <2>3, Appended
      <4>2. k + (n - k) = n
        <5> HIDE DEF n
        <5> QED
          BY <1>1
      <4> QED
        BY <2>1, <2>3, <4>1, <4>2
    <3>2. ASSUME NEW i \in 1 .. n PROVE (head \o tail)[i] = lines[i]
      <4> HIDE DEF n
      <4>1. CASE i <= k
        BY <1>1, <1>2, <2>1, <2>3, <4>1
      <4>2. CASE ~(i <= k)
        <5>1. (head \o tail)[i] = tail[i - k]
          BY <1>1, <1>2, <2>1, <2>3, <4>2
        <5>2. i - k \in 1 .. n - k /\ k + (i - k) = i
          BY <1>1, <4>2
        <5> QED
          BY <2>3, <5>1, <5>2
      <4> QED
        BY <4>1, <4>2
    <3> QED
      BY <3>1, <3>2, SameSequence
  <2> QED
    BY <2>2, <2>3, <2>4, <2>5 DEF tail
<1>3. CASE ~(k < n)
  <2>1. tail = <<>>
    BY <1>3
  <2>2. SubSeq(lines, 1, Len(lines)) = lines
    OBVIOUS
  <2>3. k <= Len(lines) => k = Len(lines)
    <3> HIDE DEF n
    <3>1. k <= n => k = n
      BY <1>1, <1>3
    <3> QED
      BY <3>1 DEF n
  <2>4. Taken(lines, k) = lines
    BY <2>2, <2>3 DEF Taken
  <2> QED
    BY <2>1, <2>4
<1> QED
  BY <1>2, <1>3

(* The blocks that are rewritten in place.                                 *)
InPlace(blocks, lines) ==
  [i \in DOMAIN blocks |->
     IF i \in TextBlocks(blocks)
     THEN [blocks[i] EXCEPT !.text = Line(lines, Cardinality(TextBlocks(blocks) \cap 1 .. i))]
     ELSE blocks[i]]

LEMMA InPlaceType ==
  ASSUME NEW blocks \in Seq(Block), NEW lines \in Seq(Piece)
  PROVE  /\ InPlace(blocks, lines) \in Seq(Block) /\ Len(InPlace(blocks, lines)) = Len(blocks)
         /\ \A i \in 1 .. Len(blocks) :
              /\ InPlace(blocks, lines)[i].type = blocks[i].type
              /\ i \in TextBlocks(blocks) =>
                   InPlace(blocks, lines)[i].text
                     = Line(lines, Cardinality(TextBlocks(blocks) \cap 1 .. i))
              /\ i \notin TextBlocks(blocks) => InPlace(blocks, lines)[i] = blocks[i]
<1>1. DOMAIN blocks = 1 .. Len(blocks) /\ Len(blocks) \in Nat
  OBVIOUS
<1> DEFINE new(i) == [blocks[i] EXCEPT !.text = Line(lines, Cardinality(TextBlocks(blocks) \cap 1 .. i))]
<1>2. ASSUME NEW i \in 1 .. Len(blocks)
      PROVE  /\ new(i) \in Block /\ new(i).type = blocks[i].type
             /\ new(i).text = Line(lines, Cardinality(TextBlocks(blocks) \cap 1 .. i))
  <2> DEFINE line == Line(lines, Cardinality(TextBlocks(blocks) \cap 1 .. i))
  <2>1. line \in Seq(Piece)
    BY DEF Line
  <2>2. blocks[i] \in Block
    OBVIOUS
  <2> HIDE DEF line
  <2>3. /\ [blocks[i] EXCEPT !.text = line] \in Block
        /\ [blocks[i] EXCEPT !.text = line].type = blocks[i].type
        /\ [blocks[i] EXCEPT !.text = line].text = line
    BY <2>1, <2>2 DEF Block
  <2> QED
    BY <2>3 DEF line
<1>3. InPlace(blocks, lines) = [i \in 1 .. Len(blocks) |->
                                  IF i \in TextBlocks(blocks) THEN new(i) ELSE blocks[i]]
  BY <1>1 DEF InPlace
<1> HIDE DEF new
<1>4. InPlace(blocks, lines) \in Seq(Block) /\ Len(InPlace(blocks, lines)) = Len(blocks)
  <2>1. ASSUME NEW i \in 1 .. Len(blocks)
        PROVE  (IF i \in TextBlocks(blocks) THEN new(i) ELSE blocks[i]) \in Block
    <3>1. blocks[i] \in Block
      OBVIOUS
    <3> QED
      BY <1>2, <3>1
  <2> QED
    BY <1>1, <1>3, <2>1
<1>5. ASSUME NEW i \in 1 .. Len(blocks)
      PROVE  InPlace(blocks, lines)[i] = IF i \in TextBlocks(blocks) THEN new(i) ELSE blocks[i]
  BY <1>3
<1> QED
  BY <1>2, <1>4, <1>5

(* Rewriting a result moves text between its blocks and loses none of it,  *)
(* and leaves every other block in its place.                              *)
LEMMA RewritingReadsBack ==
  ASSUME NEW blocks \in Seq(Block), NEW lines \in Seq(Piece)
  PROVE  /\ _rewrite_content(blocks, lines) \in Seq(Block)
         /\ _content_text(_rewrite_content(blocks, lines)) = lines
         /\ \A i \in DOMAIN blocks \ TextBlocks(blocks) : _rewrite_content(blocks, lines)[i] = blocks[i]
<1> DEFINE n      == Len(blocks)
           K      == TextBlocks(blocks)
           placed == Cardinality(K)
           tail   == SubSeq(lines, placed + 1, Len(lines))
           extra  == IF tail = <<>> THEN <<>> ELSE <<[type |-> "text", text |-> tail]>>
           inner  == InPlace(blocks, lines)
           new    == _rewrite_content(blocks, lines)
<1>1. n \in Nat /\ DOMAIN blocks = 1 .. n /\ K \subseteq 1 .. n
  BY DEF TextBlocks
<1>2. placed = Cardinality(K \intersect 1 .. n) /\ placed \in Nat
  <2>1. K \intersect 1 .. n = K
    BY <1>1
  <2> HIDE DEF K, n
  <2> QED
    BY <1>1, <2>1, Counting
<1>3. new = inner \o extra
  BY DEF _rewrite_content, InPlace
<1>4. tail \in Seq(Piece)
  <2> HIDE DEF placed
  <2> QED
    BY <1>2, HeadAndTail
<1>5. extra \in Seq(Block) /\ Len(extra) = (IF tail = <<>> THEN 0 ELSE 1)
      /\ (tail # <<>> => extra[1] = [type |-> "text", text |-> tail])
  <2> HIDE DEF tail
  <2>1. [type |-> "text", text |-> tail] \in Block
    BY <1>4 DEF Block
  <2> QED
    BY <2>1
<1>6. /\ inner \in Seq(Block) /\ Len(inner) = n
      /\ \A i \in 1 .. n : /\ inner[i].type = blocks[i].type
                           /\ i \in K => inner[i].text = Line(lines, Cardinality(K \cap 1 .. i))
                           /\ i \notin K => inner[i] = blocks[i]
  BY InPlaceType
<1> HIDE DEF inner, extra, new
<1>7. /\ new \in Seq(Block) /\ Len(new) = n + Len(extra)
      /\ \A i \in 1 .. n : new[i] = inner[i]
      /\ tail # <<>> => new[n + 1] = extra[1]
  <2>1. extra \in Seq(Block) /\ inner \in Seq(Block) /\ Len(inner) = n
    BY <1>5, <1>6
  <2> HIDE DEF n, tail
  <2>2. /\ new \in Seq(Block) /\ Len(new) = n + Len(extra)
        /\ \A i \in 1 .. n : new[i] = inner[i]
        /\ \A i \in 1 .. Len(extra) : new[n + i] = extra[i]
    <3>1. inner \o extra \in Seq(Block) /\ Len(inner \o extra) = Len(inner) + Len(extra)
      BY <2>1, Appended
    <3>2. \A i \in 1 .. Len(inner) : (inner \o extra)[i] = inner[i]
      BY <2>1, Appended
    <3>3. \A i \in 1 .. Len(extra) : (inner \o extra)[Len(inner) + i] = extra[i]
      BY <2>1, Appended
    <3> QED
      BY <1>3, <2>1, <3>1, <3>2, <3>3
  <2>3. ASSUME tail # <<>> PROVE new[n + 1] = extra[1]
    <3>1. Len(extra) = 1
      BY <1>5, <2>3
    <3>2. 1 \in 1 .. 1
      OBVIOUS
    <3> QED
      BY <2>2, <3>1, <3>2
  <2> QED
    BY <2>2, <2>3
<1> DEFINE parts == Texts(new)
<1>8. parts \in Seq(Seq(Piece)) /\ Len(parts) = Len(new) /\ _content_text(new) = FlattenSeq(parts)
  BY <1>7, TextsType
<1>9. \A i \in 1 .. Len(new) : parts[i] = IF new[i].type = "text" THEN new[i].text ELSE <<>>
  <2>1. DOMAIN new = 1 .. Len(new)
    BY <1>7
  <2> QED
    BY <2>1 DEF Texts, TextBlocks
<1> HIDE DEF parts
<1>10. Placed(parts, lines, K, n)
  <2> SUFFICES ASSUME NEW i \in 1 .. n
               PROVE  parts[i] = IF i \in K /\ Cardinality(K \intersect 1 .. i) \in DOMAIN lines
                                 THEN <<lines[Cardinality(K \intersect 1 .. i)]>> ELSE <<>>
    BY DEF Placed
  <2>1. new[i] = inner[i] /\ inner[i].type = blocks[i].type
    BY <1>6, <1>7
  <2>2. i \in 1 .. Len(new)
    <3>1. Len(extra) \in Nat /\ Len(new) = n + Len(extra)
      BY <1>5, <1>7
    <3> HIDE DEF n
    <3> QED
      BY <1>1, <3>1
  <2>3. i \in K <=> blocks[i].type = "text"
    BY <1>1 DEF TextBlocks
  <2>4. parts[i] = IF inner[i].type = "text" THEN inner[i].text ELSE <<>>
    BY <1>9, <2>1, <2>2
  <2>5. i \in K => inner[i].text = Line(lines, Cardinality(K \cap 1 .. i))
    BY <1>6
  <2> HIDE DEF K, n
  <2> QED
    BY <2>1, <2>3, <2>4, <2>5 DEF Line
<1>11. PICK F \in [0 .. Len(parts) -> Seq(Piece)] : IsPrefixOf(F, parts)
  BY <1>8, PrefixesExist
<1>12. FlattenSeq(parts) = F[Len(parts)]
  BY <1>8, <1>11, FlattenIsLast
<1>13. F[n] = Taken(lines, placed)
  <2>1. n \in 0 .. Len(parts)
    <3>1. Len(extra) \in Nat /\ Len(parts) = n + Len(extra)
      BY <1>5, <1>7, <1>8
    <3> HIDE DEF n
    <3> QED
      BY <1>1, <3>1
  <2> HIDE DEF n, K, tail
  <2>2. F[n] = Taken(lines, Cardinality(K \intersect 1 .. n))
    BY <1>8, <1>10, <1>11, <2>1, PlacedRead
  <2> QED
    BY <1>2, <2>2
<1>14. /\ tail = <<>> => Taken(lines, placed) = lines
       /\ tail # <<>> => Taken(lines, placed) \o tail = lines
  <2> HIDE DEF placed
  <2> QED
    BY <1>2, HeadAndTail
<1> HIDE DEF tail, placed, K
<1>15. _content_text(new) = lines
  <2>1. CASE tail = <<>>
    <3>1. Len(parts) = n
      <4>1. Len(parts) = n + 0
        BY <1>5, <1>7, <1>8, <2>1
      <4> HIDE DEF n
      <4> QED
        BY <1>1, <4>1
    <3> QED
      BY <1>8, <1>12, <1>13, <1>14, <2>1, <3>1
  <2>2. CASE tail # <<>>
    <3>1. Len(parts) = n + 1 /\ n + 1 \in 1 .. Len(parts) /\ (n + 1) - 1 = n
      <4>1. Len(parts) = n + 1
        BY <1>5, <1>7, <1>8, <2>2
      <4> HIDE DEF n
      <4> QED
        BY <1>1, <4>1
    <3>2. F[n + 1] = F[(n + 1) - 1] \o parts[n + 1]
      BY <1>11, <3>1 DEF IsPrefixOf
    <3>3. parts[n + 1] = tail
      <4>1. new[n + 1] = [type |-> "text", text |-> tail]
        BY <1>5, <1>7, <2>2
      <4>2. n + 1 \in 1 .. Len(new)
        BY <1>8, <3>1
      <4> QED
        BY <1>9, <4>1, <4>2
    <3> QED
      BY <1>8, <1>12, <1>13, <1>14, <2>2, <3>1, <3>2, <3>3
  <2> QED
    BY <2>1, <2>2
<1>16. \A i \in DOMAIN blocks \ K : new[i] = blocks[i]
  BY <1>1, <1>6, <1>7
<1> QED
  BY <1>7, <1>15, <1>16 DEF new, K

----------------------------------------------------------------------------
(* The stages of a message.                                                *)

IsCall == request.method = "tools/call" /\ request.id # NoId
IsList == request.method = "tools/list" /\ request.id # NoId

(* An allow that some policies in force gave about a text.                 *)
Allowed(d, text) ==
  /\ d.effect = "allow"
  /\ \E p \in SUBSET Rules, action \in Verbs \union {"return"} : d = decide(p, action, text, NoRoute)

(* The tools offered so far: positions of the listing in its order, each   *)
(* of a tool with a name that some policies of late allow.                 *)
Picked ==
  /\ asked \in 0 .. Len(Listed) /\ offered \in Seq(1 .. asked)
  /\ \A i, j \in DOMAIN offered : i < j => offered[i] < offered[j]
  /\ \A i \in DOMAIN offered : /\ Listed[offered[i]].name # NoName
                               /\ "allow" \in Advice(Listed[offered[i]])

(* What may be recorded of a decision.                                     *)
Ends == {"none", "enforced", "refused"}

(* What holds at each stage of a message's way.                            *)
Stage ==
  /\ stored \subseteq Rules /\ request \in Requests /\ outcome \in [inbound : Ends, outbound : Ends]
  /\ pc \in {"arrived", "enforce", "reply", "enforce result", "listing", "done"}
  /\ pc # "done" => delivered = Nothing /\ told = "nothing" /\ outcome.outbound = "none"
  /\ pc \in {"arrived", "enforce"} => upstream = Nothing /\ outcome.inbound = "none"
  /\ pc \in {"reply", "enforce result", "listing"} => upstream # Nothing /\ outcome.inbound # "refused"
  /\ pc \notin {"enforce result", "done"} => outbound = Denial
  /\ pc \in {"enforce", "reply", "enforce result"} => IsCall /\ inbound.effect = "allow"
  /\ pc = "arrived" => offered = <<>> /\ asked = 0
  /\ pc = "enforce" => Allowed(inbound, request.arguments)
  /\ pc \in {"reply", "enforce result"} => answer \in Results
  /\ pc = "enforce result" => ~NothingToGovern /\ Allowed(outbound, ResultText)
  /\ pc = "listing" => IsList /\ answer \in Listings /\ (HasResult(answer) => Picked)

LEMMA DenialDenies == Denial.effect = "deny"
BY DEF Denial, Denied, build_response

LEMMA InferredIsAVerb == \A hints : InferredFromName(hints) \in Verbs
BY DEF InferredFromName, Verbs

LEMMA ReadsAs ==
  ASSUME NEW tool, NEW verb \in Verbs
  PROVE  infer_action(tool, {verb}) = verb
<1>1. {verb} \intersect Verbs = {verb} /\ {verb} # {}
  OBVIOUS
<1>2. (CHOOSE other \in {verb} : TRUE) = verb
  OBVIOUS
<1> QED
  BY <1>1, <1>2 DEF infer_action

LEMMA Reporting ==
  ASSUME outcome \in [inbound : Ends, outbound : Ends],
         NEW direction \in {"inbound", "outbound"}, NEW what \in Ends, Reported(direction, what)
  PROVE  /\ outcome' \in [inbound : Ends, outbound : Ends]
         /\ outcome'[direction] \in {outcome[direction], what}
         /\ \A other \in {"inbound", "outbound"} \ {direction} : outcome'[other] = outcome[other]
BY DEF Reported

(* The reply is one of the messages, and it has the id.                    *)
WithId(messages, id) == {i \in DOMAIN messages : messages[i].id = id}

LEMMA FirstWithId ==
  ASSUME NEW messages, DOMAIN messages \subseteq Nat, NEW id, WithId(messages, id) # {}
  PROVE  /\ Min(WithId(messages, id)) \in DOMAIN messages
         /\ messages[Min(WithId(messages, id))].id = id
<1> DEFINE T == WithId(messages, id)
<1>1. T \in SUBSET Nat /\ T # {} /\ \A i \in T : i \in DOMAIN messages /\ messages[i].id = id
  BY DEF WithId
<1> HIDE DEF T
<1>2. PICK n \in T : \A m \in T : n <= m
  BY <1>1, LeastOf
<1>3. Min(T) \in T
  BY <1>2 DEF Min
<1>4. Min(T) \in DOMAIN messages /\ messages[Min(T)].id = id
  BY <1>1, <1>3
<1> QED
  BY <1>4 DEF T

LEMMA ReplyType ==
  ASSUME NEW S, answer \in Seq(Message(S)), HasResult(answer)
  PROVE  /\ Reply(answer) \in Message(S) /\ Reply(answer).id = request.id
         /\ Reply(answer).content \in S
<1>1. DOMAIN answer = 1 .. Len(answer) /\ DOMAIN answer \subseteq Nat
  OBVIOUS
<1>2. Min(Replies(answer)) \in DOMAIN answer /\ Reply(answer).id = request.id
  <2>1. WithId(answer, request.id) = Replies(answer) /\ WithId(answer, request.id) # {}
    BY DEF HasResult, Replies, WithId
  <2>2. /\ Min(WithId(answer, request.id)) \in DOMAIN answer
        /\ answer[Min(WithId(answer, request.id))].id = request.id
    BY <1>1, <2>1, FirstWithId
  <2> QED
    BY <2>1, <2>2 DEF Reply
<1>3. Reply(answer) \in Message(S)
  BY <1>1, <1>2 DEF Reply
<1> QED
  BY <1>2, <1>3 DEF Message

(* Policies that come do not take back what was picked.                    *)
LEMMA PicksStand ==
  ASSUME UNCHANGED <<request, answer, offered, asked>>, recent \subseteq recent',
         HasResult(answer) => Picked
  PROVE  HasResult(answer)' => Picked'
<1>1. Listed' = Listed /\ HasResult(answer)' = HasResult(answer)
  BY DEF Listed, HasResult, Reply, Replies
<1>2. ASSUME NEW tool, "allow" \in Advice(tool)
      PROVE  \E p \in recent' : "allow" = decide(p, ListedAction(tool), <<>>, NoRoute).effect
  BY <1>2 DEF Advice
<1>3. ASSUME Picked, NEW i \in DOMAIN offered
      PROVE  \E p \in recent' : "allow" = decide(p, ListedAction(Listed[offered[i]]), <<>>, NoRoute).effect
  BY <1>2, <1>3 DEF Picked
<1> QED
  BY <1>1, <1>3 DEF Picked, Advice

LEMMA StageInv == Spec => []Stage
<1>1. Init => Stage
  BY DEF Init, Stage, Ends, Nothing
<1>2. Stage /\ [Next]_vars => Stage'
  <2> SUFFICES ASSUME Stage, [Next]_vars PROVE Stage'
    OBVIOUS
  <2>0. "none" \in Ends /\ "enforced" \in Ends /\ "refused" \in Ends
    BY DEF Ends
  <2>1. CASE Forward
    BY <2>1 DEF Stage, Forward, Deliver, policies, decisions
  <2>2. CASE DecideCall
    <3>1. IsCall' /\ (inbound'.effect = "allow" => Allowed(inbound', request'.arguments))
      <4>1. stored \in SUBSET Rules /\ CallAction(request.tool) \in Verbs \union {"return"}
        BY InferredIsAVerb DEF Stage, CallAction, infer_action, Undeclared
      <4>2. inbound' = decide(stored, CallAction(request.tool), request.arguments, NoRoute)
        BY <2>2 DEF DecideCall, AskPlane
      <4> QED
        BY <2>2, <4>1, <4>2 DEF DecideCall, IsCall, Allowed, policies
    <3> QED
      BY <2>2, <3>1 DEF Stage, DecideCall, policies
  <2>3. CASE CallUnavailable
    BY <2>3 DEF Stage, CallUnavailable, policies, decisions
  <2>4. CASE RefuseCall
    <3>1. outcome' \in [inbound : Ends, outbound : Ends]
      BY <2>0, <2>4, Reporting DEF Stage, RefuseCall
    <3> QED
      BY <2>4, <3>1 DEF Stage, RefuseCall, policies
  <2>5. CASE CallTool
    <3>1. /\ outcome' \in [inbound : Ends, outbound : Ends]
          /\ outcome'.inbound # "refused" /\ outcome'.outbound = outcome.outbound
      BY <2>0, <2>5, Reporting DEF Stage, CallTool
    <3> QED
      BY <2>5, <3>1 DEF Stage, CallTool, policies, IsCall, Nothing
  <2>6. CASE CallFails
    <3>1. outcome' \in [inbound : Ends, outbound : Ends]
      BY <2>0, <2>6, Reporting DEF Stage, CallFails
    <3> QED
      BY <2>6, <3>1 DEF Stage, CallFails, policies
  <2>7. CASE PassReply
    BY <2>7 DEF Stage, PassReply, policies, decisions
  <2>8. CASE DecideResult
    <3>1. ASSUME outbound'.effect = "allow"
          PROVE  (~NothingToGovern)' /\ Allowed(outbound', ResultText')
      <4>1. stored \in SUBSET Rules
        BY DEF Stage
      <4>2. outbound' = decide(stored, "return", ResultText, NoRoute)
        BY <2>8 DEF DecideResult, AskPlane
      <4>3. Allowed(outbound', ResultText)
        BY <3>1, <4>1, <4>2 DEF Allowed
      <4>4. ResultText' = ResultText /\ (~NothingToGovern)'
        BY <2>8 DEF DecideResult, policies, NothingToGovern, ResultText, HasResult, Reply, Replies
      <4> QED
        BY <4>3, <4>4
    <3>2. outcome' \in [inbound : Ends, outbound : Ends]
          /\ (outbound'.effect = "allow" => UNCHANGED outcome)
      BY <2>0, <2>8, Reporting DEF Stage, DecideResult, Withhold
    <3> QED
      BY <2>8, <3>1, <3>2 DEF Stage, DecideResult, policies, IsCall
  <2>9. CASE ResultUnavailable
    BY <2>9 DEF Stage, ResultUnavailable, policies, decisions
  <2>10. CASE RefuseResult
    <3>1. outcome' \in [inbound : Ends, outbound : Ends]
      BY <2>0, <2>10, Reporting DEF Stage, RefuseResult
    <3> QED
      BY <2>10, <3>1 DEF Stage, RefuseResult, policies
  <2>11. CASE DeliverResult
    <3>1. outcome' \in [inbound : Ends, outbound : Ends]
      BY <2>0, <2>11, Reporting DEF Stage, DeliverResult
    <3> QED
      BY <2>11, <3>1 DEF Stage, DeliverResult, policies
  <2>12. CASE ForwardListing
    <3>1. HasResult(answer)' => Picked'
      <4>1. offered' = <<>> /\ asked' = 0
        BY <2>12 DEF Stage, ForwardListing
      <4>2. ASSUME HasResult(answer)' PROVE Len(Listed') \in Nat
        <5>1. answer' \in Seq(Message(Seq(Tool)))
          BY <2>12, AnswersAssumption DEF ForwardListing
        <5>2. DOMAIN answer' = 1 .. Len(answer') /\ DOMAIN answer' \subseteq Nat
          BY <5>1
        <5>3. Min(Replies(answer)') \in DOMAIN answer'
          <6>1. Replies(answer)' = WithId(answer', request'.id) /\ Replies(answer)' # {}
            BY <4>2 DEF HasResult, Replies, WithId
          <6> QED
            BY <5>2, <6>1, FirstWithId
        <5>4. Reply(answer)' \in Message(Seq(Tool))
          BY <5>1, <5>2, <5>3 DEF Reply
        <5> QED
          BY <5>4 DEF Message, Listed
      <4> QED
        BY <4>1, <4>2 DEF Picked
    <3> QED
      BY <2>12, <3>1 DEF Stage, ForwardListing, policies, decisions, IsList, Nothing
  <2>13. CASE ListingFails
    BY <2>13 DEF Stage, ListingFails, policies, decisions
  <2>14. CASE PassListing
    BY <2>14 DEF Stage, PassListing, policies, decisions
  <2>15. CASE DecideTool
    <3>1. HasResult(answer)' /\ Picked'
      <4> DEFINE tool == Listed[asked + 1]
                 size == Len(Listed)
      <4>1. HasResult(answer)' /\ Listed' = Listed /\ recent' = recent
        BY <2>15 DEF DecideTool, policies, HasResult, Listed, Reply, Replies
      <4>2. Picked /\ size \in Nat
        <5>1. answer \in Seq(Message(Seq(Tool)))
          BY <2>15, AnswersAssumption DEF Stage, DecideTool
        <5>2. Listed \in Seq(Tool)
          BY <2>15, <5>1, ReplyType DEF DecideTool, Listed
        <5> QED
          BY <2>15, <5>2 DEF Stage, DecideTool
      <4>3. /\ asked' = asked + 1 /\ asked < size
            /\ \/ offered' = offered
               \/ offered' = Append(offered, asked + 1) /\ tool.name # NoName /\ "allow" \in Advice(tool)
        BY <2>15 DEF DecideTool
      <4>4. asked \in 0 .. size /\ offered \in Seq(1 .. asked)
            /\ \A i, j \in DOMAIN offered : i < j => offered[i] < offered[j]
        BY <4>2 DEF Picked
      <4>5. \A i \in DOMAIN offered : /\ Listed[offered[i]].name # NoName
                                     /\ "allow" \in Advice(Listed[offered[i]])
        BY <4>2 DEF Picked
      <4> HIDE DEF size
      <4>6. asked' \in 0 .. size /\ 1 .. asked \subseteq 1 .. asked' /\ asked + 1 \in 1 .. asked'
        BY <4>2, <4>3, <4>4
      <4>7. /\ Len(offered) \in Nat /\ DOMAIN offered = 1 .. Len(offered)
            /\ \A i \in DOMAIN offered : offered[i] \in 1 .. asked
        BY <4>4
      <4>8. CASE offered' = offered
        <5>1. offered' \in Seq(1 .. asked')
          BY <4>4, <4>6, <4>8
        <5> QED
          BY <4>1, <4>4, <4>5, <4>6, <4>8, <5>1 DEF Picked, Advice, size
      <4>9. CASE offered' = Append(offered, asked + 1) /\ tool.name # NoName /\ "allow" \in Advice(tool)
        <5> DEFINE l == Len(offered)
        <5>1. offered' \in Seq(1 .. asked')
          BY <4>4, <4>6, <4>9
        <5>2. /\ DOMAIN offered' = 1 .. l + 1 /\ offered'[l + 1] = asked + 1
              /\ \A i \in 1 .. l : offered'[i] = offered[i]
          BY <4>7, <4>9
        <5> HIDE DEF l, tool
        <5>3. ASSUME NEW i \in DOMAIN offered', NEW j \in DOMAIN offered', i < j
              PROVE  offered'[i] < offered'[j]
          <6>1. l \in Nat /\ DOMAIN offered = 1 .. l
            BY <4>7 DEF l
          <6>2. i \in 1 .. l /\ offered'[i] = offered[i] /\ offered[i] \in 1 .. asked
            BY <4>7, <5>2, <5>3, <6>1
          <6>3. CASE j = l + 1
            BY <4>4, <5>2, <6>2, <6>3
          <6>4. CASE j # l + 1
            BY <4>4, <5>2, <5>3, <6>1, <6>2, <6>4
          <6> QED
            BY <6>3, <6>4
        <5>4. ASSUME NEW i \in DOMAIN offered'
              PROVE  Listed[offered'[i]].name # NoName /\ "allow" \in Advice(Listed[offered'[i]])
          <6>1. l \in Nat /\ DOMAIN offered = 1 .. l
            BY <4>7 DEF l
          <6>2. CASE i = l + 1
            BY <4>9, <5>2, <6>2 DEF tool
          <6>3. CASE i # l + 1
            BY <4>5, <5>2, <6>1, <6>3
          <6> QED
            BY <6>2, <6>3
        <5> QED
          BY <4>1, <4>6, <5>1, <5>3, <5>4 DEF Picked, Advice, size
      <4> QED
        BY <4>3, <4>8, <4>9
    <3> QED
      BY <2>15, <3>1 DEF Stage, DecideTool, policies, decisions, IsList
  <2>16. CASE DeliverListing
    BY <2>16 DEF Stage, DeliverListing, policies, decisions
  <2>17. CASE EditPolicies
    <3>1. stored' \subseteq Rules
      BY <2>17 DEF Stage, EditPolicies
    <3>2. pc = "listing" => (HasResult(answer)' => Picked')
      BY <2>17, PicksStand DEF Stage, EditPolicies
    <3> QED
      BY <2>17, <3>1, <3>2 DEF Stage, EditPolicies, decisions, IsCall, IsList
  <2>18. CASE UNCHANGED vars
    <3>1. pc = "listing" => (HasResult(answer)' => Picked')
      BY <2>18, PicksStand DEF Stage, vars
    <3>2. ResultText' = ResultText /\ NothingToGovern' = NothingToGovern
      BY <2>18 DEF vars, NothingToGovern, ResultText, HasResult, Reply, Replies
    <3> QED
      BY <2>18, <3>1, <3>2 DEF vars, Stage, IsCall, IsList
  <2> QED
    BY <2>1, <2>2, <2>3, <2>4, <2>5, <2>6, <2>7, <2>8, <2>9, <2>10, <2>11, <2>12, <2>13, <2>14,
       <2>15, <2>16, <2>17, <2>18 DEF Next
<1> QED BY <1>1, <1>2, PTL DEF Spec

----------------------------------------------------------------------------
(* The four properties.                                                    *)

(* Where every duty is carried out, the control plane has done it: only    *)
(* redactions are left, and what they cover is gone.                       *)
LEMMA AllowedIsClean ==
  ASSUME NEW d, NEW text \in Seq(Piece), Allowed(d, text), Undischarged(d) = {}
  PROVE  /\ d.effect = "allow" /\ Types(d.obligations) \subseteq {"redact"}
         /\ d.payload \in Seq(Piece) /\ Clean(d.payload, d)
<1>1. PICK p \in SUBSET Rules, action \in Verbs \union {"return"} : d = decide(p, action, text, NoRoute)
  BY DEF Allowed
<1>2. d.effect = "allow" /\ CoversLabels(p)
  BY RulesAssumption DEF Allowed, CoversLabels
<1>3. /\ Types(d.obligations) \subseteq {"redact"}
      /\ "redact" \notin Types(d.obligations) \intersect d.unsupported
  BY DEF Undischarged, outstanding, SATISFIED_BY_CONTROL_PLANE
<1>4. ComesBack(d, text) /\ Clean(d.payload, d)
  BY <1>1, <1>2, <1>3, AllowedTextIsClean
<1> QED
  BY <1>2, <1>3, <1>4 DEF ComesBack

(* A tool the server runs was allowed, every duty of that decision is one  *)
(* somebody carries out, and its arguments hold nothing a redact covers.   *)
THEOREM CallsAlwaysGoAsDecided == Spec => []CallsGoAsDecided
<1>1. Init => CallsGoAsDecided
  BY DEF Init, CallsGoAsDecided
<1>2. Stage /\ CallsGoAsDecided /\ [Next]_vars => CallsGoAsDecided'
  <2> SUFFICES ASSUME Stage, CallsGoAsDecided, [Next]_vars PROVE CallsGoAsDecided'
    OBVIOUS
  <2>1. ASSUME pc = "enforce", Undischarged(inbound) = {}, UNCHANGED <<request, inbound>>,
               upstream' \in {Nothing, <<Forwarded>>}
        PROVE  CallsGoAsDecided'
    <3>1. request.arguments \in Seq(Piece) /\ Allowed(inbound, request.arguments)
      BY <2>1, RequestsAssumption DEF Stage
    <3>2. /\ inbound.effect = "allow" /\ Types(inbound.obligations) \subseteq {"redact"}
          /\ Clean(inbound.payload, inbound)
      BY <2>1, <3>1, AllowedIsClean
    <3>3. upstream' = Nothing \/ (upstream'[1].arguments = inbound.payload /\ upstream'[1].tool = request.tool)
      BY <2>1 DEF Forwarded
    <3> QED
      BY <2>1, <3>2, <3>3 DEF CallsGoAsDecided
  <2>2. ASSUME UNCHANGED <<request, inbound, upstream>> PROVE CallsGoAsDecided'
    BY <2>2 DEF CallsGoAsDecided
  <2>3. ASSUME upstream' = Nothing \/ ~IsCall, UNCHANGED request PROVE CallsGoAsDecided'
    BY <2>3 DEF CallsGoAsDecided, IsCall
  <2>4. CASE Forward
    BY <2>3, <2>4 DEF Forward, IsCall
  <2>5. CASE DecideCall
    BY <2>3, <2>5 DEF Stage, DecideCall
  <2>6. CASE CallUnavailable
    BY <2>2, <2>6 DEF CallUnavailable, decisions
  <2>7. CASE RefuseCall
    BY <2>2, <2>7 DEF RefuseCall
  <2>8. CASE CallTool
    BY <2>1, <2>8 DEF CallTool
  <2>9. CASE CallFails
    BY <2>1, <2>9 DEF CallFails
  <2>10. CASE PassReply
    BY <2>2, <2>10 DEF PassReply, decisions
  <2>11. CASE DecideResult
    BY <2>2, <2>11 DEF DecideResult
  <2>12. CASE ResultUnavailable
    BY <2>2, <2>12 DEF ResultUnavailable, decisions
  <2>13. CASE RefuseResult
    BY <2>2, <2>13 DEF RefuseResult
  <2>14. CASE DeliverResult
    BY <2>2, <2>14 DEF DeliverResult
  <2>15. CASE ForwardListing
    BY <2>3, <2>15 DEF ForwardListing, IsCall
  <2>16. CASE ListingFails
    BY <2>2, <2>16 DEF ListingFails, decisions
  <2>17. CASE PassListing
    BY <2>2, <2>17 DEF PassListing, decisions
  <2>18. CASE DecideTool
    BY <2>2, <2>18 DEF DecideTool, decisions
  <2>19. CASE DeliverListing
    BY <2>2, <2>19 DEF DeliverListing, decisions
  <2>20. CASE EditPolicies
    BY <2>2, <2>20 DEF EditPolicies, decisions
  <2>21. CASE UNCHANGED vars
    BY <2>2, <2>21 DEF vars
  <2> QED
    BY <2>4, <2>5, <2>6, <2>7, <2>8, <2>9, <2>10, <2>11, <2>12, <2>13, <2>14, <2>15, <2>16, <2>17,
       <2>18, <2>19, <2>20, <2>21 DEF Next
<1> QED BY <1>1, <1>2, StageInv, PTL DEF Spec

(* What is recorded took place, and the agent is never told what did not.  *)
THEOREM OutcomesAlwaysTrue == Spec => []OutcomesAreTrue
<1>1. Init => OutcomesAreTrue
  BY DEF Init, OutcomesAreTrue, RecordsAreTrue, NeverToldWrong
<1>2. Stage /\ OutcomesAreTrue /\ [Next]_vars => OutcomesAreTrue'
  <2> SUFFICES ASSUME Stage, OutcomesAreTrue, [Next]_vars PROVE OutcomesAreTrue'
    OBVIOUS
  <2> USE DEF OutcomesAreTrue, RecordsAreTrue, NeverToldWrong, Nothing
  <2>0. /\ "none" \in Ends /\ "enforced" \in Ends /\ "refused" \in Ends
        /\ outcome \in [inbound : Ends, outbound : Ends]
    BY DEF Ends, Stage
  <2>1. CASE Forward
    BY <2>1 DEF Stage, Forward, Deliver, decisions
  <2>2. CASE DecideCall
    BY <2>2 DEF Stage, DecideCall
  <2>3. CASE CallUnavailable
    BY <2>3 DEF Stage, CallUnavailable, decisions
  <2>4. CASE RefuseCall
    <3>1. outcome'.inbound # "enforced" /\ outcome'.outbound = "none"
      BY <2>0, <2>4, Reporting DEF Stage, RefuseCall
    <3> QED
      BY <2>4, <3>1 DEF Stage, RefuseCall, Tell
  <2>5. CASE CallTool
    <3>1. outcome'.inbound # "refused" /\ outcome'.outbound = "none"
      BY <2>0, <2>5, Reporting DEF Stage, CallTool
    <3> QED
      BY <2>5, <3>1 DEF Stage, CallTool
  <2>6. CASE CallFails
    <3>1. outcome'.inbound # "enforced" /\ outcome'.outbound = "none"
      BY <2>0, <2>6, Reporting DEF Stage, CallFails
    <3> QED
      BY <2>6, <3>1 DEF Stage, CallFails, Tell
  <2>7. CASE PassReply
    BY <2>7 DEF Stage, PassReply, decisions, Deliver
  <2>8. CASE DecideResult
    <3>1. /\ outcome'.inbound = outcome.inbound /\ outcome'.outbound # "refused"
          /\ outbound'.effect = "allow" => outcome'.outbound = "none"
      BY <2>0, <2>8, Reporting DEF Stage, DecideResult, Withhold
    <3> QED
      BY <2>8, <3>1 DEF Stage, DecideResult, Withhold
  <2>9. CASE ResultUnavailable
    BY <2>9 DEF Stage, ResultUnavailable, decisions
  <2>10. CASE RefuseResult
    <3>1. outcome'.inbound = outcome.inbound /\ outcome'.outbound # "enforced"
      BY <2>0, <2>10, Reporting DEF Stage, RefuseResult
    <3> QED
      BY <2>10, <3>1 DEF Stage, RefuseResult, Tell
  <2>11. CASE DeliverResult
    <3>1. outcome'.inbound = outcome.inbound /\ outcome'.outbound # "refused"
      BY <2>0, <2>11, Reporting DEF Stage, DeliverResult
    <3>2. outbound.effect = "allow" /\ delivered' # Nothing /\ told' = told
      BY <2>11 DEF Stage, DeliverResult, Deliver, Allowed
    <3> QED
      BY <2>11, <3>1, <3>2 DEF Stage, DeliverResult
  <2>12. CASE ForwardListing
    BY <2>12 DEF Stage, ForwardListing, decisions
  <2>13. CASE ListingFails
    BY <2>13 DEF Stage, ListingFails, decisions
  <2>14. CASE PassListing
    BY <2>14 DEF Stage, PassListing, decisions, Deliver
  <2>15. CASE DecideTool
    BY <2>15 DEF DecideTool, decisions
  <2>16. CASE DeliverListing
    BY <2>16 DEF Stage, DeliverListing, decisions, Deliver
  <2>17. CASE EditPolicies
    BY <2>17 DEF EditPolicies, decisions
  <2>18. CASE UNCHANGED vars
    BY <2>18 DEF vars
  <2> QED
    BY <2>1, <2>2, <2>3, <2>4, <2>5, <2>6, <2>7, <2>8, <2>9, <2>10, <2>11, <2>12, <2>13, <2>14,
       <2>15, <2>16, <2>17, <2>18 DEF Next
<1> QED BY <1>1, <1>2, StageInv, PTL DEF Spec

(* An answer of one message, with the id, is a reply.                      *)
LEMMA OnlyReply ==
  ASSUME NEW r, NEW id, r.id = id
  PROVE  WithId(<<r>>, id) # {} /\ <<r>>[Min(WithId(<<r>>, id))] = r
<1> DEFINE one == <<r>>
<1>1. DOMAIN one = {1} /\ one[1] = r /\ DOMAIN one \subseteq Nat
  OBVIOUS
<1> HIDE DEF one
<1>2. WithId(one, id) # {}
  BY <1>1 DEF WithId
<1>3. Min(WithId(one, id)) \in DOMAIN one
  BY <1>1, <1>2, FirstWithId
<1> QED
  BY <1>1, <1>2, <1>3 DEF one

(* What the properties say when nothing has been delivered, and when the   *)
(* result was not decided on.                                              *)
LEMMA Undelivered ==
  /\ delivered' = Nothing => ResultsComeBackAsDecided' /\ OfferedAsDeclared'
  /\ outbound' = Denial /\ (IsCall' => NothingToGovern') => ResultsComeBackAsDecided'
BY DenialDenies DEF ResultsComeBackAsDecided, ResultsAreAllowed, NoTextLost, OfferedAsDeclared, IsCall

LEMMA ResultDelivered ==
  ASSUME Stage, DeliverResult
  PROVE  ResultsComeBackAsDecided'
<1> DEFINE reply  == Reply(answer)
           blocks == Reply(answer).content
           lines  == outbound.payload
           new    == _rewrite_content(blocks, lines)
<1>1. answer \in Seq(Message(Seq(Block))) /\ HasResult(answer) /\ Allowed(outbound, ResultText)
  BY AnswersAssumption DEF Stage, DeliverResult, NothingToGovern
<1>2. reply \in Message(Seq(Block)) /\ reply.id = request.id /\ blocks \in Seq(Block)
  BY <1>1, ReplyType
<1>3. ResultText \in Seq(Piece)
  BY <1>2, TextsType DEF ResultText
<1>4. /\ outbound.effect = "allow" /\ Types(outbound.obligations) \subseteq {"redact"}
      /\ lines \in Seq(Piece) /\ Clean(lines, outbound)
  BY <1>1, <1>3, AllowedIsClean DEF DeliverResult
<1>5. /\ _content_text(new) = lines
      /\ \A i \in DOMAIN blocks \ TextBlocks(blocks) : new[i] = blocks[i]
  BY <1>2, <1>4, RewritingReadsBack
<1>6. /\ request' = request /\ answer' = answer /\ inbound' = inbound /\ outbound' = outbound
      /\ inbound.effect = "allow"
  BY DEF Stage, DeliverResult
<1>7. Reply(answer)' = reply
  BY <1>6 DEF Reply, Replies
<1>8. /\ _content_text(Reply(delivered[1])'.content) = lines
      /\ \A i \in DOMAIN blocks \ TextBlocks(blocks) : Reply(delivered[1])'.content[i] = blocks[i]
  <2>1. CASE lines = ResultText
    <3>1. delivered'[1] = answer
      BY <2>1 DEF DeliverResult, Deliver
    <3>2. Reply(delivered[1])' = reply
      BY <1>6, <3>1 DEF Reply, Replies
    <3> QED
      BY <2>1, <3>2 DEF ResultText
  <2>2. CASE lines # ResultText
    <3> DEFINE r == [reply EXCEPT !.content = new]
    <3>1. r.id = request.id /\ r.content = new
      BY <1>2 DEF Message
    <3>2. delivered'[1] = <<r>>
      BY <2>2 DEF DeliverResult, Deliver, Rewritten
    <3> HIDE DEF r, new
    <3>3. Reply(delivered[1])' = r
      BY <1>6, <3>1, <3>2, OnlyReply DEF Reply, Replies, WithId
    <3> QED
      BY <1>5, <3>1, <3>3
  <2> QED
    BY <2>1, <2>2
<1>9. ResultsAreAllowed'
  BY <1>4, <1>6, <1>8 DEF ResultsAreAllowed
<1>10. NoTextLost'
  BY <1>6, <1>7, <1>8 DEF NoTextLost
<1> QED
  BY <1>9, <1>10 DEF ResultsComeBackAsDecided

(* The agent has a result only when the call and its return were allowed   *)
(* with every duty on the return carried out, and then as it was decided.  *)
THEOREM ResultsAlwaysComeBackAsDecided == Spec => []ResultsComeBackAsDecided
<1>1. Init => ResultsComeBackAsDecided
  BY DEF Init, ResultsComeBackAsDecided, ResultsAreAllowed, NoTextLost
<1>2. Stage /\ ResultsComeBackAsDecided /\ [Next]_vars => ResultsComeBackAsDecided'
  <2> SUFFICES ASSUME Stage, ResultsComeBackAsDecided, [Next]_vars PROVE ResultsComeBackAsDecided'
    OBVIOUS
  <2>1. CASE Forward
    BY <2>1, Undelivered DEF Stage, Forward, decisions, IsCall
  <2>2. CASE DecideCall
    BY <2>2, Undelivered DEF Stage, DecideCall
  <2>3. CASE CallUnavailable
    BY <2>3, Undelivered DEF Stage, CallUnavailable
  <2>4. CASE RefuseCall
    BY <2>4, Undelivered DEF Stage, RefuseCall, Tell
  <2>5. CASE CallTool
    BY <2>5, Undelivered DEF Stage, CallTool
  <2>6. CASE CallFails
    BY <2>6, Undelivered DEF Stage, CallFails, Tell
  <2>7. CASE PassReply
    <3>1. NothingToGovern' = NothingToGovern
      BY <2>7 DEF PassReply, NothingToGovern, ResultText, HasResult, Reply, Replies
    <3> QED
      BY <2>7, <3>1, Undelivered DEF Stage, PassReply, decisions
  <2>8. CASE DecideResult
    BY <2>8, Undelivered DEF Stage, DecideResult
  <2>9. CASE ResultUnavailable
    BY <2>9, Undelivered DEF Stage, ResultUnavailable
  <2>10. CASE RefuseResult
    BY <2>10, Undelivered DEF Stage, RefuseResult, Tell
  <2>11. CASE DeliverResult
    BY <2>11, ResultDelivered
  <2>12. CASE ForwardListing
    BY <2>12, Undelivered DEF Stage, ForwardListing
  <2>13. CASE ListingFails
    BY <2>13, Undelivered DEF Stage, ListingFails
  <2>14. CASE PassListing
    BY <2>14, Undelivered DEF Stage, PassListing, decisions, IsCall, IsList
  <2>15. CASE DecideTool
    BY <2>15, Undelivered DEF Stage, DecideTool
  <2>16. CASE DeliverListing
    BY <2>16, Undelivered DEF Stage, DeliverListing, decisions, IsCall, IsList
  <2>17. CASE EditPolicies
    BY <2>17, Undelivered DEF Stage, EditPolicies
  <2>18. CASE UNCHANGED vars
    <3>1. /\ UNCHANGED <<request, inbound, outbound, delivered>>
          /\ Reply(answer)' = Reply(answer) /\ Reply(delivered[1])' = Reply(delivered[1])
          /\ HasResult(answer)' = HasResult(answer)
      BY <2>18 DEF vars, HasResult, Reply, Replies
    <3>2. ResultText' = ResultText
      BY <3>1 DEF ResultText
    <3>3. NothingToGovern' = NothingToGovern
      BY <3>1, <3>2 DEF NothingToGovern
    <3>4. ResultsAreAllowed'
      BY <3>1, <3>3 DEF ResultsComeBackAsDecided, ResultsAreAllowed
    <3>5. NoTextLost'
      BY <3>1 DEF ResultsComeBackAsDecided, NoTextLost
    <3> QED
      BY <3>4, <3>5 DEF ResultsComeBackAsDecided
  <2> QED
    BY <2>1, <2>2, <2>3, <2>4, <2>5, <2>6, <2>7, <2>8, <2>9, <2>10, <2>11, <2>12, <2>13, <2>14,
       <2>15, <2>16, <2>17, <2>18 DEF Next
<1> QED BY <1>1, <1>2, StageInv, PTL DEF Spec

LEMMA ListingDelivered ==
  ASSUME Stage, DeliverListing
  PROVE  OfferedAsDeclared'
<1> DEFINE reply == Reply(answer)
           shown == [i \in DOMAIN offered |-> reply.content[offered[i]]]
           r     == [reply EXCEPT !.content = shown]
           May(action) == \E p \in recent : decide(p, action, <<>>, NoRoute).effect = "allow"
<1>1. answer \in Seq(Message(Seq(Tool))) /\ HasResult(answer) /\ Picked
  BY AnswersAssumption DEF Stage, DeliverListing
<1>2. reply \in Message(Seq(Tool)) /\ reply.id = request.id
  BY <1>1, ReplyType
<1>3. delivered'[1] = <<r>> /\ request' = request /\ offered' = offered /\ recent' = recent
  BY DEF DeliverListing, Deliver, policies
<1>4. r.id = request.id /\ r.content = shown
  <2> HIDE DEF shown
  <2> QED
    BY <1>2 DEF Message
<1>5. Reply(delivered[1])'.content = shown
  <2> HIDE DEF r
  <2>1. Reply(delivered[1])' = r
    BY <1>3, <1>4, OnlyReply DEF Reply, Replies, WithId
  <2> QED
    BY <1>4, <2>1
<1>6. ASSUME NEW i \in DOMAIN shown
      PROVE  /\ \A verb \in Verbs : shown[i].override = {verb} => May(verb)
             /\ shown[i].override = {} =>
                  /\ shown[i].destructive => May("delete")
                  /\ ~shown[i].destructive /\ shown[i].readOnly = {FALSE} => May("write")
             /\ shown[i].override = {"no verb"} /\ "delete" \in shown[i].hints => May("delete")
             /\ shown[i].name # NoName
  <2> DEFINE tool == Listed[offered[i]]
  <2>1. shown[i] = tool /\ i \in DOMAIN offered
    BY DEF Listed
  <2>2. tool.name # NoName /\ May(ListedAction(tool))
    BY <1>1, <2>1 DEF Picked, Advice
  <2> HIDE DEF tool
  <2>3. ASSUME NEW verb \in Verbs, declared_action(tool) = {verb}
        PROVE  ListedAction(tool) = verb
    BY <2>3, ReadsAs DEF ListedAction
  <2>4. \A verb \in Verbs : tool.override = {verb} => ListedAction(tool) = verb
    BY <2>3 DEF declared_action
  <2>5. tool.override = {} /\ tool.destructive => ListedAction(tool) = "delete"
    BY <2>3 DEF declared_action, Verbs
  <2>6. tool.override = {} /\ ~tool.destructive /\ tool.readOnly = {FALSE}
          => ListedAction(tool) = "write"
    <3> SUFFICES ASSUME tool.override = {}, ~tool.destructive, tool.readOnly = {FALSE}
                 PROVE  ListedAction(tool) = "write"
      OBVIOUS
    <3>1. declared_action(tool) = {"write"}
      BY DEF declared_action
    <3> QED
      BY <3>1, <2>3 DEF Verbs
  <2>7. tool.override = {"no verb"} /\ "delete" \in tool.hints => ListedAction(tool) = "delete"
    <3> SUFFICES ASSUME tool.override = {"no verb"}, "delete" \in tool.hints
                 PROVE  ListedAction(tool) = "delete"
      OBVIOUS
    <3>1. declared_action(tool) = {"no verb"} /\ {"no verb"} \intersect Verbs = {}
      BY DEF declared_action, Verbs
    <3> QED
      BY <3>1 DEF ListedAction, infer_action, InferredFromName
  <2> QED
    BY <2>1, <2>2, <2>4, <2>5, <2>6, <2>7
<1>7. \A i, j \in DOMAIN offered : i < j => offered[i] < offered[j]
  BY <1>1 DEF Picked
<1> HIDE DEF shown
<1> QED
  BY <1>3, <1>5, <1>6, <1>7 DEF OfferedAsDeclared

(* A tool is shown only to an agent that may do what an override says of   *)
(* it, or else what its server declares, whatever the tool is called.      *)
THEOREM AlwaysOfferedAsDeclared == Spec => []OfferedAsDeclared
<1>1. Init => OfferedAsDeclared
  BY DEF Init, OfferedAsDeclared
<1>2. Stage /\ OfferedAsDeclared /\ [Next]_vars => OfferedAsDeclared'
  <2> SUFFICES ASSUME Stage, OfferedAsDeclared, [Next]_vars PROVE OfferedAsDeclared'
    OBVIOUS
  <2>0. ASSUME ~IsList' PROVE OfferedAsDeclared'
    BY <2>0 DEF OfferedAsDeclared, IsList
  <2>1. CASE Forward
    BY <2>0, <2>1 DEF Forward, IsList
  <2>2. CASE DecideCall
    BY <2>2, Undelivered DEF Stage, DecideCall
  <2>3. CASE CallUnavailable
    BY <2>3, Undelivered DEF Stage, CallUnavailable
  <2>4. CASE RefuseCall
    BY <2>4, Undelivered DEF Stage, RefuseCall, Tell
  <2>5. CASE CallTool
    BY <2>5, Undelivered DEF Stage, CallTool
  <2>6. CASE CallFails
    BY <2>6, Undelivered DEF Stage, CallFails, Tell
  <2>7. CASE PassReply
    BY <2>0, <2>7 DEF Stage, PassReply, IsCall, IsList
  <2>8. CASE DecideResult
    BY <2>8, Undelivered DEF Stage, DecideResult
  <2>9. CASE ResultUnavailable
    BY <2>9, Undelivered DEF Stage, ResultUnavailable
  <2>10. CASE RefuseResult
    BY <2>10, Undelivered DEF Stage, RefuseResult, Tell
  <2>11. CASE DeliverResult
    BY <2>0, <2>11 DEF Stage, DeliverResult, IsCall, IsList
  <2>12. CASE ForwardListing
    BY <2>12, Undelivered DEF Stage, ForwardListing
  <2>13. CASE ListingFails
    BY <2>13, Undelivered DEF Stage, ListingFails
  <2>14. CASE PassListing
    <3>1. ~HasResult(answer)'
      BY <2>14 DEF PassListing, HasResult, Reply, Replies
    <3> QED
      BY <3>1 DEF OfferedAsDeclared
  <2>15. CASE DecideTool
    BY <2>15, Undelivered DEF Stage, DecideTool
  <2>16. CASE DeliverListing
    BY <2>16, ListingDelivered
  <2>17. CASE EditPolicies
    BY <2>17, Undelivered DEF Stage, EditPolicies
  <2>18. CASE UNCHANGED vars
    BY <2>18 DEF vars, OfferedAsDeclared, HasResult, Reply, Replies
  <2> QED
    BY <2>1, <2>2, <2>3, <2>4, <2>5, <2>6, <2>7, <2>8, <2>9, <2>10, <2>11, <2>12, <2>13, <2>14,
       <2>15, <2>16, <2>17, <2>18 DEF Next
<1> QED BY <1>1, <1>2, StageInv, PTL DEF Spec
=============================================================================
