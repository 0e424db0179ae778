--------------------------- MODULE StreamGovernor ---------------------------
(***************************************************************************)
(* A streamed completion on its way back through the reverse proxy         *)
(* (pep/reverse_proxy/streaming.py, and _stream and _stream_buffered in    *)
(* pep/reverse_proxy/main.py): text arrives from the provider in pieces,   *)
(* everything seen so far is governed again and again, and what lies far   *)
(* enough behind the governed end is sent on.                              *)
(*                                                                         *)
(* Characters are "a", harmless, and "x"; SecretLen of the latter in a row *)
(* are a sensitive value, which can be recognised only when all of it has  *)
(* arrived and is then replaced by a placeholder.                          *)
(***************************************************************************)
EXTENDS Integers, Sequences

CONSTANTS Modes,        \* the values of PEP_STREAM_MODE: "window", "buffer"
          Window,       \* window_chars
          GovernEvery,  \* govern_every
          SecretLen,    \* length of the values the detectors know
          MaxAnswer,    \* bound on the length of the answer
          MaxPiece      \* bound on the length of one piece of it

ASSUME ModesAssumption == Modes \subseteq {"window", "buffer"}
ASSUME SizeAssumption ==
  /\ Window \in Nat /\ GovernEvery \in Nat \ {0} /\ SecretLen \in Nat \ {0}
  /\ MaxAnswer \in Nat /\ MaxPiece \in Nat \ {0}

VARIABLES mode,       \* PEP_STREAM_MODE
          answer,     \* the completion the provider is producing
          pos,        \* how much of it has been sent here
          seen,       \* _seen
          governedAt, \* _governed_at
          emitted,    \* _emitted
          refused,    \* _refused: "no", "policy" or "overran"
          streamed,   \* the text the client has been sent
          sawError,   \* the client has been sent an error event
          phase,      \* "open", "flush", "report", "closed"
          report      \* the outcome reported: "none", "enforced" or "refused"

streamVars ==
  <<mode, answer, pos, seen, governedAt, emitted, refused, streamed, sawError, phase, report>>

----------------------------------------------------------------------------
(* The control plane's redaction of a span.                                *)

RunStart(s, i) == CHOOSE j \in 1 .. i :
  /\ \A k \in j .. i : s[k] = "x"
  /\ j = 1 \/ s[j - 1] # "x"

RunEnd(s, i) == CHOOSE j \in i .. Len(s) :
  /\ \A k \in i .. j : s[k] = "x"
  /\ j = Len(s) \/ s[j + 1] # "x"

(* The characters of a run of x's beyond its last whole value are not      *)
(* recognised.                                                             *)
InSecret(s, i) ==
  /\ s[i] = "x"
  /\ LET from == RunStart(s, i)
         len  == RunEnd(s, i) - from + 1
     IN  i - from < (len \div SecretLen) * SecretLen

Render(s, i) ==
  CASE ~InSecret(s, i) -> <<s[i]>>
    [] InSecret(s, i) /\ (i - RunStart(s, i)) % SecretLen = 0 -> <<"#">>
    [] OTHER -> <<>>

Redact(s) ==
  LET g[i \in 0 .. Len(s)] == IF i = 0 THEN <<>> ELSE g[i - 1] \o Render(s, i)
  IN  g[Len(s)]

----------------------------------------------------------------------------
StartsWith(text, start) == Len(start) <= Len(text) /\ SubSeq(text, 1, Len(start)) = start

Least(m, n)   == IF m < n THEN m ELSE n
Largest(m, n) == IF m > n THEN m ELSE n

(* Mutant: the margin is measured from the end of the raw stream. *)
BugRawEnd(text, final) ==
  IF final THEN Len(Redact(text))
  ELSE Least(Len(Redact(text)), Largest(0, Len(text) - Window))

(* Mutant: the tail is held back at the end as well. *)
BugTailHeldBack(text, final) == Largest(0, Len(Redact(text)) - Window)

(* safe_end: how much of the governed text may be released. *)
SafeEnd(text, final) ==
  LET governed == Len(Redact(text))
  IN  IF final THEN governed ELSE Largest(0, governed - Window)

(* Mutant: the text is released as it came. *)
BugReleasesRaw(text, final) == SubSeq(text, Len(emitted) + 1, SafeEnd(text, final))

(* The part of it that is new. *)
Fresh(text, final) == SubSeq(Redact(text), Len(emitted) + 1, SafeEnd(text, final))

----------------------------------------------------------------------------
(* _drain over everything seen so far: refused by policy, refused because  *)
(* what was already released has been rewritten, or some text released.    *)

Drain(text, final) ==
  /\ governedAt' = Len(text)
  /\ \/ /\ refused' = "policy"
        /\ UNCHANGED emitted
     \/ /\ ~StartsWith(Redact(text), emitted)
        /\ refused' = "overran"
        /\ UNCHANGED emitted
     \/ /\ StartsWith(Redact(text), emitted)
        /\ emitted' = emitted \o Fresh(text, final)
        /\ UNCHANGED refused

(* Mutant: a stream that is refused just ends. *)
BugSilentRefusal ==
  /\ streamed' = streamed \o SubSeq(emitted', Len(emitted) + 1, Len(emitted'))
  /\ UNCHANGED sawError

(* What the client is sent of a drain: an error event for a refusal, the   *)
(* new text otherwise.                                                     *)
Forward ==
  /\ streamed' = streamed \o SubSeq(emitted', Len(emitted) + 1, Len(emitted'))
  /\ sawError' = (sawError \/ refused' # "no")

----------------------------------------------------------------------------
StreamInit ==
  /\ mode \in Modes
  /\ answer \in UNION {[1 .. n -> {"a", "x"}] : n \in 0 .. MaxAnswer}
  /\ pos = 0
  /\ seen = <<>>
  /\ governedAt = 0
  /\ emitted = <<>>
  /\ refused = "no"
  /\ streamed = <<>>
  /\ sawError = FALSE
  /\ phase = "open"
  /\ report = "none"

(* govern_stream and feed: an event with a piece of the text arrives; the  *)
(* governor is asked once enough is new.                                   *)
Feed(k) ==
  /\ mode = "window"
  /\ phase = "open"
  /\ refused = "no"
  /\ pos + k <= Len(answer)
  /\ pos' = pos + k
  /\ seen' = seen \o SubSeq(answer, pos + 1, pos + k)
  /\ IF Len(seen) + k - governedAt < GovernEvery
     THEN UNCHANGED <<governedAt, emitted, refused, streamed, sawError>>
     ELSE Drain(seen \o SubSeq(answer, pos + 1, pos + k), FALSE) /\ Forward
  /\ UNCHANGED <<mode, answer, phase, report>>

(* An event that two reads of the connection share: each read is split     *)
(* into lines by itself, and neither half of the line parses.              *)
LoseEvent(k) ==
  /\ mode = "window"
  /\ phase = "open"
  /\ refused = "no"
  /\ pos + k <= Len(answer)
  /\ pos' = pos + k
  /\ UNCHANGED <<mode, answer, seen, governedAt, emitted, refused, streamed,
                 sawError, phase, report>>

(* The provider is done, or the loop has returned on a refusal. *)
EndOfInput ==
  /\ phase = "open"
  /\ mode = "window"
  /\ pos = Len(answer) \/ refused # "no"
  /\ phase' = "flush"
  /\ UNCHANGED <<mode, answer, pos, seen, governedAt, emitted, refused, streamed, sawError,
                 report>>

(* The provider cannot be reached any more: an error event, and "refused". *)
UpstreamFails ==
  /\ phase = "open"
  /\ refused = "no"
  /\ sawError' = TRUE
  /\ phase' = "closed"
  /\ report' = "refused"
  /\ UNCHANGED <<mode, answer, pos, seen, governedAt, emitted, refused, streamed>>

(* _stream_buffered: the whole answer in one feed, whose result is not     *)
(* looked at.                                                              *)
FeedBuffered ==
  /\ mode = "buffer"
  /\ phase = "open"
  /\ pos' = Len(answer)
  /\ seen' = answer
  /\ IF Len(answer) = 0 \/ Len(answer) < GovernEvery
     THEN UNCHANGED <<governedAt, emitted, refused>>
     ELSE Drain(answer, FALSE)
  /\ phase' = "flush"
  /\ UNCHANGED <<mode, answer, streamed, sawError, report>>

(* finish: release the tail, unless the stream has been refused.           *)
Finish ==
  /\ phase = "flush"
  /\ IF refused # "no" \/ seen = <<>>
     THEN UNCHANGED <<governedAt, emitted, refused, streamed, sawError>>
     ELSE Drain(seen, TRUE) /\ Forward
  /\ phase' = "report"
  /\ UNCHANGED <<mode, answer, pos, seen, report>>

(* The outcome, once the last frame has gone out. *)
ReportOutcome ==
  /\ phase = "report"
  /\ report' = IF refused = "no" THEN "enforced" ELSE "refused"
  /\ phase' = "closed"
  /\ UNCHANGED <<mode, answer, pos, seen, governedAt, emitted, refused, streamed, sawError>>

StreamNext ==
  \/ \E k \in 1 .. MaxPiece : Feed(k) \/ LoseEvent(k)
  \/ EndOfInput
  \/ UpstreamFails
  \/ FeedBuffered
  \/ Finish
  \/ ReportOutcome

StreamSpec == StreamInit /\ [][StreamNext]_streamVars

----------------------------------------------------------------------------
(* Properties.                                                             *)

(* "A value can never be emitted before it is recognised": however the     *)
(* answer is cut into pieces, what the client has stays a beginning of the *)
(* redaction of everything that has arrived, also of what arrived after it *)
(* was sent.  In buffer mode it may be any stretch of it, and still holds  *)
(* nothing redaction would have taken out.                                 *)
NothingSensitiveDelivered ==
  LET governed == Redact(seen)
  IN  streamed # <<>> =>
        \E i \in 1 .. Len(governed) :
           /\ mode = "window" => i = 1
           /\ StartsWith(SubSeq(governed, i, Len(governed)), streamed)

(* With a window no shorter than a value, the stream is never stopped for  *)
(* having rewritten what it had already sent.                              *)
WindowNeverOverrun == Window >= SecretLen - 1 => refused # "overran"

(* A refusal is not silent: whenever a window that is slid over a stream   *)
(* ends it refused, the client has been told.                              *)
RefusalIsSeen ==
  mode = "window" /\ phase = "closed" /\ report = "refused" => sawError

(* In window mode, "enforced" means that the client has the whole governed *)
(* text, although most of it was sent before the last of it was governed.  *)
EnforcedMeansDelivered ==
  mode = "window" /\ report = "enforced" => streamed = Redact(seen) /\ ~sawError

(* What becomes of a stream is what is said of it, to the client and to    *)
(* the control plane.                                                      *)
StreamEndsAsReported == WindowNeverOverrun /\ RefusalIsSeen /\ EnforcedMeansDelivered
=============================================================================
