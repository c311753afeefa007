-------------------------- MODULE HelperCallProofs --------------------------
(***************************************************************************)
(* Theorems about HelperCall, for every set of result texts, every cap on  *)
(* what is captured and both budgets. CallInv is inductive: it ties the    *)
(* last outcome to the helper that gave it. PaidInv counts what the        *)
(* attempts so far have cost.                                              *)
(***************************************************************************)
EXTENDS HelperCall, FiniteSetTheorems, NaturalsInduction, WellFoundedInduction, TLAPS

AnswerIn(answer, text) == \E j \in DOMAIN text : text[j] = answer

\* A set of positions has a first and a last one.
LEMMA FirstPosition ==
  ASSUME NEW n \in Nat, NEW some \in SUBSET (1 .. n), some # {}
  PROVE  \E i \in some : \A j \in some : i <= j
<1>1. some \subseteq Nat /\ some # {}
  OBVIOUS
<1>2. PICK i \in some : \A j \in some : ~(<<j, i>> \in OpToRel(<, Nat))
  BY <1>1, NatLessThanWellFounded, WFMin
<1>3. \A j \in some : ~(j < i)
  BY <1>1, <1>2 DEF OpToRel
<1>4. QED
  BY <1>1, <1>3

LEMMA LastPosition ==
  ASSUME NEW n \in Nat, NEW some \in SUBSET (1 .. n), some # {}
  PROVE  \E i \in some : \A j \in some : j <= i
<1> DEFINE mirrored == {k \in 1 .. n : (n + 1) - k \in some}
<1>1. mirrored # {}
  <2>1. PICK i \in some : TRUE
    OBVIOUS
  <2>2. (n + 1) - i \in 1 .. n /\ (n + 1) - ((n + 1) - i) = i
    OBVIOUS
  <2>3. QED
    BY <2>1, <2>2
<1>2. PICK k \in mirrored : \A l \in mirrored : k <= l
  BY <1>1, FirstPosition
<1>3. \A j \in some : (n + 1) - j \in mirrored
  <2> SUFFICES ASSUME NEW j \in some PROVE (n + 1) - j \in mirrored
    OBVIOUS
  <2>1. (n + 1) - j \in 1 .. n /\ (n + 1) - ((n + 1) - j) = j
    OBVIOUS
  <2>2. QED
    BY <2>1
<1>4. \A j \in some : j <= (n + 1) - k
  BY <1>2, <1>3
<1>5. QED
  BY <1>2, <1>4

\* extract_json_envelope: an answer is a chunk of the text it is found in.
LEMMA EnvelopeInText ==
  ASSUME NEW text \in Seq(Chunks), NEW answer \in Answers, Envelope(text) = answer
  PROVE  AnswerIn(answer, text)
<1> DEFINE hits == {i \in Blocks(text) : text[i] # "object"}
<1>1. hits # {}
  BY DEF Envelope, Answers
<1>2. hits \in SUBSET (1 .. Len(text)) /\ Len(text) \in Nat
  BY DEF Blocks
<1>3. \E i \in hits : \A j \in hits : i <= j
  <2> HIDE DEF hits
  <2>1. QED
    BY <1>1, <1>2, FirstPosition
<1>4. text[CHOOSE i \in hits : \A j \in hits : i <= j] = answer
  BY <1>1 DEF Envelope
<1>5. (CHOOSE i \in hits : \A j \in hits : i <= j) \in hits
  <2> HIDE DEF hits
  <2>1. QED
    BY <1>3
<1>6. QED
  BY <1>2, <1>4, <1>5 DEF AnswerIn

\* What stands in a line stands in one that was printed.
LEMMA TextOfLine ==
  ASSUME NEW line \in Lines
  PROVE  line.text \in Seq(Chunks)
BY TextsAssumption DEF Lines

\* The search of the output as it stands finds an answer in one of its lines.
LEMMA RawInLine ==
  ASSUME NEW lines \in Seq(Lines), NEW answer \in Answers, RawEnvelope(lines) = answer
  PROVE  \E i \in DOMAIN lines : AnswerIn(answer, lines[i].text)
<1> DEFINE hits == {i \in DOMAIN lines :
                      /\ Envelope(lines[i].text) # "none"
                      /\ \A j \in 1 .. (i - 1) : Blocks(lines[j].text) = DOMAIN lines[j].text}
           first == CHOOSE i \in hits : \A j \in hits : i <= j
<1>1. hits # {} /\ Envelope(lines[first].text) = answer
  BY DEF RawEnvelope, Answers
<1>2. first \in hits
  <2>1. hits \in SUBSET (1 .. Len(lines)) /\ Len(lines) \in Nat
    OBVIOUS
  <2>2. \E i \in hits : \A j \in hits : i <= j
    <3> HIDE DEF hits
    <3>1. QED
      BY <1>1, <2>1, FirstPosition
  <2> HIDE DEF hits
  <2>3. QED
    BY <2>2
<1>3. first \in DOMAIN lines
  BY <1>2
<1> HIDE DEF hits, first
<1>4. lines[first].text \in Seq(Chunks)
  BY <1>3, TextOfLine
<1>5. QED
  BY <1>1, <1>3, <1>4, EnvelopeInText

\* parse_and_validate_output: an answer stands in a line that the helper printed.
LEMMA ParsedWasPrinted ==
  ASSUME out \in Seq(Lines), NEW answer \in Answers, ParsedOutcome = answer
  PROVE  \E i \in DOMAIN out : AnswerIn(answer, out[i].text)
<1> DEFINE results == {i \in DOMAIN Captured : Captured[i].result}
           last == CHOOSE i \in results : \A j \in results : j <= i
<1>1. Captured \in Seq(Lines) /\ Len(Captured) \in Nat /\ DOMAIN Captured = 1 .. Len(Captured)
  BY BoundsAssumption DEF Captured
<1>2. \A i \in DOMAIN Captured : i \in DOMAIN out /\ Captured[i] = out[i]
  BY BoundsAssumption DEF Captured
<1>3. CASE results = {}
  <2>1. RawEnvelope(Captured) = answer
    BY <1>3 DEF ParsedOutcome, Answers
  <2>2. QED
    BY <1>1, <1>2, <2>1, RawInLine
<1>4. CASE results # {}
  <2>1. Envelope(Captured[last].text) = answer
    BY <1>4 DEF ParsedOutcome, Answers
  <2>2. last \in results
    <3>1. results \in SUBSET (1 .. Len(Captured))
      BY <1>1
    <3>2. \E i \in results : \A j \in results : j <= i
      <4> HIDE DEF results
      <4>1. QED
        BY <1>1, <1>4, <3>1, LastPosition
    <3> HIDE DEF results
    <3>3. QED
      BY <3>2
  <2>3. last \in DOMAIN out /\ Captured[last] = out[last]
    BY <1>2, <2>2
  <2> HIDE DEF last
  <2>4. out[last].text \in Seq(Chunks)
    BY <2>3, TextOfLine
  <2>5. AnswerIn(answer, out[last].text)
    BY <2>1, <2>3, <2>4, EnvelopeInText
  <2>6. QED
    BY <2>3, <2>5
<1>5. QED
  BY <1>3, <1>4

-----------------------------------------------------------------------------
CallInv == TypeOK /\ AnswerInTime

LEMMA Nothing ==
  <<>> \in Seq(Lines) /\ <<>> \in Seq(Answers \cup Retry!Outcomes) /\ Len(<<>>) <= MaxLines
BY BoundsAssumption

LEMMA OutcomeIsOne == CallOutcome \in Answers \cup {"ProtocolViolation", "TransientInfra"}
BY DEF CallOutcome, ParsedOutcome, Answers

\* The step of an attempt that ends, with or without a helper.
LEMMA EndsTyped ==
  ASSUME TypeOK, NEW outcome \in Answers \cup Retry!Outcomes, Ends(outcome)
  PROVE  /\ outcomes' \in Seq(Answers \cup Retry!Outcomes)
         /\ outcomes'[Len(outcomes')] = outcome
         /\ phase' \in {"pause", "over"}
<1>1. outcomes \in Seq(Answers \cup Retry!Outcomes) /\ outcomes' = Append(outcomes, outcome)
  BY DEF TypeOK, Ends
<1>2. Len(outcomes') = Len(outcomes) + 1 /\ Len(outcomes) \in Nat
  BY <1>1
<1>3. outcomes' \in Seq(Answers \cup Retry!Outcomes) /\ outcomes'[Len(outcomes) + 1] = outcome
  BY <1>1
<1>4. QED
  BY <1>2, <1>3 DEF Ends

\* The inductive invariant: what could disturb it is the end of a call, whose outcome
\* is found in what the drainer of the standard output has read.
THEOREM CallInvariant == Spec => []CallInv
<1>1. Init => CallInv
  BY Nothing
     DEF Init, CallInv, TypeOK, AnswerInTime, processVars, daemonVars
<1>2. CallInv /\ [Next]_vars => CallInv'
  <2> SUFFICES ASSUME CallInv, [Next]_vars PROVE CallInv'
    OBVIOUS
  <2> USE DEF CallInv
  <2>1. CASE SpawnFails
    <3>1. PICK outcome \in {"HardInfra", "TransientInfra"} : Ends(outcome)
      BY <2>1 DEF SpawnFails
    <3>2. outcome \in Answers \cup Retry!Outcomes /\ outcome \notin Answers
      BY DEF Answers, Retry!Outcomes
    <3>3. /\ outcomes' \in Seq(Answers \cup Retry!Outcomes)
          /\ outcomes'[Len(outcomes')] = outcome
          /\ phase' \in {"pause", "over"}
      BY <3>1, <3>2, EndsTyped
    <3>4. QED
      BY <2>1, <3>2, <3>3
         DEF SpawnFails, TypeOK, AnswerInTime, processVars, daemonVars
  <2>2. CASE Drained
    <3>1. Ends(CallOutcome) /\ CallOutcome \in Answers \cup Retry!Outcomes
      BY <2>2, OutcomeIsOne DEF Drained, Retry!Outcomes
    <3>2. /\ outcomes' \in Seq(Answers \cup Retry!Outcomes)
          /\ outcomes'[Len(outcomes')] = CallOutcome
          /\ phase' \in {"pause", "over"}
      BY <3>1, EndsTyped
    <3>3. UNCHANGED <<hosted, child, holder, out, torn, waited, queued, listed, killed, limited, paused>>
      BY <2>2 DEF Drained, processVars, daemonVars
    <3>4. TypeOK'
      BY <3>2, <3>3 DEF TypeOK
    <3>5. AnswerInTime'
      <4> SUFFICES ASSUME CallOutcome \in Answers
                   PROVE  /\ child = "ok" /\ waited = "exited"
                          /\ \E i \in DOMAIN out : \E j \in DOMAIN out[i].text :
                               out[i].text[j] = CallOutcome
        BY <3>2, <3>3 DEF AnswerInTime
      <4>1. child = "ok" /\ waited = "exited" /\ CallOutcome = ParsedOutcome
        BY DEF CallOutcome, Answers
      <4>2. \E i \in DOMAIN out : AnswerIn(CallOutcome, out[i].text)
        BY <4>1, ParsedWasPrinted DEF TypeOK
      <4>3. QED
        BY <4>1, <4>2 DEF AnswerIn
    <3>6. QED
      BY <3>4, <3>5
  <2>3. CASE Spawn
    BY <2>3 DEF Spawn, TypeOK, AnswerInTime
  <2>4. CASE WaitReturns \/ TimesOut
    BY <2>4 DEF WaitReturns, TimesOut, TypeOK, AnswerInTime, processVars, daemonVars
  <2>5. CASE KillChild
    BY <2>5 DEF KillChild, TypeOK, AnswerInTime, daemonVars
  <2>6. CASE NextAttempt
    BY <2>6, Nothing DEF NextAttempt, TypeOK, AnswerInTime
  <2>7. CASE List
    BY <2>7, ZenonT(40) DEF List, TypeOK, AnswerInTime, processVars
  <2>8. CASE Kill
    BY <2>8 DEF Kill, LeftAfterSignal, TypeOK, AnswerInTime
  <2>9. ASSUME NEW line \in Lines, WriteLine(line) PROVE CallInv'
    <3>1. out \in Seq(Lines) /\ out' = Append(out, line) /\ Len(out) < MaxLines
      BY <2>9 DEF WriteLine, TypeOK
    <3>2. out' \in Seq(Lines) /\ Len(out') <= MaxLines
      BY <3>1, BoundsAssumption
    <3>3. QED
      BY <2>9, <3>2 DEF WriteLine, TypeOK, AnswerInTime, daemonVars
  <2>10. CASE HolderEnds
    BY <2>10 DEF HolderEnds, TypeOK, AnswerInTime, daemonVars
  <2>11. ASSUME NEW group \in {"group", "own"}, LeaveHolder(group) PROVE CallInv'
    BY <2>11 DEF LeaveHolder, TypeOK, AnswerInTime, daemonVars
  <2>12. CASE Pause
    <3>1. paused' \in BOOLEAN
      BY <2>12 DEF Pause
    <3>2. QED
      BY <2>12, <3>1, ZenonT(40) DEF Pause, TypeOK, AnswerInTime, processVars
  <2>13. ASSUME NEW stream \in Streams, Tear(stream) PROVE CallInv'
    BY <2>13 DEF Tear, TypeOK, AnswerInTime, daemonVars
  <2>14. ASSUME NEW status \in {"ok", "failed"}, ChildExits(status) PROVE CallInv'
    BY <2>14 DEF ChildExits, TypeOK, AnswerInTime, daemonVars
  <2>15. CASE UNCHANGED vars
    BY <2>15 DEF vars, TypeOK, AnswerInTime, processVars, daemonVars
  <2>16. QED
    BY <2>1, <2>2, <2>3, <2>4, <2>5, <2>6, <2>7, <2>8, <2>9, <2>10, <2>11, <2>12, <2>13, <2>14,
       <2>15
       DEF Next, Step
<1>3. QED
  BY <1>1, <1>2, PTL DEF Spec

\* Types; in particular every outcome is one of the retry policy's.
THEOREM CallTypes == Spec => []TypeOK
<1>1. CallInv => TypeOK
  BY DEF CallInv
<1>2. QED
  BY <1>1, CallInvariant, PTL

\* run_claude_subprocess: an answer was printed by a helper that exited by itself,
\* with success and in time.
THEOREM AnswersInTime == Spec => []AnswerInTime
<1>1. CallInv => AnswerInTime
  BY DEF CallInv
<1>2. QED
  BY <1>1, CallInvariant, PTL

-----------------------------------------------------------------------------
(* How often the step calls. *)

\* The attempts among the first n that ended in one way.
EndedAs(outs, n, o) == {i \in 1 .. n : outs[i] = o}

Spent(o) == Cardinality(EndedAs(outcomes, Len(outcomes), o))

\* While the step goes on, each of its attempts was paid for from one of the budgets.
PaidInv ==
  /\ phase # "over" =>
       /\ Spent("TransientInfra") + Spent("ProtocolViolation") = Len(outcomes)
       /\ Spent("TransientInfra") <= TransientMax
       /\ Spent("ProtocolViolation") <= ProtocolMax
  /\ phase = "over" => Len(outcomes) <= 1 + TransientMax + ProtocolMax

\* The attempts that ended in one way are finitely many.
LEMMA EndedAsFinite ==
  ASSUME NEW outs, NEW n \in Nat, NEW o
  PROVE  IsFiniteSet(EndedAs(outs, n, o)) /\ Cardinality(EndedAs(outs, n, o)) \in Nat
<1>1. IsFiniteSet(1 .. n)
  BY FS_Interval
<1>2. EndedAs(outs, n, o) \in SUBSET (1 .. n)
  BY DEF EndedAs
<1>3. QED
  BY <1>1, <1>2, FS_Subset, FS_CardinalityType

\* One more attempt adds to the count of its outcome and to no other.
LEMMA EndedAsNext ==
  ASSUME NEW outs, NEW n \in Nat, NEW o
  PROVE  Cardinality(EndedAs(outs, n + 1, o)) =
           Cardinality(EndedAs(outs, n, o)) + IF outs[n + 1] = o THEN 1 ELSE 0
<1>1. CASE outs[n + 1] = o
  <2>1. EndedAs(outs, n + 1, o) = EndedAs(outs, n, o) \cup {n + 1}
    BY <1>1 DEF EndedAs
  <2>2. n + 1 \notin EndedAs(outs, n, o)
    BY DEF EndedAs
  <2>3. QED
    BY <1>1, <2>1, <2>2, EndedAsFinite, FS_AddElement
<1>2. CASE outs[n + 1] # o
  <2>1. EndedAs(outs, n + 1, o) = EndedAs(outs, n, o)
    BY <1>2 DEF EndedAs
  <2>2. QED
    BY <1>2, <2>1, EndedAsFinite
<1>3. QED
  BY <1>1, <1>2

\* run_step_with_retries: the end of an attempt, which is paid for or the last.
LEMMA EndIsPaid ==
  ASSUME TypeOK, PaidInv, phase # "over",
         NEW outcome \in Answers \cup Retry!Outcomes, Ends(outcome)
  PROVE  PaidInv'
<1> DEFINE n == Len(outcomes)
<1>1. /\ n \in Nat /\ outcomes \in Seq(Answers \cup Retry!Outcomes)
      /\ outcomes' = Append(outcomes, outcome)
  BY DEF TypeOK, Ends
<1>2. /\ Len(outcomes') = n + 1 /\ outcomes' # <<>>
      /\ outcomes'[n + 1] = outcome
      /\ \A i \in 1 .. n : outcomes'[i] = outcomes[i]
  BY <1>1
<1>3. ASSUME NEW o
      PROVE  EndedAs(outcomes', n, o) = EndedAs(outcomes, n, o)
  BY <1>2 DEF EndedAs
<1>4. Retry!Used(outcomes') = Spent(outcome)
  <2>1. (n + 1) - 1 = n
    BY <1>1
  <2>2. {i \in 1 .. (Len(outcomes') - 1) : outcomes'[i] = outcomes'[Len(outcomes')]}
          = EndedAs(outcomes', n, outcome)
    BY <1>2, <2>1 DEF EndedAs
  <2>3. Retry!Used(outcomes') = Cardinality(EndedAs(outcomes', n, outcome))
    BY <2>2 DEF Retry!Used, Retry!Cardinality, Cardinality
  <2>4. QED
    BY <1>3, <2>3 DEF Spent
<1>5. ASSUME NEW o
      PROVE  /\ Spent(o)' = Spent(o) + IF outcome = o THEN 1 ELSE 0
             /\ Spent(o) \in Nat
  <2>1. Spent(o)' = Cardinality(EndedAs(outcomes', n + 1, o))
    BY <1>2 DEF Spent
  <2>2. n \in Nat
    BY <1>1
  <2> HIDE DEF n
  <2>3. Cardinality(EndedAs(outcomes', n + 1, o)) =
          Cardinality(EndedAs(outcomes', n, o)) + IF outcome = o THEN 1 ELSE 0
    BY <1>2, <2>2, EndedAsNext
  <2>4. Spent(o) = Cardinality(EndedAs(outcomes, n, o))
    BY DEF Spent, n
  <2>5. QED
    BY <1>3, <2>1, <2>2, <2>3, <2>4, EndedAsFinite
<1>6. Retry!Retried(outcomes') <=> Spent(outcome) < Retry!Budget(outcome)
  BY <1>2, <1>4 DEF Retry!Retried
<1>7. phase' = IF Retry!Retried(outcomes') THEN "pause" ELSE "over"
  BY DEF Ends
<1>8. /\ Spent("TransientInfra") + Spent("ProtocolViolation") = n
      /\ Spent("TransientInfra") <= TransientMax
      /\ Spent("ProtocolViolation") <= ProtocolMax
  BY DEF PaidInv
<1>9. CASE Retry!Retried(outcomes')
  <2>1. Spent(outcome) < Retry!Budget(outcome) /\ phase' = "pause"
    BY <1>6, <1>7, <1>9
  <2>2. outcome \in {"TransientInfra", "ProtocolViolation"}
    BY <1>5, <2>1 DEF Retry!Budget
  <2>3. Retry!Budget(outcome) = IF outcome = "TransientInfra" THEN TransientMax ELSE ProtocolMax
    BY <2>2 DEF Retry!Budget
  <2> HIDE DEF n
  <2>4. QED
    BY <1>1, <1>2, <1>5, <1>8, <2>1, <2>2, <2>3, BoundsAssumption DEF PaidInv
<1>10. CASE ~Retry!Retried(outcomes')
  <2> HIDE DEF n
  <2>1. Len(outcomes') <= 1 + TransientMax + ProtocolMax
    BY <1>1, <1>2, <1>5, <1>8, BoundsAssumption
  <2>2. QED
    BY <1>7, <1>10, <2>1 DEF PaidInv
<1>11. QED
  BY <1>9, <1>10

\* What the two budgets allow, and the first attempt.
AttemptsBounded == Len(outcomes) <= 1 + TransientMax + ProtocolMax

\* A kill does not reach the retries (KillStops is false): what ends the calls of a
\* step is its budgets, of which each retry takes one, whoever kills whatever when.
THEOREM BudgetsEndTheCalls == Spec => []AttemptsBounded
<1>1. Init => PaidInv
  <2> SUFFICES ASSUME Init PROVE PaidInv
    OBVIOUS
  <2>1. outcomes = <<>> /\ Len(outcomes) = 0 /\ phase # "over"
    BY DEF Init
  <2>2. \A o : EndedAs(outcomes, Len(outcomes), o) = {}
    BY <2>1 DEF EndedAs
  <2>3. QED
    BY <2>1, <2>2, FS_EmptySet, BoundsAssumption DEF PaidInv, Spent
<1>2. TypeOK /\ PaidInv /\ [Next]_vars => PaidInv'
  <2> SUFFICES ASSUME TypeOK, PaidInv, [Next]_vars PROVE PaidInv'
    OBVIOUS
  <2>1. CASE SpawnFails
    <3>1. PICK outcome \in {"HardInfra", "TransientInfra"} : Ends(outcome)
      BY <2>1 DEF SpawnFails
    <3>2. outcome \in Answers \cup Retry!Outcomes /\ phase # "over"
      BY <2>1 DEF SpawnFails, Retry!Outcomes
    <3>3. QED
      BY <3>1, <3>2, EndIsPaid
  <2>2. CASE Drained
    <3>1. Ends(CallOutcome) /\ CallOutcome \in Answers \cup Retry!Outcomes /\ phase # "over"
      BY <2>2, OutcomeIsOne DEF Drained, Retry!Outcomes
    <3>2. QED
      BY <3>1, EndIsPaid
  <2>3. CASE ~SpawnFails /\ ~Drained
    <3>1. UNCHANGED outcomes /\ (phase' = "over" <=> phase = "over")
      BY <2>3 DEF Next, Step, Spawn, WaitReturns, TimesOut, KillChild, NextAttempt, List, Kill,
                  Pause, WriteLine, Tear, LeaveHolder, HolderEnds, ChildExits, vars
    <3>2. QED
      BY <3>1 DEF PaidInv, Spent
  <2>4. QED
    BY <2>1, <2>2, <2>3
<1>3. TypeOK /\ PaidInv => AttemptsBounded
  <2> SUFFICES ASSUME TypeOK, PaidInv PROVE AttemptsBounded
    OBVIOUS
  <2>1. Len(outcomes) \in Nat
    BY DEF TypeOK
  <2>2. CASE phase = "over"
    BY <2>2 DEF PaidInv, AttemptsBounded
  <2>3. CASE phase # "over"
    <3>1. Spent("TransientInfra") \in Nat /\ Spent("ProtocolViolation") \in Nat
      BY <2>1, EndedAsFinite DEF Spent
    <3>2. QED
      BY <2>3, <3>1, BoundsAssumption DEF PaidInv, AttemptsBounded
  <2>4. QED
    BY <2>2, <2>3
<1>4. QED
  BY <1>1, <1>2, <1>3, CallTypes, PTL DEF Spec
=============================================================================
