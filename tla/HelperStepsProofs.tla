------------------------- MODULE HelperStepsProofs -------------------------
(***************************************************************************)
(* Theorems about HelperSteps, for every cap, every pair of retry budgets, *)
(* every set of findings and every number of resumes. HInv is inductive;   *)
(* the properties follow from it. With CountInv, which counts the attempts *)
(* by their outcomes, the steps implement StepRetry; with WorkLeft their   *)
(* loops come to an end; RoundsInv and FirstSidecars say what holds of two *)
(* comments that the code does not keep in general.                        *)
(***************************************************************************)
EXTENDS HelperSteps, FiniteSetTheorems, TLAPS

\* The calls of the attempts before this one and those of this one, when the
\* next attempt begins.
LEMMA AttemptProduct ==
  ASSUME NEW n \in Nat, NEW m \in Nat
  PROVE  /\ n * m \in Nat
         /\ (n + 1) * m = n * m + m
         /\ ((n + 1) - 1) * m = n * m
<1>1. n * m \in Nat
  BY SMT
<1>2. (n + 1) * m = n * m + m
  BY SMT
<1>3. (n + 1) - 1 = n
  BY SMT
<1>4. QED
  BY <1>1, <1>2, <1>3

LEMMA InitHolds == Init => HInv
<1> SUFFICES ASSUME Init PROVE HInv
  OBVIOUS
<1> USE IterationsAssumption, BudgetsAssumption, ResumesAssumption
<1>1. TypeOK
  <2>1. outcomes \in Seq(Outcomes)
    BY DEF Init
  <2>2. /\ kind \in Kinds /\ phase \in Phases /\ prior_findings \in Findings \cup {"none"}
        /\ outcome \in Outcomes \cup {"none"} /\ prior_outputs \in BOOLEAN
    BY DEF Init, Kinds, Phases
  <2>3. /\ attempt \in 1 .. (1 + TransientMax + ProtocolMax)
        /\ transient_used \in 0 .. TransientMax
        /\ protocol_used \in 0 .. ProtocolMax
    BY DEF Init
  <2>4. /\ iteration \in 0 .. (MaxIterations + 1)
        /\ resumes \in 0 .. MaxResumes /\ fix_waves \in 0 .. MaxIterations
        /\ calls \in Nat
    BY DEF Init
  <2>5. sidecars \subseteq 1 .. MaxIterations /\ dispatched \subseteq sidecars
    BY DEF Init
  <2>6. QED
    BY <2>1, <2>2, <2>3, <2>4, <2>5 DEF TypeOK
<1>2. LoopInv
  BY DEF Init, LoopInv
<1>3. RetryInv
  <2>1. 0 * MaxIterations = 0 /\ 1 * MaxIterations = MaxIterations
    BY SMT
  <2>2. attempt = 1 /\ calls = 0 /\ iteration = 0 /\ transient_used = 0 /\ protocol_used = 0
    BY DEF Init
  <2>3. (attempt - 1) * MaxIterations = 0 /\ attempt * MaxIterations = MaxIterations
    BY <2>1, <2>2
  <2>4. QED
    BY <2>2, <2>3 DEF RetryInv
<1>4. QED
  BY <1>1, <1>2, <1>3 DEF HInv

LEMMA StepHolds == HInv /\ [Next]_vars => HInv'
<1> SUFFICES ASSUME HInv, [Next]_vars PROVE HInv'
  OBVIOUS
<1> USE IterationsAssumption, BudgetsAssumption, ResumesAssumption, FindingsAssumption
<1> DEFINE Done == (attempt - 1) * MaxIterations
<1>0. TypeOK /\ LoopInv /\ RetryInv
  BY DEF HInv
<1>p. /\ attempt \in Nat /\ attempt - 1 \in Nat /\ MaxIterations \in Nat
      /\ Done \in Nat
      /\ attempt * MaxIterations = Done + MaxIterations
  <2>1. attempt - 1 \in Nat /\ attempt = (attempt - 1) + 1 /\ MaxIterations \in Nat
    BY <1>0 DEF TypeOK
  <2>2. QED
    BY <2>1, AttemptProduct
<1> HIDE DEF Done
<1>q. ASSUME UNCHANGED attempt, calls' <= Done + iteration', calls' <= Done + MaxIterations,
             UNCHANGED <<transient_used, protocol_used>>
      PROVE  RetryInv'
  <2>1. attempt' * MaxIterations = Done + MaxIterations
    BY <1>p, <1>q
  <2>2. (attempt' - 1) * MaxIterations = Done
    BY <1>p, <1>q DEF Done
  <2>3. attempt' = 1 + transient_used' + protocol_used'
    BY <1>0, <1>q DEF RetryInv
  <2>4. QED
    BY <1>q, <2>1, <2>2, <2>3 DEF RetryInv
<1>r. calls <= Done + iteration /\ calls <= Done + MaxIterations
  BY <1>0, <1>p DEF RetryInv, Done
<1>1. CASE CapReached
  <2>1. TypeOK' /\ LoopInv'
    BY <1>1, <1>0 DEF CapReached, AttemptEnds, OverCap, retryVars, TypeOK, LoopInv,
                      Kinds, Phases, Outcomes, SidecarOfPrevious
  <2>2. calls' <= Done + iteration' /\ calls' <= Done + MaxIterations
    BY <1>1, <1>0, <1>p, <1>r DEF CapReached, TypeOK
  <2>3. RetryInv'
    BY <1>1, <1>q, <2>2 DEF CapReached, retryVars
  <2>4. QED
    BY <2>1, <2>3 DEF HInv
<1>2. CASE BudgetExceeded
  <2>1. TypeOK' /\ LoopInv'
    BY <1>2, <1>0 DEF BudgetExceeded, AttemptEnds, OverCap, retryVars, TypeOK, LoopInv,
                      Kinds, Phases, Outcomes, SidecarOfPrevious
  <2>2. calls' <= Done + iteration' /\ calls' <= Done + MaxIterations
    BY <1>2, <1>0, <1>p, <1>r DEF BudgetExceeded, TypeOK
  <2>3. RetryInv'
    BY <1>2, <1>q, <2>2 DEF BudgetExceeded, retryVars
  <2>4. QED
    BY <2>1, <2>3 DEF HInv
<1>3. CASE CallHelper
  <2>1. TypeOK' /\ LoopInv'
    BY <1>3, <1>0 DEF CallHelper, OverCap, retryVars, TypeOK, LoopInv,
                      Kinds, Phases, Outcomes, SidecarOfPrevious
  <2>2. calls' <= Done + iteration' /\ calls' <= Done + MaxIterations
    BY <1>3, <1>0, <1>p, <1>r DEF CallHelper, OverCap, TypeOK
  <2>3. RetryInv'
    BY <1>3, <1>q, <2>2 DEF CallHelper, retryVars
  <2>4. QED
    BY <2>1, <2>3 DEF HInv
<1>4. ASSUME NEW o \in Outcomes, HelperConcludes(o) PROVE HInv'
  <2>1. TypeOK' /\ LoopInv'
    BY <1>4, <1>0 DEF HelperConcludes, AttemptEnds, retryVars, loopVars, TypeOK, LoopInv,
                      Kinds, Phases, Outcomes, SidecarOfPrevious
  <2>2. calls' <= Done + iteration' /\ calls' <= Done + MaxIterations
    BY <1>4, <1>r DEF HelperConcludes, loopVars
  <2>3. RetryInv'
    BY <1>4, <1>q, <2>2 DEF HelperConcludes, retryVars
  <2>4. QED
    BY <2>1, <2>3 DEF HInv
<1>5. ASSUME NEW f \in Findings \cup {"none"}, FixRequired(f) PROVE HInv'
  <2>1. TypeOK' /\ LoopInv'
    BY <1>5, <1>0 DEF FixRequired, AttemptEnds, retryVars, TypeOK, LoopInv,
                      Kinds, Phases, Outcomes, SidecarOfPrevious
  <2>2. calls' <= Done + iteration' /\ calls' <= Done + MaxIterations
    BY <1>5, <1>r DEF FixRequired
  <2>3. RetryInv'
    BY <1>5, <1>q, <2>2 DEF FixRequired, retryVars
  <2>4. QED
    BY <2>1, <2>3 DEF HInv
<1>6. CASE WaitingForHandoffs
  <2>1. TypeOK' /\ LoopInv'
    BY <1>6, <1>0 DEF WaitingForHandoffs, retryVars, loopVars, TypeOK, LoopInv,
                      Kinds, Phases, Outcomes, SidecarOfPrevious
  <2>2. calls' <= Done + iteration' /\ calls' <= Done + MaxIterations
    BY <1>6, <1>r DEF WaitingForHandoffs, loopVars
  <2>3. RetryInv'
    BY <1>6, <1>q, <2>2 DEF WaitingForHandoffs, retryVars
  <2>4. QED
    BY <2>1, <2>3 DEF HInv
<1>7. CASE FixWave
  <2>1. TypeOK' /\ LoopInv'
    BY <1>7, <1>0 DEF FixWave, AttemptEnds, retryVars, TypeOK, LoopInv,
                      Kinds, Phases, Outcomes, SidecarOfPrevious
  <2>2. calls' <= Done + iteration' /\ calls' <= Done + MaxIterations
    BY <1>7, <1>r DEF FixWave
  <2>3. RetryInv'
    BY <1>7, <1>q, <2>2 DEF FixWave, retryVars
  <2>4. QED
    BY <2>1, <2>3 DEF HInv
<1>8. CASE Handoffs
  <2>0. iteration \in 1 .. MaxIterations
    BY <1>8, <1>0 DEF Handoffs, LoopInv
  <2>a. sidecars' \subseteq 1 .. MaxIterations /\ dispatched' \subseteq sidecars'
    BY <1>8, <1>0, <2>0 DEF Handoffs, TypeOK
  <2>b. TypeOK'
    BY <1>8, <1>0, <2>a DEF Handoffs, AttemptEnds, retryVars, TypeOK, Phases, Outcomes
  <2>c. LoopInv'
    BY <1>8, <1>0, <2>0 DEF Handoffs, AttemptEnds, TypeOK, LoopInv
  <2>1. TypeOK' /\ LoopInv'
    BY <2>b, <2>c
  <2>2. calls' <= Done + iteration' /\ calls' <= Done + MaxIterations
    BY <1>8, <1>r DEF Handoffs
  <2>3. RetryInv'
    BY <1>8, <1>q, <2>2 DEF Handoffs, retryVars
  <2>4. QED
    BY <2>1, <2>3 DEF HInv
<1>9. CASE Retry
  <2>1. /\ transient_used' \in 0 .. TransientMax
        /\ protocol_used' \in 0 .. ProtocolMax
        /\ attempt' = 1 + transient_used' + protocol_used'
    BY <1>9, <1>0 DEF Retry, RetriesTransient, RetriesProtocol, TypeOK, RetryInv
  <2>2. attempt' \in 1 .. (1 + TransientMax + ProtocolMax)
    <3> DEFINE t == transient_used'  p == protocol_used'
    <3>1. t \in 0 .. TransientMax /\ p \in 0 .. ProtocolMax
      BY <2>1
    <3> HIDE DEF t, p
    <3>2. 1 + t + p \in 1 .. (1 + TransientMax + ProtocolMax)
      BY <3>1
    <3>3. QED
      BY <2>1, <3>2 DEF t, p
  <2>3. TypeOK'
    <3>1. /\ phase' = "head" /\ outcome' = "none" /\ iteration' = 0
          /\ prior_findings' = "none" /\ prior_outputs' = FALSE
          /\ dispatched' = {} /\ fix_waves' = 0
          /\ UNCHANGED <<kind, sidecars, resumes, calls, outcomes>>
      BY <1>9 DEF Retry, LoopStart
    <3>2. /\ kind' \in Kinds /\ phase' \in Phases /\ outcome' \in Outcomes \cup {"none"}
          /\ prior_findings' \in Findings \cup {"none"} /\ prior_outputs' \in BOOLEAN
      BY <1>0, <3>1 DEF TypeOK, Phases
    <3>3. /\ iteration' \in 0 .. (MaxIterations + 1) /\ resumes' \in 0 .. MaxResumes
          /\ fix_waves' \in 0 .. MaxIterations /\ calls' \in Nat
      BY <1>0, <3>1 DEF TypeOK
    <3>4. /\ sidecars' \subseteq 1 .. MaxIterations /\ dispatched' \subseteq sidecars'
          /\ outcomes' \in Seq(Outcomes)
      BY <1>0, <3>1 DEF TypeOK
    <3>5. QED
      BY <2>1, <2>2, <3>2, <3>3, <3>4 DEF TypeOK
  <2>4. LoopInv'
    BY <1>9, <1>0 DEF Retry, LoopStart, LoopInv, TypeOK
  <2>5. calls' <= attempt * MaxIterations
    BY <1>9, <1>r, <1>p DEF Retry
  <2>6. /\ attempt' = attempt + 1 /\ iteration' = 0
    BY <1>9 DEF Retry, LoopStart
  <2>7. /\ attempt' * MaxIterations = attempt * MaxIterations + MaxIterations
        /\ (attempt' - 1) * MaxIterations = attempt * MaxIterations
        /\ attempt * MaxIterations \in Nat
    BY <2>6, <1>p, AttemptProduct
  <2>8. calls' \in Nat
    BY <2>3 DEF TypeOK
  <2>9. RetryInv'
    <3>1. calls' <= attempt * MaxIterations + iteration'
      BY <2>5, <2>6, <2>7, <2>8
    <3>2. calls' <= attempt * MaxIterations + MaxIterations
      BY <2>5, <2>7, <2>8, <1>p
    <3>3. QED
      BY <2>1, <2>7, <3>1, <3>2 DEF RetryInv
  <2>10. QED
    BY <2>3, <2>4, <2>9 DEF HInv
<1>10. CASE Return
  <2>1. TypeOK' /\ LoopInv'
    BY <1>10, <1>0 DEF Return, retryVars, loopVars, TypeOK, LoopInv,
                       Kinds, Phases, Outcomes, SidecarOfPrevious
  <2>2. calls' <= Done + iteration' /\ calls' <= Done + MaxIterations
    BY <1>10, <1>r DEF Return, loopVars
  <2>3. RetryInv'
    BY <1>10, <1>q, <2>2 DEF Return, retryVars
  <2>4. QED
    BY <2>1, <2>3 DEF HInv
<1>11. ASSUME NEW step \in Kinds, Enter(step), resumes' \in 0 .. MaxResumes PROVE HInv'
  <2>1. TypeOK'
    <3>1. outcomes' \in Seq(Outcomes)
      BY <1>11 DEF Enter
    <3>2. /\ attempt' = 1 /\ transient_used' = 0 /\ protocol_used' = 0
          /\ phase' = "head" /\ outcome' = "none" /\ iteration' = 0
          /\ prior_findings' = "none" /\ prior_outputs' = FALSE
          /\ dispatched' = {} /\ fix_waves' = 0 /\ calls' = 0
          /\ kind' = step /\ sidecars' = sidecars
      BY <1>11 DEF Enter, LoopStart
    <3>3. /\ kind' \in Kinds /\ phase' \in Phases /\ outcome' \in Outcomes \cup {"none"}
          /\ prior_findings' \in Findings \cup {"none"} /\ prior_outputs' \in BOOLEAN
      BY <1>11, <3>2 DEF Phases
    <3>4. /\ attempt' \in 1 .. (1 + TransientMax + ProtocolMax)
          /\ transient_used' \in 0 .. TransientMax
          /\ protocol_used' \in 0 .. ProtocolMax
      BY <3>2
    <3>5. /\ iteration' \in 0 .. (MaxIterations + 1) /\ resumes' \in 0 .. MaxResumes
          /\ fix_waves' \in 0 .. MaxIterations /\ calls' \in Nat
      BY <1>11, <3>2
    <3>6. sidecars' \subseteq 1 .. MaxIterations /\ dispatched' \subseteq sidecars'
      BY <1>0, <3>2 DEF TypeOK
    <3>7. QED
      BY <3>1, <3>3, <3>4, <3>5, <3>6 DEF TypeOK
  <2>2. LoopInv'
    BY <1>11, <1>0 DEF Enter, LoopStart, LoopInv, TypeOK
  <2>3. attempt' = 1 /\ transient_used' = 0 /\ protocol_used' = 0 /\ calls' = 0 /\ iteration' = 0
    BY <1>11 DEF Enter, LoopStart
  <2>4. attempt' * MaxIterations = MaxIterations /\ (attempt' - 1) * MaxIterations = 0
    BY <2>3, SMT
  <2>5. RetryInv'
    BY <2>3, <2>4 DEF RetryInv
  <2>6. QED
    BY <2>1, <2>2, <2>5 DEF HInv
<1>12. CASE NextStep
  BY <1>12, <1>11, <1>0 DEF NextStep, Kinds, TypeOK
<1>13. CASE Resume
  <2>1. kind \in Kinds /\ resumes' \in 0 .. MaxResumes
    BY <1>13, <1>0 DEF Resume, TypeOK
  <2>2. QED
    BY <1>13, <1>11, <2>1 DEF Resume
<1>14. CASE UNCHANGED vars
  <2>1. TypeOK' /\ LoopInv'
    BY <1>14, <1>0 DEF vars, retryVars, loopVars, TypeOK, LoopInv, SidecarOfPrevious
  <2>2. calls' <= Done + iteration' /\ calls' <= Done + MaxIterations
    BY <1>14, <1>r DEF vars, loopVars
  <2>3. RetryInv'
    BY <1>14, <1>q, <2>2 DEF vars, retryVars
  <2>4. QED
    BY <2>1, <2>3 DEF HInv
<1>15. QED
  BY <1>1, <1>2, <1>3, <1>4, <1>5, <1>6, <1>7, <1>8, <1>9, <1>10, <1>12, <1>13, <1>14
     DEF Next, Work

\* The inductive invariant, and with it the types, holds of every behaviour.
THEOREM HelperInvariant == Spec => []HInv
  BY InitHolds, StepHolds, PTL DEF Spec

\* Type correctness: in particular no counter passes its budget or its cap.
THEOREM HelperTypes == Spec => []TypeOK
<1>1. HInv => TypeOK
  BY DEF HInv
<1>2. QED
  BY HelperInvariant, <1>1, PTL

\* However the two budgets and the cap are chosen, a step calls the helper at
\* most MaxIterations times per attempt and pays for every attempt.
THEOREM CallsAreBounded == Spec => []CallsBounded
<1>1. HInv => CallsBounded
  BY DEF HInv, RetryInv, CallsBounded
<1>2. QED
  BY HelperInvariant, <1>1, PTL

\* A helper call that follows a dispatch of hand-offs is given their outputs.
THEOREM OutputsReachHelper == Spec => []OutputsDelivered
<1>1. HInv => OutputsDelivered
  <2> SUFFICES ASSUME HInv, phase = "helper", iteration - 1 \in dispatched
               PROVE  prior_outputs
    BY DEF OutputsDelivered
  <2>1. iteration - 1 \in sidecars /\ iteration - 1 \in 1 .. MaxIterations
    BY DEF HInv, TypeOK
  <2>2. iteration > 1
    BY <2>1, IterationsAssumption DEF HInv, TypeOK
  <2>3. QED
    BY <2>1, <2>2 DEF HInv, LoopInv, SidecarOfPrevious
<1>2. QED
  BY HelperInvariant, <1>1, PTL

\* The early exit for lack of progress follows a fix wave of the same attempt.
THEOREM ProgressWasTried == Spec => NoProgressAfterFix
<1>1. HInv /\ [Next]_vars =>
        (phase = "helper" /\ outcome' = "SemanticMistake" => fix_waves > 0)
  <2> SUFFICES ASSUME HInv, [Next]_vars, phase = "helper", outcome' = "SemanticMistake"
               PROVE  fix_waves > 0
    OBVIOUS
  <2>1. outcome = "none"
    BY DEF HInv, LoopInv
  <2>2. PICK f \in Findings \cup {"none"} : FixRequired(f)
    BY <2>1 DEF Next, Work, vars, CapReached, BudgetExceeded, CallHelper, HelperConcludes,
                AttemptEnds, WaitingForHandoffs, FixWave, Handoffs, Retry, Return,
                NextStep, Resume, Enter
  <2>3. prior_findings # "none"
    BY <2>1, <2>2 DEF FixRequired, SameFindings
  <2>4. QED
    BY <2>3 DEF HInv, LoopInv
<1>2. QED
  BY HelperInvariant, <1>1, PTL DEF Spec, NoProgressAfterFix

-----------------------------------------------------------------------------
(* The steps implement StepRetry: what was paid for is what was attempted. *)

\* The first n attempts that ended as o.
EndedAs(outs, n, o) == {i \in 1 .. n : outs[i] = o}

\* The attempts that a retry, or the one under way, came after.
Paid == IF phase \in {"attempted", "returned"} THEN Len(outcomes) - 1 ELSE Len(outcomes)

\* The two counters are the numbers of attempts that ended as they say; the step
\* is under way only while its last outcome has a budget left, and is over only
\* when it has none.
CountInv ==
  /\ Cardinality(EndedAs(outcomes, Paid, "TransientInfra")) = transient_used
  /\ Cardinality(EndedAs(outcomes, Paid, "ProtocolViolation")) = protocol_used
  /\ phase \in {"attempted", "returned"} =>
       outcomes # <<>> /\ outcome = outcomes[Len(outcomes)]
  /\ phase \notin {"attempted", "returned"} => outcomes = <<>> \/ Retries!Retried(outcomes)
  /\ phase = "returned" => GivesUp

\* The attempts that ended in one way are finitely many.
LEMMA EndedAsFinite ==
  ASSUME NEW outs, NEW n \in Nat, NEW o
  PROVE  IsFiniteSet(EndedAs(outs, n, o)) /\ Cardinality(EndedAs(outs, n, o)) \in Nat
<1>1. IsFiniteSet(1 .. n)
  BY FS_Interval
<1>2. EndedAs(outs, n, o) \in SUBSET (1 .. n)
  BY DEF EndedAs
<1>3. QED
  BY <1>1, <1>2, FS_Subset, FS_CardinalityType

\* One more attempt adds to the count of its outcome and to no other.
LEMMA EndedAsNext ==
  ASSUME NEW outs, NEW n \in Nat, NEW o
  PROVE  Cardinality(EndedAs(outs, n + 1, o)) =
           Cardinality(EndedAs(outs, n, o)) + IF outs[n + 1] = o THEN 1 ELSE 0
<1>1. CASE outs[n + 1] = o
  <2>1. EndedAs(outs, n + 1, o) = EndedAs(outs, n, o) \cup {n + 1}
    BY <1>1 DEF EndedAs
  <2>2. n + 1 \notin EndedAs(outs, n, o)
    BY DEF EndedAs
  <2>3. QED
    BY <1>1, <2>1, <2>2, EndedAsFinite, FS_AddElement
<1>2. CASE outs[n + 1] # o
  <2>1. EndedAs(outs, n + 1, o) = EndedAs(outs, n, o)
    BY <1>2 DEF EndedAs
  <2>2. QED
    BY <1>2, <2>1, EndedAsFinite
<1>3. QED
  BY <1>1, <1>2

\* The attempts that were made before stay as they ended.
LEMMA EndedAsKept ==
  ASSUME NEW outs \in Seq(Outcomes), NEW o \in Outcomes, NEW x
  PROVE  EndedAs(Append(outs, o), Len(outs), x) = EndedAs(outs, Len(outs), x)
<1>1. \A i \in 1 .. Len(outs) : Append(outs, o)[i] = outs[i]
  OBVIOUS
<1>2. QED
  BY <1>1 DEF EndedAs

\* StepRetry's count of what the last outcome has cost so far.
LEMMA UsedIsCounted ==
  ASSUME NEW outs
  PROVE  Retries!Used(outs) = Cardinality(EndedAs(outs, Len(outs) - 1, outs[Len(outs)]))
BY DEF Retries!Used, EndedAs, Cardinality, Retries!Cardinality

\* When an attempt is over, StepRetry makes another one exactly if the code does.
LEMMA RetriedIffBudget ==
  ASSUME HInv, CountInv, phase \in {"attempted", "returned"}
  PROVE  Retries!Retried(outcomes) <=> ~GivesUp
<1> USE BudgetsAssumption
<1>1. /\ outcomes # <<>> /\ outcome = outcomes[Len(outcomes)]
      /\ outcomes \in Seq(Outcomes) /\ Paid = Len(outcomes) - 1 /\ Len(outcomes) - 1 \in Nat
  BY DEF CountInv, Paid, HInv, TypeOK
<1>2. outcome \in Outcomes
  BY <1>1
<1>3. Retries!Used(outcomes) = Cardinality(EndedAs(outcomes, Paid, outcome))
  BY <1>1, UsedIsCounted
<1>4. Retries!Used(outcomes) \in Nat
  BY <1>1, <1>3, EndedAsFinite
<1>5. Retries!Retried(outcomes) <=> Retries!Used(outcomes) < Retries!Budget(outcome)
  BY <1>1 DEF Retries!Retried
<1>6. CASE outcome = "TransientInfra"
  BY <1>3, <1>5, <1>6 DEF CountInv, GivesUp, RetriesTransient, RetriesProtocol, Retries!Budget
<1>7. CASE outcome = "ProtocolViolation"
  BY <1>3, <1>5, <1>7 DEF CountInv, GivesUp, RetriesTransient, RetriesProtocol, Retries!Budget
<1>8. CASE outcome \notin {"TransientInfra", "ProtocolViolation"}
  BY <1>4, <1>5, <1>8 DEF GivesUp, RetriesTransient, RetriesProtocol, Retries!Budget
<1>9. QED
  BY <1>6, <1>7, <1>8

\* The end of an attempt, in both specifications.
LEMMA AttemptIsAttempt ==
  ASSUME HInv, CountInv, phase \notin {"attempted", "returned"},
         NEW o \in Outcomes, AttemptEnds(o), UNCHANGED retryVars
  PROVE  CountInv' /\ Retries!Attempt
<1>1. /\ outcomes \in Seq(Outcomes) /\ Len(outcomes) \in Nat /\ Paid = Len(outcomes)
      /\ phase' = "attempted" /\ outcome' = o
      /\ UNCHANGED <<transient_used, protocol_used>>
  BY DEF HInv, TypeOK, Paid, AttemptEnds, retryVars
<1>2. /\ outcomes' = Append(outcomes, o) /\ Len(outcomes') = Len(outcomes) + 1
      /\ outcomes' # <<>> /\ outcomes'[Len(outcomes')] = o
  BY <1>1 DEF AttemptEnds
<1>3. Paid' = Len(outcomes)
  BY <1>1, <1>2 DEF Paid
<1>4. \A x : EndedAs(outcomes', Paid', x) = EndedAs(outcomes, Paid, x)
  BY <1>1, <1>2, <1>3, EndedAsKept
<1>5. CountInv'
  BY <1>1, <1>2, <1>4 DEF CountInv
<1>6. Retries!Attempt
  BY <1>1, <1>2 DEF CountInv, Retries!Attempt, Retries!Outcomes, Outcomes
<1>7. QED
  BY <1>5, <1>6

\* A step inside an attempt: StepRetry does not move.
LEMMA InsideAttempt ==
  ASSUME HInv, CountInv, phase \notin {"attempted", "returned"},
         phase' \notin {"attempted", "returned"}, UNCHANGED <<retryVars, outcomes>>
  PROVE  CountInv' /\ UNCHANGED Retries!vars
BY DEF CountInv, Paid, retryVars, Retries!vars

\* The next attempt: the one before is paid for.
LEMMA RetryIsPaid ==
  ASSUME HInv, CountInv, Retry
  PROVE  CountInv' /\ UNCHANGED Retries!vars
<1>1. /\ phase = "attempted" /\ phase' = "head" /\ UNCHANGED outcomes
      /\ outcomes \in Seq(Outcomes) /\ outcomes # <<>> /\ outcome = outcomes[Len(outcomes)]
      /\ ~GivesUp
  BY DEF Retry, LoopStart, GivesUp, HInv, TypeOK, CountInv
<1>2. Retries!Retried(outcomes)
  BY <1>1, RetriedIffBudget
<1> DEFINE n == Len(outcomes) - 1
<1>3. n \in Nat /\ n + 1 = Len(outcomes) /\ Paid = n /\ Paid' = n + 1
  BY <1>1 DEF Paid
<1>4. ASSUME NEW x
      PROVE  Cardinality(EndedAs(outcomes', Paid', x)) =
               Cardinality(EndedAs(outcomes, Paid, x)) + IF outcome = x THEN 1 ELSE 0
  <2> HIDE DEF n
  <2>1. QED
    BY <1>1, <1>3, EndedAsNext
<1>5. /\ transient_used' = transient_used + IF outcome = "TransientInfra" THEN 1 ELSE 0
      /\ protocol_used' = protocol_used + IF outcome = "ProtocolViolation" THEN 1 ELSE 0
  BY BudgetsAssumption DEF Retry, RetriesTransient, RetriesProtocol, HInv, TypeOK
<1>6. CountInv'
  BY <1>1, <1>2, <1>4, <1>5 DEF CountInv
<1>7. QED
  BY <1>1, <1>6 DEF Retries!vars

\* The next step, or a resume of the same: counters and outcomes start again.
LEMMA EnterIsBegin ==
  ASSUME NEW step, Enter(step)
  PROVE  CountInv' /\ Retries!Begin
<1>1. /\ phase = "returned" /\ phase' = "head" /\ outcomes' = <<>>
      /\ transient_used' = 0 /\ protocol_used' = 0
  BY DEF Enter, LoopStart
<1>2. Paid' = 0
  BY <1>1 DEF Paid
<1>3. \A x : EndedAs(outcomes', Paid', x) = {}
  BY <1>2 DEF EndedAs
<1>4. CountInv'
  BY <1>1, <1>3, FS_EmptySet DEF CountInv
<1>5. QED
  BY <1>1, <1>4 DEF Retries!Begin

\* Each step of the two helper steps keeps the counts and is a step of StepRetry, or
\* one that StepRetry does not see.
LEMMA StepRefines ==
  ASSUME HInv, CountInv, [Next]_vars
  PROVE  CountInv' /\ [Retries!Next]_Retries!vars
<1> USE DEF Retries!Next
<1>1. CASE CapReached
  BY <1>1, AttemptIsAttempt DEF CapReached, Outcomes
<1>2. CASE BudgetExceeded
  BY <1>2, AttemptIsAttempt DEF BudgetExceeded, Outcomes
<1>3. CASE CallHelper \/ WaitingForHandoffs
  BY <1>3, InsideAttempt DEF CallHelper, WaitingForHandoffs
<1>4. ASSUME NEW o \in Outcomes, HelperConcludes(o) PROVE CountInv' /\ [Retries!Next]_Retries!vars
  BY <1>4, AttemptIsAttempt DEF HelperConcludes
<1>5. ASSUME NEW f \in Findings \cup {"none"}, FixRequired(f)
      PROVE  CountInv' /\ [Retries!Next]_Retries!vars
  BY <1>5, AttemptIsAttempt, InsideAttempt DEF FixRequired, Outcomes
<1>6. CASE FixWave
  BY <1>6, AttemptIsAttempt, InsideAttempt DEF FixWave, Outcomes
<1>7. CASE Handoffs
  BY <1>7, AttemptIsAttempt, InsideAttempt DEF Handoffs, Outcomes
<1>8. CASE Retry
  BY <1>8, RetryIsPaid
<1>9. CASE Return
  <2>1. /\ phase = "attempted" /\ phase' = "returned" /\ GivesUp
        /\ UNCHANGED <<outcome, outcomes, transient_used, protocol_used>>
    BY <1>9 DEF Return, retryVars
  <2>2. ~Retries!Retried(outcomes) /\ outcomes # <<>>
    BY <2>1, RetriedIffBudget DEF CountInv
  <2>3. CountInv'
    BY <2>1 DEF CountInv, Paid, GivesUp, RetriesTransient, RetriesProtocol
  <2>4. Retries!Return
    BY <2>1, <2>2 DEF Retries!Return
  <2>5. QED
    BY <2>3, <2>4
<1>10. CASE NextStep \/ Resume
  BY <1>10, EnterIsBegin DEF NextStep, Resume
<1>11. CASE UNCHANGED vars
  BY <1>11 DEF vars, retryVars, CountInv, Paid, GivesUp, RetriesTransient, RetriesProtocol,
               Retries!vars
<1>12. QED
  BY <1>1, <1>2, <1>3, <1>4, <1>5, <1>6, <1>7, <1>8, <1>9, <1>10, <1>11 DEF Next, Work

\* run_step_with_retries: whatever the helper answers and whatever the fix waves do,
\* the attempts of a step are those that StepRetry promises, for every pair of
\* budgets and every cap.
THEOREM StepsImplementRetries == Spec => ImplementsRetries
<1>1. Init => CountInv /\ Retries!Init
  <2> SUFFICES ASSUME Init PROVE CountInv /\ Retries!Init
    OBVIOUS
  <2>1. \A x : EndedAs(outcomes, Paid, x) = {}
    BY DEF Init, Paid, EndedAs
  <2>2. QED
    BY <2>1, FS_EmptySet DEF Init, CountInv, Retries!Init
<1>2. QED
  BY <1>1, StepRefines, HelperInvariant, PTL DEF Spec, ImplementsRetries, Retries!Spec

-----------------------------------------------------------------------------
(* The steps come to an end, unless somebody resumes the job again and again. *)

\* How far the loop is from the end of the present round.
RoundRank ==
  CASE phase = "helper"                  -> 4
    [] phase \in {"fix_wave", "handoffs"} -> 3
    [] phase = "head"                    -> 2
    [] phase = "attempted"               -> 1
    [] OTHER                             -> 0

\* Steps to come, attempts to come, rounds to come, and the rest of this round.
WorkLeft ==
  << IF kind = "code_review" THEN 1 ELSE 0,
     1 + TransientMax + ProtocolMax - attempt,
     MaxIterations + 1 - iteration,
     RoundRank >>

\* The lexicographic order, which is well-founded on Nat.
Less(m, n) == \E i \in 1 .. 4 : m[i] < n[i] /\ \A j \in 1 .. (i - 1) : m[j] = n[j]

\* Whatever the helper, the waves and the hand-offs answer, each step of the
\* pipeline leaves less work.
WorkShrinks == [][Work => Less(WorkLeft', WorkLeft)]_vars

\* Nothing of it is below zero.
WorkCounted == WorkLeft \in Nat \X Nat \X Nat \X Nat

LEMMA WorkLeftNat == HInv => WorkCounted
<1> SUFFICES ASSUME HInv PROVE WorkCounted
  OBVIOUS
<1> USE IterationsAssumption, BudgetsAssumption DEF HInv, TypeOK
<1>1. (IF kind = "code_review" THEN 1 ELSE 0) \in Nat
  OBVIOUS
<1>2. 1 + TransientMax + ProtocolMax - attempt \in Nat
  OBVIOUS
<1>3. MaxIterations + 1 - iteration \in Nat
  OBVIOUS
<1>4. RoundRank \in Nat
  BY DEF RoundRank
<1>5. QED
  BY <1>1, <1>2, <1>3, <1>4 DEF WorkCounted, WorkLeft

\* Ways to have less work left.
LEMMA LessSteps ==
  ASSUME kind = "code_review", kind' # "code_review"
  PROVE  Less(WorkLeft', WorkLeft)
<1>1. WorkLeft'[1] < WorkLeft[1]
  BY DEF WorkLeft
<1>2. QED
  BY <1>1 DEF Less

LEMMA LessAttempts ==
  ASSUME kind' = kind, attempt \in Nat, attempt' \in Nat, attempt' > attempt
  PROVE  Less(WorkLeft', WorkLeft)
<1>0. \A m, n \in Nat : n > m =>
        1 + TransientMax + ProtocolMax - n < 1 + TransientMax + ProtocolMax - m
  BY BudgetsAssumption
<1>1. 1 + TransientMax + ProtocolMax - attempt' < 1 + TransientMax + ProtocolMax - attempt
  BY <1>0
<1>2. WorkLeft'[1] = WorkLeft[1] /\ WorkLeft'[2] < WorkLeft[2]
  BY <1>1 DEF WorkLeft
<1>3. QED
  BY <1>2 DEF Less

LEMMA LessRounds ==
  ASSUME kind' = kind, attempt' = attempt, iteration \in Nat, iteration' \in Nat,
         iteration' > iteration
  PROVE  Less(WorkLeft', WorkLeft)
<1>0. \A m, n \in Nat : n > m => MaxIterations + 1 - n < MaxIterations + 1 - m
  BY IterationsAssumption
<1>1. MaxIterations + 1 - iteration' < MaxIterations + 1 - iteration
  BY <1>0
<1>2. /\ WorkLeft'[1] = WorkLeft[1] /\ WorkLeft'[2] = WorkLeft[2]
      /\ WorkLeft'[3] < WorkLeft[3]
  BY <1>1 DEF WorkLeft
<1>3. QED
  BY <1>2 DEF Less

LEMMA LessOfRound ==
  ASSUME kind' = kind, attempt' = attempt, iteration' = iteration, RoundRank' < RoundRank
  PROVE  Less(WorkLeft', WorkLeft)
<1>1. /\ WorkLeft'[1] = WorkLeft[1] /\ WorkLeft'[2] = WorkLeft[2]
      /\ WorkLeft'[3] = WorkLeft[3] /\ WorkLeft'[4] < WorkLeft[4]
  BY DEF WorkLeft
<1>2. QED
  BY <1>1 DEF Less

\* run_helper_fix_loop and run_step_with_retries cannot go round for ever: the work
\* that is left is a quadruple of natural numbers, and every step that is not a
\* resume makes it smaller.  (That there is a step to take is Settles, which the
\* runs check.)
THEOREM WorkRunsOut == Spec => []WorkCounted /\ WorkShrinks
<1>1. HInv /\ [Next]_vars => (Work => Less(WorkLeft', WorkLeft))
  <2> SUFFICES ASSUME HInv, Work, HInv' PROVE Less(WorkLeft', WorkLeft)
    BY StepHolds DEF Next
  <2> USE IterationsAssumption, BudgetsAssumption
  <2>0. attempt \in Nat /\ attempt' \in Nat /\ iteration \in Nat /\ iteration' \in Nat
    BY DEF HInv, TypeOK
  <2>1. CASE CapReached \/ BudgetExceeded \/ CallHelper
    <3>1. UNCHANGED <<kind, attempt>> /\ iteration' = iteration + 1
      BY <2>1 DEF CapReached, BudgetExceeded, CallHelper, retryVars
    <3>2. QED
      BY <2>0, <3>1, LessRounds
  <2>2. ASSUME UNCHANGED <<kind, attempt, iteration>>, RoundRank' < RoundRank
        PROVE  Less(WorkLeft', WorkLeft)
    BY <2>2, LessOfRound
  <2>3. ASSUME NEW o \in Outcomes, HelperConcludes(o) PROVE Less(WorkLeft', WorkLeft)
    BY <2>2, <2>3 DEF HelperConcludes, AttemptEnds, retryVars, loopVars, RoundRank
  <2>4. ASSUME NEW f \in Findings \cup {"none"}, FixRequired(f) PROVE Less(WorkLeft', WorkLeft)
    BY <2>2, <2>4 DEF FixRequired, AttemptEnds, retryVars, RoundRank
  <2>5. CASE WaitingForHandoffs
    BY <2>2, <2>5 DEF WaitingForHandoffs, retryVars, loopVars, RoundRank
  <2>6. CASE FixWave
    BY <2>2, <2>6 DEF FixWave, AttemptEnds, retryVars, RoundRank
  <2>7. CASE Handoffs
    BY <2>2, <2>7 DEF Handoffs, AttemptEnds, retryVars, RoundRank
  <2>8. CASE Retry
    <3>1. kind' = kind /\ attempt' > attempt
      BY <2>0, <2>8 DEF Retry
    <3>2. QED
      BY <2>0, <3>1, LessAttempts
  <2>9. CASE Return
    BY <2>2, <2>9 DEF Return, retryVars, loopVars, RoundRank
  <2>10. CASE NextStep
    <3>1. kind = "code_review" /\ kind' # "code_review"
      BY <2>10 DEF NextStep, Enter
    <3>2. QED
      BY <3>1, LessSteps
  <2>11. QED
    BY <2>1, <2>3, <2>4, <2>5, <2>6, <2>7, <2>8, <2>9, <2>10 DEF Work
<1>2. QED
  BY <1>1, WorkLeftNat, HelperInvariant, PTL DEF Spec, WorkShrinks

-----------------------------------------------------------------------------
(* What a review round comes to. *)

Rounds == fix_waves + Cardinality(dispatched)

\* Each iteration that is over ran its fix wave or dispatched its hand-offs, and
\* no iteration did both.
RoundsInv ==
  /\ phase = "head" => dispatched \subseteq 1 .. iteration /\ Rounds = iteration
  /\ phase \in {"helper", "fix_wave", "handoffs"} =>
       dispatched \subseteq 1 .. (iteration - 1) /\ Rounds = iteration - 1
  /\ phase = "attempted" /\ OverCap(iteration) /\ outcome = "Success" => Rounds = MaxIterations

LEMMA RoundsKept == HInv /\ RoundsInv /\ [Next]_vars => RoundsInv'
<1> SUFFICES ASSUME HInv, RoundsInv, [Next]_vars PROVE RoundsInv'
  OBVIOUS
<1> USE IterationsAssumption
<1>0. iteration \in 0 .. (MaxIterations + 1) /\ fix_waves \in 0 .. MaxIterations
  BY DEF HInv, TypeOK
<1>a. phase = "head" => iteration <= MaxIterations
  BY DEF HInv, LoopInv
<1>b. phase \in {"helper", "fix_wave", "handoffs"} => iteration \in 1 .. MaxIterations
  BY DEF HInv, LoopInv
<1>c. ASSUME phase' = "attempted", UNCHANGED <<fix_waves, dispatched, iteration>>,
             phase \in {"helper", "fix_wave", "handoffs"}
      PROVE  RoundsInv'
  BY <1>b, <1>c DEF RoundsInv, OverCap
<1>d. ASSUME phase' = "head", iteration' = 0, fix_waves' = 0, dispatched' = {}
      PROVE  RoundsInv'
  <2>1. Rounds' = 0
    BY <1>d, FS_EmptySet DEF Rounds
  <2>2. QED
    BY <1>d, <2>1 DEF RoundsInv
<1>1. CASE CapReached
  <2>1. Rounds' = Rounds /\ Rounds = iteration /\ iteration = MaxIterations /\ phase' = "attempted"
    BY <1>1, <1>0, <1>a DEF CapReached, AttemptEnds, OverCap, RoundsInv, Rounds
  <2>2. QED
    BY <2>1 DEF RoundsInv
<1>2. CASE BudgetExceeded
  BY <1>2 DEF BudgetExceeded, AttemptEnds, RoundsInv
<1>3. CASE CallHelper
  <2>1. /\ phase = "head" /\ phase' = "helper" /\ iteration' = iteration + 1
        /\ dispatched' = dispatched /\ Rounds' = Rounds
    BY <1>3 DEF CallHelper, Rounds
  <2>2. iteration' - 1 = iteration
    BY <1>0, <2>1
  <2>3. QED
    BY <2>1, <2>2 DEF RoundsInv
<1>4. ASSUME NEW o \in Outcomes, HelperConcludes(o) PROVE RoundsInv'
  BY <1>4, <1>c DEF HelperConcludes, AttemptEnds, loopVars
<1>5. ASSUME NEW f \in Findings \cup {"none"}, FixRequired(f) PROVE RoundsInv'
  <2>1. CASE SameFindings(f)
    BY <1>5, <1>c, <2>1 DEF FixRequired, AttemptEnds
  <2>2. CASE ~SameFindings(f)
    BY <1>5, <2>2 DEF FixRequired, RoundsInv, Rounds
  <2>3. QED
    BY <2>1, <2>2
<1>6. CASE WaitingForHandoffs
  BY <1>6 DEF WaitingForHandoffs, loopVars, RoundsInv, Rounds
<1>7. CASE FixWave
  <2>1. CASE phase' = "attempted"
    BY <1>7, <1>c, <2>1 DEF FixWave, AttemptEnds
  <2>2. CASE phase' # "attempted"
    <3>1. /\ phase = "fix_wave" /\ phase' = "head" /\ fix_waves' = fix_waves + 1
          /\ UNCHANGED <<dispatched, iteration>>
      BY <1>7, <2>2 DEF FixWave, AttemptEnds
    <3>2. dispatched \subseteq 1 .. (iteration - 1) /\ Rounds = iteration - 1
      BY <3>1 DEF RoundsInv
    <3>3. Cardinality(dispatched) \in Nat
      <4>1. IsFiniteSet(1 .. (iteration - 1))
        BY <1>0, FS_Interval
      <4>2. QED
        BY <3>2, <4>1, FS_Subset, FS_CardinalityType
    <3>4. Rounds' = iteration'
      BY <1>0, <3>1, <3>2, <3>3 DEF Rounds
    <3>5. dispatched' \subseteq 1 .. iteration'
      BY <1>0, <3>1, <3>2
    <3>6. QED
      BY <3>1, <3>4, <3>5 DEF RoundsInv
  <2>3. QED
    BY <2>1, <2>2
<1>8. CASE Handoffs
  <2>1. CASE phase' = "attempted"
    BY <1>8, <1>c, <2>1 DEF Handoffs, AttemptEnds
  <2>2. CASE phase' # "attempted"
    <3>1. /\ phase = "handoffs" /\ phase' = "head" /\ dispatched' = dispatched \cup {iteration}
          /\ UNCHANGED <<fix_waves, iteration>>
      BY <1>8, <2>2 DEF Handoffs, AttemptEnds
    <3>2. dispatched \subseteq 1 .. (iteration - 1) /\ Rounds = iteration - 1
      BY <3>1 DEF RoundsInv
    <3>3. iteration \notin dispatched
      BY <1>0, <3>2
    <3>4. IsFiniteSet(dispatched) /\ Cardinality(dispatched) \in Nat
      <4>1. IsFiniteSet(1 .. (iteration - 1))
        BY <1>0, FS_Interval
      <4>2. QED
        BY <3>2, <4>1, FS_Subset, FS_CardinalityType
    <3>5. Cardinality(dispatched') = Cardinality(dispatched) + 1
      BY <3>1, <3>3, <3>4, FS_AddElement
    <3>6. Rounds' = iteration'
      BY <1>0, <3>1, <3>2, <3>4, <3>5 DEF Rounds
    <3>7. dispatched' \subseteq 1 .. iteration'
      BY <1>0, <1>b, <3>1, <3>2
    <3>8. QED
      BY <3>1, <3>6, <3>7 DEF RoundsInv
  <2>3. QED
    BY <2>1, <2>2
<1>9. CASE Retry
  BY <1>9, <1>d DEF Retry, LoopStart
<1>10. CASE Return
  BY <1>10 DEF Return, RoundsInv
<1>11. CASE NextStep \/ Resume
  BY <1>11, <1>d DEF NextStep, Resume, Enter, LoopStart
<1>12. CASE UNCHANGED vars
  BY <1>12 DEF vars, loopVars, RoundsInv, Rounds, OverCap
<1>13. QED
  BY <1>1, <1>2, <1>3, <1>4, <1>5, <1>6, <1>7, <1>8, <1>9, <1>10, <1>11, <1>12 DEF Next, Work

\* What holds of the comment at MAX_FIX_LOOP_ITERATIONS: an attempt that reaches the
\* cap and succeeds has spent each of its rounds on a fix wave or on hand-offs, and
\* so has run as many fix waves as the comment counts on if it dispatched no
\* hand-offs.
CapIsRounds ==
  phase = "attempted" /\ OverCap(iteration) /\ outcome = "Success" => Rounds = MaxIterations

\* That is what holds of the comment at MAX_FIX_LOOP_ITERATIONS; the configuration
\* HelperSteps_cap shows what hand-offs do to it.
THEOREM CapHasRounds == Spec => []CapIsRounds /\ [](dispatched = {} => CapAfterFixWaves)
<1>1. Init => RoundsInv
  <2> SUFFICES ASSUME Init PROVE RoundsInv
    OBVIOUS
  <2>1. Rounds = 0
    BY FS_EmptySet DEF Init, Rounds
  <2>2. QED
    BY <2>1 DEF Init, RoundsInv
<1>2. RoundsInv => CapIsRounds
  BY DEF RoundsInv, CapIsRounds
<1>3. HInv /\ CapIsRounds => (dispatched = {} => CapAfterFixWaves)
  <2> SUFFICES ASSUME HInv, CapIsRounds, dispatched = {} PROVE CapAfterFixWaves
    OBVIOUS
  <2>1. Rounds = fix_waves
    BY FS_EmptySet DEF Rounds, HInv, TypeOK
  <2>2. QED
    BY <2>1 DEF CapIsRounds, CapAfterFixWaves
<1>4. QED
  BY <1>1, <1>2, <1>3, RoundsKept, HelperInvariant, PTL DEF Spec

-----------------------------------------------------------------------------
(* Whose sidecar a helper call is given. *)

FirstAttempt == kind = "code_review" /\ attempt = 1 /\ resumes = 0

\* The sidecars that a call of the first attempt of the job finds were written by it.
FirstSidecars == FirstAttempt => sidecars = dispatched

\* What holds of the comment at the sidecar's input: it is the previous iteration's own
\* in the first attempt of the job's first helper step.  (Any retry, later step or
\* resume may find another's, as the configuration HelperSteps_sidecar shows.)
THEOREM FirstAttemptReadsItsOwn == Spec => [](FirstAttempt => SidecarIsOwn)
<1>1. Init => FirstSidecars
  BY DEF Init, FirstSidecars
<1>2. HInv /\ FirstSidecars /\ [Next]_vars => FirstSidecars'
  <2> SUFFICES ASSUME HInv, FirstSidecars, [Next]_vars, FirstAttempt' PROVE sidecars' = dispatched'
    BY DEF FirstSidecars
  <2>0. attempt \in Nat /\ attempt >= 1 /\ resumes \in Nat
    BY BudgetsAssumption, ResumesAssumption DEF HInv, TypeOK
  <2>1. CASE Retry
    BY <2>0, <2>1 DEF Retry, FirstAttempt
  <2>2. CASE NextStep
    BY <2>2 DEF NextStep, Enter, FirstAttempt
  <2>3. CASE Resume
    BY <2>0, <2>3 DEF Resume, FirstAttempt
  <2>4. CASE Handoffs
    BY <2>4 DEF Handoffs, AttemptEnds, retryVars, FirstSidecars, FirstAttempt
  <2>5. CASE CapReached \/ BudgetExceeded \/ CallHelper \/ FixWave \/ WaitingForHandoffs \/ Return
    BY <2>5 DEF CapReached, BudgetExceeded, CallHelper, FixWave, WaitingForHandoffs, Return,
       AttemptEnds, retryVars, loopVars, FirstSidecars, FirstAttempt
  <2>6. ASSUME NEW o \in Outcomes, HelperConcludes(o) PROVE sidecars' = dispatched'
    BY <2>6 DEF HelperConcludes, retryVars, loopVars, FirstSidecars, FirstAttempt
  <2>7. ASSUME NEW f \in Findings \cup {"none"}, FixRequired(f) PROVE sidecars' = dispatched'
    BY <2>7 DEF FixRequired, retryVars, FirstSidecars, FirstAttempt
  <2>8. CASE UNCHANGED vars
    BY <2>8 DEF vars, retryVars, loopVars, FirstSidecars, FirstAttempt
  <2>9. QED
    BY <2>1, <2>2, <2>3, <2>4, <2>5, <2>6, <2>7, <2>8 DEF Next, Work
<1>3. HInv /\ FirstSidecars => (FirstAttempt => SidecarIsOwn)
  BY DEF HInv, LoopInv, FirstSidecars, SidecarIsOwn, SidecarOfPrevious
<1>4. QED
  BY <1>1, <1>2, <1>3, HelperInvariant, PTL DEF Spec
=============================================================================
