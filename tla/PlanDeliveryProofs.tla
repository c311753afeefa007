------------------------- MODULE PlanDeliveryProofs -------------------------
(***************************************************************************)
(* Theorems about PlanDelivery, for every set of manifests and every bound.*)
(* DeliveryInv is inductive: it says where every edit is, also of runs that*)
(* died, and which pull requests are merged.  What is recorded of the steps*)
(* has no part in it, since a resumption may take it back.                 *)
(***************************************************************************)
EXTENDS PlanDelivery, WellFoundedInduction, TLAPS

PrRecord == [state : {"OPEN", "CLOSED", "MERGED"}, draft : BOOLEAN]

\* What gh does to one pull request keeps the list of them a list.
LEMMA StateChanged ==
  ASSUME NEW s \in Seq(PrRecord), NEW p \in DOMAIN s, NEW st \in {"OPEN", "CLOSED", "MERGED"}
  PROVE  /\ [s EXCEPT ![p].state = st] \in Seq(PrRecord)
         /\ Len([s EXCEPT ![p].state = st]) = Len(s)
         /\ DOMAIN [s EXCEPT ![p].state = st] = DOMAIN s
         /\ \A q \in DOMAIN s :
              [s EXCEPT ![p].state = st][q].state = IF q = p THEN st ELSE s[q].state
<1> DEFINE r == [s[p] EXCEPT !.state = st]
           t == [s EXCEPT ![p] = r]
<1>1. s[p] \in PrRecord
  OBVIOUS
<1>2. r \in PrRecord /\ r.state = st
  BY <1>1 DEF PrRecord
<1> HIDE DEF r
<1>3. t \in Seq(PrRecord) /\ Len(t) = Len(s) /\ DOMAIN t = DOMAIN s
  BY <1>2
<1>4. \A q \in DOMAIN s : t[q].state = IF q = p THEN st ELSE s[q].state
  BY <1>2
<1>5. [s EXCEPT ![p].state = st] = t
  BY DEF r
<1>6. QED
  BY <1>3, <1>4, <1>5

LEMMA DraftChanged ==
  ASSUME NEW s \in Seq(PrRecord), NEW p \in DOMAIN s
  PROVE  /\ [s EXCEPT ![p].draft = FALSE] \in Seq(PrRecord)
         /\ Len([s EXCEPT ![p].draft = FALSE]) = Len(s)
         /\ DOMAIN [s EXCEPT ![p].draft = FALSE] = DOMAIN s
         /\ \A q \in DOMAIN s : [s EXCEPT ![p].draft = FALSE][q].state = s[q].state
<1> DEFINE r == [s[p] EXCEPT !.draft = FALSE]
           t == [s EXCEPT ![p] = r]
<1>1. s[p] \in PrRecord
  OBVIOUS
<1>2. r \in PrRecord /\ r.state = s[p].state
  BY <1>1 DEF PrRecord
<1> HIDE DEF r
<1>3. t \in Seq(PrRecord) /\ Len(t) = Len(s) /\ DOMAIN t = DOMAIN s
  BY <1>2
<1>4. \A q \in DOMAIN s : t[q].state = s[q].state
  BY <1>2
<1>5. [s EXCEPT ![p].draft = FALSE] = t
  BY DEF r
<1>6. QED
  BY <1>3, <1>4, <1>5

LEMMA Opened ==
  ASSUME NEW s \in Seq(PrRecord), NEW d \in BOOLEAN
  PROVE  LET t == Append(s, [state |-> "OPEN", draft |-> d]) IN
         /\ t \in Seq(PrRecord)
         /\ Len(t) = Len(s) + 1
         /\ DOMAIN t = 1 .. (Len(s) + 1) /\ DOMAIN s = 1 .. Len(s)
         /\ \A q \in DOMAIN s : t[q] = s[q]
BY DEF PrRecord

-----------------------------------------------------------------------------
(* What the other actors do to the pull requests and the work in them. *)

Kept ==
  /\ DOMAIN prs' = DOMAIN prs
  /\ \A q \in DOMAIN prs : prs[q].state # "OPEN" => prs'[q].state = prs[q].state
  /\ Edits \subseteq Edits' /\ Edits' \ Edits \subseteq origin'
  /\ origin \cup base \subseteq origin' \cup base'

FinalizeMerged ==
  fstep \in {"report", "succeeded"} /\ fmerge => prs[fpr].state = "MERGED"

LEMMA MergedKeeps ==
  ASSUME FinalizeTypeOK, NEW p \in DOMAIN prs, Merged(p),
         MergeAccepted(p), made' = made,
         (UNCHANGED origin) \/ (p \in Open /\ origin' = {})
  PROVE  /\ Kept /\ prs'[p].state = "MERGED"
         /\ prs' \in Seq(PrRecord) /\ Len(prs') = Len(prs)
         /\ origin' \subseteq Edits' /\ base' \subseteq Edits'
<1>1. prs \in Seq(PrRecord)
  BY DEF FinalizeTypeOK, PrRecord
<1>2. prs' = [prs EXCEPT ![p].state = "MERGED"]
  BY DEF Merged
<1>3. /\ prs' \in Seq(PrRecord) /\ Len(prs') = Len(prs) /\ DOMAIN prs' = DOMAIN prs
      /\ \A q \in DOMAIN prs : prs'[q].state = IF q = p THEN "MERGED" ELSE prs[q].state
  BY <1>1, <1>2, StateChanged
<1>4. \A q \in DOMAIN prs : prs[q].state # "OPEN" => prs'[q].state = prs[q].state
  BY <1>3 DEF MergeAccepted, Open
<1>5. Edits' = Edits
  BY DEF Edits
<1>6. base' = (IF p \in Open THEN base \cup origin ELSE base)
  BY DEF Merged
<1>7. origin \cup base \subseteq origin' \cup base' /\ origin' \subseteq Edits /\ base' \subseteq Edits
  BY <1>6 DEF FinalizeTypeOK
<1>8. QED
  BY <1>3, <1>4, <1>5, <1>7 DEF Kept

LEMMA RetriesBounded == \A step \in FinalizeSteps : RetryMax(step) \in 0 .. 3
BY DEF FinalizeSteps, RetryMax, LookupRetries, ReadyRetries, MonitorRetries, MergeRetries,
   ReportRetries

\* The pr-finalize job keeps its types, loses no work and merges before its report.
LEMMA FinalizeKeeps ==
  ASSUME FinalizeTypeOK, FinalizeMerged, FinalizeNext
  PROVE  FinalizeTypeOK' /\ FinalizeMerged' /\ Kept
<1> USE GithubBounds
<1> DEFINE Other == fstep' \notin {"report", "succeeded"}
<1>0. prs \in Seq(PrRecord) /\ DOMAIN prs = 1 .. Len(prs)
  BY DEF FinalizeTypeOK, PrRecord
<1>1. CASE \E p \in DOMAIN prs, merge \in BOOLEAN : StartFinalize(p, merge)
  BY <1>0, <1>1 DEF StartFinalize, FinalizeTypeOK, FinalizeMerged, FinalizeSteps, Kept,
     Edits, githubVars
<1>2. CASE LookupCall
  BY <1>2 DEF LookupCall, StepSucceeds, After, FinalizeTypeOK, FinalizeMerged,
     FinalizeSteps, Kept, Edits, githubVars
<1>3. CASE MarkReadyCall
  <2>1. fpr \in DOMAIN prs /\ fpr # 0
    BY <1>3 DEF MarkReadyCall, FinalizeTypeOK
  <2>2. /\ [prs EXCEPT ![fpr].draft = FALSE] \in Seq(PrRecord)
        /\ Len([prs EXCEPT ![fpr].draft = FALSE]) = Len(prs)
        /\ DOMAIN [prs EXCEPT ![fpr].draft = FALSE] = DOMAIN prs
        /\ \A q \in DOMAIN prs : [prs EXCEPT ![fpr].draft = FALSE][q].state = prs[q].state
    BY <1>0, <2>1, DraftChanged
  <2>3. prs' \in {prs, [prs EXCEPT ![fpr].draft = FALSE]} /\ UNCHANGED <<made, origin, base>>
    BY <1>3 DEF MarkReadyCall
  <2>4. Kept /\ prs' \in Seq(PrRecord) /\ Len(prs') = Len(prs)
    BY <1>0, <2>2, <2>3 DEF Kept, Edits
  <2>5. /\ fstep' \in {"monitor", "mark_ready", "failed"} /\ fretries' \in 0 .. 3
        /\ UNCHANGED <<fpr, fmerge>>
    BY <1>3, RetriesBounded DEF MarkReadyCall, StepSucceeds, StepRetries, StepFails, After,
       FinalizeTypeOK, FinalizeSteps
  <2>6. faults' \in 0 .. MaxFaults
    BY <1>3 DEF MarkReadyCall, Fault, FinalizeTypeOK
  <2>7. QED
    BY <2>1, <2>3, <2>4, <2>5, <2>6 DEF FinalizeTypeOK, FinalizeMerged, FinalizeSteps,
       Kept, Edits, PrRecord
<1>4. CASE MonitorExits
  BY <1>4, RetriesBounded DEF MonitorExits, StepSucceeds, StepRetries, After, FinalizeTypeOK,
     FinalizeMerged, FinalizeSteps, Kept, Edits, githubVars
<1>5. CASE MergeCall
  <2>1. fpr \in DOMAIN prs /\ fstep = "merge"
    BY <1>5 DEF MergeCall, FinalizeTypeOK
  <2>2. /\ fstep' \in {"report", "failed"} /\ fretries' = 0 /\ UNCHANGED <<fpr, fmerge>>
        /\ made' = made
    BY <1>5 DEF MergeCall, StepSucceeds, StepFails, After
  <2>3. faults' \in 0 .. MaxFaults
    BY <1>5 DEF MergeCall, Fault, FinalizeTypeOK
  <2>4. CASE fmerge /\ MergeAccepted(fpr)
    <3>1. MergedAndDeleted(fpr)
      BY <1>5, <2>4 DEF MergeCall
    <3>2. /\ Kept /\ prs'[fpr].state = "MERGED"
          /\ prs' \in Seq(PrRecord) /\ Len(prs') = Len(prs)
          /\ origin' \subseteq Edits' /\ base' \subseteq Edits'
      BY <2>1, <2>2, <2>4, <3>1, MergedKeeps DEF MergedAndDeleted
    <3>3. QED
      BY <2>1, <2>2, <2>3, <3>2 DEF FinalizeTypeOK, FinalizeMerged, FinalizeSteps, Kept,
         PrRecord
  <2>5. CASE ~(fmerge /\ MergeAccepted(fpr))
    <3>1. UNCHANGED <<origin, base, prs>>
      BY <1>5, <2>5 DEF MergeCall
    <3>2. fmerge => fstep' = "failed"
      BY <1>5, <2>1, <2>5 DEF MergeCall, MergeSucceeds, StepFails
    <3>3. QED
      BY <2>1, <2>2, <2>3, <3>1, <3>2 DEF FinalizeTypeOK, FinalizeMerged, FinalizeSteps,
         Kept, Edits
  <2>6. QED
    BY <2>4, <2>5
<1>6. CASE ReportWritten
  BY <1>6 DEF ReportWritten, StepSucceeds, After, FinalizeTypeOK, FinalizeMerged,
     FinalizeSteps, Kept, Edits, githubVars
<1>7. CASE CallFails
  <2>1. /\ fstep' \in FinalizeSteps \cup {"failed"} /\ (fstep' = fstep \/ fstep' = "failed")
        /\ fretries' \in 0 .. 3 /\ UNCHANGED <<fpr, fmerge, made, origin, base, prs>>
    BY <1>7, RetriesBounded DEF CallFails, StepRetries, StepFails, FinalizeTypeOK, githubVars
  <2>2. fstep \in FinalizeSteps /\ faults' \in 0 .. MaxFaults
    BY <1>7 DEF CallFails, Fault, FinalizeTypeOK
  <2>3. QED
    BY <2>1, <2>2 DEF FinalizeTypeOK, FinalizeMerged, FinalizeSteps, Kept, Edits
<1>8. CASE MonitorPushes
  <2>1. /\ made \in Nat /\ made' = made + 1 /\ made' \in 0 .. MaxEdits
        /\ origin' = origin \cup {made + 1} /\ UNCHANGED <<base, prs, finalizeVars, faults>>
    BY <1>8 DEF MonitorPushes, FinalizeTypeOK
  <2>2. Edits \subseteq Edits' /\ Edits' \ Edits \subseteq {made + 1} /\ {made + 1} \subseteq Edits'
    BY <2>1 DEF Edits
  <2>3. QED
    BY <2>1, <2>2 DEF FinalizeTypeOK, FinalizeMerged, Kept, finalizeVars
<1>9. QED
  BY <1>1, <1>2, <1>3, <1>4, <1>5, <1>6, <1>7, <1>8 DEF FinalizeNext, FinalizeStep

LEMMA ClosingKeeps ==
  ASSUME FinalizeTypeOK, FinalizeMerged, NEW p \in Open, ClosePr(p)
  PROVE  FinalizeTypeOK' /\ FinalizeMerged' /\ Kept
<1>1. p \in DOMAIN prs /\ prs[p].state = "OPEN" /\ prs \in Seq(PrRecord)
  BY DEF Open, FinalizeTypeOK, PrRecord
<1>2. prs' = [prs EXCEPT ![p].state = "CLOSED"] /\ UNCHANGED <<made, origin, base, finalizeVars, faults>>
  BY DEF ClosePr
<1>3. /\ prs' \in Seq(PrRecord) /\ Len(prs') = Len(prs) /\ DOMAIN prs' = DOMAIN prs
      /\ \A q \in DOMAIN prs : prs'[q].state = IF q = p THEN "CLOSED" ELSE prs[q].state
  BY <1>1, <1>2, StateChanged
<1>4. QED
  BY <1>1, <1>2, <1>3 DEF FinalizeTypeOK, FinalizeMerged, Kept, Edits, finalizeVars,
     PrRecord

LEMMA MergingKeeps ==
  ASSUME FinalizeTypeOK, FinalizeMerged, NEW p \in Open, MergePr(p)
  PROVE  FinalizeTypeOK' /\ FinalizeMerged' /\ Kept
<1>1. p \in DOMAIN prs /\ prs[p].state = "OPEN"
  BY DEF Open
<1>2. Merged(p) /\ UNCHANGED <<made, origin, finalizeVars, faults>>
  BY DEF MergePr
<1> DEFINE t == [prs EXCEPT ![p].state = "MERGED"]
<1>3. /\ prs' \in Seq(PrRecord) /\ Len(prs') = Len(prs) /\ DOMAIN prs' = DOMAIN prs
      /\ \A q \in DOMAIN prs : prs'[q].state = IF q = p THEN "MERGED" ELSE prs[q].state
  BY <1>1, <1>2, StateChanged DEF Merged, FinalizeTypeOK, PrRecord
<1>4. base' = base \cup origin
  BY <1>2 DEF Merged
<1>5. QED
  BY <1>1, <1>2, <1>3, <1>4 DEF FinalizeTypeOK, FinalizeMerged, Kept, Edits,
     finalizeVars, PrRecord
-----------------------------------------------------------------------------
(* The inductive invariant. *)

RunTypes ==
  /\ plan \in Manifests
  /\ jobs \in 0 .. MaxJobs
  /\ job_state \in {"Running", "Failed", "Succeeded"} /\ recorded \subseteq Steps
  /\ runner \in {"daemon", "execute", "resume"} /\ copy \subseteq Steps /\ from \in Steps
  /\ pc \in PCs /\ seq \in 1 .. (LastStep + 1) /\ retries \in 0 .. 3
  /\ pc \in StepPCs => seq \in Steps

\* Where a step needs the pull request that it works on.
PrKnown ==
  /\ pc \in {"monitor", "fixing", "pushing", "merge"} => pr_url # 0
  /\ pc = "persist" => DOMAIN prs # {}

\* Where the edits are: none is forgotten but by a summary.
Located ==
  /\ Edits \subseteq dirty \cup branch \cup origin \cup base \cup lost
  /\ pc = "push" => Edits \subseteq branch \cup origin \cup base \cup lost
  /\ pc \in {"open", "relookup", "persist"} => Edits \subseteq origin \cup base \cup lost

\* What pr_finalize has finalized since pr_creation recorded it.
PlanMerged ==
  plan.merge /\ ~plan.skip_pr /\ pr_url # 0 /\ ~stale => prs[pr_url].state = "MERGED"

DeliveryInv == TypeOK /\ RunTypes /\ PrKnown /\ Located /\ FinalizeMerged /\ PlanMerged

-----------------------------------------------------------------------------
(* The ends of steps. *)

StepEnds == \E n \in {0, 1} : Succeeds(n) \/ Fails(n) \/ Retries(n)

LEMMA StepsOfPlan ==
  /\ LastStep \in {6, 7} /\ Steps = 1 .. LastStep /\ 1 \in Steps
  /\ plan' = plan => LastStep' = LastStep /\ Steps' = Steps
BY DEF LastStep, Steps

LEMMA Persisted ==
  ASSUME faults \in 0 .. MaxFaults, NEW n \in {0, 1}, NEW s, Persists(s, n)
  PROVE  recorded' \in {s, recorded} /\ faults' \in 0 .. MaxFaults
BY GithubBounds DEF Persists

\* However a step ends, the loop, the end of the run or pr_creation comes next.
LEMMA Ended ==
  ASSUME DeliveryInv, pc \in StepPCs, StepEnds
  PROVE  /\ RunTypes' /\ UNCHANGED plan /\ faults' \in 0 .. MaxFaults
         /\ pc' \in {"loop", "failing", "lookup"}
<1> USE GithubBounds
<1>1. RunTypes /\ seq \in Steps /\ faults \in 0 .. MaxFaults
  BY DEF DeliveryInv, TypeOK, FinalizeTypeOK, RunTypes
<1>2. PICK n \in {0, 1} : Succeeds(n) \/ Fails(n) \/ Retries(n)
  BY DEF StepEnds
<1>3. CASE Succeeds(n)
  <2>1. recorded' \in {recorded \cup {seq}, recorded} /\ faults' \in 0 .. MaxFaults
    BY <1>1, <1>3, Persisted DEF Succeeds
  <2>2. seq' \in 1 .. (LastStep + 1) /\ from' = 1
    BY <1>1, <1>3, StepsOfPlan DEF Succeeds, NextStep, RunTypes
  <2>3. QED
    BY <1>1, <1>3, <2>1, <2>2, StepsOfPlan DEF Succeeds, RunTypes, PCs, StepPCs
<1>4. CASE Fails(n)
  <2>1. recorded' \in {recorded \ {seq}, recorded} /\ faults' \in 0 .. MaxFaults
    BY <1>1, <1>4, Persisted DEF Fails
  <2>2. QED
    BY <1>1, <1>4, <2>1, StepsOfPlan DEF Fails, RunTypes, PCs, StepPCs
<1>5. CASE Retries(n) /\ retries < 3
  <2>1. faults' \in 0 .. MaxFaults /\ pc' = "lookup" /\ retries' \in 0 .. 3
        /\ UNCHANGED <<runner, copy, from, seq, jobVars>>
    BY <1>1, <1>5 DEF Retries, RunTypes
  <2>2. QED
    BY <1>1, <2>1, StepsOfPlan DEF RunTypes, PCs, StepPCs, jobVars
<1>6. QED
  BY <1>2, <1>3, <1>4, <1>5 DEF Retries

-----------------------------------------------------------------------------
(* The steps of the run that leave the trees and GitHub alone. *)

Quiet == UNCHANGED <<treeVars, githubVars, finalizeVars>>

\* What is left to say of such a step.
QuietKeeps ==
  /\ Quiet /\ RunTypes' /\ PrKnown'
  /\ status' \in {"READY", "EXECUTING", "COMPLETED", "FAILED"}
  /\ pr_url' \in {0} \cup DOMAIN prs /\ stale' \in BOOLEAN /\ faults' \in 0 .. MaxFaults
  /\ PlanMerged'
  /\ pc' \in {"push", "open", "relookup", "persist"} => pc' = pc

LEMMA QuietStep ==
  ASSUME DeliveryInv, QuietKeeps
  PROVE  DeliveryInv'
<1>1. FinalizeTypeOK' /\ FinalizeMerged' /\ Edits' = Edits
  BY DEF DeliveryInv, QuietKeeps, Quiet, TypeOK, FinalizeTypeOK, FinalizeMerged, Edits,
     githubVars, finalizeVars
<1>2. /\ worktree' \in BOOLEAN /\ branched' \in BOOLEAN
      /\ dirty' \subseteq Edits' /\ branch' \subseteq Edits' /\ lost' \subseteq Edits'
  BY <1>1 DEF DeliveryInv, QuietKeeps, Quiet, TypeOK, treeVars
<1>3. TypeOK'
  BY <1>1, <1>2 DEF QuietKeeps, Quiet, RunTypes, TypeOK, githubVars
<1>4. Located'
  BY <1>1 DEF DeliveryInv, QuietKeeps, Quiet, Located, treeVars, githubVars
<1>5. QED
  BY <1>1, <1>3, <1>4 DEF DeliveryInv, QuietKeeps

\* The end of a step that neither records nor finalizes a pull request.
LEMMA QuietEnd ==
  ASSUME DeliveryInv, pc \in StepPCs, StepEnds, Quiet,
         status' \in {"READY", "EXECUTING", "COMPLETED", "FAILED"},
         UNCHANGED <<pr_url, stale>>
  PROVE  DeliveryInv'
<1>1. /\ RunTypes' /\ UNCHANGED plan /\ faults' \in 0 .. MaxFaults
      /\ pc' \in {"loop", "failing", "lookup"}
  BY Ended
<1>2. PlanMerged' /\ PrKnown' /\ pr_url' \in {0} \cup DOMAIN prs /\ stale' \in BOOLEAN
  BY <1>1 DEF DeliveryInv, TypeOK, PlanMerged, PrKnown, Quiet, githubVars
<1>3. QED
  BY <1>1, <1>2, QuietStep DEF QuietKeeps

LEMMA ResumePoint == ASSUME recorded \subseteq Steps PROVE FirstNotSucceeded \in Steps
<1> DEFINE open == Steps \ recorded
<1>1. CASE recorded = Steps
  BY <1>1, StepsOfPlan DEF FirstNotSucceeded
<1>2. CASE recorded # Steps /\ open = {}
  BY <1>2, StepsOfPlan DEF FirstNotSucceeded
<1>3. CASE open # {}
  <2>1. open \subseteq Nat
    BY StepsOfPlan
  <2>2. \E s \in open : \A t \in open : s <= t
    <3>1. IsWellFoundedOn(OpToRel(<, Nat), Nat)
      BY NatLessThanWellFounded
    <3>2. PICK s \in open : \A t \in open : ~(<<t, s>> \in OpToRel(<, Nat))
      <4> HIDE DEF open
      <4> QED  BY <1>3, <2>1, <3>1, WFMin
    <3>3. \A t \in open : ~(t < s)
      BY <2>1, <3>2 DEF OpToRel
    <3>4. QED
      BY <2>1, <3>3
  <2>3. recorded # Steps
    BY <1>3
  <2>4. QED
    BY <2>2, <2>3 DEF FirstNotSucceeded
<1>4. QED
  BY <1>1, <1>2, <1>3

\* Executions, resumptions, the loop and the ends of runs.
LoopStep ==
  \/ Execute \/ Resume \/ Die \/ Cancel \/ BeginStep \/ AbortKilled
  \/ MarkFailed \/ RecordFailed \/ PipelineEnds \/ MarkReady

LEMMA LoopKeeps ==
  ASSUME DeliveryInv, LoopStep
  PROVE  DeliveryInv'
<1> USE GithubBounds, JobsAssumption
<1>0. RunTypes /\ PrKnown /\ TypeOK /\ PlanMerged /\ faults \in 0 .. MaxFaults
  BY DEF DeliveryInv, TypeOK, FinalizeTypeOK
<1>e. seq \in Steps => EntryOf(seq) \in StepPCs \ {"push", "open", "relookup", "persist",
                                                "monitor", "fixing", "pushing", "merge"}
  BY StepsOfPlan DEF EntryOf, StepPCs, LastStep
<1>1. CASE Execute
  <2>1. /\ Quiet /\ UNCHANGED <<plan, status, faults>> /\ pc' = "loop" /\ seq' = 1
        /\ retries' = 0 /\ from' = 1 /\ copy' = {} /\ recorded' = {} /\ pr_url' = 0
        /\ stale' = FALSE /\ job_state' = "Running" /\ runner' \in {"daemon", "execute"}
        /\ jobs' \in 0 .. MaxJobs
    BY <1>0, <1>1 DEF Execute, StartsAt, Quiet, RunTypes
  <2>2. RunTypes' /\ PrKnown' /\ PlanMerged'
    BY <1>0, <2>1, StepsOfPlan DEF RunTypes, PrKnown, PlanMerged, PCs, StepPCs
  <2>3. QED
    BY <1>0, <2>1, <2>2, QuietStep DEF QuietKeeps, TypeOK
<1>2. CASE Resume
  <2>1. /\ Quiet /\ UNCHANGED <<plan, status, jobs, recorded, pr_url, stale, faults>>
        /\ pc' = "loop" /\ seq' = 1 /\ retries' = 0 /\ from' \in Steps
        /\ copy' \subseteq Steps /\ job_state' = "Running" /\ runner' \in {"daemon", "resume"}
    BY <1>0, <1>2, ResumePoint DEF Resume, StartsAt, Quiet, RunTypes
  <2>2. RunTypes'
    BY <1>0, <2>1, StepsOfPlan DEF RunTypes, PCs, StepPCs
  <2>3. PrKnown' /\ PlanMerged'
    BY <1>0, <2>1 DEF PrKnown, PlanMerged, Quiet, githubVars
  <2>4. QED
    BY <1>0, <2>1, <2>2, <2>3, QuietStep DEF QuietKeeps, TypeOK, Quiet, githubVars
<1>3. CASE Die
  BY <1>0, <1>3, StepsOfPlan, QuietStep DEF Die, NoRun, Fault, QuietKeeps, Quiet, RunTypes, PrKnown,
     PlanMerged, PCs, StepPCs, TypeOK, jobVars, githubVars
<1>4. CASE Cancel
  BY <1>0, <1>4, StepsOfPlan, QuietStep DEF Cancel, QuietKeeps, Quiet, RunTypes, PrKnown,
     PlanMerged, PCs, StepPCs, TypeOK, runVars, githubVars
<1>5. CASE BeginStep
  <2>1. recorded' \in {recorded \ {seq}, recorded} /\ faults' \in 0 .. MaxFaults
    <3>1. Persists(recorded \ {seq}, 0)
      BY <1>5 DEF BeginStep
    <3>2. QED
      BY <1>0, <3>1, Persisted
  <2>2. QED
    BY <1>0, <1>e, <1>5, <2>1, StepsOfPlan, QuietStep DEF BeginStep, QuietKeeps, Quiet, RunTypes,
       PrKnown, PlanMerged, PCs, StepPCs, TypeOK, githubVars
<1>6. CASE AbortKilled
  BY <1>0, <1>6, StepsOfPlan, QuietStep DEF AbortKilled, Fault, QuietKeeps, Quiet, RunTypes, PrKnown,
     PlanMerged, PCs, StepPCs, TypeOK, jobVars, githubVars
<1>7. CASE MarkFailed
  <2>1. /\ Quiet /\ UNCHANGED <<plan, jobs, job_state, recorded, pr_url, stale, faults>>
        /\ status' = "FAILED" /\ pc' \in {"record", "idle"} /\ seq' \in {seq, 1}
        /\ retries' \in {retries, 0} /\ from' \in {from, 1} /\ copy' \in {copy, {}}
        /\ runner' \in {runner, "daemon"}
    BY <1>7 DEF MarkFailed, Goto, NoRun, Quiet
  <2>2. RunTypes' /\ PrKnown' /\ PlanMerged'
    BY <1>0, <2>1, StepsOfPlan DEF RunTypes, PrKnown, PlanMerged, PCs, StepPCs, Quiet, githubVars
  <2>3. QED
    BY <1>0, <2>1, <2>2, QuietStep DEF QuietKeeps, TypeOK, Quiet, githubVars
<1>8. CASE RecordFailed
  <2>1. /\ Quiet /\ UNCHANGED <<plan, status, jobs, pr_url, stale, faults>>
        /\ job_state' = "Failed" /\ recorded' \in {recorded, copy}
        /\ pc' \in {"mark", "idle"} /\ seq' \in {seq, 1}
        /\ retries' \in {retries, 0} /\ from' \in {from, 1} /\ copy' \in {copy, {}}
        /\ runner' \in {runner, "daemon"}
    BY <1>8 DEF RecordFailed, Goto, NoRun, Quiet
  <2>2. RunTypes' /\ PrKnown' /\ PlanMerged'
    BY <1>0, <2>1, StepsOfPlan DEF RunTypes, PrKnown, PlanMerged, PCs, StepPCs, Quiet, githubVars
  <2>3. QED
    BY <1>0, <2>1, <2>2, QuietStep DEF QuietKeeps, TypeOK, Quiet, githubVars
<1>9. CASE PipelineEnds
  BY <1>0, <1>9, StepsOfPlan, QuietStep DEF PipelineEnds, NoRun, QuietKeeps, Quiet, RunTypes,
     PrKnown, PlanMerged, PCs, StepPCs, TypeOK, githubVars
<1>10. CASE MarkReady
  BY <1>0, <1>10, StepsOfPlan, QuietStep DEF MarkReady, QuietKeeps, Quiet, RunTypes,
     PrKnown, PlanMerged, PCs, StepPCs, TypeOK, runVars, githubVars
<1>11. QED
  BY <1>1, <1>2, <1>3, <1>4, <1>5, <1>6, <1>7, <1>8, <1>9, <1>10 DEF LoopStep

\* The other quiet steps.
QuietAction ==
  \/ CallOfStepFails \/ FlipExecuting \/ StepPasses \/ TestsRunAgain
  \/ FindPr \/ NoPrFound \/ RelookupFails \/ CallRetried \/ PersistPrUrl
  \/ StartMonitor \/ MonitorFails \/ MonitorEnds \/ Complete

LEMMA ActionKeeps ==
  ASSUME DeliveryInv, QuietAction
  PROVE  DeliveryInv'
<1> USE GithubBounds
<1>0. /\ RunTypes /\ PrKnown /\ TypeOK /\ PlanMerged /\ faults \in 0 .. MaxFaults
      /\ status \in {"READY", "EXECUTING", "COMPLETED", "FAILED"}
      /\ prs \in Seq(PrRecord) /\ DOMAIN prs = 1 .. Len(prs)
  BY DEF DeliveryInv, TypeOK, FinalizeTypeOK, PrRecord
\* What ends the step without any news of the pull request.
<1>1. CASE CallOfStepFails \/ StepPasses \/ RelookupFails \/ CallRetried \/ MonitorFails
           \/ Complete
  <2>1. Quiet /\ StepEnds /\ pc \in StepPCs
    BY <1>1 DEF CallOfStepFails, StepPasses, RelookupFails, CallRetried, MonitorFails, Complete,
       Quiet, StepEnds, StepPCs
  <2>2. status' \in {status, "COMPLETED"} /\ UNCHANGED <<pr_url, stale>>
    BY <1>1 DEF CallOfStepFails, StepPasses, RelookupFails, CallRetried, MonitorFails, Complete,
       Fails, Retries, jobVars
  <2>3. QED
    BY <1>0, <2>1, <2>2, QuietEnd
<1>2. CASE FlipExecuting
  <2>1. CASE plan.no_worktree
    BY <1>2, <2>1, QuietEnd DEF FlipExecuting, Quiet, StepEnds, StepPCs
  <2>2. CASE ~plan.no_worktree
    BY <1>0, <1>2, <2>2, StepsOfPlan, QuietStep DEF FlipExecuting, Goto, QuietKeeps, Quiet,
       RunTypes, PrKnown, PlanMerged, PCs, StepPCs, TypeOK, githubVars
  <2>3. QED
    BY <2>1, <2>2
<1>3. CASE TestsRunAgain
  BY <1>0, <1>3, StepsOfPlan, QuietStep DEF TestsRunAgain, QuietKeeps, Quiet, RunTypes, PrKnown,
     PlanMerged, PCs, StepPCs, TypeOK, jobVars, githubVars
<1>4. CASE NoPrFound
  BY <1>0, <1>4, StepsOfPlan, QuietStep DEF NoPrFound, Goto, Fault, QuietKeeps, Quiet, RunTypes,
     PrKnown, PlanMerged, PCs, StepPCs, TypeOK, jobVars, githubVars
<1>5. CASE FindPr \/ PersistPrUrl
  <2>1. Quiet /\ pc \in StepPCs /\ StepEnds
    BY <1>5 DEF FindPr, PersistPrUrl, Quiet, StepPCs, StepEnds
  <2>2. pr_url' \in DOMAIN prs /\ stale' = TRUE /\ status' = status
    BY <1>0, <1>5 DEF FindPr, PersistPrUrl, Open, PrKnown
  <2>3. /\ RunTypes' /\ UNCHANGED plan /\ faults' \in 0 .. MaxFaults
        /\ pc' \in {"loop", "failing", "lookup"}
    BY <2>1, Ended
  <2>4. QED
    BY <1>0, <2>1, <2>2, <2>3, QuietStep DEF QuietKeeps, PrKnown, PlanMerged
\* StartMonitor and MonitorEnds go on or finalize without a merge.
<1>6. CASE StartMonitor \/ MonitorEnds
  <2>1. Quiet /\ pc \in StepPCs
    BY <1>6 DEF StartMonitor, MonitorEnds, Goto, Quiet, StepPCs
  <2>2. CASE FinalizePasses(0)
    <3>1. StepEnds /\ stale' = FALSE /\ UNCHANGED <<status, pr_url>>
      BY <2>2 DEF FinalizePasses, StepEnds
    <3>2. /\ RunTypes' /\ UNCHANGED plan /\ faults' \in 0 .. MaxFaults
          /\ pc' \in {"loop", "failing", "lookup"}
      BY <2>1, <3>1, Ended
    <3>3. ~(plan.merge /\ ~plan.skip_pr /\ pr_url # 0)
      BY <1>0, <1>6, <2>2 DEF StartMonitor, MonitorEnds, Goto, FinalizePasses, Succeeds, PrKnown
    <3>4. QED
      BY <1>0, <2>1, <3>1, <3>2, <3>3, QuietStep DEF QuietKeeps, PrKnown, PlanMerged, TypeOK
  <2>3. CASE ~FinalizePasses(0)
    <3>1. /\ pc' \in {"monitor", "merge"} /\ pr_url # 0
          /\ UNCHANGED <<jobVars, faults, runner, copy, from, seq, retries>>
      BY <1>0, <1>6, <2>3 DEF StartMonitor, MonitorEnds, Goto, PrKnown
    <3>2. QED
      BY <1>0, <2>1, <3>1, StepsOfPlan, QuietStep DEF QuietKeeps, Quiet, RunTypes, PrKnown,
         PlanMerged, PCs, StepPCs, TypeOK, jobVars, githubVars
  <2>4. QED
    BY <2>2, <2>3
<1>7. QED
  BY <1>1, <1>2, <1>3, <1>4, <1>5, <1>6 DEF QuietAction

-----------------------------------------------------------------------------
(* The steps that edit, commit, push, open, merge and clean up. *)

\* One more edit, or the same ones.
LEMMA Edited ==
  ASSUME FinalizeTypeOK, made < MaxEdits, made' = made + 1
  PROVE  /\ made' \in 0 .. MaxEdits /\ Edits' = Edits \cup {made + 1}
BY GithubBounds DEF FinalizeTypeOK, Edits

LEMMA EditKeeps ==
  ASSUME DeliveryInv, WaveEdit \/ FixersEdit
  PROVE  DeliveryInv'
<1>0. TypeOK /\ FinalizeTypeOK /\ RunTypes /\ PrKnown /\ Located /\ FinalizeMerged /\ PlanMerged
  BY DEF DeliveryInv, TypeOK
<1>1. /\ made' \in 0 .. MaxEdits /\ Edits' = Edits \cup {made + 1}
  BY <1>0, Edited DEF WaveEdit, FixersEdit
<1>2. /\ UNCHANGED <<runner, copy, from, seq, retries, jobVars, worktree, branched, lost, origin,
                     base, prs, finalizeVars, faults>>
      /\ \/ pc' = pc /\ pc \in {"waves", "reviews"}
         \/ pc = "monitor" /\ pc' = "fixing"
      /\ \/ dirty' = dirty \cup {made + 1} /\ branch' = branch
         \/ branch' = branch \cup {made + 1} /\ dirty' = dirty
  BY DEF WaveEdit, FixersEdit, Goto, runVars
<1>3. FinalizeTypeOK' /\ FinalizeMerged'
  BY <1>0, <1>1, <1>2 DEF FinalizeTypeOK, FinalizeMerged, finalizeVars
<1>4. RunTypes' /\ PrKnown' /\ PlanMerged'
  BY <1>0, <1>2, StepsOfPlan DEF RunTypes, PrKnown, PlanMerged, PCs, StepPCs, jobVars
<1>5. Located'
  BY <1>0, <1>1, <1>2 DEF Located
<1>6. TypeOK'
  BY <1>0, <1>1, <1>2, <1>3, <1>4 DEF TypeOK, RunTypes, jobVars
<1>7. QED
  BY <1>3, <1>4, <1>5, <1>6 DEF DeliveryInv

\* The worktree is made, committed, left by the fixers or removed.
LEMMA TreeKeeps ==
  ASSUME DeliveryInv, EnsureWorktree \/ CommitWorktree \/ FixersCommit \/ RemoveWorktree
  PROVE  DeliveryInv'
<1>0. TypeOK /\ FinalizeTypeOK /\ RunTypes /\ PrKnown /\ Located /\ FinalizeMerged /\ PlanMerged
  BY DEF DeliveryInv, TypeOK
<1>1. /\ UNCHANGED <<githubVars, finalizeVars, plan, pr_url, stale>> /\ pc \in StepPCs
      /\ worktree' \in BOOLEAN /\ branched' \in BOOLEAN
  BY <1>0 DEF EnsureWorktree, CommitWorktree, FixersCommit, RemoveWorktree, Goto, Succeeds, Fails,
     jobVars, StepPCs, TypeOK
<1>2. Edits' = Edits
  BY <1>1 DEF Edits, githubVars
<1>3. RunTypes' /\ faults' \in 0 .. MaxFaults /\ status' = status
      /\ pc' \in {"loop", "failing", "lookup", "push", "pushing", "complete"}
      /\ (pc' = "pushing" => pc = "fixing") /\ (pc' = "push" => CommitWorktree)
  <2>1. CASE EnsureWorktree
    <3>1. StepEnds /\ status' = status
      BY <2>1 DEF EnsureWorktree, StepEnds, Fails
    <3>2. QED
      BY <1>1, <3>1, Ended
  <2>2. CASE CommitWorktree \/ FixersCommit \/ RemoveWorktree
    <3>1. /\ UNCHANGED <<runner, copy, from, seq, retries, jobVars>> /\ faults' \in 0 .. MaxFaults
          /\ pc' \in {"push", "pushing", "complete"}
          /\ (pc' = "pushing" => pc = "fixing") /\ (pc' = "push" => CommitWorktree)
      BY <1>0, <2>2, GithubBounds DEF CommitWorktree, FixersCommit, RemoveWorktree, Goto, Fault,
         FinalizeTypeOK
    <3>2. RunTypes'
      BY <1>0, <1>1, <3>1, StepsOfPlan DEF RunTypes, PCs, StepPCs, jobVars
    <3>3. QED
      BY <3>1, <3>2 DEF jobVars
  <2>3. QED
    BY <2>1, <2>2
<1>4. FinalizeTypeOK' /\ FinalizeMerged'
  BY <1>0, <1>1, <1>2, <1>3 DEF FinalizeTypeOK, FinalizeMerged, githubVars, finalizeVars
<1>5. PrKnown' /\ PlanMerged'
  BY <1>0, <1>1, <1>3 DEF PrKnown, PlanMerged, githubVars
<1>6. /\ dirty' \subseteq Edits /\ branch' \subseteq Edits /\ lost' \subseteq Edits
      /\ dirty \cup branch \cup lost \subseteq dirty' \cup branch' \cup lost'
      /\ CommitWorktree => dirty' = {}
  BY <1>0, <1>2 DEF EnsureWorktree, CommitWorktree, Committed, FixersCommit, RemoveWorktree, TypeOK
<1>7. Located'
  BY <1>0, <1>1, <1>2, <1>3, <1>6 DEF Located, githubVars
<1>8. TypeOK'
  BY <1>0, <1>1, <1>2, <1>3, <1>4, <1>6 DEF TypeOK, RunTypes, githubVars
<1>9. QED
  BY <1>3, <1>4, <1>5, <1>7, <1>8 DEF DeliveryInv

LEMMA PushKeeps ==
  ASSUME DeliveryInv, Push \/ FixersPush
  PROVE  DeliveryInv'
<1>0. TypeOK /\ FinalizeTypeOK /\ RunTypes /\ PrKnown /\ Located /\ FinalizeMerged /\ PlanMerged
  BY DEF DeliveryInv, TypeOK
<1>1. /\ UNCHANGED <<treeVars, made, base, prs, finalizeVars, plan, status, pr_url, stale>>
      /\ pc \in StepPCs
      /\ (origin \subseteq branch /\ origin' = branch) \/ origin' = origin
  BY DEF Push, FixersPush, Goto, Fails, jobVars, StepPCs
<1>2. Edits' = Edits
  BY <1>1 DEF Edits
<1>3. /\ RunTypes' /\ faults' \in 0 .. MaxFaults
      /\ pc' \in {"loop", "failing", "lookup", "open", "monitor"}
      /\ (pc' = "monitor" => pc = "pushing")
      /\ (pc' = "open" => pc = "push" /\ origin \subseteq branch /\ origin' = branch)
  <2>1. CASE StepEnds /\ Push
    BY <1>1, <2>1, Ended
  <2>2. CASE ~StepEnds \/ FixersPush
    <3>1. /\ UNCHANGED <<runner, copy, from, seq, retries, jobVars, faults>>
          /\ pc' \in {"open", "monitor"}
          /\ (pc' = "monitor" => pc = "pushing")
          /\ (pc' = "open" => pc = "push" /\ origin \subseteq branch /\ origin' = branch)
      BY <2>2 DEF Push, FixersPush, Goto, StepEnds
    <3>2. RunTypes'
      BY <1>0, <1>1, <3>1, StepsOfPlan DEF RunTypes, PCs, StepPCs, jobVars
    <3>3. QED
      BY <1>0, <3>1, <3>2 DEF FinalizeTypeOK
  <2>3. QED
    BY <2>1, <2>2
<1>4. FinalizeTypeOK' /\ FinalizeMerged'
  BY <1>0, <1>1, <1>2, <1>3 DEF FinalizeTypeOK, FinalizeMerged, finalizeVars, TypeOK, treeVars
<1>5. PrKnown' /\ PlanMerged'
  BY <1>0, <1>1, <1>3 DEF PrKnown, PlanMerged
<1>6. Located'
  BY <1>0, <1>1, <1>2, <1>3 DEF Located, treeVars
<1>7. TypeOK'
  BY <1>0, <1>1, <1>2, <1>3, <1>4 DEF TypeOK, RunTypes, treeVars
<1>8. QED
  BY <1>3, <1>4, <1>5, <1>6, <1>7 DEF DeliveryInv

LEMMA CreateKeeps ==
  ASSUME DeliveryInv, CreatePr
  PROVE  DeliveryInv'
<1> USE GithubBounds
<1>0. /\ TypeOK /\ FinalizeTypeOK /\ RunTypes /\ PrKnown /\ Located /\ FinalizeMerged /\ PlanMerged
      /\ pc = "open" /\ pc \in StepPCs
  BY DEF DeliveryInv, TypeOK, CreatePr, Goto, StepPCs
<1>1. UNCHANGED <<treeVars, made, origin, base, finalizeVars, status, pr_url, stale, plan>>
  BY DEF CreatePr, Goto, Fails, Retries, jobVars
<1>2. Edits' = Edits
  BY <1>1 DEF Edits
<1>3. /\ RunTypes' /\ faults' \in 0 .. MaxFaults
      /\ pc' \in {"loop", "failing", "lookup", "relookup", "persist"}
  <2>1. CASE StepEnds
    BY <1>0, <2>1, Ended
  <2>2. CASE ~StepEnds
    <3>1. /\ UNCHANGED <<runner, copy, from, seq, retries, jobVars, faults>>
          /\ pc' \in {"relookup", "persist"}
      BY <1>0, <2>2 DEF CreatePr, Goto, StepEnds
    <3>2. RunTypes'
      BY <1>0, <3>1, StepsOfPlan DEF RunTypes, PCs, StepPCs, jobVars
    <3>3. QED
      BY <1>0, <3>1, <3>2 DEF FinalizeTypeOK
  <2>3. QED
    BY <2>1, <2>2
<1>4. prs \in Seq(PrRecord) /\ plan.draft_pr \in BOOLEAN
  BY <1>0, ManifestsAssumption DEF FinalizeTypeOK, PrRecord, RunTypes, Flags
<1>5. /\ prs' \in Seq(PrRecord) /\ Len(prs') <= MaxPrs /\ DOMAIN prs \subseteq DOMAIN prs'
      /\ \A q \in DOMAIN prs : prs'[q] = prs[q]
      /\ pc' = "persist" => DOMAIN prs' # {}
  <2>1. CASE prs' = prs
    BY <1>0, <1>4, <2>1 DEF CreatePr, Goto, Fails, Open, FinalizeTypeOK
  <2>2. CASE prs' # prs
    <3>1. Len(prs) < MaxPrs /\ prs' = Append(prs, [state |-> "OPEN", draft |-> plan.draft_pr])
      BY <2>2 DEF CreatePr
    <3>2. QED
      BY <1>4, <3>1, Opened
  <2>3. QED
    BY <2>1, <2>2
<1>6. FinalizeTypeOK' /\ FinalizeMerged'
  BY <1>0, <1>1, <1>2, <1>3, <1>5 DEF FinalizeTypeOK, FinalizeMerged, finalizeVars, PrRecord
<1>7. PrKnown' /\ PlanMerged'
  BY <1>0, <1>1, <1>3, <1>5 DEF PrKnown, PlanMerged, TypeOK
<1>8. Located'
  BY <1>0, <1>1, <1>2, <1>3 DEF Located, treeVars
<1>9. TypeOK'
  BY <1>0, <1>1, <1>2, <1>3, <1>5, <1>6 DEF TypeOK, RunTypes, treeVars
<1>10. QED
  BY <1>3, <1>6, <1>7, <1>8, <1>9 DEF DeliveryInv

LEMMA MergeKeeps ==
  ASSUME DeliveryInv, Merge
  PROVE  DeliveryInv'
<1>0. /\ TypeOK /\ FinalizeTypeOK /\ RunTypes /\ PrKnown /\ Located /\ FinalizeMerged /\ PlanMerged
      /\ pc = "merge" /\ pc \in StepPCs /\ pr_url \in DOMAIN prs
  BY DEF DeliveryInv, TypeOK, Merge, PrKnown, StepPCs
<1>1. /\ UNCHANGED <<treeVars, made, origin, finalizeVars, status, pr_url, plan>>
      /\ StepEnds /\ stale' \in {stale, FALSE}
  BY DEF Merge, FinalizePasses, Succeeds, Fails, StepEnds
<1>2. /\ RunTypes' /\ UNCHANGED plan /\ faults' \in 0 .. MaxFaults
      /\ pc' \in {"loop", "failing", "lookup"}
  BY <1>0, <1>1, Ended
<1>3. /\ Kept /\ prs' \in Seq(PrRecord) /\ Len(prs') = Len(prs) /\ base' \subseteq Edits'
      /\ stale' # stale => prs'[pr_url].state = "MERGED"
  <2>1. CASE MergeAccepted(pr_url)
    BY <1>0, <1>1, <2>1, MergedKeeps DEF Merge
  <2>2. CASE ~MergeAccepted(pr_url)
    BY <1>0, <1>1, <2>2 DEF Merge, Fails, Kept, Edits, FinalizeTypeOK, PrRecord
  <2>3. QED
    BY <2>1, <2>2
<1>4. FinalizeTypeOK' /\ FinalizeMerged'
  BY <1>0, <1>1, <1>2, <1>3 DEF FinalizeTypeOK, FinalizeMerged, finalizeVars, Kept, PrRecord, Edits
<1>5. PrKnown' /\ PlanMerged'
  BY <1>0, <1>1, <1>2, <1>3 DEF PrKnown, PlanMerged, Kept
<1>6. Located'
  BY <1>0, <1>1, <1>2, <1>3 DEF Located, Kept, treeVars, Edits
<1>7. TypeOK'
  BY <1>0, <1>1, <1>2, <1>3, <1>4 DEF TypeOK, RunTypes, treeVars, Kept, Edits
<1>8. QED
  BY <1>2, <1>4, <1>5, <1>6, <1>7 DEF DeliveryInv

\* People and the pr-finalize job.
LEMMA OthersKeep ==
  ASSUME DeliveryInv, UNCHANGED <<runVars, jobVars, treeVars>>,
         FinalizeTypeOK', FinalizeMerged', Kept
  PROVE  DeliveryInv'
<1>1. RunTypes' /\ PrKnown'
  BY StepsOfPlan DEF DeliveryInv, RunTypes, PrKnown, Kept, runVars, jobVars
<1>2. PlanMerged'
  BY DEF DeliveryInv, TypeOK, PlanMerged, Kept, jobVars
<1>3. Located'
  BY DEF DeliveryInv, Located, Kept, treeVars, runVars
<1>4. TypeOK'
  BY <1>1 DEF DeliveryInv, TypeOK, RunTypes, Kept, jobVars, treeVars
<1>5. QED
  BY <1>1, <1>2, <1>3, <1>4 DEF DeliveryInv

-----------------------------------------------------------------------------
(* The theorems. *)

\* DeliveryInv holds of every state, with any bounds and any manifests.
THEOREM DeliveryInvariant == Spec => []DeliveryInv
<1>1. Init => DeliveryInv
  <2> SUFFICES ASSUME Init PROVE DeliveryInv
    OBVIOUS
  <2> USE GithubBounds, JobsAssumption
  <2>0. prs \in Seq(PrRecord) /\ Len(prs) = 0
    BY DEF Init, FinalizeInit
  <2>1. /\ made = 0 /\ origin = {} /\ base = {} /\ fstep = "idle" /\ fpr = 0 /\ fretries = 0
        /\ fmerge \in BOOLEAN /\ faults = 0
    BY DEF Init, FinalizeInit
  <2>2. FinalizeTypeOK
    BY <2>0, <2>1 DEF FinalizeTypeOK, PrRecord
  <2>3. RunTypes
    BY StepsOfPlan DEF Init, RunTypes, PCs, StepPCs
  <2>4. TypeOK
    BY <2>2, <2>3 DEF Init, TypeOK, RunTypes
  <2>5. PrKnown /\ Located /\ FinalizeMerged /\ PlanMerged
    BY <2>1 DEF Init, PrKnown, Located, FinalizeMerged, PlanMerged, Edits
  <2>6. QED
    BY <2>3, <2>4, <2>5 DEF DeliveryInv
<1>2. DeliveryInv /\ [Next]_vars => DeliveryInv'
  <2> SUFFICES ASSUME DeliveryInv, [Next]_vars PROVE DeliveryInv'
    OBVIOUS
  <2>1. CASE LoopStep \/ QuietAction
    BY <2>1, LoopKeeps, ActionKeeps
  <2>2. CASE WaveEdit \/ FixersEdit \/ Push \/ FixersPush \/ CreatePr \/ Merge
    BY <2>2, EditKeeps, PushKeeps, CreateKeeps, MergeKeeps
  <2>3. CASE EnsureWorktree \/ CommitWorktree \/ FixersCommit \/ RemoveWorktree
    BY <2>3, TreeKeeps
  <2>4. CASE \E p \in Open : ClosePr(p) \/ MergePr(p)
    <3>1. UNCHANGED <<runVars, jobVars, treeVars>>
      BY <2>4 DEF ClosePr, MergePr
    <3>2. QED
      BY <2>4, <3>1, ClosingKeeps, MergingKeeps, OthersKeep DEF DeliveryInv, TypeOK
  <2>5. CASE FinalizeNext /\ UNCHANGED <<runVars, jobVars, treeVars>>
    BY <2>5, FinalizeKeeps, OthersKeep DEF DeliveryInv, TypeOK
  <2>6. CASE UNCHANGED vars
    <3>1. FinalizeTypeOK' /\ FinalizeMerged' /\ Kept /\ UNCHANGED <<runVars, jobVars, treeVars>>
      BY <2>6 DEF vars, githubVars, finalizeVars, DeliveryInv, TypeOK, FinalizeTypeOK,
         FinalizeMerged, Kept, Edits
    <3>2. QED
      BY <3>1, OthersKeep
  <2>7. QED
    BY <2>1, <2>2, <2>3, <2>4, <2>5, <2>6 DEF Next, LoopStep, QuietAction
<1>3. QED
  BY <1>1, <1>2, PTL DEF Spec

\* Type correctness of PlanDelivery and PrFinalize.
THEOREM DeliveryTypes == Spec => []TypeOK
<1>1. DeliveryInv => TypeOK
  BY DEF DeliveryInv
<1>2. QED
  BY <1>1, DeliveryInvariant, PTL

\* run_pr_creation: the branch of a pull request that is opened, and what was merged
\* before, have every edit of the plan, also those of runs that died, failed or were
\* resumed too early, but for what a summary has thrown away before.
THEOREM WorkIsCarried == Spec => []PrCarriesWork
<1>1. DeliveryInv => PrCarriesWork
  BY DEF DeliveryInv, Located, PrCarriesWork
<1>2. QED
  BY <1>1, DeliveryInvariant, PTL

\* MergeStep::run, delegate_to_pr_finalize: when the pr-finalize job, or a plan that
\* merges, says that it is done, its pull request is merged.
THEOREM MergesAreDone == Spec => []MergedWhenDone
<1>1. DeliveryInv => MergedWhenDone
  BY DEF DeliveryInv, FinalizeMerged, PlanMerged, MergedWhenDone
<1>2. QED
  BY <1>1, DeliveryInvariant, PTL
=============================================================================
