----------------------------- MODULE PrFinalize -----------------------------
(***************************************************************************)
(* The pr-finalize job, `plan-executor run pr-finalize`: it looks up a     *)
(* pull request, marks it as ready, waits for pr-monitor.sh, merges it if  *)
(* asked to and reports.                                                   *)
(*                                                                         *)
(* A call of gh may have its effect and its answer be lost all the same:   *)
(* it is killed after a minute.  PlanDelivery adds the plan's own pipeline *)
(* that works on the same branch.                                          *)
(***************************************************************************)
EXTENDS Integers, Sequences

CONSTANTS MaxEdits,   \* bound on the edits made in the branch
          MaxPrs,     \* bound on its pull requests
          MaxFaults   \* bound on the calls that fail, on deaths, on lost answers

ASSUME GithubBounds == MaxEdits \in Nat /\ MaxPrs \in Nat /\ MaxFaults \in Nat

VARIABLES
  made,          \* the edits made so far are 1 .. made
  origin, base,  \* the edits in the pushed branch, in its target
  prs,           \* the pull requests of the branch: [state, draft]
  fstep,         \* the job's step: idle, one of Steps, succeeded, failed
  fpr, fmerge,   \* its pull request; whether merge_mode is not None
  fretries,      \* of its current step
  faults

finalizeVars == <<fstep, fpr, fmerge, fretries>>
githubVars   == <<made, origin, base, prs>>

FinalizeSteps == {"pr_lookup", "mark_ready", "monitor", "merge", "report"}

FinalizeInit ==
  /\ made = 0 /\ origin = {} /\ base = {} /\ prs = <<>>
  /\ fstep = "idle" /\ fpr = 0 /\ fmerge = FALSE /\ fretries = 0
  /\ faults = 0

-----------------------------------------------------------------------------
Edits == 1 .. made

Open == {p \in DOMAIN prs : prs[p].state = "OPEN"}

Fault == faults < MaxFaults /\ faults' = faults + 1

\* gh pr merge: refused for a draft and for what is closed, nothing is left to do
\* for what is merged.
MergeAccepted(p) == prs[p].state = "MERGED" \/ (p \in Open /\ ~prs[p].draft)

Merged(p) ==
  /\ prs' = [prs EXCEPT ![p].state = "MERGED"]
  /\ base' = IF p \in Open THEN base \cup origin ELSE base

\* With --delete-branch, as the job does it.
MergedAndDeleted(p) ==
  /\ Merged(p)
  /\ origin' = IF p \in Open THEN {} ELSE origin

-----------------------------------------------------------------------------
(* The step list of JobKind::PrFinalize; every attempt is one call. *)

LookupRetries  == 3
ReadyRetries   == 3
MonitorRetries == 1
MergeRetries   == 0
ReportRetries  == 0

RetryMax(step) ==
  CASE step = "pr_lookup"  -> LookupRetries
    [] step = "mark_ready" -> ReadyRetries
    [] step = "monitor"    -> MonitorRetries
    [] step = "merge"      -> MergeRetries
    [] step = "report"     -> ReportRetries

After(step) ==
  CASE step = "pr_lookup"  -> "mark_ready"
    [] step = "mark_ready" -> "monitor"
    [] step = "monitor"    -> "merge"
    [] step = "merge"      -> "report"
    [] step = "report"     -> "succeeded"

StepSucceeds ==
  /\ fstep' = After(fstep) /\ fretries' = 0
  /\ UNCHANGED <<fpr, fmerge>>

\* Considered defect: the retries are not counted.
TriedAgain ==
  /\ RetryMax(fstep) > 0
  /\ UNCHANGED <<fstep, fpr, fmerge, fretries>>

\* TransientInfra; the retry waits for its back-off.
StepRetries ==
  /\ IF fretries < RetryMax(fstep)
     THEN fretries' = fretries + 1 /\ UNCHANGED fstep
     ELSE fstep' = "failed" /\ fretries' = 0
  /\ UNCHANGED <<fpr, fmerge>>

StepFails ==
  /\ fstep' = "failed" /\ fretries' = 0
  /\ UNCHANGED <<fpr, fmerge>>

\* An operator finalizes some pull request of the branch.
StartFinalize(p, merge) ==
  /\ fstep \in {"idle", "succeeded", "failed"}
  /\ fstep' = "pr_lookup" /\ fpr' = p /\ fmerge' = merge /\ fretries' = 0
  /\ UNCHANGED <<githubVars, faults>>

\* A call that does not come through; of the merge only a failed spawn could be
\* tried again, and its policy has no retries.
CallFails ==
  /\ fstep \in FinalizeSteps
  /\ fstep = "merge" => fmerge
  /\ Fault
  /\ StepRetries \/ StepFails
  /\ UNCHANGED githubVars

LookupCall ==
  /\ fstep = "pr_lookup"
  /\ StepSucceeds
  /\ UNCHANGED <<githubVars, faults>>

\* gh pr ready; is_already_ready.
ReadyAccepted(p) == p \in Open

MarkReadyCall ==
  /\ fstep = "mark_ready"
  /\ IF ReadyAccepted(fpr)
     THEN /\ prs' = [prs EXCEPT ![fpr].draft = FALSE]
          /\ (StepSucceeds /\ UNCHANGED faults) \/ (StepRetries /\ Fault)
     ELSE StepFails /\ UNCHANGED <<prs, faults>>
  /\ UNCHANGED <<made, origin, base>>

\* pr-monitor.sh does not start on a closed pull request.
MonitorExits ==
  /\ fstep = "monitor"
  /\ IF fpr \in Open THEN StepSucceeds ELSE StepRetries
  /\ UNCHANGED <<githubVars, faults>>

\* The fixers it spawns push from a checkout of their own.
MonitorPushes ==
  /\ fstep = "monitor" /\ fpr \in Open /\ made < MaxEdits
  /\ made' = made + 1
  /\ origin' = origin \cup {made + 1}
  /\ UNCHANGED <<base, prs, finalizeVars, faults>>

\* Considered defect: a refusal of the merge is no failure of the step.
RefusalPasses(p) == TRUE

MergeSucceeds(p) == MergeAccepted(p)

\* An answer that is lost is a hard failure here: merging is not repeated.
MergeCall ==
  /\ fstep = "merge"
  /\ IF fmerge /\ MergeAccepted(fpr)
     THEN /\ MergedAndDeleted(fpr)
          /\ (StepSucceeds /\ UNCHANGED faults) \/ (StepFails /\ Fault)
     ELSE /\ IF fmerge => MergeSucceeds(fpr) THEN StepSucceeds ELSE StepFails
          /\ UNCHANGED <<origin, base, prs, faults>>
  /\ UNCHANGED made

ReportWritten ==
  /\ fstep = "report"
  /\ StepSucceeds
  /\ UNCHANGED <<githubVars, faults>>

FinalizeStep ==
  LookupCall \/ MarkReadyCall \/ MonitorExits \/ MergeCall \/ ReportWritten

FinalizeNext ==
  \/ \E p \in DOMAIN prs, merge \in BOOLEAN : StartFinalize(p, merge)
  \/ FinalizeStep \/ CallFails \/ MonitorPushes

-----------------------------------------------------------------------------
FinalizeTypeOK ==
  /\ made \in 0 .. MaxEdits
  /\ origin \subseteq Edits /\ base \subseteq Edits
  /\ prs \in Seq([state : {"OPEN", "CLOSED", "MERGED"}, draft : BOOLEAN])
  /\ Len(prs) <= MaxPrs
  /\ fstep \in FinalizeSteps \cup {"idle", "succeeded", "failed"}
  /\ fpr \in {0} \cup DOMAIN prs /\ fmerge \in BOOLEAN
  /\ fstep # "idle" => fpr # 0
  /\ fretries \in 0 .. 3 /\ faults \in 0 .. MaxFaults
=============================================================================
