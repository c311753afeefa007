---------------------------- MODULE PlanDelivery ----------------------------
(***************************************************************************)
(* How a plan job brings the work of its sub-agents into a pull request:   *)
(* preflight sets the worktree up, the waves edit it, pr_creation commits, *)
(* pushes and opens the pull request, pr_finalize monitors and merges it,  *)
(* summary removes the worktree by force and completes the manifest.       *)
(*                                                                         *)
(* Runs die between any two calls of git or gh and are resumed from what   *)
(* job.json records, which may be less than what was done, or the plan is  *)
(* made READY and executed again in whatever worktree and branch are left. *)
(* People close and merge pull requests meanwhile, and finalize them with  *)
(* a job of its own (PrFinalize).  Runs of one job do not overlap here     *)
(* (JobLifecycle has them overlap); display.log is left out as well.       *)
(***************************************************************************)
EXTENDS PrFinalize

CONSTANTS Manifests,  \* the flags of the plan, and whether its pipeline has pr_creation
          MaxJobs     \* bound on the executions

Flags == [no_worktree : BOOLEAN, skip_pr : BOOLEAN, draft_pr : BOOLEAN,
          merge : BOOLEAN, creates : BOOLEAN]

ASSUME ManifestsAssumption == Manifests \subseteq Flags
ASSUME JobsAssumption == MaxJobs \in Nat

VARIABLES
  plan,       \* the manifest's flags
  status,     \* plan.status
  jobs,       \* number of executions so far; what follows is of the newest job
  job_state,  \* job.json: Job.state
  recorded,   \* job.json: the steps whose status is Succeeded
  pr_url,     \* its pr-url file, 0 when there is none
  runner,     \* who runs it: the daemon, a foreground execute, a foreground resume
  copy,       \* recorded, as the foreground resume read it
  from,       \* resume_from_seq, until preflight is through
  pc,         \* of its run, idle when none is under way
  seq,        \* the run's step
  retries,    \* of that step
  worktree,   \* .plan-executor/<plan> exists
  branched,   \* the branch exists in the source repository
  dirty, branch,  \* the edits that are not committed, those committed locally
  (* History, read by properties only. *)
  lost,       \* the edits that were removed with the worktree
  stale       \* pr_creation has succeeded since pr_finalize last did

runVars  == <<runner, copy, from, pc, seq, retries>>
jobVars  == <<plan, status, jobs, job_state, recorded, pr_url, stale>>
treeVars == <<worktree, branched, dirty, branch, lost>>
vars == <<runVars, jobVars, treeVars, githubVars, finalizeVars, faults>>

\* preflight, wave_execution, integration_testing, code_review and validation as one,
\* pr_creation unless the manifest's pipeline omits it, pr_finalize, summary.
LastStep == IF plan.creates THEN 7 ELSE 6

Steps == 1 .. LastStep

StepPCs == {"preflight", "worktree", "waves", "tests", "reviews", "lookup", "commit", "push",
            "open", "relookup", "persist", "finalize", "monitor", "fixing", "pushing", "merge",
            "cleanup", "complete"}

PCs == StepPCs \cup {"idle", "loop", "failing", "record", "mark"}

Init ==
  /\ FinalizeInit
  /\ plan \in Manifests
  /\ status = "READY" /\ jobs = 0
  /\ job_state = "Running" /\ recorded = {} /\ pr_url = 0
  /\ runner = "daemon" /\ copy = {} /\ from = 1
  /\ pc = "idle" /\ seq = 1 /\ retries = 0
  /\ worktree = FALSE /\ branched = FALSE
  /\ dirty = {} /\ branch = {} /\ lost = {} /\ stale = FALSE

-----------------------------------------------------------------------------
(* The loop of run_pipeline_with_resume. *)

Goto(at, to) == pc = at /\ pc' = to /\ UNCHANGED <<runner, copy, from, seq, retries>>

EntryOf(step) ==
  CASE step = 1 -> "preflight"
    [] step = 2 -> "waves"
    [] step = 3 -> "tests"
    [] step = 4 -> "reviews"
    [] step = 5 /\ plan.creates -> "lookup"
    [] step = LastStep - 1 -> "finalize"
    [] step = LastStep -> "cleanup"

\* persist_step_status, after so many calls that failed; its own failure is forgotten.
Persists(steps, failed) ==
  /\ \/ recorded' = steps /\ faults' = faults + failed
     \/ steps # recorded /\ recorded' = recorded /\ faults' = faults + failed + 1
  /\ faults' <= MaxFaults

\* The loop's head; a job that was killed is gone from running_jobs.
BeginStep ==
  /\ pc = "loop" /\ seq \in Steps
  /\ pc' = EntryOf(seq)
  /\ Persists(recorded \ {seq}, 0)
  /\ UNCHANGED <<runner, copy, from, seq, retries, plan, status, jobs, job_state, pr_url, stale,
                 treeVars, githubVars, finalizeVars>>

AbortKilled ==
  /\ pc = "loop" /\ seq \in Steps /\ runner = "daemon"
  /\ pc' = "failing" /\ seq' = 1 /\ from' = 1
  /\ Fault
  /\ UNCHANGED <<runner, copy, retries, jobVars, treeVars, githubVars, finalizeVars>>

\* The step after it; preflight is followed by the resume point.
NextStep == IF seq = 1 /\ from > 2 THEN from ELSE seq + 1

Succeeds(failed) ==
  /\ pc' = "loop" /\ seq' = NextStep /\ from' = 1 /\ retries' = 0
  /\ Persists(recorded \cup {seq}, failed)
  /\ UNCHANGED <<runner, copy, plan, jobs, job_state>>

Fails(failed) ==
  /\ pc' = "failing" /\ seq' = 1 /\ from' = 1 /\ retries' = 0
  /\ Persists(recorded \ {seq}, failed)
  /\ UNCHANGED <<runner, copy, plan, status, jobs, job_state, pr_url, stale>>

\* pr_creation starts again from its beginning after a transient failure.
Retries(failed) ==
  IF retries < 3
  THEN /\ pc' = "lookup" /\ retries' = retries + 1
       /\ faults' = faults + failed /\ faults' <= MaxFaults
       /\ UNCHANGED <<runner, copy, from, seq, jobVars>>
  ELSE Fails(failed)

\* A call of git or gh, a read or a write of a file fails for good.
CallOfStepFails ==
  /\ pc \in StepPCs
  /\ Fails(1)
  /\ UNCHANGED <<treeVars, githubVars, finalizeVars>>

-----------------------------------------------------------------------------
(* Executions, resumptions and the ends of runs. *)

NoRun == /\ pc' = "idle" /\ seq' = 1 /\ retries' = 0
         /\ runner' = "daemon" /\ copy' = {} /\ from' = 1

StartsAt(step) == pc' = "loop" /\ seq' = 1 /\ retries' = 0 /\ from' = step

\* A job of its own, with a new job.json.
Execute ==
  /\ pc = "idle" /\ status = "READY" /\ jobs < MaxJobs
  /\ jobs' = jobs + 1 /\ job_state' = "Running" /\ recorded' = {} /\ pr_url' = 0
  /\ stale' = FALSE
  /\ runner' \in {"daemon", "execute"} /\ copy' = {} /\ StartsAt(1)
  /\ UNCHANGED <<plan, status, treeVars, githubVars, finalizeVars, faults>>

FirstNotSucceeded ==
  IF recorded = Steps THEN 1
  ELSE CHOOSE s \in Steps \ recorded : \A t \in Steps \ recorded : s <= t

\* job.json is read and found Failed, and made Running.
Resume ==
  /\ pc = "idle" /\ jobs > 0 /\ job_state = "Failed"
  /\ job_state' = "Running"
  /\ \/ runner' = "daemon" /\ copy' = {}
     \/ runner' = "resume" /\ copy' = recorded /\ recorded # {}
  /\ StartsAt(FirstNotSucceeded)
  /\ UNCHANGED <<plan, status, jobs, recorded, pr_url, stale, treeVars, githubVars, finalizeVars,
                 faults>>

\* The run's process ends, at any time; job.json goes on to call it Running.
Die ==
  /\ pc # "idle"
  /\ NoRun
  /\ Fault
  /\ UNCHANGED <<jobVars, treeVars, githubVars, finalizeVars>>

\* jobs cancel, of a job that nobody runs any more.
Cancel ==
  /\ pc = "idle" /\ jobs > 0 /\ job_state = "Running"
  /\ job_state' = "Failed"
  /\ UNCHANGED <<runVars, plan, status, jobs, recorded, pr_url, stale, treeVars, githubVars,
                 finalizeVars, faults>>

\* What ran the pipeline marks the manifest of a failed run; the daemon goes on to
\* job.json, a foreground resume has been there, a foreground execute never goes.
MarkFailed ==
  /\ (pc = "failing" /\ runner # "resume") \/ pc = "mark"
  /\ status' = "FAILED"
  /\ IF runner = "daemon" THEN Goto("failing", "record") ELSE NoRun
  /\ UNCHANGED <<plan, jobs, job_state, recorded, pr_url, stale, treeVars, githubVars, finalizeVars,
                 faults>>

\* A foreground resume writes the Job that it read back with its outcome.
RecordFailed ==
  /\ \/ pc = "record" /\ NoRun /\ UNCHANGED recorded
     \/ runner = "resume" /\ Goto("failing", "mark") /\ recorded' = copy
  /\ job_state' = "Failed"
  /\ UNCHANGED <<plan, status, jobs, pr_url, stale, treeVars, githubVars, finalizeVars, faults>>

PipelineEnds ==
  /\ pc = "loop" /\ seq \notin Steps
  /\ NoRun
  /\ job_state' = IF runner = "execute" THEN job_state ELSE "Succeeded"
  /\ recorded' = IF runner = "resume" THEN copy ELSE recorded
  /\ UNCHANGED <<plan, status, jobs, pr_url, stale, treeVars, githubVars, finalizeVars, faults>>

-----------------------------------------------------------------------------
(* run_preflight, which a resumption repeats. *)

FlipExecuting ==
  /\ pc = "preflight"
  /\ status' = "EXECUTING"
  /\ IF plan.no_worktree THEN Succeeds(0)
     ELSE /\ Goto("preflight", "worktree")
          /\ UNCHANGED <<plan, jobs, job_state, recorded, faults>>
  /\ UNCHANGED <<pr_url, stale, treeVars, githubVars, finalizeVars>>

\* The worktree of an earlier run, a new branch, or the branch of an earlier run
\* unless somebody has it checked out somewhere else.
EnsureWorktree ==
  /\ pc = "worktree"
  /\ \/ /\ worktree' = TRUE /\ branched' = TRUE
        /\ Succeeds(0) /\ UNCHANGED <<status, pr_url, stale>>
     \/ ~worktree /\ branched /\ Fails(0) /\ UNCHANGED <<worktree, branched>>
  /\ UNCHANGED <<dirty, branch, lost, githubVars, finalizeVars>>

(* wave_execution, integration_testing, code_review, validation. *)

\* Sub-agents leave their edits in the working tree, or commit them.
WaveEdit ==
  /\ pc \in {"waves", "reviews"} /\ made < MaxEdits
  /\ made' = made + 1
  /\ \/ dirty' = dirty \cup {made + 1} /\ UNCHANGED branch
     \/ branch' = branch \cup {made + 1} /\ UNCHANGED dirty
  /\ UNCHANGED <<runVars, jobVars, worktree, branched, lost, origin, base, prs,
                 finalizeVars, faults>>

\* run_integration_tests succeeds, too, when neither the manifest nor the tree tells
\* which command to run.
StepPasses ==
  /\ pc \in {"waves", "tests", "reviews"}
  /\ Succeeds(0)
  /\ UNCHANGED <<status, pr_url, stale, treeVars, githubVars, finalizeVars>>

\* A failure that looks transient: the tests are run once more.
TestsRunAgain ==
  /\ pc = "tests" /\ retries = 0
  /\ retries' = 1
  /\ UNCHANGED <<runner, copy, from, pc, seq, jobVars, treeVars, githubVars, finalizeVars, faults>>

-----------------------------------------------------------------------------
(* run_pr_creation. *)

\* lookup_existing_pr: nothing is committed or pushed any more.
FindPr ==
  /\ pc \in {"lookup", "relookup"}
  /\ \E p \in Open : pr_url' = p
  /\ Succeeds(0)
  /\ stale' = TRUE
  /\ UNCHANGED <<status, treeVars, githubVars, finalizeVars>>

NoPrFound ==
  /\ Goto("lookup", "commit")
  /\ IF Open = {} THEN UNCHANGED faults ELSE Fault
  /\ UNCHANGED <<jobVars, treeVars, githubVars, finalizeVars>>

\* The pull request that refused ours is closed by now.
RelookupFails ==
  /\ pc = "relookup" /\ Open = {}
  /\ Fails(0)
  /\ UNCHANGED <<treeVars, githubVars, finalizeVars>>

\* Considered defect: what is untracked stays out of the commit.
TrackedOnly == branch \cup {e \in dirty : e # made}

Committed == branch \cup dirty

CommitWorktree ==
  /\ Goto("commit", "push")
  /\ branch' = Committed
  /\ dirty' = {}
  /\ UNCHANGED <<jobVars, worktree, branched, lost, githubVars, finalizeVars, faults>>

\* The remote branch may have commits that the local one does not have.
Push ==
  /\ pc = "push"
  /\ IF origin \subseteq branch
     THEN /\ origin' = branch
          /\ Goto("push", "open") /\ UNCHANGED <<jobVars, faults>>
     ELSE Fails(0) /\ UNCHANGED origin
  /\ UNCHANGED <<treeVars, made, base, prs, finalizeVars>>

\* git push, gh pr create: a failure that looks transient and changes nothing.
CallRetried ==
  /\ pc \in {"push", "open"}
  /\ Retries(1)
  /\ UNCHANGED <<treeVars, githubVars, finalizeVars>>

\* gh pr create: refused when nothing is to be merged, and while another pull
\* request of the branch is open, which is then looked up again.  Its answer may
\* be lost.
CreatePr ==
  /\ pc = "open"
  /\ CASE Open # {} -> Goto("open", "relookup") /\ UNCHANGED <<jobVars, prs, faults>>
       [] Open = {} /\ origin \subseteq base -> Fails(0) /\ UNCHANGED prs
       [] OTHER ->
            /\ Len(prs) < MaxPrs
            /\ prs' = Append(prs, [state |-> "OPEN", draft |-> plan.draft_pr])
            /\ \/ Goto("open", "persist") /\ UNCHANGED <<jobVars, faults>>
               \/ Retries(1)
  /\ UNCHANGED <<treeVars, made, origin, base, finalizeVars>>

PersistPrUrl ==
  /\ pc = "persist"
  /\ pr_url' = Len(prs)
  /\ Succeeds(0)
  /\ stale' = TRUE
  /\ UNCHANGED <<status, treeVars, githubVars, finalizeVars>>

-----------------------------------------------------------------------------
(* run_pr_finalize. *)

FinalizePasses(failed) == Succeeds(failed) /\ stale' = FALSE /\ UNCHANGED <<status, pr_url>>

StartMonitor ==
  /\ pc = "finalize"
  /\ IF plan.skip_pr \/ pr_url = 0 THEN FinalizePasses(0)
     ELSE Goto("finalize", "monitor") /\ UNCHANGED <<jobVars, faults>>
  /\ UNCHANGED <<treeVars, githubVars, finalizeVars>>

\* The fixers that pr-monitor.sh spawns edit the worktree, commit and push; it exits
\* clean only when they are through.
FixersEdit ==
  /\ Goto("monitor", "fixing") /\ pr_url \in Open /\ made < MaxEdits
  /\ made' = made + 1 /\ dirty' = dirty \cup {made + 1}
  /\ UNCHANGED <<jobVars, worktree, branched, branch, lost, origin, base, prs,
                 finalizeVars, faults>>

FixersCommit ==
  /\ Goto("fixing", "pushing")
  /\ branch' = branch \cup dirty /\ dirty' = {}
  /\ UNCHANGED <<jobVars, worktree, branched, lost, githubVars, finalizeVars, faults>>

FixersPush ==
  /\ Goto("pushing", "monitor") /\ origin \subseteq branch
  /\ origin' = branch
  /\ UNCHANGED <<jobVars, treeVars, made, base, prs, finalizeVars, faults>>

MonitorFails ==
  /\ pc \in {"monitor", "fixing", "pushing"}
  /\ pr_url \notin Open \/ (pc = "pushing" /\ ~(origin \subseteq branch))
  /\ Fails(0)
  /\ UNCHANGED <<treeVars, githubVars, finalizeVars>>

MonitorEnds ==
  /\ pc = "monitor" /\ pr_url \in Open
  /\ IF plan.merge THEN Goto("monitor", "merge") /\ UNCHANGED <<jobVars, faults>>
                   ELSE FinalizePasses(0)
  /\ UNCHANGED <<treeVars, githubVars, finalizeVars>>

Merge ==
  /\ pc = "merge"
  /\ IF MergeAccepted(pr_url)
     THEN Merged(pr_url) /\ (FinalizePasses(0) \/ Fails(1))
     ELSE Fails(0) /\ UNCHANGED <<prs, base>>
  /\ UNCHANGED <<treeVars, made, origin, finalizeVars>>

-----------------------------------------------------------------------------
(* run_summary. *)

\* git worktree remove --force; its failure is swallowed.
RemoveWorktree ==
  /\ Goto("cleanup", "complete")
  /\ IF plan.no_worktree \/ ~worktree THEN UNCHANGED <<worktree, dirty, lost, faults>>
     ELSE \/ worktree' = FALSE /\ dirty' = {} /\ lost' = lost \cup dirty /\ UNCHANGED faults
          \/ UNCHANGED <<worktree, dirty, lost>> /\ Fault
  /\ UNCHANGED <<jobVars, branched, branch, githubVars, finalizeVars>>

Complete ==
  /\ pc = "complete"
  /\ status' = "COMPLETED"
  /\ Succeeds(0)
  /\ UNCHANGED <<pr_url, stale, treeVars, githubVars, finalizeVars>>

-----------------------------------------------------------------------------
(* People. *)

MarkReady ==
  /\ pc = "idle" /\ status # "READY" /\ jobs < MaxJobs
  /\ status' = "READY"
  /\ UNCHANGED <<runVars, plan, jobs, job_state, recorded, pr_url, stale, treeVars, githubVars,
                 finalizeVars, faults>>

ClosePr(p) ==
  /\ p \in Open
  /\ prs' = [prs EXCEPT ![p].state = "CLOSED"]
  /\ UNCHANGED <<runVars, jobVars, treeVars, made, origin, base, finalizeVars, faults>>

MergePr(p) ==
  /\ p \in Open
  /\ Merged(p)
  /\ UNCHANGED <<runVars, jobVars, treeVars, made, origin, finalizeVars, faults>>

-----------------------------------------------------------------------------
Next ==
  \/ Execute \/ Resume \/ Die \/ Cancel
  \/ BeginStep \/ AbortKilled \/ CallOfStepFails \/ MarkFailed \/ RecordFailed \/ PipelineEnds
  \/ FlipExecuting \/ EnsureWorktree
  \/ WaveEdit \/ StepPasses \/ TestsRunAgain
  \/ FindPr \/ NoPrFound \/ RelookupFails \/ CommitWorktree \/ Push \/ CallRetried \/ CreatePr
  \/ PersistPrUrl
  \/ StartMonitor \/ FixersEdit \/ FixersCommit \/ FixersPush \/ MonitorFails \/ MonitorEnds \/ Merge
  \/ RemoveWorktree \/ Complete
  \/ MarkReady \/ \E p \in Open : ClosePr(p) \/ MergePr(p)
  \/ FinalizeNext /\ UNCHANGED <<runVars, jobVars, treeVars>>

Spec == Init /\ [][Next]_vars

\* The pr-finalize job goes on; nothing is asked of the plan's own runs.
Fairness == WF_vars(FinalizeStep /\ UNCHANGED <<runVars, jobVars, treeVars>>)

FairSpec == Spec /\ Fairness

-----------------------------------------------------------------------------
TypeOK ==
  /\ FinalizeTypeOK
  /\ plan \in Manifests
  /\ status \in {"READY", "EXECUTING", "COMPLETED", "FAILED"}
  /\ jobs \in 0 .. MaxJobs
  /\ job_state \in {"Running", "Failed", "Succeeded"} /\ recorded \subseteq Steps
  /\ pr_url \in {0} \cup DOMAIN prs /\ stale \in BOOLEAN
  /\ runner \in {"daemon", "execute", "resume"} /\ copy \subseteq Steps /\ from \in Steps
  /\ pc \in PCs /\ seq \in 1 .. (LastStep + 1) /\ retries \in 0 .. 3
  /\ worktree \in BOOLEAN /\ branched \in BOOLEAN
  /\ dirty \subseteq Edits /\ branch \subseteq Edits /\ lost \subseteq Edits

\* A pull request that pr_creation opens, or is about to, has whatever the plan's runs
\* and fixers have ever edited, also those that died or failed, in its branch or its
\* target, but for what a summary threw away before (run_pr_creation).
PrCarriesWork == pc \in {"open", "persist"} => Edits \subseteq origin \cup base \cup lost

\* What was to be merged is merged when the job says that it succeeded: the plan's
\* pipeline and the pr-finalize job alike, however the other one interferes.  (A resume
\* skips a pr_finalize that succeeded before pr_creation ran once more: stale.)
MergedWhenDone ==
  /\ fstep = "succeeded" /\ fmerge => prs[fpr].state = "MERGED"
  /\ status = "COMPLETED" /\ plan.merge /\ ~plan.skip_pr /\ pr_url # 0 /\ ~stale =>
       prs[pr_url].state = "MERGED"

\* A pr-finalize job comes to its end: each of its calls has a time-out.
FinalizeEnds == fstep \in FinalizeSteps ~> fstep \in {"succeeded", "failed"}

-----------------------------------------------------------------------------
(* What the repository says and the code does not do. *)

\* "Wave sub-agents edit files but do not commit. Stage + commit any outstanding
\* worktree changes here" (run_pr_creation): when it has succeeded, nothing is left
\* uncommitted, which the summary would remove with the worktree.
OutstandingCommitted ==
  [][(pc \in {"lookup", "relookup", "persist"} /\ pc' = "loop") => dirty' = {}]_vars

\* compute_changed_files: what HEAD has and the base has not.
ChangedFiles == branch \ base

\* "Computes the list of files this plan run has changed" (compute_changed_files),
\* which the reviewers are handed.
ReviewersSeeChanges == pc = "reviews" => (dirty \cup branch) \ base \subseteq ChangedFiles

\* "Silently skipped when there's no PR URL (skip_pr=true)" (run_summary).
SkippedPrIsNotOpened == plan.skip_pr => prs = <<>>

\* "The pipeline reaches summary only when every prior step returned Success"
\* (run_summary): what pr_creation recorded is what pr_finalize has finalized.
SummaryOfFinalized == pc \in {"cleanup", "complete"} => ~stale
=============================================================================
