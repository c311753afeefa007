---------------------------- MODULE HelperSteps ----------------------------
(***************************************************************************)
(* The steps code_review and validation, one after the other in the same   *)
(* worktree: run_helper_fix_loop inside run_step_with_retries.             *)
(*                                                                         *)
(* One call of the helper (an external process) may pass, ask for a fix    *)
(* wave, or ask for hand-offs.  Hand-offs are dispatched and their outputs *)
(* left in a file of the worktree, the sidecar, whose name holds only the  *)
(* number of the iteration; the next call finds it by that name.  Nothing  *)
(* deletes a sidecar.  How a fix wave runs is WaveScheduler's subject.     *)
(***************************************************************************)
EXTENDS Integers, Sequences, FiniteSets

CONSTANTS MaxIterations,   \* MAX_FIX_LOOP_ITERATIONS
          TransientMax,    \* RetryTransient.max of helper_compose_policy
          ProtocolMax,     \* RetryProtocol.max of helper_compose_policy
          Findings,        \* hashes of sets of findings
          MaxResumes       \* bound: how often the job is resumed

ASSUME IterationsAssumption == MaxIterations \in Nat \ {0}
ASSUME BudgetsAssumption    == TransientMax \in Nat /\ ProtocolMax \in Nat
ASSUME ResumesAssumption    == MaxResumes \in Nat
ASSUME FindingsAssumption   == "none" \notin Findings

VARIABLES
  kind,            \* the step, code_review or validation
  phase,           \* where it is
  attempt, transient_used, protocol_used,   \* run_step_with_retries
  outcome,         \* of the attempt, "none" while it runs
  iteration,       \* of the fix loop
  prior_findings,  \* prior_findings_hash, "none" at first
  prior_outputs,   \* the helper was given the path of a sidecar
  sidecars,        \* the iterations whose sidecar exists in the worktree
  resumes,
  (* History, read by properties only. *)
  dispatched,      \* iterations of this attempt that dispatched hand-offs
  fix_waves,       \* fix waves that this attempt completed
  calls,           \* helper calls of this step
  outcomes         \* of the attempts of this step

retryVars == <<attempt, transient_used, protocol_used>>
loopVars  == <<iteration, prior_findings, prior_outputs, dispatched, fix_waves>>
vars == <<kind, phase, retryVars, outcome, loopVars, sidecars, resumes, calls, outcomes>>

Kinds  == {"code_review", "validation"}
Phases == {"head", "helper", "fix_wave", "handoffs", "attempted", "returned"}
Outcomes == {"Success", "TransientInfra", "ProtocolViolation", "HardInfra",
             "SemanticMistake", "SpecDrift"}

-----------------------------------------------------------------------------
(* The fix loop: run_helper_fix_loop. *)

LoopStart ==
  /\ phase' = "head"
  /\ outcome' = "none"
  /\ iteration' = 0
  /\ prior_findings' = "none"
  /\ prior_outputs' = FALSE
  /\ dispatched' = {} /\ fix_waves' = 0

Init ==
  /\ kind = "code_review" /\ phase = "head" /\ outcome = "none"
  /\ attempt = 1 /\ transient_used = 0 /\ protocol_used = 0
  /\ iteration = 0 /\ prior_findings = "none" /\ prior_outputs = FALSE
  /\ sidecars = {} /\ resumes = 0
  /\ dispatched = {} /\ fix_waves = 0 /\ calls = 0 /\ outcomes = <<>>

\* The attempt is over.
AttemptEnds(o) ==
  /\ phase' = "attempted"
  /\ outcome' = o
  /\ outcomes' = Append(outcomes, o)

\* Considered defect: the sidecar is looked for under the iteration itself.
SidecarOfThis(n) == n > 1 /\ n \in sidecars

SidecarOfPrevious(n) == n > 1 /\ n - 1 \in sidecars

\* Considered defect: one iteration too many.
OverCapLate(n) == n > MaxIterations + 1

OverCap(n) == n > MaxIterations

\* The head of the loop: cap, wall-clock budget, then the next helper call.
CapReached ==
  /\ phase = "head"
  /\ OverCap(iteration + 1)
  /\ iteration' = iteration + 1
  /\ AttemptEnds("Success")
  /\ UNCHANGED <<kind, retryVars, prior_findings, prior_outputs, dispatched, fix_waves,
                 sidecars, resumes, calls>>

\* Two hours are not over before the first call.
BudgetExceeded ==
  /\ phase = "head"
  /\ iteration > 0 /\ ~OverCap(iteration + 1)
  /\ iteration' = iteration + 1
  /\ AttemptEnds("TransientInfra")
  /\ UNCHANGED <<kind, retryVars, prior_findings, prior_outputs, dispatched, fix_waves,
                 sidecars, resumes, calls>>

CallHelper ==
  /\ phase = "head"
  /\ ~OverCap(iteration + 1)
  /\ iteration' = iteration + 1
  /\ prior_outputs' = SidecarOfPrevious(iteration')
  /\ phase' = "helper"
  /\ calls' = calls + 1
  /\ UNCHANGED <<kind, retryVars, outcome, prior_findings, dispatched, fix_waves,
                 sidecars, resumes, outcomes>>

\* Success, Blocked or Abort, or an error of the call.
HelperConcludes(o) ==
  /\ phase = "helper"
  /\ o \in Outcomes \ {"SemanticMistake"}
  /\ AttemptEnds(o)
  /\ UNCHANGED <<kind, retryVars, loopVars, sidecars, resumes, calls>>

\* Considered defect: a set of findings is not told from its predecessor.
AnyFindings(f) == f # "none"

SameFindings(f) == f # "none" /\ f = prior_findings

\* fix_required; "none" stands for findings that cannot be read.
FixRequired(f) ==
  /\ phase = "helper"
  /\ IF SameFindings(f)
     THEN AttemptEnds("SemanticMistake") /\ UNCHANGED prior_findings
     ELSE /\ prior_findings' = IF f = "none" THEN prior_findings ELSE f
          /\ phase' = "fix_wave"
          /\ UNCHANGED <<outcome, outcomes>>
  /\ UNCHANGED <<kind, retryVars, iteration, prior_outputs, dispatched, fix_waves,
                 sidecars, resumes, calls>>

WaitingForHandoffs ==
  /\ phase = "helper"
  /\ phase' = "handoffs"
  /\ UNCHANGED <<kind, retryVars, outcome, loopVars, sidecars, resumes, calls, outcomes>>

\* dispatch_fix_wave: the findings become a wave of the manifest, which is run.
FixWave ==
  /\ phase = "fix_wave"
  /\ \/ /\ phase' = "head"
        /\ fix_waves' = fix_waves + 1
        /\ UNCHANGED <<outcome, outcomes>>
     \/ /\ \E o \in {"ProtocolViolation", "HardInfra", "SemanticMistake"} : AttemptEnds(o)
        /\ UNCHANGED fix_waves
  /\ UNCHANGED <<kind, retryVars, iteration, prior_findings, prior_outputs, dispatched,
                 sidecars, resumes, calls>>

\* dispatch_handoffs_and_resume: without a required failure the outputs go to
\* the sidecar of this iteration.
Handoffs ==
  /\ phase = "handoffs"
  /\ \/ /\ phase' = "head"
        /\ sidecars' = sidecars \cup {iteration}
        /\ dispatched' = dispatched \cup {iteration}
        /\ UNCHANGED <<outcome, outcomes>>
     \/ /\ \E o \in {"ProtocolViolation", "HardInfra", "SemanticMistake"} : AttemptEnds(o)
        /\ UNCHANGED <<sidecars, dispatched>>
  /\ UNCHANGED <<kind, retryVars, iteration, prior_findings, prior_outputs, fix_waves,
                 resumes, calls>>

-----------------------------------------------------------------------------
(* The retries: run_step_with_retries. *)

\* Considered defect: the two kinds of retry share one budget.
RetriesTransientShared ==
  outcome = "TransientInfra" /\ transient_used + protocol_used < TransientMax

RetriesTransient == outcome = "TransientInfra" /\ transient_used < TransientMax

\* Considered defect: the protocol budget is never used up.
RetriesAnyProtocol == outcome = "ProtocolViolation"

RetriesProtocol == outcome = "ProtocolViolation" /\ protocol_used < ProtocolMax

Retry ==
  /\ phase = "attempted"
  /\ RetriesTransient \/ RetriesProtocol
  /\ transient_used' = transient_used + IF RetriesTransient THEN 1 ELSE 0
  /\ protocol_used' = protocol_used + IF RetriesTransient THEN 0 ELSE 1
  /\ attempt' = attempt + 1
  /\ LoopStart
  /\ UNCHANGED <<kind, sidecars, resumes, calls, outcomes>>

\* Considered defect: a hard failure is neither retried nor returned.
GivesUpUnlessHard ==
  ~RetriesTransient /\ ~RetriesProtocol /\ outcome # "HardInfra"

GivesUp == ~RetriesTransient /\ ~RetriesProtocol

Return ==
  /\ phase = "attempted"
  /\ GivesUp
  /\ phase' = "returned"
  /\ UNCHANGED <<kind, retryVars, outcome, loopVars, sidecars, resumes, calls, outcomes>>

\* The pipeline enters a step with fresh budgets and an old worktree.
Enter(step) ==
  /\ phase = "returned"
  /\ kind' = step
  /\ attempt' = 1 /\ transient_used' = 0 /\ protocol_used' = 0
  /\ LoopStart
  /\ calls' = 0 /\ outcomes' = <<>>
  /\ UNCHANGED sidecars

NextStep ==
  /\ outcome = "Success" /\ kind = "code_review"
  /\ Enter("validation")
  /\ UNCHANGED resumes

\* The job failed and is resumed at the failed step.
Resume ==
  /\ outcome # "Success" /\ resumes < MaxResumes
  /\ Enter(kind)
  /\ resumes' = resumes + 1

Work ==
  \/ CapReached \/ BudgetExceeded \/ CallHelper
  \/ \E o \in Outcomes : HelperConcludes(o)
  \/ \E f \in Findings \cup {"none"} : FixRequired(f)
  \/ WaitingForHandoffs \/ FixWave \/ Handoffs
  \/ Retry \/ Return \/ NextStep

Next == Work \/ Resume

Spec == Init /\ [][Next]_vars

\* The pipeline's task is scheduled again and again; helper, waves and hand-offs
\* all end, by themselves or by their time-outs.  Nobody has to resume the job.
FairSpec == Spec /\ WF_vars(Work)

-----------------------------------------------------------------------------
TypeOK ==
  /\ kind \in Kinds
  /\ phase \in Phases
  /\ attempt \in 1 .. (1 + TransientMax + ProtocolMax)
  /\ transient_used \in 0 .. TransientMax
  /\ protocol_used \in 0 .. ProtocolMax
  /\ outcome \in Outcomes \cup {"none"}
  /\ iteration \in 0 .. (MaxIterations + 1)
  /\ prior_findings \in Findings \cup {"none"}
  /\ prior_outputs \in BOOLEAN
  /\ sidecars \subseteq 1 .. MaxIterations
  /\ resumes \in 0 .. MaxResumes
  /\ dispatched \subseteq sidecars
  /\ fix_waves \in 0 .. MaxIterations
  /\ calls \in Nat
  /\ outcomes \in Seq(Outcomes)

\* The outputs of hand-offs reach the helper: a call that follows a dispatch is
\* given the sidecar.
OutputsDelivered ==
  phase = "helper" /\ iteration - 1 \in dispatched => prior_outputs

\* Retries and iterations multiply, but stay bounded: a step calls the helper at
\* most MaxIterations times in each of its attempts, and makes no more attempts
\* than the two budgets together allow.
CallsBounded ==
  /\ attempt = 1 + transient_used + protocol_used
  /\ calls <= attempt * MaxIterations

\* The loop gives up for lack of progress only after it has run a fix wave in
\* this very attempt: findings of an earlier attempt, step or run do not count.
NoProgressAfterFix ==
  [][phase = "helper" /\ outcome' = "SemanticMistake" => fix_waves > 0]_vars

\* Each step returns, and the pipeline stops at one of them for good.
Settles == <>[](phase = "returned")

\* A step makes the attempts that StepRetry promises and no others.
Retries == INSTANCE StepRetry WITH returned <- (phase = "returned")
ImplementsRetries == Retries!Spec

-----------------------------------------------------------------------------
(* The inductive invariant behind the properties above. *)

\* A call is made within the cap, with the sidecar that is there; findings are
\* remembered only together with the fix wave they led to.
LoopInv ==
  /\ phase = "head" => iteration <= MaxIterations
  /\ phase \in {"helper", "fix_wave", "handoffs"} =>
       iteration \in 1 .. MaxIterations /\ fix_waves < iteration
  /\ phase = "helper" => prior_outputs = SidecarOfPrevious(iteration)
  /\ fix_waves <= iteration
  /\ phase \in {"head", "helper", "fix_wave", "handoffs"} => outcome = "none"
  /\ phase \in {"head", "helper", "handoffs"} /\ prior_findings # "none" => fix_waves > 0

\* Every attempt but the first was paid for, and every call belongs to an
\* attempt.
RetryInv ==
  /\ attempt = 1 + transient_used + protocol_used
  /\ calls <= (attempt - 1) * MaxIterations + iteration
  /\ calls <= attempt * MaxIterations

HInv == TypeOK /\ LoopInv /\ RetryInv

-----------------------------------------------------------------------------
(* What the repository says and the code does not do. *)

\* "The cap counts review rounds.  After round MAX_FIX_LOOP_ITERATIONS the step
\* dispatches its fix wave and exits Success" (MAX_FIX_LOOP_ITERATIONS): at the
\* cap, every round has run its fix wave.
CapAfterFixWaves ==
  phase = "attempted" /\ OverCap(iteration) /\ outcome = "Success"
    => fix_waves = MaxIterations

\* "Re-entry sidecar from the previous loop iteration's dispatch, when present;
\* absence simply means the prior iteration was a fresh dispatch" (input of the
\* helper): the sidecar a call is given was written by the iteration before it.
SidecarIsOwn ==
  phase = "helper" /\ prior_outputs => iteration - 1 \in dispatched
=============================================================================
