# Verification of plan-executor

plan-executor runs a compiled plan (`tasks.json`) as a *job*: a daemon, or a
foreground process, walks the steps of a pipeline, dispatches waves of
sub-agents, calls reviewing helpers, turns the result into a pull request, and
records the progress on disk so that a failed job can be resumed.  A plan can
also be executed remotely, by a runner behind a pull request of another
repository.  This directory holds TLA+ models of that program, the TLC
configurations that check them on small instances, and theorems that TLAPS
checks for every instance.  Paths such as `scheduler.rs` are relative to
`src/src/`, those that begin with `docs/` to `src/`.

Run a model with `tlc -config X.cfg M` and the proofs with `tlapm M.tla`.

## 1. The system

| Component | Source | State | Operations | Model |
|---|---|---|---|---|
| Wave scheduler | `scheduler.rs` | order of waves, results of the current wave | order the waves, dispatch, retry, classify, abort | `WaveScheduler` |
| Sub-agent dispatch | `handoff.rs`, `proctree.rs` | prompt files, processes, output read so far | prepare prompt, spawn, read, grace, kill, reap | `DispatchAgent` |
| Supervision | `daemon.rs`, `config.rs` | listed process groups, last activity, start of the job | register, stamp, watchdog, kill, pause | `Supervision` |
| Pipeline runtime | `job/runtime.rs` | position in the pipeline, skip mask | run, skip, abort, persist a step | `JobLifecycle` |
| Step retries | `job/runtime.rs`, `job/recovery.rs` | two retry counters | attempt, retry, return | `StepRetry` |
| Daemon | `daemon.rs`, `jobs.rs` | `running_jobs`, `history`, `paused_jobs`; `metadata.json` | execute, kill, watchdog, pause, resume, finalize, start | `JobLifecycle` |
| Foreground | `cli.rs` | a copy of the `Job` it read | execute, resume | `JobLifecycle` |
| Job store | `job/storage.rs`, `job/cli.rs` | `job.json` | create, write, cancel, gc | `JobLifecycle` (not gc) |
| Helper fix loop | `job/steps/plan.rs` | iteration, findings hash, sidecars | call helper, fix wave, hand-offs, cap, budget | `HelperSteps` |
| Helper calls | `helper.rs` | the helper's process, captured lines | spawn, time out, kill, drain, find the envelope | `HelperCall` |
| Fix-wave compilation | `compile.rs`, `validate.rs`, `schema.rs`, `job/steps/plan.rs` | waves of `tasks.json` | append, check, dispatch the new waves | `FixWaves` |
| Remote executions, execution gate | `remote.rs`, `daemon.rs`, `cli.rs`, `docs/remote-execution/execute-plan.yml` | `plan.status`, metadata, `remote_executions`, pull requests | gate, trigger, record, track, poll, restore | `RemoteExecutions` |
| Preflight, tests, PR steps, summary | `job/steps/plan.rs` | worktree, branch, edits, pull request, `pr-url` | set up, commit, push, open, monitor, merge, remove, complete | `PlanDelivery` |
| pr-finalize job | `job/steps/pr_finalize.rs`, `cli.rs` | its pull request, the current step | look up, mark ready, monitor, merge, report | `PrFinalize` |
| Journal, metrics, IPC, config, CLI parsing | rest | – | reading, counting, framing | not modelled |

The parts meet in five places.  *Calls:* a run walks steps
(`run_pipeline_with_resume`), a step under its retry policy is attempted again
(`run_step_with_retries`), the helper steps call a helper and in turn the wave
scheduler, which dispatches sub-agents.  *Files shared without a lock:*
`job.json` is written by every run (status of each step, final state), by every
resume and by `jobs cancel`; `tasks.json` by preflight, summary, the end of a
failed run, the poller and the fix-wave compiler; sidecars and the worktree by
both helper steps and by every run.  *The daemon's mutex* guards `running_jobs`,
`sub_agent_pgids`, `remote_executions` and `history`, but no lock is held over a
step or a call of gh, and job.json is not written under it.  *Processes:* the
daemon, foreground processes, sub-agents, helpers and their commands run side by
side; each may die at any point, or live longer than the one that started it.
*git and GitHub:* branch and pull request outlive the job and are changed by
people, by `pr-monitor.sh` and by the pr-finalize job.

What is hard here, therefore: overlapping runs of one job; kills that take
effect only between steps; resumes that trust what earlier runs, lost writes and
crashes left on disk; three nested loops of retries that must stay bounded;
sub-agents that exit in any order, or whose commands outlive them; output,
exits, time-outs and kills that race each other; a subprocess that rewrites the
manifest that is being executed; a sequence of writes to manifest, metadata and
memory with nothing that ties them together; calls of gh whose effect happened
and whose answer was lost.  `PROJECT.json` lists the hazards line by line.

What makes each component correct:

* scheduler: a wave runs after all it depends on has succeeded, a cycle is
  refused before anything runs, no retry is lost or spent on the wrong
  sub-agent, the step returns;
* dispatch and supervision: what a sub-agent printed as its result arrives
  whatever ends it; every running sub-agent can be killed; the watchdog kills
  only what is overdue when it acts, and a job ends at the hard cap;
* runtime and job: a step starts only when every earlier step has succeeded
  once; success is said only of a whole pipeline; the records of a job agree, a
  kill is not overwritten by the run it killed, and `running_jobs` lists the job
  exactly while there is a run to kill -- the last three only while runs do not
  overlap;
* fix loop: hand-off outputs reach the next call; calls and attempts are bounded
  by cap and budgets; giving up for lack of progress follows a fix wave;
* helper call: an answer counts only from a helper that exited in time; a process
  that it left in its group does not hold up a job with a hard cap for ever;
* fix waves: what is dispatched has an order, and the waves known before are in
  the file unchanged;
* remote executions: what is recorded as a success has succeeded and stays a
  success, what is recorded at all is closed, and what is tracked settles;
* delivery: the pull request that pr_creation opens has every edit that no summary
  has removed; success of a merge means merged; the pr-finalize job ends.

## 2. Modules

`WaveDag` – what wave execution promises: each wave at most once, one at a time,
after its dependencies, nothing after a failure.

`WaveScheduler` – `run_wave_execution`, line by line of its control.  `PopReady`
and `FinishOrdering` are Kahn's algorithm (`topological_wave_order`); the code's
stack sorted in descending order is a set of which the minimum is taken.
`StartWave`, `AgentExit`, `RetryPass` are `dispatch_wave_with_retries`.
`FinishWave` classifies and aborts or goes on.  `BadHandoff` and `LoadConfig` are
the early returns.  It implements `WaveDag` under a refinement mapping that reads
each wave's status off `wave_outcomes`.

`DispatchAgent` – one dispatch task per sub-agent, as `dispatch_agent` is one:
`Spawn` (prompt file prepared, process group sent to the registrar), `Reap`,
`GraceOver`, `Drain`, and `Redispatch` for the scheduler's retry.  The sub-agent
is a process that prints results and replies to notifications, starts one
command that inherits its stdout, and exits with or without it.  A kill
enumerates the process tree and then signals it; a command started in between
survives (`MayStart`).  A reader that meets output it cannot read stops (`torn`).

`Supervision` extends it with the daemon: `RegisterGroup` (registrar task),
`ReadLine`, `Chatter`, `WriteLine` (readers and the writer that stamps the
activity), `WatchdogLooks` and `WatchdogActs` (the two critical sections of
`watchdog_check`), `KillJob`, `Pause`, `Unpause`, `Finalize`.  Clocks are ages
that stop at the limit they are compared with.

`JobLifecycle` – one job.  Disk: `job_state` and `step_status` (`job.json`),
`manifest` (`plan.status`), `saved_meta` (`metadata.json`), `display` (steps with
a success line in `display.log`).  Daemon: `up`, `running_job`, `history`,
`paused`.  Each run has a program counter:

    register -> loop, or loop                   first execution in either host
    flip -> register -> open -> loop            resume in the daemon
    flip -> loop                                resume in the foreground
    loop -> step -> persist -> loop ...        the pipeline
    ended -> record -> metadata -> free         end of a daemon run
    ended -> free                               end of a foreground execute
    ended -> manifest -> free                   end of a foreground resume

`Init` is the moment after `job.json` was created by an execute in either host.
`ReadForResume` and `FlipToRunning` are two steps because nothing keeps another
resume, a cancel or a run from acting between them.  `OpenJob` is the resumed task
that cannot open the job's directory and returns: its entry in `running_jobs` stays
(`stranded`) until a kill, the watchdog or the finalizer of another run takes it out.  `KillJob`, `WatchdogKill`,
`PauseJob`, `ResumeJob`, `Cancel`, `DaemonCrash`, `DaemonStart` and
`ForegroundCrash` may happen whenever the code lets them.

`StepRetry` – what `run_step_with_retries` promises: one more attempt exactly as
long as the last outcome's own budget is not used up.  `HelperSteps` implements
it; `HelperCall` uses its definition of when an attempt is made again.

`HelperSteps` – `code_review` and then `validation` in one worktree:
`run_helper_fix_loop` (`CapReached`, `BudgetExceeded`, `CallHelper`,
`HelperConcludes`, `FixRequired`, `FixWave`, `WaitingForHandoffs`, `Handoffs`)
inside `run_step_with_retries` (`Retry`, `Return`) inside the pipeline
(`NextStep`, `Resume`).  Findings are compared by their hash.

`HelperCall` – one helper call per attempt (`invoke_helper`), between the helper's
processes and the daemon's kill: `Spawn`, `WaitReturns` or `TimesOut`,
`KillChild`, `Drained`, `NextAttempt`.  A helper may leave a process behind, in its
own group or, as claude's commands are, in another; a drainer may meet output that
it cannot read and stop (`Tear`), so a call can return while its streams are held.
What an attempt left behind is followed to the end of the attempt.  `HardCap` is the
watchdog, which a pause holds back and a configuration may turn off.  A result text is
a sequence of chunks, as far as `balanced_object_blocks` and the schema tell them
apart; `Captured` stops after the line that crosses the cap, and `RawEnvelope` is the
search over the raw output when it has no result line.

`FixWaves` – `dispatch_fix_wave` from `Begin` over the findings, the command
`compile-fix-waves`, `append_fix_waves` (`ReadForAppend`, `Accept`, `Reject`) and
the dispatch of the new waves to the typecheck.  The compile-plan skill
(`SkillWrites`) may drop a wave, add one or two of any shape, or leave something
that is no manifest, and a failed call leaves the file as it is for the next
one.  A manifest's tasks are counted to their waves; prompt files are an
attribute of the whole.

`RemoteExecutions` – `trigger_execution` and `trigger_remote` from the READY gate
over branch, files, pull request, flip and metadata to tracking; `TrackRemote`;
`poll_remote_executions` as the steps between which it holds no lock; deaths of
both hosts, writes that fail, and `DaemonStarts`.  Requests and executions overlap as
they do in the code.  `Close` and `Label` are the last step of the runner's workflow:
it closes the pull request, and labels it afterwards, each if it can.

`PrFinalize` – the five steps of the pr-finalize job with their retries; a call
may take effect and its answer be lost.  `PlanDelivery` extends it with the
plan's own pipeline on the same branch, call by call in `run_pr_creation`,
`run_pr_finalize` and `run_summary`, and with deaths, resumes, further
executions and people.  `recorded` is what `job.json` says of the steps: a status
write may fail, a run that dies leaves the job Running (only a cancel makes it
resumable), and the end of a foreground resume puts back the statuses it read
(`copy`).  A resume therefore walks again over steps that had their effect.  An edit
is a number; the state says whether it is uncommitted, in the branch, pushed, in the
base, or lost with the worktree.  `stale` says that `pr_creation` has succeeded since
`pr_finalize` last did.

`WaveSchedulerProofs`, `JobLifecycleProofs`, `HelperStepsProofs`,
`HelperCallProofs`, `FixWavesProofs`, `SupervisionProofs`,
`RemoteExecutionsProofs`, `PlanDeliveryProofs` – the theorems.  The `MC` modules
give instances their values and symmetry.

Definitions introduced by "Considered defect" are plausible bugs of the
definition that follows; no specification uses them.  They document what each
property would catch: substituted for the definition that follows them, they
violate it.

## 3. Runs

| Run | Instance | Question |
|---|---|---|
| `wave_scheduler` | 3 waves with every relation `depends_on`, 3 sub-agents, each tolerated or not, 2 retries | ordering, dispatch, retries, refinement, termination |
| `job_serial` | 3 steps, 1 run slot, both hosts, status writes may be lost | properties of one run at a time, with unboundedly many resumes |
| `job_overlap` | 3 steps, 2 run slots in the daemon | what holds when runs overlap |
| `helper_steps` | cap 3, budgets 3 and 1 (the shipped values), 2 hashes, 1 resume | bounds, delivery, refinement, settling |
| `supervision` | 1 sub-agent with a slash-command prompt, 2 dispatches, 2 result lines, stall limit 1, hard cap 2 | results, reachability by kills, the watchdog, ends |
| `helper_call` | 4 result texts, 2 lines, cap 0, budgets 1 and 1, both hosts | answers in time, leftovers |
| `fix_waves` | 1 original wave, ids to 3, 3 calls, any file from the skill | order and preservation |
| `remote` | a daemon and a command-line client, 2 pull requests, 1 death or failed write, any overlap | truth of the records, successes kept, settling |
| `plan_delivery` | 4 manifests, 2 executions, 2 edits, 1 pull request, 1 fault | where the work is, merges, the end of pr-finalize |
| `job_clobbered`, `delivery_dropped`, `delivery_unseen` | as above, the delivery with 2 pull requests and 2 faults | statements of the repository that the code does not keep |

Why the bounds are enough.  Three waves give chains, forks, joins, and cycles of
length one to three; three agents allow one to succeed, one to fail for good and
one to be retried in the same pass; two retries are the constant of the code.
Three steps are the least with a first step (preflight, always run again), a
middle one (skippable) and a last one (summary, which completes the manifest), so
that a resume beside another run can skip.  The number of resumes, kills and crashes of a
job is not bounded.  Two hashes suffice to tell "same findings" from "other
findings".  Sub-agents of a batch share nothing but the daemon's list, so one
with two dispatches shows the race of an old process group with a new one; two
result lines are a result and the reply to a notification; limits of one and two
ticks put the stall before the hard cap and let either be missed.  The cap of 0
lines makes the second line the first that is not captured.  With `FixBase` 2
and ids to 3, a call can append one wave, two, or a wave beside one left by a
rejected call; the second and third call work on such a file.  Two pull
requests and two clients let a late poll or notice of the first meet the second, and
two requests pass the gate together; one fault is a death, or a write that is lost, at
any point of a trigger or a poll.  Two executions and two edits are the least at which
work of one execution can be missing from the other's pull request; one fault
(`MaxFaults`: a call that fails, an answer or a status write that is lost, a kill, a
death) stops a run at any point, after which a cancel, any resumes and a second
execution follow without further faults, and the foreground resumes take statuses
back.  With a second pull request `plan_delivery` outgrows what is checked every time;
`PlanDelivery_wider.cfg` has it for the invariants (7.5 million states).
`MaxJobs`, `MaxPrs`, `MaxEdits`, `MaxFaults`, `MaxCalls`, `MaxResumes`, `MaxId`,
`MaxLines` and `MaxDispatches` are bounds of the model; only `MaxDispatches`
stands for a number of the code (the scheduler's retries).

The wave scheduler, the helper models, the fix waves, the supervision, the remote
executions and the delivery stop when their bounds are used up or they return;
their configurations do not check for deadlock.  A job never deadlocks, it can
always be resumed, cancelled, or its daemon crash and start.

### Fairness

* Scheduler: weak fairness of the task's own steps and of each sub-agent's exit.
  The tokio runtime polls a ready task again; a sub-agent ends by itself, by the
  grace after its terminal result, or by the watchdog.
* Job: none.  No property of a job rests on its steps returning: waves, the test
  command and `pr-monitor.sh` have no time-out of their own.
* Helper steps: weak fairness of `Work`, not of `Resume`.
* Supervision: tasks, readers, writer, registrar, watchdog and time; nothing
  about what sub-agents and their commands do.  Hence `ResultReturns` excludes
  sub-agents that leave a command behind, and `JobEnds` needs no exit.
* Helper call: the step, the registrar and the watchdog's hard cap; neither the
  helper nor what it leaves behind has to exit.  `LeftoverIsKilled` asks for nothing
  when the cap is off, the job is paused or killed, or the process is in a group of
  its own.
* Remote executions: whoever has begun goes on, the daemon is started again, and
  strong fairness of `PollClosed`: gh answers now and then.  No pull request has
  to close, and no label has to come.
* Delivery: weak fairness of the calls of the pr-finalize job, each of which has a
  time-out, and of nothing of the plan's own pipeline.

### What the code does not do as documented

Three of the runs are answered by TLC with a counterexample.

1. `job_clobbered` – the end of a foreground resume writes back the `Job` it read
   at its start, with the step statuses of then (`cli.rs:1743`).
2. `delivery_dropped` – when the branch has an open pull request, `pr_creation`
   returns before it commits or pushes, and the summary removes the worktree by
   force: a second execution of the plan, or a resume that repeats the waves, loses
   its edits and is COMPLETED (`plan.rs:3161`).
3. `delivery_unseen` – `changed_files`, which reviewers and validator are given,
   lists what is committed, and the waves' edits are committed after the reviews
   (`plan.rs:2018`).

Further counterexamples come from these configurations, run by hand:

| Configuration | Property | What it shows |
|---|---|---|
| `JobLifecycle_redone` | `OnlyPreflightRedone` | a resume of a resume can run steps again that are recorded as Succeeded (`daemon.rs:1736`, against `runtime.rs:265`) |
| `JobLifecycle_revived` | `KilledRunStops` | kill, cancel, resume: the killed run sees the job registered again and goes on (`daemon.rs:1503`) |
| `JobLifecycle_unlisted` | `RunHasEntry` | `job.json` is Failed before the entry is gone: a resume in that gap loses its entry to the old finalizer, and no kill finds it (`daemon.rs:1884`) |
| `JobLifecycle_interrupted` | `InterruptedIsFailed` | a restart marks nothing, a local job's metadata is saved only when it ends (`daemon.rs:191`) |
| `JobLifecycle_skipped` | `NoFailedStepBeforeSummary` | the `display.log` fallback skips a step whose latest outcome is Failed (`daemon.rs:1728`) |
| `HelperSteps_cap` | `CapAfterFixWaves` | hand-off rounds consume iterations, the cap can be reached without the fix waves the comment counts on (`plan.rs:970`) |
| `HelperSteps_sidecar` | `SidecarIsOwn` | a call can be given the sidecar of another attempt, step or run (`plan.rs:1878`) |
| `HelperCall_killed` | `KillStops` | after a kill the step's retries start another helper, outside any watchdog (`runtime.rs:362`) |
| `Supervision_returns` | `DispatchReturns` | a command left behind holds the pipe, and the dispatch waits after the grace period (`handoff.rs:600`) |
| `Supervision_slash` | `SlashStaysFirst` | the deviation block goes above a slash command, the hygiene block then does too (`handoff.rs:235`) |
| `FixWaves_original` | `OriginalWavesPreserved` | a rejected append that damaged a compiled wave is the baseline of the retry (`compile.rs:333`) |
| `RemoteExecutions_overlap` | `TransitionsLand` | with overlapping executions the poller removes a newer entry, which nobody then settles (`daemon.rs:1086`) |
| `RemoteExecutions_mislabelled` | `FailedIsFailed` | a poll between close and label records Failed for a run that succeeded (`docs/remote-execution/execute-plan.yml:479`) |
| `PlanDelivery_skipped` | `SkippedPrIsNotOpened` | `pr_creation` ignores `skip_pr` (`plan.rs:3155`) |
| `PlanDelivery_unmerged` | `SummaryOfFinalized` | after a lost status write a resume opens a new pull request and skips the pr_finalize that is recorded as Succeeded for the old one: COMPLETED, and not merged (`runtime.rs:203`) |

Seen while reading, without a configuration:

* the sidecar's `exit_code` is `i32::from(success)`, 1 for success (`plan.rs:1404`);
  the findings hash selects by `disposition` or `bucket`, the fix wave by
  `category` (`plan.rs:2104`, `2246`); findings without a row that needs a fix
  still invoke the compile skill;
* a foreground execute leaves `job.json` at Running for good;
  `resume_via_daemon` is documented to fall back to the foreground and does not;
* a sub-agent killed in its grace period counts as failed although its result was
  taken; a kill misses groups that are still in the registrar's channel, and the
  listed groups are not cleared when a job ends by itself;
* nothing bounds the wait for a stream that a leftover process holds when there is
  no daemon, nor the integration-test, typecheck and `pr-monitor.sh` commands;
* the command line dying between the metadata and TrackRemote leaves the pull
  request untracked until the daemon restarts; dying between opening and recording
  it orphans it; a manifest write that fails in the poll is not retried;
* `draft_pr` with `merge` never completes; the lost answer of `gh pr merge` fails a
  job whose pull request is merged; one closed by hand leaves a resume stuck at
  pr_finalize; edits that the fixers of a dead monitor left uncommitted go with the
  worktree when a resume gets to the summary; a plan whose pipeline has no pr_creation loses uncommitted edits in
  the summary; with `no_worktree` the user's own checkout is committed and pushed;
* two requests pass the gate together (`daemon.rs:1112`), and the runner of the second
  is shipped a manifest that is no longer READY, which it refuses;
* a helper whose streams both become unreadable is left behind, and the next attempt
  starts beside it (`helper.rs:533`);
* new waves below 100, or of kind implementation, may be appended and are
  dispatched; `depends_on` with a repeated id is refused as a cycle;
* a lone `{` in the prose before the envelope hides it (`helper.rs:638`).

## 4. Proofs

The assumptions are those of the modules: finite sets of waves (positive ids) and
of agents, natural numbers for budgets and caps, a positive cap, at least two steps,
room for one fix wave; where a theorem says so, `OneRun`.

`WaveSchedulerProofs`.  `IInv` is inductive: types; Kahn's invariant (a counter is
the number of dependencies not yet ordered, the work list the unordered waves for
which it is zero, the order has no repetition); the order so far picked the
smallest eligible id each time; the outcomes so far are those of the waves before
the current one; a transiently failed required agent took part in every pass.
The named properties follow from it, also `DependenciesSucceeded` and
`SuccessIsComplete`, which no run lists because the refinement implies them.
`CycleDetection` also needs that a wave outside a maximal order has a dependency
outside it, which makes the rest a cycle; `Implementation` shows each action to be
a `WaveDag` step or a stutter.  `WorkRunsOut`: what is left of ordering, waves,
retries and running sub-agents, compared lexicographically, shrinks with each step.

`HelperStepsProofs`.  `HInv` is inductive: types; calls are made within the cap and
with the sidecar that exists; remembered findings imply a fix wave of this attempt;
attempts are paid for, and calls counted, per attempt
(`calls <= (attempt - 1) * MaxIterations + iteration`), which `CallsBounded` alone
would not carry over a retry.  `CountInv` is inductive beside it: each retry counter
is the number of earlier attempts of this step that ended with its outcome.  With it
`StepsImplementRetries` maps every action to an attempt, a return or a beginning of
`StepRetry`, or to a stutter; what makes the map work is that `Used` of the growing
sequence of outcomes is the counter (`RetriedIffBudget`).  `WorkRunsOut` gives a
lexicographic measure -- steps, attempts, iterations, phases left -- that every step
but a resume makes smaller.  Two theorems say what does hold of comments that the
code does not keep: an attempt that ends at the cap has spent every iteration on a
fix wave or on hand-offs (`CapHasRounds`), and only in the first attempt of the
job's first helper step is the sidecar sure to be its own
(`FirstAttemptReadsItsOwn`).

`JobLifecycleProofs`.  `JInv` is inductive: types; every record of success -- in
`job.json`, in `display.log`, in what a resume read -- names only steps that have
returned `Success`; a run stands behind such steps; whatever calls the whole job a
success stands for all of them (`WholeInv`); the labels of a run's end fit its host; an
entry of `running_jobs` has a daemon run or was stranded.  Nothing in it depends on how
many runs overlap, so the lost updates of section 3 never make a run skip work that
was not done, nor call a job successful that is not (`StepsInOrder`,
`SuccessesAreWhole`).  `RecordsAgree` is false when runs overlap; `SerialRecordsAgree` proves
it under `OneRun`.  Its `SerialInv` adds what a run that ends well has left behind --
the manifest COMPLETED before the end, `job.json` before the metadata -- and that
no run touches a job that `job.json` calls Succeeded.  `SoloInv`, also under
`OneRun`, ties the copy a resume read to what `job.json` still says, a killed run
to an empty `running_jobs`, and a run that is not killed to its entry.  From it follow
`EntriesMatchRuns`, `KilledStaysSaved` -- which needs that nobody registers the job
again while the killed run is under way -- and the limits of two counterexamples of
section 3: without overlap a killed run starts no further step (`KilledRunsStop`),
and a recorded `Succeeded` is lost only when that step is run again or at the end of a
foreground resume (`SuccessIsKept`).  `RunsEnd` needs no `OneRun`: every step of a run
moves it nearer to its end, and nothing that others do moves it back.

`SupervisionProofs`.  `SupInv` is inductive: a task that has not started has no
process, a finished one no running process, a process that does not exist has
printed nothing, a finished task whose sub-agent printed a result, where it could be read, hands on a result,
and a running process's group is listed or on its way.  A kill that forgets the
list is harmless because it kills all that is listed, and no group is taken from
the channel other than into the list.  `NoFalseKill` needs no invariant: the second
critical section evaluates the verdict again.  `PromptsStayClean` rests on
`PreparedFile`: preparing adds each block that is missing and repeats none, wherever
in the file it goes; a second dispatch therefore finds nothing to do
(`PreparedTwice`).  The hypothesis `CompiledOnce`, that compile-plan left a body and
neither block twice, is one the code relies on: nothing in it removes the second of
two.

`HelperCallProofs`.  `CallInv` is the types with `AnswerInTime`, and inductive: a call
ends only when the helper is gone, whether or not its streams are.  The work is in
`ParsedWasPrinted`: an answer that the search finds in what was captured, in the
result line or in the raw output, is a chunk of a line that was printed (the first and
the last position of a set of positions exist by the well-foundedness of the natural
numbers).  `KillStops` is false, but a killed job's helpers are not called without
end: `PaidInv` counts each attempt against the budget it used, so a step makes at most
one attempt more than its budgets hold (`BudgetsEndTheCalls`).

`FixWavesProofs`.  `LoopInv` follows the file through the call: what was read first
is what is checked against, an accepted file keeps it and has no cycle.
`ScopedAcyclic` carries that over to the dispatched waves: each set of stripped
waves comes from a set of waves of the file.

`RemoteExecutionsProofs`.  `BaseInv` is inductive whatever overlaps, dies or is lost:
everything names an existing pull request; a pull request without a result is open,
and only a run that succeeded gets the label (`PullsInv`); what the poller was told
stays true, and where it was told of no label no success is recorded yet
(`PolledInv`); a finished record is of a closed pull request, a success of a labelled
one.  `RecordTruthful` follows.
`SuccessesStand` is an action property: only the poller writes outcomes, only to the
records of the pull request it asked for, and a later answer cannot be without the
label that an earlier one had.

`PlanDeliveryProofs`.  No part of `DeliveryInv` speaks of the recorded steps, because
none can be relied on.  `Located` says where every edit is: anywhere at first, no
longer only in the worktree once committed (`push`), and in the remote branch, the
base or lost once pushed (`open`); fixers and people add edits at other places only.
`PrKnown` ties a run in `pr_finalize` to a recorded pull request, `FinalizeMerged` and
`PlanMerged` tie the report of a merge to the merge; `PlanMerged` holds for the whole
time since `pr_finalize` last succeeded, so that a resume that skips it is covered.

Model-checked only: the liveness properties (`Terminates`, `Settles` of both
models, `JobEnds`, `ResultReturns`, `LeftoverIsKilled`, `FinalizeEnds`), because
TLAPS has no fairness and no ENABLED.  For `Terminates` and the `Settles` of the
helper steps the measures above leave to the runs only that a
scheduled task has a step to take.

## 5. Abstractions, and what is left out

* A read-modify-write of `job.json` (`persist_step_status`, cancel, the final
  record) is one action, as is `set_manifest_status`.  The window between read and
  write exists between processes; it is a hazard without a property.
* In `JobLifecycle` a run that has begun can write the job directory.  Writes
  of `metadata.json` succeed there; the write of a step status may fail
  (`StatusMayBeLost`).
* Pipelines are the default one, the pr-finalize one, and the default without
  pr_creation; other selections of steps are not modelled.
* After a resume that ends at an unreadable manifest `job.json` stays Running; a
  cancel makes it resumable again, as in the code.
* `PlanDelivery` has one run of the plan at a time and resumes the latest job only;
  overlapping runs and the `display.log` fallback are in `JobLifecycle`.  A branch that
  is checked out elsewhere is a failure of `EnsureWorktree` that may happen when there
  is a branch and no worktree.
* `HelperCall` follows what an attempt left behind to the end of the attempt.
* `depends_on` is a set.
* Time (back-off, the two-hour budget, the limits other than the watchdog's) is a
  choice that may happen whenever its guard allows.
* Panics of a dispatch task, which `dispatch_all` would drop, are not modelled: its
  own code has none.
* Not modelled: garbage collection of jobs (`job/cli.rs`, deletes directories of
  finished jobs), `remote-setup` and the remote form of pr-finalize (sequences of
  git and gh calls without state of their own), signing keys, journal, metrics,
  display, notifications, IPC framing, configuration files, the install script and
  the workflow but for its last step.  None of them feeds back into the state above, except
  `display.log`, which is modelled as far as resume reads it.

## 6. Open ends

In the order in which they would add most:

1. `job.json` with read and write apart, and its five writers (`persist_step_status`,
   final record, resume, cancel, create), to settle the one atomicity hazard left.
2. The composition of `DispatchAgent` with `WaveScheduler`: the verdicts the
   scheduler assumes are those that dispatch yields.
