---------------------------- MODULE JobLifecycle ----------------------------
(***************************************************************************)
(* The life of one plan job: its record job.json, the status of its        *)
(* manifest, the daemon's bookkeeping, and every process that runs, kills, *)
(* pauses, cancels or resumes it.                                          *)
(*                                                                         *)
(* A run is one call of run_pipeline_with_resume.  It belongs to the       *)
(* daemon (a spawned task) or to a foreground process, and several runs of *)
(* the job may be under way at once: nothing but the state field of        *)
(* job.json keeps them apart.  How a step retries is left to StepRetry;    *)
(* here a step succeeds or fails.                                          *)
(***************************************************************************)
EXTENDS Integers, FiniteSets

CONSTANTS LastStep,   \* number of steps; the first is preflight, the last summary
          Runs,       \* slots for runs, that is how many may overlap
          Hosts,      \* who may start runs: a subset of {"daemon", "foreground"}
          StatusMayBeLost,  \* whether the write of a step's status may fail
          Pausing   \* whether people pause the job, which only holds the watchdog back

ASSUME StepsAssumption == LastStep \in Nat /\ LastStep >= 2
ASSUME RunsAssumption  == Runs # {}
ASSUME HostsAssumption == Hosts \subseteq {"daemon", "foreground"} /\ Hosts # {}
ASSUME LostAssumption  == StatusMayBeLost \in BOOLEAN
ASSUME PausingAssumption == Pausing \in BOOLEAN

Steps == 1 .. LastStep

VARIABLES
  (* On disk. *)
  job_state,     \* job.json: Job.state
  step_status,   \* job.json: Job.steps[].status
  manifest,      \* plan.status of tasks.json
  saved_meta,    \* metadata.json: JobMetadata.status, "none" when never saved
  display,       \* steps that display.log holds a success line for
  (* In the daemon. *)
  up,            \* the daemon runs
  running_job,   \* running_jobs holds the job
  history,       \* status of the job in history, "none" when absent
  paused,        \* paused_jobs holds the job
  (* Per run. *)
  pc, host,
  resuming,      \* resume, or the first execution
  seq,           \* the step at the loop's head
  from, done,    \* ResumeMode: resume_from_seq, succeeded_seqs
  ok,            \* PipelineRun.success
  copy,          \* the step statuses of the Job that the resume read
  (* History of the execution, read by properties only. *)
  killed,        \* runs that were under way when the job was killed
  ever_ok,       \* steps that have returned Success
  stranded       \* a resume has left its entry in running_jobs to nobody

diskVars   == <<job_state, step_status, manifest, saved_meta, display>>
daemonVars == <<up, running_job, history, paused>>
runVars    == <<pc, host, resuming, seq, from, done, ok, copy>>
ghostVars  == <<killed, ever_ok, stranded>>
vars == <<diskVars, daemonVars, runVars, ghostVars>>

PCs == {"free", "flip", "register", "open", "loop", "step", "persist", "ended",
        "manifest", "record", "metadata"}

JobStates  == {"Running", "Succeeded", "Failed"}
StepStates == {"Pending", "Running", "Succeeded", "Failed"}
MetaStates == {"none", "Success", "Failed", "Killed"}

AllPending == [s \in Steps |-> "Pending"]

AnyHost == CHOOSE h \in Hosts : TRUE

Active(r)    == pc[r] # "free"
DaemonRun(r) == Active(r) /\ host[r] = "daemon"

\* The run has put its job in running_jobs.
Registered(r) == DaemonRun(r) /\ pc[r] \notin {"flip", "register"}

Goto(r, label) == pc' = [pc EXCEPT ![r] = label]

\* A run that is over leaves nothing behind.
Release(r) ==
  /\ pc' = [pc EXCEPT ![r] = "free"]
  /\ host' = [host EXCEPT ![r] = AnyHost]
  /\ resuming' = [resuming EXCEPT ![r] = FALSE]
  /\ seq' = [seq EXCEPT ![r] = 1]
  /\ from' = [from EXCEPT ![r] = 1]
  /\ done' = [done EXCEPT ![r] = {}]
  /\ ok' = [ok EXCEPT ![r] = TRUE]
  /\ copy' = [copy EXCEPT ![r] = AllPending]
  /\ killed' = killed \ {r}
  /\ UNCHANGED ever_ok

-----------------------------------------------------------------------------
(* execute: spawn_rust_scheduler_job, execute_foreground. *)

\* job.json has just been created; the daemon has yet to register the job.
Init ==
  /\ job_state = "Running" /\ step_status = AllPending
  /\ manifest = "READY" /\ saved_meta = "none" /\ display = {}
  /\ up = TRUE /\ running_job = FALSE /\ history = "none" /\ paused = FALSE
  /\ \E first \in Runs, h \in Hosts :
       /\ host = [r \in Runs |-> IF r = first THEN h ELSE AnyHost]
       /\ pc = [r \in Runs |-> IF r # first THEN "free"
                               ELSE IF h = "daemon" THEN "register" ELSE "loop"]
  /\ resuming = [r \in Runs |-> FALSE]
  /\ seq = [r \in Runs |-> 1] /\ from = [r \in Runs |-> 1]
  /\ done = [r \in Runs |-> {}] /\ ok = [r \in Runs |-> TRUE]
  /\ copy = [r \in Runs |-> AllPending]
  /\ killed = {} /\ ever_ok = {} /\ stranded = FALSE

\* The daemon inserts the job in running_jobs; a resume also takes it out of
\* the history.
Register(r) ==
  /\ pc[r] = "register"
  /\ running_job' = TRUE /\ stranded' = FALSE
  /\ history' = IF resuming[r] THEN "none" ELSE history
  /\ Goto(r, IF resuming[r] THEN "open" ELSE "loop")
  /\ UNCHANGED <<diskVars, up, paused, host, resuming, seq, from, done, ok, copy, killed,
                 ever_ok>>

\* The task of a resume opens the job's directory; when it cannot, it returns, and
\* the entry stays.
OpenJob(r) ==
  /\ pc[r] = "open"
  /\ \/ /\ Goto(r, "loop")
        /\ UNCHANGED <<host, resuming, seq, from, done, ok, copy, ghostVars>>
     \/ Release(r) /\ stranded' = running_job
  /\ UNCHANGED <<diskVars, daemonVars>>

-----------------------------------------------------------------------------
(* The pipeline: run_pipeline_with_resume. *)

Killed(r) == host[r] = "daemon" /\ ~running_job

Skips(r) == seq[r] < from[r] /\ seq[r] # 1 /\ seq[r] \in done[r]

\* persist_step_status reads job.json again, sets the status of one step and
\* writes the file back; a write that fails is logged and forgotten.
PersistStatus(s, status) ==
  \/ step_status' = [step_status EXCEPT ![s] = status]
  \/ StatusMayBeLost /\ UNCHANGED step_status

\* Considered defect: the loop is left without a failure.
LeavesQuietly(r) == TRUE

AbortOutcome(r) == FALSE

\* The loop's head finds the job gone from running_jobs.
AbortKilled(r) ==
  /\ pc[r] = "loop"
  /\ seq[r] \in Steps
  /\ Killed(r)
  /\ ok' = [ok EXCEPT ![r] = AbortOutcome(r)]
  /\ Goto(r, "ended")
  /\ UNCHANGED <<diskVars, daemonVars, host, resuming, seq, from, done, copy, ghostVars>>

SkipStep(r) ==
  /\ pc[r] = "loop"
  /\ seq[r] \in Steps
  /\ ~Killed(r)
  /\ Skips(r)
  /\ seq' = [seq EXCEPT ![r] = @ + 1]
  /\ UNCHANGED <<diskVars, daemonVars, pc, host, resuming, from, done, ok, copy, ghostVars>>

\* The step is recorded as Running in job.json and starts.
BeginStep(r) ==
  /\ pc[r] = "loop"
  /\ seq[r] \in Steps
  /\ ~Killed(r)
  /\ ~Skips(r)
  /\ PersistStatus(seq[r], "Running")
  /\ Goto(r, "step")
  /\ UNCHANGED <<job_state, manifest, saved_meta, display, daemonVars, host,
                 resuming, seq, from, done, ok, copy, ghostVars>>

\* preflight sets the manifest to EXECUTING early on, unless it fails before.
ManifestAfterPreflight(success) ==
  IF success THEN {"EXECUTING"} ELSE {manifest, "EXECUTING"}

\* Considered defect: summary forgets the manifest.
ManifestNotCompleted(success) == {manifest}

\* summary sets it to COMPLETED as its last act.
ManifestAfterSummary(success) == IF success THEN {"COMPLETED"} ELSE {manifest}

ManifestAfterStep(s, success) ==
  CASE s = 1        -> ManifestAfterPreflight(success)
    [] s = LastStep -> ManifestAfterSummary(success)
    [] OTHER        -> {manifest}

\* The step returns; the daemon appends its outcome to display.log.
EndStep(r, success) ==
  /\ pc[r] = "step"
  /\ ok' = [ok EXCEPT ![r] = success]
  /\ manifest' \in ManifestAfterStep(seq[r], success)
  /\ display' = IF success /\ host[r] = "daemon" THEN display \cup {seq[r]} ELSE display
  /\ ever_ok' = IF success THEN ever_ok \cup {seq[r]} ELSE ever_ok
  /\ Goto(r, "persist")
  /\ UNCHANGED <<job_state, step_status, saved_meta, daemonVars, host, resuming,
                 seq, from, done, copy, killed, stranded>>

\* Considered defect: the pipeline goes on after a failed step.
NeverBails(r) == FALSE

Bails(r) == ~ok[r]

\* The terminal status goes to job.json; a failure ends the run.
PersistStep(r) ==
  /\ pc[r] = "persist"
  /\ PersistStatus(seq[r], IF ok[r] THEN "Succeeded" ELSE "Failed")
  /\ IF Bails(r) THEN Goto(r, "ended") /\ UNCHANGED seq
                 ELSE Goto(r, "loop") /\ seq' = [seq EXCEPT ![r] = @ + 1]
  /\ UNCHANGED <<job_state, manifest, saved_meta, display, daemonVars, host,
                 resuming, from, done, ok, copy, ghostVars>>

Complete(r) ==
  /\ pc[r] = "loop"
  /\ seq[r] \notin Steps
  /\ Goto(r, "ended")
  /\ UNCHANGED <<diskVars, daemonVars, host, resuming, seq, from, done, ok, copy, ghostVars>>

-----------------------------------------------------------------------------
(* The end of a run. *)

FinalState(r) == IF ok[r] THEN "Succeeded" ELSE "Failed"

\* A daemon run fails the manifest, then finishes job.json, then takes the lock.
DaemonManifest(r) ==
  /\ pc[r] = "ended" /\ host[r] = "daemon"
  /\ manifest' = IF ok[r] THEN manifest ELSE "FAILED"
  /\ Goto(r, "record")
  /\ UNCHANGED <<job_state, step_status, saved_meta, display, daemonVars, host,
                 resuming, seq, from, done, ok, copy, ghostVars>>

DaemonRecord(r) ==
  /\ pc[r] = "record"
  /\ job_state' = FinalState(r)
  /\ Goto(r, "metadata")
  /\ UNCHANGED <<step_status, manifest, saved_meta, display, daemonVars, host,
                 resuming, seq, from, done, ok, copy, ghostVars>>

\* Considered defect: the finalizer saves the outcome of a killed job too.
AlwaysRegistered == TRUE

StillRegistered == running_job

\* Considered defect: a failed job stays in running_jobs.
EntryOnlyOfFailed(r) == running_job /\ ~ok[r]

EntryAfter(r) == FALSE

\* The job leaves running_jobs, unless a kill has removed it already.
DaemonMetadata(r) ==
  /\ pc[r] = "metadata"
  /\ running_job' = EntryAfter(r) /\ stranded' = FALSE
  /\ IF StillRegistered
     THEN /\ saved_meta' = IF ok[r] THEN "Success" ELSE "Failed"
          /\ history' = saved_meta'
     ELSE UNCHANGED <<saved_meta, history>>
  /\ Release(r)
  /\ UNCHANGED <<job_state, step_status, manifest, display, up, paused>>

\* A foreground resume finishes job.json from the Job it read when it started.
ForegroundRecord(r) ==
  /\ pc[r] = "ended" /\ host[r] = "foreground" /\ resuming[r]
  /\ job_state' = FinalState(r)
  /\ step_status' = copy[r]
  /\ Goto(r, "manifest")
  /\ UNCHANGED <<manifest, saved_meta, display, daemonVars, host, resuming, seq,
                 from, done, ok, copy, ghostVars>>

\* A foreground execute leaves job.json as it is.
ForegroundManifest(r) ==
  /\ \/ pc[r] = "manifest"
     \/ pc[r] = "ended" /\ host[r] = "foreground" /\ ~resuming[r]
  /\ manifest' = IF ok[r] THEN manifest ELSE "FAILED"
  /\ Release(r) /\ UNCHANGED stranded
  /\ UNCHANGED <<job_state, step_status, saved_meta, display, daemonVars>>

-----------------------------------------------------------------------------
(* resume: trigger_resume, spawn_resume_scheduler_job, resume_foreground. *)

\* Considered defect: a step that was interrupted counts as done.
StartedOrDone == {s \in Steps : step_status[s] \in {"Running", "Succeeded"}}

Persisted == {s \in Steps : step_status[s] = "Succeeded"}

\* display.log stands in when no step is recorded as Succeeded.
SucceededSeqs == IF Persisted = {} THEN display ELSE Persisted

\* Considered defect: with nothing left to do, resume after the last step.
FirstOrPastEnd ==
  LET open == Steps \ (Persisted \cup SucceededSeqs)
  IN IF open = {} THEN LastStep + 1 ELSE CHOOSE s \in open : \A t \in open : s <= t

FirstNotSucceeded ==
  LET open == Steps \ (Persisted \cup SucceededSeqs)
  IN IF open = {} THEN 1 ELSE CHOOSE s \in open : \A t \in open : s <= t

\* job.json is read and found Failed.  The client of the daemon asks only for a
\* job that the daemon lists; a foreground resume needs a step to skip.
ReadForResume(r, h) ==
  /\ ~Active(r)
  /\ h \in Hosts
  /\ h = "daemon" => up /\ (running_job \/ history # "none")
  /\ job_state = "Failed"
  /\ h = "foreground" => ~(FirstNotSucceeded = 1 /\ SucceededSeqs = {})
  /\ host' = [host EXCEPT ![r] = h]
  /\ resuming' = [resuming EXCEPT ![r] = TRUE]
  /\ done' = [done EXCEPT ![r] = SucceededSeqs]
  /\ from' = [from EXCEPT ![r] = FirstNotSucceeded]
  /\ copy' = [copy EXCEPT ![r] = step_status]
  /\ Goto(r, "flip")
  /\ UNCHANGED <<diskVars, daemonVars, seq, ok, ghostVars>>

\* The Job that was read goes back to job.json, now Running.  When the manifest
\* cannot be read afterwards, that is all that happens.
FlipToRunning(r) ==
  /\ pc[r] = "flip"
  /\ job_state' = "Running"
  /\ step_status' = copy[r]
  /\ UNCHANGED <<manifest, saved_meta, display, daemonVars>>
  /\ \/ /\ host[r] = "daemon"
        /\ Goto(r, "register")
        /\ copy' = [copy EXCEPT ![r] = AllPending]
        /\ UNCHANGED <<host, resuming, seq, from, done, ok, ghostVars>>
     \/ /\ host[r] = "foreground"
        /\ Goto(r, "loop")
        /\ UNCHANGED <<host, resuming, seq, from, done, ok, copy, ghostVars>>
     \/ Release(r) /\ UNCHANGED stranded

-----------------------------------------------------------------------------
(* Other users of the job. *)

\* KillJob, or the watchdog for a job that is not paused.  Both take the job
\* out of running_jobs and signal its sub-agents; the step under way goes on
\* to its end.
RemoveFromRunning(status) ==
  /\ up /\ running_job
  /\ running_job' = FALSE /\ stranded' = FALSE
  /\ saved_meta' = status /\ history' = status
  /\ killed' = killed \cup {r \in Runs : Registered(r)}
  /\ UNCHANGED <<job_state, step_status, manifest, display, up, paused, runVars, ever_ok>>

KillJob == RemoveFromRunning("Killed")

WatchdogKill == ~paused /\ RemoveFromRunning("Failed")

PauseJob ==
  /\ Pausing
  /\ up /\ running_job
  /\ paused' = TRUE
  /\ UNCHANGED <<diskVars, up, running_job, history, runVars, ghostVars>>

ResumeJob ==
  /\ up
  /\ paused' = FALSE
  /\ UNCHANGED <<diskVars, up, running_job, history, runVars, ghostVars>>

\* jobs cancel, by a process of its own, whether or not a run is under way.
Cancel ==
  /\ job_state = "Running"
  /\ job_state' = "Failed"
  /\ UNCHANGED <<step_status, manifest, saved_meta, display, daemonVars, runVars, ghostVars>>

\* The daemon dies, and its runs with it; the disk stays.
DaemonCrash ==
  LET gone == {r \in Runs : DaemonRun(r)} IN
  /\ up
  /\ up' = FALSE /\ running_job' = FALSE /\ history' = "none" /\ paused' = FALSE
  /\ pc' = [r \in Runs |-> IF r \in gone THEN "free" ELSE pc[r]]
  /\ host' = [r \in Runs |-> IF r \in gone THEN AnyHost ELSE host[r]]
  /\ resuming' = [r \in Runs |-> r \notin gone /\ resuming[r]]
  /\ seq' = [r \in Runs |-> IF r \in gone THEN 1 ELSE seq[r]]
  /\ from' = [r \in Runs |-> IF r \in gone THEN 1 ELSE from[r]]
  /\ done' = [r \in Runs |-> IF r \in gone THEN {} ELSE done[r]]
  /\ ok' = [r \in Runs |-> r \in gone \/ ok[r]]
  /\ copy' = [r \in Runs |-> IF r \in gone THEN AllPending ELSE copy[r]]
  /\ killed' = killed \ gone /\ stranded' = FALSE
  /\ UNCHANGED <<diskVars, ever_ok>>

\* run_daemon: the history is loaded from the metadata on disk.
DaemonStart ==
  /\ ~up
  /\ up' = TRUE
  /\ history' = saved_meta
  /\ UNCHANGED <<diskVars, running_job, paused, runVars, ghostVars>>

\* A foreground process is interrupted.
ForegroundCrash(r) ==
  /\ Active(r) /\ host[r] = "foreground"
  /\ Release(r) /\ UNCHANGED stranded
  /\ UNCHANGED <<diskVars, daemonVars>>

-----------------------------------------------------------------------------
RunStep(r) ==
  \/ Register(r) \/ OpenJob(r)
  \/ AbortKilled(r) \/ SkipStep(r) \/ BeginStep(r)
  \/ \E success \in BOOLEAN : EndStep(r, success)
  \/ PersistStep(r) \/ Complete(r)
  \/ DaemonManifest(r) \/ DaemonRecord(r) \/ DaemonMetadata(r)
  \/ ForegroundRecord(r) \/ ForegroundManifest(r)
  \/ FlipToRunning(r)

Next ==
  \/ \E r \in Runs : RunStep(r)
  \/ \E r \in Runs, h \in Hosts : ReadForResume(r, h)
  \/ \E r \in Runs : ForegroundCrash(r)
  \/ KillJob \/ WatchdogKill \/ PauseJob \/ ResumeJob \/ Cancel
  \/ DaemonCrash \/ DaemonStart

Spec == Init /\ [][Next]_vars

-----------------------------------------------------------------------------
TypeOK ==
  /\ job_state \in JobStates
  /\ step_status \in [Steps -> StepStates]
  /\ manifest \in {"READY", "EXECUTING", "COMPLETED", "FAILED"}
  /\ saved_meta \in MetaStates
  /\ display \subseteq Steps
  /\ up \in BOOLEAN /\ running_job \in BOOLEAN /\ paused \in BOOLEAN
  /\ history \in MetaStates
  /\ pc \in [Runs -> PCs]
  /\ host \in [Runs -> Hosts]
  /\ resuming \in [Runs -> BOOLEAN]
  /\ seq \in [Runs -> 1 .. (LastStep + 1)]
  /\ from \in [Runs -> Steps]
  /\ done \in [Runs -> SUBSET Steps]
  /\ ok \in [Runs -> BOOLEAN]
  /\ copy \in [Runs -> [Steps -> StepStates]]
  /\ killed \subseteq Runs
  /\ ever_ok \subseteq Steps
  /\ stranded \in BOOLEAN

\* No step runs before every earlier step has returned Success, if not in this
\* run then in an earlier one: a resume skips only work that was done, whatever
\* was killed, lost or interrupted before (ResumeMode::Resume).
EarlierStepsDone ==
  \A r \in Runs : pc[r] \in {"step", "persist"} => 1 .. (seq[r] - 1) \subseteq ever_ok

\* A job is called successful, by its manifest, job.json or metadata, only when every
\* step has returned Success, however many runs share in it and whichever of them is
\* killed, cancelled or resumed (run_pipeline_with_resume and its callers).
SuccessIsWhole ==
  manifest = "COMPLETED" \/ job_state = "Succeeded" \/ saved_meta = "Success" =>
    Steps = ever_ok

\* A job in running_jobs has a run in the daemon that will take it out again, but for
\* a resume that could not open its directory.
EntryHasRun == running_job => stranded \/ \E r \in Runs : Registered(r)

\* A run in the daemon that nobody has killed is in running_jobs, where a kill, the
\* watchdog and a listing find it.
RunHasEntry == \A r \in Runs \ killed : Registered(r) => running_job

\* running_jobs and the runs in the daemon agree while runs do not overlap, whatever
\* is killed, cancelled, resumed or crashes.
EntryMatchesRun == EntryHasRun /\ RunHasEntry

\* While runs do not overlap, the three records of a job agree: job.json calls
\* it Succeeded only when the manifest is COMPLETED, the metadata only when
\* job.json does, and the history shows what the metadata holds.
RecordsAgree ==
  /\ job_state = "Succeeded" => manifest = "COMPLETED"
  /\ saved_meta = "Success" => job_state = "Succeeded"
  /\ history \in {"none", saved_meta}

\* While runs do not overlap, a run that was killed leaves the metadata as the kill
\* saved them: its finalizer, however late, saves no outcome of its own.
KillSticks ==
  [][\A r \in killed : pc'[r] # pc[r] => saved_meta' = saved_meta]_vars

-----------------------------------------------------------------------------
(* What the repository says and the code does not do. *)

\* "On resume, those pending steps re-run; the previously Succeeded ones are
\* skipped" (run_pipeline_with_resume): only preflight is run again once
\* job.json records a step as Succeeded.
OnlyPreflightRedone ==
  [][\A s \in Steps \ {1} : step_status[s] = "Succeeded" => step_status'[s] # "Running"]_vars

\* "The pipeline reaches summary only when every prior step returned Success"
\* (run_summary): while summary runs, no earlier step is recorded as Failed,
\* which is what a step stays until it is run again.
NoFailedStepBeforeSummary ==
  \A r \in Runs : pc[r] = "step" /\ seq[r] = LastStep =>
    \A s \in 1 .. (LastStep - 1) : step_status[s] # "Failed"

\* "Watches running_jobs for KillJob / watchdog kicks so the pipeline stops
\* cleanly" (DaemonObserver): a run that was under way when its job was killed
\* starts no further step.
KilledRunStops ==
  [][\A r \in killed : pc[r] = "loop" => pc'[r] # "step"]_vars

\* "Any job that was Running when the daemon last died was interrupted. Mark it
\* Failed now so it shows up in history" (run_daemon): after a restart, a job
\* that was under way has a status in the history.
InterruptedIsFailed ==
  up /\ job_state = "Running" /\ (\A r \in Runs : ~Active(r)) => history \in {"Failed", "Killed"}

\* "Re-reads job.json (so we don't blow away any field)" and "what lets resume
\* know which steps already succeeded" (run_pipeline_with_resume): the end of a
\* run takes back no Succeeded that job.json records.
EndKeepsStatuses ==
  [][\A r \in Runs : pc[r] = "ended" /\ pc'[r] # "ended" => Persisted \subseteq Persisted']_vars
=============================================================================
