----------------------------- MODULE HelperCall -----------------------------
(***************************************************************************)
(* A helper step whose attempts call a helper once each: invoke_helper     *)
(* writes the input, spawns the helper in a process group of its own,      *)
(* waits for its exit with a time-out, waits until both its streams are at *)
(* their end, and looks for the envelope in what was captured.  The step's *)
(* retries (StepRetry) decide on another call.                             *)
(*                                                                         *)
(* The helper may leave a process behind that holds its streams open, in   *)
(* its own process group or in one that a command was given.  In the       *)
(* daemon the job may be killed meanwhile, by an operator or by the        *)
(* watchdog, which reach the process groups that are listed by then.       *)
(* What an attempt has left behind is followed to the end of the attempt.  *)
(***************************************************************************)
EXTENDS Integers, Sequences, FiniteSets

CONSTANTS Texts,          \* result texts, as sequences of Chunks
          MaxLines,       \* bound on the lines that a helper prints
          Cap,            \* lines after which nothing more is captured
          TransientMax, ProtocolMax  \* budgets of the step

Answers == {"success", "fix_required"}

\* What a text consists of, as far as the search for the envelope tells it apart:
\* an envelope, one that violates the schema, another object, a lone brace.
Chunks == Answers \cup {"misfit", "object", "brace"}

\* A line of the helper's standard output: a terminal result event with its text,
\* or anything else, as it stands.
Lines == [result : BOOLEAN, text : Texts]

Streams == {"stdout", "stderr"}

ASSUME TextsAssumption == Texts \subseteq Seq(Chunks)
ASSUME BoundsAssumption ==
  MaxLines \in Nat /\ Cap \in Nat /\ TransientMax \in Nat /\ ProtocolMax \in Nat

VARIABLES
  hosted,     \* the step runs in the daemon (daemon_hooks)
  phase,      \* of the step: idle, waiting, killing, draining, pause, over
  child,      \* the helper: none, running, ok, failed, killed
  holder,     \* a process that it has started and that holds its streams: none, in
              \* the helper's group, in one of its own
  out,        \* the lines of its standard output that the drainer could read
  torn,       \* the streams whose drainer met a line it could not read, and ended
  waited,     \* wait_result: none, exited, timeout
  outcomes,   \* of the attempts made so far
  queued, listed,  \* its process group is on its way to, is in sub_agent_pgids
  killed,     \* the job was taken from running_jobs
  limited,    \* hard_cap_seconds is not 0
  paused      \* the job is in paused_jobs

processVars == <<child, holder, out, torn>>
daemonVars  == <<queued, listed, killed, limited, paused>>
vars == <<hosted, phase, processVars, waited, outcomes, daemonVars>>

Retry == INSTANCE StepRetry WITH returned <- phase = "over"

Init ==
  /\ hosted \in BOOLEAN
  /\ phase = "idle" /\ waited = "none" /\ outcomes = <<>>
  /\ child = "none" /\ holder = "none" /\ out = <<>> /\ torn = {}
  /\ queued = FALSE /\ listed = FALSE /\ killed = FALSE
  /\ limited \in BOOLEAN /\ paused = FALSE

-----------------------------------------------------------------------------
(* The search for the envelope. *)

\* balanced_object_blocks: a brace that is never closed hides what follows it.
Blocks(text) ==
  {i \in DOMAIN text : \A j \in 1 .. i : text[j] # "brace"}

\* extract_json_envelope and the schema: the first block with a status.
Envelope(text) ==
  LET hits == {i \in Blocks(text) : text[i] # "object"}
  IN IF hits = {} THEN "none" ELSE text[CHOOSE i \in hits : \A j \in hits : i <= j]

\* spawn_streaming_drainer: the line that crosses the cap is the last one kept.
Captured == SubSeq(out, 1, IF Len(out) <= Cap THEN Len(out) ELSE Cap + 1)

\* Without a result the lines are searched as they stand, up to one that hides the
\* rest.
RawEnvelope(lines) ==
  LET hits == {i \in DOMAIN lines :
                 /\ Envelope(lines[i].text) # "none"
                 /\ \A j \in 1 .. (i - 1) : Blocks(lines[j].text) = DOMAIN lines[j].text}
  IN IF hits = {} THEN "none"
     ELSE Envelope(lines[CHOOSE i \in hits : \A j \in hits : i <= j].text)

\* parse_and_validate_output: the envelope is looked for in the last result.
ParsedOutcome ==
  LET results == {i \in DOMAIN Captured : Captured[i].result}
      answer  == IF results = {} THEN RawEnvelope(Captured)
                 ELSE Envelope(Captured[CHOOSE i \in results : \A j \in results : j <= i].text)
  IN IF answer \in Answers THEN answer ELSE "ProtocolViolation"

\* Considered defect: what was captured counts, however the helper ended.
CapturedCounts ==
  IF ParsedOutcome \in Answers THEN ParsedOutcome ELSE "TransientInfra"

CallOutcome ==
  IF waited = "exited" /\ child = "ok" THEN ParsedOutcome ELSE "TransientInfra"

-----------------------------------------------------------------------------
(* One attempt. *)

Ends(outcome) ==
  /\ outcomes' = Append(outcomes, outcome)
  /\ phase' = IF Retry!Retried(outcomes') THEN "pause" ELSE "over"

\* The input cannot be written, there is no claude to run, or the spawn fails.
SpawnFails ==
  /\ phase = "idle"
  /\ \E outcome \in {"HardInfra", "TransientInfra"} : Ends(outcome)
  /\ UNCHANGED <<hosted, processVars, waited, daemonVars>>

Spawn ==
  /\ phase = "idle"
  /\ child' = "running"
  /\ queued' = hosted
  /\ phase' = "waiting"
  /\ UNCHANGED <<hosted, holder, out, torn, waited, outcomes, listed, killed, limited, paused>>

WaitReturns ==
  /\ phase = "waiting" /\ child # "running"
  /\ waited' = "exited"
  /\ phase' = "draining"
  /\ UNCHANGED <<hosted, processVars, outcomes, daemonVars>>

\* The time is up, or the wait fails; the helper may exit just then.
TimesOut ==
  /\ phase = "waiting"
  /\ waited' = "timeout"
  /\ phase' = "killing"
  /\ UNCHANGED <<hosted, processVars, outcomes, daemonVars>>

\* Only the helper itself is killed, if it is still there.
KillChild ==
  /\ phase = "killing"
  /\ child' = IF child = "running" THEN "killed" ELSE child
  /\ phase' = "draining"
  /\ UNCHANGED <<hosted, holder, out, torn, waited, outcomes, daemonVars>>

\* Both drainers are joined: each ends when nobody holds its stream, or has ended.
StreamsOver == child # "running" /\ (holder = "none" \/ torn = Streams)

Drained ==
  /\ phase = "draining"
  /\ StreamsOver
  /\ Ends(CallOutcome)
  /\ UNCHANGED <<hosted, processVars, waited, daemonVars>>

\* The back-off is over; nobody asks whether the job still runs, or what the last
\* attempt has left behind.
NextAttempt ==
  /\ phase = "pause"
  /\ phase' = "idle"
  /\ child' = "none" /\ holder' = "none" /\ out' = <<>> /\ torn' = {} /\ waited' = "none"
  /\ queued' = FALSE /\ listed' = FALSE
  /\ UNCHANGED <<hosted, outcomes, killed, limited, paused>>

-----------------------------------------------------------------------------
(* The helper's processes. *)

\* One result at most; what follows a line that cannot be read is not read either.
WriteLine(line) ==
  /\ child = "running" /\ Len(out) < MaxLines /\ "stdout" \notin torn
  /\ line.result => \A i \in DOMAIN out : ~out[i].result
  /\ out' = Append(out, line)
  /\ UNCHANGED <<hosted, phase, child, holder, torn, waited, outcomes, daemonVars>>

\* The drainer's read fails: a line that is not UTF-8, from the helper or from what
\* it has left behind.
Tear(stream) ==
  /\ child = "running" \/ holder # "none"
  /\ stream \notin torn
  /\ torn' = torn \cup {stream}
  /\ UNCHANGED <<hosted, phase, child, holder, out, waited, outcomes, daemonVars>>

\* claude gives each command of its Bash tool a process group of its own.
LeaveHolder(group) ==
  /\ child = "running" /\ holder = "none"
  /\ holder' = group
  /\ UNCHANGED <<hosted, phase, child, out, torn, waited, outcomes, daemonVars>>

HolderEnds ==
  /\ holder # "none"
  /\ holder' = "none"
  /\ UNCHANGED <<hosted, phase, child, out, torn, waited, outcomes, daemonVars>>

ChildExits(status) ==
  /\ child = "running"
  /\ child' = status
  /\ UNCHANGED <<hosted, phase, holder, out, torn, waited, outcomes, daemonVars>>

-----------------------------------------------------------------------------
(* The daemon. *)

\* The registrar task.
List ==
  /\ queued
  /\ queued' = FALSE /\ listed' = TRUE
  /\ UNCHANGED <<hosted, phase, processVars, waited, outcomes, killed, limited, paused>>

\* Considered defect: the helper is signalled, its process group is not.
NotTheGroup == {holder}

\* send_kill_signals: the helper's group, and those of the processes that the tree
\* still shows below the helper; a process whose parent is gone is not below it.
LeftAfterSignal ==
  IF holder # "own" THEN {"none"}
  ELSE IF child = "running" THEN {"none", "own"} ELSE {"own"}

\* KillJob or the watchdog, for a running job.
Kill ==
  /\ hosted /\ ~killed /\ phase # "over"
  /\ killed' = TRUE
  /\ IF listed
     THEN /\ child' = IF child = "running" THEN "killed" ELSE child
          /\ holder' \in LeftAfterSignal
          /\ listed' = FALSE
     ELSE UNCHANGED <<child, holder, listed>>
  /\ UNCHANGED <<hosted, phase, out, torn, waited, outcomes, queued, limited, paused>>

\* PauseJob and UnpauseJob.
Pause ==
  /\ hosted /\ ~killed
  /\ paused' = ~paused
  /\ UNCHANGED <<hosted, phase, processVars, waited, outcomes, queued, listed, killed, limited>>

\* The limit on the duration of a job, long after the registrar ran; a job that is
\* paused, or a limit of 0, is passed over (watchdog_check, watchdog_verdict).
HardCap == limited /\ ~paused /\ ~queued /\ Kill

-----------------------------------------------------------------------------
Step == Spawn \/ SpawnFails \/ WaitReturns \/ TimesOut \/ KillChild \/ Drained \/ NextAttempt

Next ==
  \/ Step \/ List \/ Kill \/ Pause
  \/ \E line \in Lines : WriteLine(line)
  \/ \E stream \in Streams : Tear(stream)
  \/ (\E group \in {"group", "own"} : LeaveHolder(group)) \/ HolderEnds
  \/ \E status \in {"ok", "failed"} : ChildExits(status)

\* Neither the helper nor what it leaves behind has to end.
Fairness == WF_vars(Step) /\ WF_vars(List) /\ WF_vars(HardCap)

Spec == Init /\ [][Next]_vars /\ Fairness

-----------------------------------------------------------------------------
TypeOK ==
  /\ hosted \in BOOLEAN /\ holder \in {"none", "group", "own"}
  /\ phase \in {"idle", "waiting", "killing", "draining", "pause", "over"}
  /\ child \in {"none", "running", "ok", "failed", "killed"}
  /\ out \in Seq(Lines) /\ Len(out) <= MaxLines /\ torn \subseteq Streams
  /\ waited \in {"none", "exited", "timeout"}
  /\ outcomes \in Seq(Answers \cup Retry!Outcomes)
  /\ queued \in BOOLEAN /\ listed \in BOOLEAN /\ killed \in BOOLEAN
  /\ limited \in BOOLEAN /\ paused \in BOOLEAN

\* A step takes an answer only from a helper that printed it and then exited by
\* itself, with success and before its time was up, whatever part of its output
\* could be read or was beyond the cap (run_claude_subprocess).
AnswerInTime ==
  phase = "over" /\ outcomes[Len(outcomes)] \in Answers =>
    /\ child = "ok" /\ waited = "exited"
    /\ \E i \in DOMAIN out : \E j \in DOMAIN out[i].text : out[i].text[j] = outcomes[Len(outcomes)]

\* A step in the daemon whose call waits for a process that the helper left in its
\* own group goes on, once the registrar has listed that group: unless somebody has
\* killed or paused the job, the hard cap, where there is one, signals the whole
\* group (watchdog_check).
LeftoverIsKilled ==
  listed /\ ~killed /\ limited /\ phase = "draining" /\ holder # "own"
    ~> phase # "draining" \/ paused

-----------------------------------------------------------------------------
(* What the repository says and the code does not do. *)

\* "watches running_jobs for KillJob / watchdog kicks so the pipeline stops
\* cleanly" (DaemonObserver): after a kill no helper is started.
KillStops == [][killed /\ child = "none" => child' = "none"]_vars
=============================================================================
