----------------------------- MODULE Supervision -----------------------------
(***************************************************************************)
(* The daemon's supervision of one job whose pipeline has a batch of       *)
(* sub-agents under way (DispatchAgent): the registrar that learns their   *)
(* process groups, the writer that stamps the job's last activity, the     *)
(* watchdog and KillJob.                                                   *)
(*                                                                         *)
(* Times are ages that stop growing at the limit they are compared with.   *)
(***************************************************************************)
EXTENDS DispatchAgent

CONSTANTS StallTimeout, HardCap   \* in ticks, 0 for a limit that is off

ASSUME LimitsAssumption == StallTimeout \in Nat /\ HardCap \in Nat

VARIABLES
  registered,  \* running_jobs holds the job
  ended_by,    \* who took it out: "none", "kill", "watchdog", "pipeline"
  paused,      \* paused_jobs holds it
  idle, age,   \* ages of job_last_activity and job_started_at_monotonic
  candidate,   \* the watchdog found the job overdue and is about to lock again
  unread,      \* lines wait in the channel of the sub-agent writer
  writing,     \* the writer is at work
  tracked      \* sub_agent_pgids

jobVars == <<registered, ended_by, paused>>
watchVars == <<idle, age, candidate, unread, writing>>
vars == <<agentVars, jobVars, watchVars, tracked>>

Init ==
  /\ DispatchInit
  /\ registered = TRUE /\ ended_by = "none" /\ paused = FALSE
  /\ idle = 0 /\ age = 0 /\ candidate = FALSE
  /\ unread = FALSE /\ writing = TRUE
  /\ tracked = {}

-----------------------------------------------------------------------------
(* Output and activity. *)

\* A reader takes a line and passes it on to the writer.
ReadLine(a) ==
  /\ task[a] \in {"waiting", "draining"}
  /\ lines_read[a] < Len(out[a]) /\ "stdout" \notin torn[a]
  /\ lines_read' = [lines_read EXCEPT ![a] = @ + 1]
  /\ unread' = writing
  /\ UNCHANGED <<promptVars, processVars, attempt, task, torn, success, payload, channel, jobVars,
                 idle, age, candidate, writing, tracked>>

\* A line that is not UTF-8 ends its reader, which says nothing of it to anybody.
\* The end of stderr's reader is followed where it makes a difference: when that of
\* stdout has ended too.
Tear(a, stream) ==
  /\ task[a] \in {"waiting", "draining"}
  /\ stream \notin torn[a]
  /\ stream = "stderr" => "stdout" \in torn[a]
  /\ torn' = [torn EXCEPT ![a] = @ \cup {stream}]
  /\ UNCHANGED <<promptVars, processVars, attempt, task, lines_read, success, payload, channel,
                 jobVars, watchVars, tracked>>

\* Any other line, of the sub-agent or of its command, is only a sign of life:
\* it is written and read in one step.
Chatter(a) ==
  /\ task[a] \in {"waiting", "draining"}
  /\ torn[a] # Streams
  /\ proc[a] = "running" \/ tool[a] = "running"
  /\ unread' = writing
  /\ UNCHANGED <<agentVars, jobVars, idle, age, candidate, writing, tracked>>

\* spawn_subagent_writer: the activity is stamped, unless the job is gone, which
\* ends the writer.
WriteLine ==
  /\ writing /\ unread
  /\ unread' = FALSE
  /\ writing' = registered
  /\ idle' = IF registered THEN 0 ELSE idle
  /\ UNCHANGED <<agentVars, jobVars, age, candidate, tracked>>

\* spawn_pgid_registrar, whether or not the job is still there.
RegisterGroup(g) ==
  /\ g \in channel
  /\ channel' = channel \ {g}
  /\ tracked' = tracked \cup {g}
  /\ UNCHANGED <<promptVars, processVars, taskVars, jobVars, watchVars>>

Older(t, limit) == IF t < limit THEN t + 1 ELSE t

Tick ==
  /\ registered
  /\ idle' = Older(idle, StallTimeout)
  /\ age' = Older(age, HardCap)
  /\ <<idle', age'>> # <<idle, age>>
  /\ UNCHANGED <<agentVars, jobVars, candidate, unread, writing, tracked>>

-----------------------------------------------------------------------------
(* Ends of the job. *)

\* send_kill_signals: every group that the daemon knows, and the groups below
\* it.  The groups of earlier dispatches are dead.
SendKillSignals ==
  LET known == {a \in Agents : Group(a) \in tracked} IN
  /\ \E late \in SUBSET MayStart(known) : KillTrees(known, late)
  /\ tracked' = {}
  /\ UNCHANGED <<promptVars, taskVars, channel>>

\* The times of the job are removed with it.
Unregister(who) ==
  /\ registered' = FALSE
  /\ ended_by' = who
  /\ idle' = 0 /\ age' = 0

\* The signals are sent whether or not the job is registered.
KillJob ==
  /\ SendKillSignals
  /\ IF registered THEN Unregister("kill") ELSE UNCHANGED <<registered, ended_by, idle, age>>
  /\ UNCHANGED <<paused, candidate, unread, writing>>

\* Considered defect: the hard cap is not looked at.
StalledOnly == StallTimeout # 0 /\ idle >= StallTimeout

\* watchdog_verdict: a limit of zero is off.
Overdue ==
  \/ HardCap # 0 /\ age >= HardCap
  \/ StallTimeout # 0 /\ idle >= StallTimeout

\* watchdog_check, under the first lock.
WatchdogLooks ==
  /\ registered /\ ~paused /\ ~candidate
  /\ Overdue
  /\ candidate' = TRUE
  /\ UNCHANGED <<agentVars, jobVars, idle, age, unread, writing, tracked>>

\* Considered defect: the verdict of the first look is acted upon.
FirstLookStands == registered

StillOverdue == registered /\ ~paused /\ Overdue

\* watchdog_check, under the second lock.
WatchdogActs ==
  /\ candidate
  /\ candidate' = FALSE
  /\ IF StillOverdue
     THEN SendKillSignals /\ Unregister("watchdog")
     ELSE UNCHANGED <<agentVars, tracked, registered, ended_by, idle, age>>
  /\ UNCHANGED <<paused, unread, writing>>

Pause ==
  /\ registered /\ ~paused
  /\ paused' = TRUE
  /\ UNCHANGED <<agentVars, registered, ended_by, watchVars, tracked>>

Unpause ==
  /\ paused
  /\ paused' = FALSE
  /\ UNCHANGED <<agentVars, registered, ended_by, watchVars, tracked>>

\* The pipeline ends after the batch; the groups stay listed.
Finalize ==
  /\ DispatchOver /\ registered
  /\ Unregister("pipeline")
  /\ UNCHANGED <<agentVars, paused, candidate, unread, writing, tracked>>

-----------------------------------------------------------------------------
TaskStep(a) ==
  \/ PromptMissing(a) \/ SpawnFails(a) \/ Spawn(a)
  \/ Reap(a) \/ GraceOver(a) \/ Drain(a)

Dispatching ==
  /\ \/ \E a \in Agents : TaskStep(a)
     \/ \E again \in SUBSET Agents : Redispatch(again)
  /\ UNCHANGED <<jobVars, watchVars, tracked>>

Process ==
  /\ \E a \in Agents : \/ \E kind \in LineKinds : WriteOutput(a, kind)
                       \/ StartCommand(a) \/ EndCommand(a)
                       \/ \E status \in {"exited", "failed"} : Exit(a, status)
  /\ UNCHANGED <<jobVars, watchVars, tracked>>

Next ==
  \/ Dispatching \/ Process
  \/ \E a \in Agents : \/ ReadLine(a) \/ Chatter(a)
                       \/ \E stream \in Streams : Tear(a, stream)
  \/ WriteLine \/ \E g \in channel : RegisterGroup(g)
  \/ Tick
  \/ KillJob \/ WatchdogLooks \/ WatchdogActs
  \/ Pause \/ Unpause \/ Finalize

Spec == Init /\ [][Next]_vars

\* The tasks, readers, writer, registrar and watchdog are scheduled, and time
\* passes.  No sub-agent has to print or to exit, and no command has to end.
Fairness ==
  /\ \A a \in Agents : /\ WF_vars(TaskStep(a) /\ UNCHANGED <<jobVars, watchVars, tracked>>)
                       /\ WF_vars(ReadLine(a))
  /\ WF_vars(WriteLine)
  /\ WF_vars(\E g \in channel : RegisterGroup(g))
  /\ WF_vars(Tick) /\ WF_vars(WatchdogLooks) /\ WF_vars(WatchdogActs)

FairSpec == Spec /\ Fairness

-----------------------------------------------------------------------------
TypeOK ==
  /\ DispatchTypeOK
  /\ registered \in BOOLEAN /\ paused \in BOOLEAN /\ candidate \in BOOLEAN
  /\ unread \in BOOLEAN /\ writing \in BOOLEAN
  /\ ended_by \in {"none", "kill", "watchdog", "pipeline"}
  /\ idle \in 0 .. StallTimeout /\ age \in 0 .. HardCap
  /\ tracked \subseteq Agents \X (1 .. MaxDispatches)

\* No sub-agent runs that a kill could never reach: its process group is in
\* sub_agent_pgids or on its way there (dispatch_agent sends it before it
\* awaits anything; send_kill_signals forgets only what it signals).
EveryAgentKillable ==
  \A a \in Agents : proc[a] = "running" => Group(a) \in channel \cup tracked

\* The watchdog kills only a job that is overdue and not paused at that moment,
\* whatever it found when it looked first (watchdog_check's second lock).
NoFalseKill ==
  [][ended_by' = "watchdog" /\ ended_by # "watchdog" => ~paused /\ Overdue]_vars

\* A job whose sub-agents print for ever, or never exit, ends at the hard cap,
\* unless it stays paused or is paused again and again.
JobEnds == <>[](~paused) => <>(~registered)

\* The dispatch of a sub-agent that has printed its result comes back, unless the
\* sub-agent left a command behind that still holds its output.
ResultReturns ==
  \A a \in Agents :
    task[a] = "waiting" /\ TerminalRead(a) ~> task[a] = "done" \/ a \in strays

-----------------------------------------------------------------------------
(* What the repository says and the code does not do. *)

\* "Force-kill the whole descendant pgroup tree so our streams close and we can
\* move on" (dispatch_agent): a sub-agent that has printed its result is done
\* with sooner or later.
DispatchReturns ==
  \A a \in Agents : task[a] = "waiting" /\ TerminalRead(a) ~> task[a] = "done"

\* "a leading slash-command invocation ... stays in its conventional first-line
\* position" (ensure_hygiene_in_prompt).
SlashStaysFirst ==
  \A a \in Agents : "slash" \in ToSet(prompt[a]) => Head(prompt[a]) = "slash"
=============================================================================
