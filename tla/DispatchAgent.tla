---------------------------- MODULE DispatchAgent ----------------------------
(***************************************************************************)
(* Sub-agents as dispatch_all runs them: one task per sub-agent prepares   *)
(* its prompt file, spawns it in a process group of its own, reads its     *)
(* output to the end and waits for its exit.  A sub-agent runs commands in *)
(* process groups of their own that inherit its stdout, so that neither    *)
(* its exit nor its terminal result line tells that the output is over.    *)
(*                                                                         *)
(* The daemon's side (who kills, and which process groups it knows) is in  *)
(* Supervision, which composes the two.                                    *)
(***************************************************************************)
EXTENDS Integers, Sequences, FiniteSets, SequencesExt

CONSTANTS Agents,        \* sub-agents of the batch, one slot each
          MaxDispatches, \* first dispatch and retries of one sub-agent
          MaxLines,      \* bound on the result lines that one sub-agent prints
          Prompts        \* prompt files as compiled, in terms of Blocks

\* What a prompt file consists of, as far as dispatch tells it apart.
Blocks == {"slash", "deviation", "hygiene", "body"}

ASSUME DispatchesAssumption == MaxDispatches \in Nat \ {0} /\ MaxLines \in Nat
ASSUME PromptsAssumption == Prompts \subseteq Seq(Blocks)

VARIABLES
  prompt,     \* the prompt file
  attempt,    \* number of the dispatch
  task,       \* the dispatch task: idle, waiting, draining, done
  proc,       \* the sub-agent: unborn, running, exited, failed, killed
  tool,       \* a command of it that holds its stdout: none, running, gone
  out,        \* the result lines written to stdout
  lines_read, \* how many of them the reader has taken
  torn,       \* the streams whose reader met a line it could not read, and ended
  success, payload,  \* HandoffResult: success, stdout
  channel,    \* pgid_tx: process groups sent to the registrar
  strays      \* history: sub-agents that left their command behind

promptVars  == <<prompt>>
processVars == <<proc, tool, out, strays>>
taskVars    == <<attempt, task, lines_read, torn, success, payload>>
agentVars   == <<promptVars, processVars, taskVars, channel>>

\* A result, or the reply to a task notification, which looks like one.
LineKinds == {"result", "note"}
Payloads  == {"none", "raw"} \cup LineKinds

Streams == {"stdout", "stderr"}

\* The process group of a sub-agent is that of one dispatch of it.
Group(a) == <<a, attempt[a]>>

DispatchInit ==
  /\ prompt \in [Agents -> Prompts]
  /\ attempt = [a \in Agents |-> 1]
  /\ task = [a \in Agents |-> "idle"]
  /\ proc = [a \in Agents |-> "unborn"]
  /\ tool = [a \in Agents |-> "none"]
  /\ out = [a \in Agents |-> <<>>]
  /\ lines_read = [a \in Agents |-> 0]
  /\ torn = [a \in Agents |-> {}]
  /\ success = [a \in Agents |-> FALSE]
  /\ payload = [a \in Agents |-> "none"]
  /\ channel = {} /\ strays = {}

-----------------------------------------------------------------------------
(* The prompt file. *)

\* ensure_deviation_block_in_prompt: the block goes to the top, once.
WithDeviation(p) == IF "deviation" \in ToSet(p) THEN p ELSE <<"deviation">> \o p

\* ensure_hygiene_in_prompt: the block goes to the top, or below a slash
\* command that opens the file.
WithHygiene(p) ==
  IF "hygiene" \in ToSet(p) THEN p
  ELSE IF p # <<>> /\ Head(p) = "slash" THEN <<"slash", "hygiene">> \o Tail(p)
  ELSE <<"hygiene">> \o p

\* Considered defect: the block is prepended at every dispatch.
AlwaysPrepended(p) == <<"hygiene">> \o <<"deviation">> \o p

Prepared(p) == WithHygiene(WithDeviation(p))

-----------------------------------------------------------------------------
(* The task: dispatch_agent. *)

\* Returned before a process exists: no prompt file, or the spawn fails.
PromptMissing(a) ==
  /\ task[a] = "idle"
  /\ task' = [task EXCEPT ![a] = "done"]
  /\ UNCHANGED <<promptVars, processVars, attempt, lines_read, torn, success, payload, channel>>

SpawnFails(a) ==
  /\ task[a] = "idle"
  /\ prompt' = [prompt EXCEPT ![a] = Prepared(@)]
  /\ task' = [task EXCEPT ![a] = "done"]
  /\ UNCHANGED <<processVars, attempt, lines_read, torn, success, payload, channel>>

\* Considered defect: the process group is not sent to the registrar.
NotSent(a) == channel

Sent(a) == channel \cup {Group(a)}

\* The process group goes to the registrar before anything is awaited.
Spawn(a) ==
  /\ task[a] = "idle"
  /\ prompt' = [prompt EXCEPT ![a] = Prepared(@)]
  /\ proc' = [proc EXCEPT ![a] = "running"]
  /\ channel' = Sent(a)
  /\ task' = [task EXCEPT ![a] = "waiting"]
  /\ UNCHANGED <<tool, out, strays, attempt, lines_read, torn, success, payload>>

\* is_terminal_result_line.
IsTerminal(line) == line \in {"result", "note"}

TerminalRead(a) == \E i \in 1 .. lines_read[a] : IsTerminal(out[a][i])

\* The sub-agent has exited and is waited for.
Reap(a) ==
  /\ task[a] = "waiting"
  /\ proc[a] # "running"
  /\ task' = [task EXCEPT ![a] = "draining"]
  /\ UNCHANGED <<promptVars, processVars, attempt, lines_read, torn, success, payload, channel>>

\* The live descendants of a sub-agent, which collect_descendant_pgids finds by
\* walking the process table down from it: a command whose parent has exited
\* belongs to init and is not among them.
Attached(a) == proc[a] = "running" /\ tool[a] = "running"

\* A command that the sub-agent starts after the process table was read and
\* before the signal arrives survives.
MayStart(agents) == {a \in agents : proc[a] = "running" /\ tool[a] = "none"}

\* Considered defect: only the sub-agent's own group is killed.
OwnGroupOnly(a) == FALSE

KilledWith(a) == Attached(a)

\* Kills the process trees of running sub-agents; the commands of late start too late
\* to be seen.
KillTrees(agents, late) ==
  /\ proc' = [a \in Agents |-> IF a \in agents /\ proc[a] = "running" THEN "killed" ELSE proc[a]]
  /\ tool' = [a \in Agents |-> IF a \in late THEN "running"
                               ELSE IF a \in agents /\ KilledWith(a) THEN "gone" ELSE tool[a]]
  /\ strays' = strays \cup late
  /\ UNCHANGED out

\* Two seconds after its terminal result was read the sub-agent still runs.  The
\* select looks at its exit first.
GraceOver(a) ==
  /\ task[a] = "waiting"
  /\ TerminalRead(a)
  /\ proc[a] = "running"
  /\ \E late \in SUBSET MayStart({a}) : KillTrees({a}, late)
  /\ task' = [task EXCEPT ![a] = "draining"]
  /\ UNCHANGED <<promptVars, attempt, lines_read, torn, success, payload, channel>>

\* Considered defect: the reply to a notification counts as the result.
LastTerminal(lines) ==
  LET hits == {i \in DOMAIN lines : IsTerminal(lines[i])}
  IN IF hits = {} THEN "raw" ELSE lines[CHOOSE i \in hits : \A j \in hits : j <= i]

\* extract_result_text: the last result that is no reply to a notification, or
\* else the whole output.
ResultText(lines) ==
  LET hits == {i \in DOMAIN lines : lines[i] = "result"}
  IN IF hits = {} THEN "raw" ELSE lines[CHOOSE i \in hits : \A j \in hits : j <= i]

\* What the reader of stdout has taken.
LinesRead(a) == SubSeq(out[a], 1, lines_read[a])

\* Both readers have come to an end: when nobody holds the pipe any more and all of
\* it was read, or at a line they could not read.
OutputOver(a) ==
  /\ proc[a] # "running"
  /\ \A stream \in Streams \ torn[a] : tool[a] # "running"
  /\ lines_read[a] = Len(out[a]) \/ "stdout" \in torn[a]

Drain(a) ==
  /\ task[a] = "draining"
  /\ OutputOver(a)
  /\ success' = [success EXCEPT ![a] = proc[a] = "exited"]
  /\ payload' = [payload EXCEPT ![a] = ResultText(LinesRead(a))]
  /\ task' = [task EXCEPT ![a] = "done"]
  /\ UNCHANGED <<promptVars, processVars, attempt, lines_read, torn, channel>>

\* dispatch_all has collected every task.
DispatchOver == \A a \in Agents : task[a] = "done"

\* dispatch_wave_with_retries dispatches failed sub-agents once more.
Redispatch(again) ==
  /\ DispatchOver
  /\ again # {} /\ \A a \in again : ~success[a] /\ attempt[a] < MaxDispatches
  /\ attempt' = [a \in Agents |-> IF a \in again THEN attempt[a] + 1 ELSE attempt[a]]
  /\ task' = [a \in Agents |-> IF a \in again THEN "idle" ELSE task[a]]
  /\ proc' = [a \in Agents |-> IF a \in again THEN "unborn" ELSE proc[a]]
  /\ tool' = [a \in Agents |-> IF a \in again THEN "none" ELSE tool[a]]
  /\ out' = [a \in Agents |-> IF a \in again THEN <<>> ELSE out[a]]
  /\ lines_read' = [a \in Agents |-> IF a \in again THEN 0 ELSE lines_read[a]]
  /\ torn' = [a \in Agents |-> IF a \in again THEN {} ELSE torn[a]]
  /\ payload' = [a \in Agents |-> IF a \in again THEN "none" ELSE payload[a]]
  /\ strays' = strays \ again
  /\ UNCHANGED <<promptVars, success, channel>>

-----------------------------------------------------------------------------
(* The processes. *)

\* A sub-agent prints its result before it replies to any notification.  Where the
\* reader has ended the write fails.
WriteOutput(a, kind) ==
  /\ proc[a] = "running" /\ Len(out[a]) < MaxLines /\ "stdout" \notin torn[a]
  /\ kind = "note" => "result" \in ToSet(out[a])
  /\ out' = [out EXCEPT ![a] = Append(@, kind)]
  /\ UNCHANGED <<promptVars, proc, tool, strays, taskVars, channel>>

StartCommand(a) ==
  /\ proc[a] = "running" /\ tool[a] = "none"
  /\ tool' = [tool EXCEPT ![a] = "running"]
  /\ UNCHANGED <<promptVars, proc, out, strays, taskVars, channel>>

EndCommand(a) ==
  /\ tool[a] = "running"
  /\ tool' = [tool EXCEPT ![a] = "gone"]
  /\ UNCHANGED <<promptVars, proc, out, strays, taskVars, channel>>

Exit(a, status) ==
  /\ proc[a] = "running"
  /\ proc' = [proc EXCEPT ![a] = status]
  /\ strays' = IF Attached(a) THEN strays \cup {a} ELSE strays
  /\ UNCHANGED <<promptVars, tool, out, taskVars, channel>>

-----------------------------------------------------------------------------
DispatchTypeOK ==
  /\ prompt \in [Agents -> Seq(Blocks)]
  /\ attempt \in [Agents -> 1 .. MaxDispatches]
  /\ task \in [Agents -> {"idle", "waiting", "draining", "done"}]
  /\ proc \in [Agents -> {"unborn", "running", "exited", "failed", "killed"}]
  /\ tool \in [Agents -> {"none", "running", "gone"}]
  /\ out \in [Agents -> Seq(LineKinds)]
  /\ \A a \in Agents : lines_read[a] \in 0 .. Len(out[a])
  /\ torn \in [Agents -> SUBSET Streams]
  /\ success \in [Agents -> BOOLEAN]
  /\ payload \in [Agents -> Payloads]
  /\ channel \subseteq Agents \X (1 .. MaxDispatches)
  /\ strays \subseteq Agents

\* A result that a sub-agent printed is what its dispatch hands on, whether it
\* exited, was killed after the grace period or went on to reply to a notification;
\* and also when its output could not be read to the end, if the reader had come to
\* the result by then (dispatch_agent, extract_result_text).
PayloadIsResult ==
  \A a \in Agents : \A i \in DOMAIN out[a] :
    task[a] = "done" /\ out[a][i] = "result" /\ (i <= lines_read[a] \/ "stdout" \notin torn[a])
      => payload[a] = "result"

\* However often a prompt file is dispatched, each block is in it at most once
\* (HYGIENE_MARKER, DEVIATION_MARKER), and nothing of it is lost.
BlocksOnce ==
  \A a \in Agents :
    /\ \A b \in {"deviation", "hygiene"} :
         Cardinality({i \in DOMAIN prompt[a] : prompt[a][i] = b}) <= 1
    /\ "body" \in ToSet(prompt[a])
=============================================================================
