-------------------------- MODULE SupervisionProofs --------------------------
(***************************************************************************)
(* Theorems about Supervision and DispatchAgent, for every set of sub-     *)
(* agents, every number of dispatches and both limits of the watchdog.     *)
(* SupInv is inductive: it follows each dispatch task and the process that *)
(* belongs to it. Preparing a prompt file is idempotent, so a prompt that  *)
(* was compiled clean stays clean.                                         *)
(***************************************************************************)
EXTENDS Supervision, FiniteSetTheorems, WellFoundedInduction, TLAPS

\* A result that the sub-agent printed reaches the reader, as far as it reads.
Printed(a) ==
  \E i \in DOMAIN out[a] : out[a][i] = "result" /\ (i <= lines_read[a] \/ "stdout" \notin torn[a])

\* What is needed of the types.
KindInv ==
  /\ attempt \in [Agents -> 1 .. MaxDispatches]
  /\ task \in [Agents -> {"idle", "waiting", "draining", "done"}]
  /\ proc \in [Agents -> {"unborn", "running", "exited", "failed", "killed"}]
  /\ out \in [Agents -> Seq(LineKinds)]
  /\ payload \in [Agents -> Payloads]
  /\ lines_read \in [Agents -> Nat] /\ torn \in [Agents -> SUBSET Streams]
  /\ \A a \in Agents : lines_read[a] <= Len(out[a])

\* A sub-agent exists from its spawn on, and its output is as complete as it will be
\* when its task is done.
TaskInv ==
  \A a \in Agents :
    /\ task[a] = "idle" => proc[a] = "unborn"
    /\ proc[a] = "unborn" => out[a] = <<>>
    /\ task[a] = "done" => proc[a] # "running"
    /\ task[a] = "done" /\ Printed(a) => payload[a] = "result"

SupInv == KindInv /\ TaskInv /\ EveryAgentKillable

\* A position among finitely many is the last one of some set of them.
LEMMA LastPosition ==
  ASSUME NEW n \in Nat, NEW some \in SUBSET (1 .. n), some # {}
  PROVE  \E i \in some : \A j \in some : j <= i
<1> DEFINE mirrored == {k \in 1 .. n : (n + 1) - k \in some}
<1>1. \A j \in some : (n + 1) - j \in mirrored
  <2> SUFFICES ASSUME NEW j \in some PROVE (n + 1) - j \in mirrored
    OBVIOUS
  <2>1. (n + 1) - j \in 1 .. n /\ (n + 1) - ((n + 1) - j) = j
    OBVIOUS
  <2>2. QED
    BY <2>1
<1>2. mirrored # {} /\ mirrored \subseteq Nat
  <2>1. PICK i \in some : TRUE
    OBVIOUS
  <2>2. mirrored # {}
    BY <1>1, <2>1
  <2>3. QED
    BY <2>2
<1>3. PICK k \in mirrored : \A l \in mirrored : ~(<<l, k>> \in OpToRel(<, Nat))
  <2> HIDE DEF mirrored
  <2>1. QED
    BY <1>2, NatLessThanWellFounded, WFMin
<1>4. \A l \in mirrored : k <= l
  <2>1. \A l \in mirrored : ~(l < k)
    BY <1>2, <1>3 DEF OpToRel
  <2> HIDE DEF mirrored
  <2>2. QED
    BY <1>2, <2>1
<1>5. \A j \in some : j <= (n + 1) - k
  <2> SUFFICES ASSUME NEW j \in some PROVE j <= (n + 1) - k
    OBVIOUS
  <2>1. k <= (n + 1) - j /\ k \in Nat
    BY <1>1, <1>2, <1>4
  <2>2. QED
    BY <2>1
<1>6. QED
  BY <1>3, <1>5

\* extract_result_text: if any line is a result, so is the text.
LEMMA ResultFound ==
  ASSUME NEW lines \in Seq(LineKinds), \E i \in DOMAIN lines : lines[i] = "result"
  PROVE  ResultText(lines) = "result"
<1> DEFINE hits == {i \in DOMAIN lines : lines[i] = "result"}
<1>1. hits # {} /\ hits \in SUBSET (1 .. Len(lines)) /\ Len(lines) \in Nat
  OBVIOUS
<1>2. \E i \in hits : \A j \in hits : j <= i
  <2> HIDE DEF hits
  <2>1. QED
    BY <1>1, LastPosition
<1>3. (CHOOSE i \in hits : \A j \in hits : j <= i) \in hits
  <2> HIDE DEF hits
  <2>1. QED
    BY <1>2
<1>4. QED
  BY <1>1, <1>3 DEF ResultText

LEMMA ResultIsPayload == ASSUME NEW lines \in Seq(LineKinds) PROVE ResultText(lines) \in Payloads
<1>1. CASE \E i \in DOMAIN lines : lines[i] = "result"
  BY <1>1, ResultFound DEF Payloads, LineKinds
<1>2. CASE ~\E i \in DOMAIN lines : lines[i] = "result"
  BY <1>2 DEF ResultText, Payloads
<1>3. QED
  BY <1>1, <1>2

\* Where the readers have ended, a result that could be read is among what was.
LEMMA ReadResult ==
  ASSUME KindInv, NEW a \in Agents, lines_read[a] = Len(out[a]) \/ "stdout" \in torn[a]
  PROVE  /\ LinesRead(a) \in Seq(LineKinds) /\ ResultText(LinesRead(a)) \in Payloads
         /\ Printed(a) => ResultText(LinesRead(a)) = "result"
<1>1. out[a] \in Seq(LineKinds) /\ lines_read[a] \in Nat /\ lines_read[a] <= Len(out[a])
  BY DEF KindInv
<1>2. /\ LinesRead(a) \in Seq(LineKinds) /\ DOMAIN LinesRead(a) = 1 .. lines_read[a]
      /\ \A i \in 1 .. lines_read[a] : LinesRead(a)[i] = out[a][i]
  BY <1>1 DEF LinesRead
<1>3. Printed(a) => \E i \in DOMAIN LinesRead(a) : LinesRead(a)[i] = "result"
  BY <1>1, <1>2 DEF Printed
<1>4. QED
  BY <1>2, <1>3, ResultFound, ResultIsPayload

-----------------------------------------------------------------------------
(* Kills. *)

LEMMA TreesKilled ==
  ASSUME SupInv, NEW agents, NEW late, KillTrees(agents, late)
  PROVE  /\ proc' \in [Agents -> {"unborn", "running", "exited", "failed", "killed"}]
         /\ out' = out
         /\ \A a \in Agents : /\ proc'[a] = "running" => proc[a] = "running" /\ a \notin agents
                              /\ proc'[a] = "unborn" <=> proc[a] = "unborn"
BY DEF KillTrees, SupInv, KindInv

LEMMA SignalsSent ==
  ASSUME SupInv, SendKillSignals
  PROVE  SupInv'
<1> DEFINE known == {a \in Agents : Group(a) \in tracked}
<1>1. PICK late \in SUBSET MayStart(known) : KillTrees(known, late)
  BY DEF SendKillSignals
<1>2. /\ proc' \in [Agents -> {"unborn", "running", "exited", "failed", "killed"}]
      /\ out' = out
      /\ \A a \in Agents : /\ proc'[a] = "running" => proc[a] = "running" /\ a \notin known
                           /\ proc'[a] = "unborn" <=> proc[a] = "unborn"
  BY <1>1, TreesKilled
<1>3. UNCHANGED <<attempt, task, lines_read, torn, payload, channel>> /\ tracked' = {}
  BY DEF SendKillSignals, taskVars
<1>4. KindInv' /\ TaskInv'
  BY <1>2, <1>3 DEF SupInv, KindInv, TaskInv, Printed
<1>5. EveryAgentKillable'
  BY <1>2, <1>3 DEF SupInv, EveryAgentKillable, Group
<1>6. QED
  BY <1>4, <1>5 DEF SupInv

-----------------------------------------------------------------------------
THEOREM SupervisionInvariant == Spec => []SupInv
<1>1. Init => SupInv
  BY DispatchesAssumption DEF Init, DispatchInit, SupInv, KindInv, TaskInv, Printed,
     EveryAgentKillable, Payloads, LineKinds
<1>2. SupInv /\ [Next]_vars => SupInv'
  <2> SUFFICES ASSUME SupInv, [Next]_vars PROVE SupInv'
    OBVIOUS
  <2> USE DEF SupInv
  <2>1. ASSUME NEW a \in Agents, PromptMissing(a) \/ SpawnFails(a), UNCHANGED tracked PROVE SupInv'
    <3>1. /\ task[a] = "idle" /\ task' = [task EXCEPT ![a] = "done"]
          /\ UNCHANGED <<attempt, proc, out, lines_read, torn, payload, channel, tracked>>
      BY <2>1 DEF PromptMissing, SpawnFails, processVars
    <3>2. proc[a] = "unborn" /\ ~Printed(a)
      BY <3>1 DEF TaskInv, Printed
    <3>3. QED
      BY <3>1, <3>2 DEF KindInv, TaskInv, Printed, EveryAgentKillable, Group
  <2>2. ASSUME NEW a \in Agents, Spawn(a), UNCHANGED tracked PROVE SupInv'
    BY <2>2 DEF Spawn, Sent, KindInv, TaskInv, Printed, EveryAgentKillable, Group
  <2>3. ASSUME NEW a \in Agents, Reap(a), UNCHANGED tracked PROVE SupInv'
    BY <2>3 DEF Reap, processVars, KindInv, TaskInv, Printed, EveryAgentKillable, Group
  <2>4. ASSUME NEW a \in Agents, GraceOver(a), UNCHANGED tracked PROVE SupInv'
    <3>1. PICK late \in SUBSET MayStart({a}) : KillTrees({a}, late)
      BY <2>4 DEF GraceOver
    <3>2. /\ proc' \in [Agents -> {"unborn", "running", "exited", "failed", "killed"}]
          /\ out' = out
          /\ \A b \in Agents : /\ proc'[b] = "running" => proc[b] = "running"
                               /\ proc'[b] = "unborn" <=> proc[b] = "unborn"
      BY <3>1, TreesKilled
    <3>3. /\ task' = [task EXCEPT ![a] = "draining"]
          /\ UNCHANGED <<attempt, lines_read, torn, payload, channel>>
      BY <2>4 DEF GraceOver
    <3>4. QED
      BY <2>4, <3>2, <3>3 DEF KindInv, TaskInv, Printed, EveryAgentKillable, Group
  <2>5. ASSUME NEW a \in Agents, Drain(a), UNCHANGED tracked PROVE SupInv'
    <3>1. /\ payload' = [payload EXCEPT ![a] = ResultText(LinesRead(a))]
          /\ task' = [task EXCEPT ![a] = "done"] /\ proc[a] # "running"
          /\ lines_read[a] = Len(out[a]) \/ "stdout" \in torn[a]
          /\ UNCHANGED <<attempt, proc, out, lines_read, torn, channel, tracked>>
      BY <2>5 DEF Drain, OutputOver, processVars
    <3>2. /\ ResultText(LinesRead(a)) \in Payloads
          /\ Printed(a) => ResultText(LinesRead(a)) = "result"
      BY <3>1, ReadResult
    <3>3. QED
      BY <3>1, <3>2 DEF KindInv, TaskInv, Printed, EveryAgentKillable, Group
  <2>6. ASSUME NEW again \in SUBSET Agents, Redispatch(again), UNCHANGED tracked PROVE SupInv'
    BY <2>6, DispatchesAssumption DEF Redispatch, KindInv, TaskInv, Printed, EveryAgentKillable, Group, Payloads
  <2>7. ASSUME NEW a \in Agents, NEW kind \in LineKinds, WriteOutput(a, kind), UNCHANGED tracked PROVE SupInv'
    BY <2>7 DEF WriteOutput, taskVars, KindInv, TaskInv, Printed, EveryAgentKillable, Group
  <2>8. ASSUME NEW a \in Agents, StartCommand(a) \/ EndCommand(a), UNCHANGED tracked PROVE SupInv'
    BY <2>8 DEF StartCommand, EndCommand, taskVars, KindInv, TaskInv, Printed, EveryAgentKillable, Group
  <2>9. ASSUME NEW a \in Agents, NEW status \in {"exited", "failed"}, Exit(a, status), UNCHANGED tracked PROVE SupInv'
    BY <2>9 DEF Exit, taskVars, KindInv, TaskInv, Printed, EveryAgentKillable, Group
  <2>10. ASSUME NEW a \in Agents, ReadLine(a) \/ Chatter(a) \/ \E stream \in Streams : Tear(a, stream)
         PROVE  SupInv'
    <3>1. CASE ReadLine(a)
      <4>1. /\ task[a] # "done" /\ lines_read[a] < Len(out[a])
            /\ lines_read' = [lines_read EXCEPT ![a] = @ + 1]
            /\ UNCHANGED <<attempt, task, proc, out, torn, payload, channel, tracked>>
        BY <3>1 DEF ReadLine, processVars
      <4>2. lines_read' \in [Agents -> Nat] /\ \A b \in Agents : lines_read'[b] <= Len(out[b])
        BY <4>1 DEF KindInv
      <4>3. \A b \in Agents \ {a} : lines_read'[b] = lines_read[b]
        BY <4>1 DEF KindInv
      <4>4. QED
        BY <4>1, <4>2, <4>3 DEF KindInv, TaskInv, Printed, EveryAgentKillable, Group
    <3>2. CASE Chatter(a)
      BY <3>2 DEF Chatter, agentVars, processVars, taskVars, KindInv, TaskInv, Printed,
                  EveryAgentKillable, Group
    <3>3. ASSUME NEW stream \in Streams, Tear(a, stream) PROVE SupInv'
      <4>1. /\ task[a] # "done" /\ torn' = [torn EXCEPT ![a] = @ \cup {stream}]
            /\ UNCHANGED <<attempt, task, proc, out, lines_read, payload, channel, tracked>>
        BY <3>3 DEF Tear, processVars
      <4>2. torn' \in [Agents -> SUBSET Streams]
        BY <4>1 DEF KindInv
      <4>3. \A b \in Agents \ {a} : torn'[b] = torn[b]
        BY <4>1 DEF KindInv
      <4>4. QED
        BY <4>1, <4>2, <4>3 DEF KindInv, TaskInv, Printed, EveryAgentKillable, Group
    <3>4. QED
      BY <2>10, <3>1, <3>2, <3>3
  <2>11. ASSUME NEW g \in channel, RegisterGroup(g) PROVE SupInv'
    BY <2>11 DEF RegisterGroup, processVars, taskVars, KindInv, TaskInv, Printed, EveryAgentKillable, Group
  <2>12. CASE WriteLine \/ Tick \/ WatchdogLooks \/ Pause \/ Unpause \/ Finalize
    BY <2>12 DEF WriteLine, Tick, WatchdogLooks, Pause, Unpause, Finalize, agentVars, processVars, taskVars, KindInv,
       TaskInv, Printed, EveryAgentKillable, Group
  <2>13. CASE KillJob
    BY <2>13, SignalsSent DEF KillJob
  <2>14. CASE WatchdogActs
    BY <2>14, SignalsSent DEF WatchdogActs, agentVars, processVars, taskVars, KindInv, TaskInv, Printed,
       EveryAgentKillable, Group
  <2>15. CASE UNCHANGED vars
    BY <2>15 DEF vars, agentVars, processVars, taskVars, KindInv, TaskInv, Printed, EveryAgentKillable, Group
  <2>16. QED
    BY <2>1, <2>2, <2>3, <2>4, <2>5, <2>6, <2>7, <2>8, <2>9, <2>10, <2>11, <2>12, <2>13, <2>14, <2>15
       DEF Next, Dispatching, Process, TaskStep
<1>3. QED
  BY <1>1, <1>2, PTL DEF Spec

\* dispatch_agent, send_kill_signals: no sub-agent ever runs that a kill could not
\* reach.
THEOREM AgentsAreKillable == Spec => []EveryAgentKillable
<1>1. SupInv => EveryAgentKillable
  BY DEF SupInv
<1>2. QED
  BY <1>1, SupervisionInvariant, PTL

\* extract_result_text: what a sub-agent printed as its result, where it could be read,
\* is what its dispatch returns, however the dispatch came to its end.
THEOREM PayloadsAreResults == Spec => []PayloadIsResult
<1>1. SupInv => PayloadIsResult
  BY DEF SupInv, TaskInv, Printed, PayloadIsResult
<1>2. QED
  BY <1>1, SupervisionInvariant, PTL

\* watchdog_check: only a job that is overdue and not paused is killed.
THEOREM KillsAreJustified == Spec => NoFalseKill
<1>1. [Next]_vars => [ended_by' = "watchdog" /\ ended_by # "watchdog" => ~paused /\ Overdue]_vars
  <2> SUFFICES ASSUME Next, ended_by' = "watchdog", ended_by # "watchdog"
               PROVE  ~paused /\ Overdue
    OBVIOUS
  <2>1. WatchdogActs
    BY DEF Next, Dispatching, Process, ReadLine, Chatter, Tear, WriteLine, RegisterGroup, Tick, KillJob,
       WatchdogLooks, Pause, Unpause, Finalize, Unregister, jobVars, watchVars
  <2>2. QED
    BY <2>1 DEF WatchdogActs, StillOverdue
<1>2. QED
  BY <1>1, PTL DEF Spec, NoFalseKill

-----------------------------------------------------------------------------
(* Prompt files: ensure_deviation_block_in_prompt, ensure_hygiene_in_prompt. *)

Managed == {"deviation", "hygiene"}

\* The file has the block at most once.
Single(p, b) == \A i, j \in DOMAIN p : p[i] = b /\ p[j] = b => i = j

\* q is p with the block b inserted as the k-th.
InsertedAt(q, p, k, b) ==
  /\ q \in Seq(Blocks) /\ Len(q) = Len(p) + 1
  /\ k \in 1 .. Len(q) /\ q[k] = b
  /\ \A i \in 1 .. (k - 1) : q[i] = p[i]
  /\ \A i \in (k + 1) .. Len(q) : q[i] = p[i - 1]

\* A block that a file lacks is in it once when it has been inserted; every other
\* block is in it as often as before.
LEMMA InsertedOnce ==
  ASSUME NEW p \in Seq(Blocks), NEW q, NEW k, NEW b, InsertedAt(q, p, k, b),
         b \notin ToSet(p)
  PROVE  /\ ToSet(q) = ToSet(p) \cup {b}
         /\ \A c : Single(p, c) => Single(q, c)
<1>1. /\ Len(p) \in Nat /\ Len(q) = Len(p) + 1 /\ k \in 1 .. Len(q) /\ q[k] = b
      /\ DOMAIN q = 1 .. Len(q) /\ DOMAIN p = 1 .. Len(p)
  BY DEF InsertedAt
<1>2. \A i \in DOMAIN q : \/ i = k
                          \/ i < k /\ i \in DOMAIN p /\ q[i] = p[i]
                          \/ i > k /\ i - 1 \in DOMAIN p /\ q[i] = p[i - 1]
  BY <1>1 DEF InsertedAt
<1>3. \A i \in DOMAIN p : \/ i < k /\ i \in DOMAIN q /\ q[i] = p[i]
                          \/ i >= k /\ i + 1 \in DOMAIN q /\ q[i + 1] = p[i]
  BY <1>1 DEF InsertedAt
<1>4. ToSet(q) = ToSet(p) \cup {b}
  <2>1. ToSet(q) \subseteq ToSet(p) \cup {b}
    BY <1>1, <1>2 DEF ToSet
  <2>2. ToSet(p) \subseteq ToSet(q)
    BY <1>3 DEF ToSet
  <2>3. b \in ToSet(q)
    BY <1>1 DEF ToSet
  <2>4. QED
    BY <2>1, <2>2, <2>3
<1>5. ASSUME NEW c, Single(p, c) PROVE Single(q, c)
  <2> SUFFICES ASSUME NEW i \in DOMAIN q, NEW j \in DOMAIN q, q[i] = c, q[j] = c
               PROVE  i = j
    BY DEF Single
  <2>1. CASE c = b
    <3>1. \A l \in DOMAIN p : p[l] # b
      BY DEF ToSet
    <3>2. QED
      BY <1>2, <2>1, <3>1
  <2>2. CASE c # b
    BY <1>1, <1>2, <1>5, <2>2 DEF Single
  <2>3. QED
    BY <2>1, <2>2
<1>6. QED
  BY <1>4, <1>5

\* Each of the two functions leaves a file that has its block alone, and inserts the
\* block otherwise.
LEMMA BlocksInserted ==
  ASSUME NEW p \in Seq(Blocks)
  PROVE  /\ IF "deviation" \in ToSet(p) THEN WithDeviation(p) = p
            ELSE InsertedAt(WithDeviation(p), p, 1, "deviation")
         /\ IF "hygiene" \in ToSet(p) THEN WithHygiene(p) = p
            ELSE \E k \in {1, 2} : InsertedAt(WithHygiene(p), p, k, "hygiene")
<1>1. ASSUME NEW b \in Blocks PROVE InsertedAt(<<b>> \o p, p, 1, b)
  BY DEF InsertedAt
<1>2. ASSUME p # <<>>, Head(p) = "slash"
      PROVE  InsertedAt(<<"slash", "hygiene">> \o Tail(p), p, 2, "hygiene")
  <2>1. /\ Tail(p) \in Seq(Blocks) /\ Len(Tail(p)) = Len(p) - 1 /\ Len(p) \in Nat \ {0}
        /\ \A i \in 1 .. (Len(p) - 1) : Tail(p)[i] = p[i + 1]
        /\ p[1] = "slash"
    BY <1>2
  <2> DEFINE q == <<"slash", "hygiene">> \o Tail(p)
  <2>2. q \in Seq(Blocks) /\ Len(q) = Len(p) + 1
    BY <2>1 DEF Blocks
  <2>3. q[1] = "slash" /\ q[2] = "hygiene"
    BY <2>1
  <2>4. ASSUME NEW i \in 3 .. Len(q) PROVE q[i] = p[i - 1]
    <3>1. i - 2 \in 1 .. (Len(p) - 1) /\ (i - 2) + 1 = i - 1
      BY <2>1, <2>2
    <3>2. q[i] = Tail(p)[i - 2]
      BY <2>1, <2>2, <3>1
    <3>3. QED
      BY <2>1, <3>1, <3>2
  <2> HIDE DEF q
  <2>5. QED
    BY <2>1, <2>2, <2>3, <2>4 DEF InsertedAt, q
<1>3. "deviation" \in Blocks /\ "hygiene" \in Blocks
  BY DEF Blocks
<1>4. QED
  BY <1>1, <1>2, <1>3 DEF WithDeviation, WithHygiene

\* What dispatch makes of a file: both blocks are in it, nothing is lost, and no
\* block is in it twice that was not before.
LEMMA PreparedFile ==
  ASSUME NEW p \in Seq(Blocks)
  PROVE  /\ Prepared(p) \in Seq(Blocks)
         /\ ToSet(Prepared(p)) = ToSet(p) \cup Managed
         /\ \A c : Single(p, c) => Single(Prepared(p), c)
<1> DEFINE d == WithDeviation(p)
<1>1. /\ d \in Seq(Blocks) /\ ToSet(d) = ToSet(p) \cup {"deviation"}
      /\ \A c : Single(p, c) => Single(d, c)
  <2>1. CASE "deviation" \in ToSet(p)
    BY <2>1, BlocksInserted
  <2>2. CASE "deviation" \notin ToSet(p)
    <3>1. InsertedAt(d, p, 1, "deviation")
      BY <2>2, BlocksInserted
    <3>2. d \in Seq(Blocks)
      BY <3>1 DEF InsertedAt
    <3>3. QED
      BY <2>2, <3>1, <3>2, InsertedOnce
  <2>3. QED
    BY <2>1, <2>2
<1> HIDE DEF d
<1>2. /\ WithHygiene(d) \in Seq(Blocks) /\ ToSet(WithHygiene(d)) = ToSet(d) \cup {"hygiene"}
      /\ \A c : Single(d, c) => Single(WithHygiene(d), c)
  <2>1. CASE "hygiene" \in ToSet(d)
    BY <1>1, <2>1, BlocksInserted
  <2>2. CASE "hygiene" \notin ToSet(d)
    <3>1. PICK k \in {1, 2} : InsertedAt(WithHygiene(d), d, k, "hygiene")
      BY <1>1, <2>2, BlocksInserted
    <3>2. WithHygiene(d) \in Seq(Blocks)
      BY <3>1 DEF InsertedAt
    <3>3. QED
      BY <1>1, <2>2, <3>1, <3>2, InsertedOnce
  <2>3. QED
    BY <2>1, <2>2
<1>3. Prepared(p) = WithHygiene(d)
  BY DEF Prepared, d
<1>4. QED
  BY <1>1, <1>2, <1>3 DEF Managed

\* A second dispatch finds nothing to do.
THEOREM PreparedTwice == \A p \in Seq(Blocks) : Prepared(Prepared(p)) = Prepared(p)
<1> SUFFICES ASSUME NEW p \in Seq(Blocks) PROVE Prepared(Prepared(p)) = Prepared(p)
  OBVIOUS
<1>1. Prepared(p) \in Seq(Blocks) /\ Managed \subseteq ToSet(Prepared(p))
  BY PreparedFile
<1>2. WithDeviation(Prepared(p)) = Prepared(p) /\ WithHygiene(Prepared(p)) = Prepared(p)
  BY <1>1, BlocksInserted DEF Managed
<1>3. Prepared(Prepared(p)) = WithHygiene(WithDeviation(Prepared(p)))
  BY DEF Prepared
<1>4. QED
  BY <1>2, <1>3

\* What the compiler of the plan leaves to dispatch: a prompt file with a body, in
\* which it has put each of the two blocks at most once.
CompiledOnce ==
  \A p \in Prompts : "body" \in ToSet(p) /\ \A b \in Managed : Single(p, b)

PromptInv ==
  /\ CompiledOnce
  /\ prompt \in [Agents -> Seq(Blocks)]
  /\ \A a \in Agents : "body" \in ToSet(prompt[a]) /\ \A b \in Managed : Single(prompt[a], b)

\* The dispatch tasks alone write prompt files.
LEMMA PromptWritten ==
  ASSUME [Next]_vars
  PROVE  \/ UNCHANGED prompt
         \/ \E a \in Agents : prompt' = [prompt EXCEPT ![a] = Prepared(@)]
BY DEF Next, Dispatching, Process, TaskStep, PromptMissing, SpawnFails, Spawn, Reap, GraceOver,
   Drain, Redispatch, WriteOutput, StartCommand, EndCommand, Exit, ReadLine, Chatter, Tear, WriteLine,
   RegisterGroup, Tick, KillJob, SendKillSignals, WatchdogLooks, WatchdogActs, Pause, Unpause,
   Finalize, vars, agentVars, promptVars

\* A set of positions that holds one block of a file has at most one member.
LEMMA SingleCount ==
  ASSUME NEW p \in Seq(Blocks), NEW b, Single(p, b)
  PROVE  Cardinality({i \in DOMAIN p : p[i] = b}) <= 1
<1> DEFINE hits == {i \in DOMAIN p : p[i] = b}
<1>1. \A i, j \in hits : i = j
  BY DEF Single
<1> SUFFICES Cardinality(hits) <= 1
  OBVIOUS
<1> HIDE DEF hits
<1>2. CASE hits = {}
  BY <1>2, FS_EmptySet
<1>3. CASE hits # {}
  <2>1. PICK i \in hits : hits = {i}
    BY <1>1, <1>3
  <2>2. Cardinality({i}) = 1
    BY FS_Singleton
  <2>3. QED
    BY <2>1, <2>2
<1>4. QED
  BY <1>2, <1>3

\* dispatch_agent: whatever is dispatched again, and however often, a prompt file
\* holds each block at most once and keeps its body.
THEOREM PromptsStayClean == Spec /\ CompiledOnce => []BlocksOnce
<1>1. Init /\ CompiledOnce => PromptInv
  BY PromptsAssumption DEF Init, DispatchInit, PromptInv, CompiledOnce
<1>2. PromptInv /\ [Next]_vars => PromptInv'
  <2> SUFFICES ASSUME PromptInv, [Next]_vars PROVE PromptInv'
    OBVIOUS
  <2>1. CASE UNCHANGED prompt
    BY <2>1 DEF PromptInv, CompiledOnce
  <2>2. ASSUME NEW a \in Agents, prompt' = [prompt EXCEPT ![a] = Prepared(@)]
        PROVE  PromptInv'
    <3>1. /\ Prepared(prompt[a]) \in Seq(Blocks)
          /\ ToSet(Prepared(prompt[a])) = ToSet(prompt[a]) \cup Managed
          /\ \A c : Single(prompt[a], c) => Single(Prepared(prompt[a]), c)
      BY PreparedFile DEF PromptInv
    <3>2. \A c \in Agents : prompt'[c] = IF c = a THEN Prepared(prompt[a]) ELSE prompt[c]
      BY <2>2 DEF PromptInv
    <3>3. prompt' \in [Agents -> Seq(Blocks)]
      BY <2>2, <3>1 DEF PromptInv
    <3>4. QED
      BY <3>1, <3>2, <3>3 DEF PromptInv, CompiledOnce
  <2>3. QED
    BY <2>1, <2>2, PromptWritten
<1>3. PromptInv => BlocksOnce
  BY SingleCount DEF PromptInv, BlocksOnce, Managed
<1>4. QED
  BY <1>1, <1>2, <1>3, PTL DEF Spec

-----------------------------------------------------------------------------
(* Types. *)

\* DispatchTypeOK bounds lines_read but leaves its domain open.
TypeInv == TypeOK /\ lines_read \in [Agents -> Nat]

\* What a kill does to the processes.
LEMMA TreeTypes ==
  ASSUME TypeInv, NEW agents, NEW late \in SUBSET Agents, KillTrees(agents, late)
  PROVE  /\ proc' \in [Agents -> {"unborn", "running", "exited", "failed", "killed"}]
         /\ tool' \in [Agents -> {"none", "running", "gone"}]
         /\ strays' \subseteq Agents /\ out' = out
BY DEF KillTrees, TypeInv, TypeOK, DispatchTypeOK

\* What the daemon's signals do to them.
LEMMA SignalTypes ==
  ASSUME TypeInv, SendKillSignals
  PROVE  DispatchTypeOK' /\ tracked' = {} /\ lines_read' \in [Agents -> Nat]
<1> DEFINE known == {a \in Agents : Group(a) \in tracked}
<1>1. PICK late \in SUBSET MayStart(known) : KillTrees(known, late)
  BY DEF SendKillSignals
<1>2. late \subseteq Agents
  BY DEF MayStart
<1> HIDE DEF known
<1>3. /\ proc' \in [Agents -> {"unborn", "running", "exited", "failed", "killed"}]
      /\ tool' \in [Agents -> {"none", "running", "gone"}]
      /\ strays' \subseteq Agents /\ out' = out
  BY <1>1, <1>2, TreeTypes
<1>4. UNCHANGED <<prompt, attempt, task, lines_read, torn, success, payload, channel>> /\ tracked' = {}
  BY DEF SendKillSignals, promptVars, taskVars
<1>5. QED
  BY <1>3, <1>4 DEF TypeInv, TypeOK, DispatchTypeOK

\* A line is added to the output of one sub-agent.
LEMMA OutputTypes ==
  ASSUME TypeInv, NEW a \in Agents, NEW kind \in LineKinds, WriteOutput(a, kind)
  PROVE  DispatchTypeOK'
<1>1. out' = [out EXCEPT ![a] = Append(@, kind)]
  BY DEF WriteOutput
<1>2. out[a] \in Seq(LineKinds)
  BY DEF TypeInv, TypeOK, DispatchTypeOK
<1>3. Append(out[a], kind) \in Seq(LineKinds) /\ Len(Append(out[a], kind)) = Len(out[a]) + 1
  BY <1>2
<1>4. out' \in [Agents -> Seq(LineKinds)]
  BY <1>1, <1>3 DEF TypeInv, TypeOK, DispatchTypeOK
<1>5. \A c \in Agents : lines_read[c] \in 0 .. Len(out'[c])
  <2> SUFFICES ASSUME NEW c \in Agents PROVE lines_read[c] \in 0 .. Len(out'[c])
    OBVIOUS
  <2>1. lines_read[c] \in 0 .. Len(out[c]) /\ Len(out[c]) \in Nat
    BY DEF TypeInv, TypeOK, DispatchTypeOK
  <2>2. Len(out'[c]) = Len(out[c]) \/ Len(out'[c]) = Len(out[c]) + 1
    BY <1>1, <1>3 DEF TypeInv, TypeOK, DispatchTypeOK
  <2>3. QED
    BY <2>1, <2>2
<1>6. UNCHANGED <<prompt, proc, tool, strays, attempt, task, lines_read, torn, success, payload, channel>>
  BY DEF WriteOutput, promptVars, taskVars
<1>7. QED
  BY <1>4, <1>5, <1>6 DEF TypeInv, TypeOK, DispatchTypeOK

\* Types of the dispatch tasks, of their processes and of the daemon's records; in
\* particular no reader is ahead of what was printed, no sub-agent is dispatched
\* more often than it may be, and no age passes its limit.
THEOREM SupervisionTypes == Spec => []TypeOK
<1>1. Init => TypeInv
  <2> SUFFICES ASSUME Init PROVE TypeInv
    OBVIOUS
  <2>1. \A a \in Agents : lines_read[a] = 0 /\ out[a] = <<>> /\ lines_read[a] \in 0 .. Len(out[a])
    BY DEF Init, DispatchInit
  <2>2. DispatchTypeOK
    BY <2>1, PromptsAssumption, DispatchesAssumption
       DEF Init, DispatchInit, DispatchTypeOK, LineKinds, Payloads
  <2>3. lines_read \in [Agents -> Nat]
    BY DEF Init, DispatchInit
  <2>4. idle \in 0 .. StallTimeout /\ age \in 0 .. HardCap
    BY LimitsAssumption DEF Init
  <2>5. tracked \subseteq Agents \X (1 .. MaxDispatches)
    BY DEF Init
  <2>6. /\ registered \in BOOLEAN /\ paused \in BOOLEAN /\ candidate \in BOOLEAN
        /\ unread \in BOOLEAN /\ writing \in BOOLEAN
        /\ ended_by \in {"none", "kill", "watchdog", "pipeline"}
    BY DEF Init
  <2>7. QED
    BY <2>2, <2>3, <2>4, <2>5, <2>6 DEF TypeInv, TypeOK
<1>2. TypeInv /\ [Next]_vars => TypeInv'
  <2> SUFFICES ASSUME TypeInv, [Next]_vars PROVE TypeInv'
    OBVIOUS
  <2>a. ASSUME UNCHANGED <<jobVars, watchVars, tracked>>, DispatchTypeOK',
               lines_read' \in [Agents -> Nat]
        PROVE  TypeInv'
    BY <2>a DEF TypeInv, TypeOK, jobVars, watchVars
  <2>b. ASSUME NEW a \in Agents PROVE Prepared(prompt[a]) \in Seq(Blocks)
    BY PreparedFile DEF TypeInv, TypeOK, DispatchTypeOK
  <2>c. 0 \in 0 .. StallTimeout /\ 0 \in 0 .. HardCap
    BY LimitsAssumption
  <2>1. ASSUME NEW a \in Agents, PromptMissing(a), UNCHANGED <<jobVars, watchVars, tracked>>
        PROVE  TypeInv'
    BY <2>1, <2>a DEF PromptMissing, promptVars, processVars, TypeInv, TypeOK, DispatchTypeOK
  <2>2. ASSUME NEW a \in Agents, SpawnFails(a), UNCHANGED <<jobVars, watchVars, tracked>>
        PROVE  TypeInv'
    BY <2>2, <2>a, <2>b DEF SpawnFails, processVars, TypeInv, TypeOK, DispatchTypeOK
  <2>3. ASSUME NEW a \in Agents, Spawn(a), UNCHANGED <<jobVars, watchVars, tracked>>
        PROVE  TypeInv'
    <3>1. Group(a) \in Agents \X (1 .. MaxDispatches)
      BY DEF Group, TypeInv, TypeOK, DispatchTypeOK
    <3> HIDE DEF Group
    <3>2. channel' \subseteq Agents \X (1 .. MaxDispatches)
      BY <2>3, <3>1 DEF Spawn, Sent, TypeInv, TypeOK, DispatchTypeOK
    <3>3. prompt' \in [Agents -> Seq(Blocks)]
      BY <2>3, <2>b DEF Spawn, TypeInv, TypeOK, DispatchTypeOK
    <3>4. /\ proc' \in [Agents -> {"unborn", "running", "exited", "failed", "killed"}]
          /\ task' \in [Agents -> {"idle", "waiting", "draining", "done"}]
      BY <2>3 DEF Spawn, TypeInv, TypeOK, DispatchTypeOK
    <3>5. UNCHANGED <<tool, out, strays, attempt, lines_read, torn, success, payload>>
      BY <2>3 DEF Spawn
    <3>6. DispatchTypeOK' /\ lines_read' \in [Agents -> Nat]
      BY <3>2, <3>3, <3>4, <3>5 DEF TypeInv, TypeOK, DispatchTypeOK
    <3>7. QED
      BY <2>3, <2>a, <3>6
  <2>4. ASSUME NEW a \in Agents, Reap(a), UNCHANGED <<jobVars, watchVars, tracked>>
        PROVE  TypeInv'
    BY <2>4, <2>a DEF Reap, promptVars, processVars, TypeInv, TypeOK, DispatchTypeOK
  <2>5. ASSUME NEW a \in Agents, GraceOver(a), UNCHANGED <<jobVars, watchVars, tracked>>
        PROVE  TypeInv'
    <3>1. PICK late \in SUBSET MayStart({a}) : KillTrees({a}, late)
      BY <2>5 DEF GraceOver
    <3>2. late \in SUBSET Agents
      BY DEF MayStart
    <3>3. /\ proc' \in [Agents -> {"unborn", "running", "exited", "failed", "killed"}]
          /\ tool' \in [Agents -> {"none", "running", "gone"}]
          /\ strays' \subseteq Agents /\ out' = out
      BY <3>1, <3>2, TreeTypes
    <3>4. QED
      BY <2>5, <2>a, <3>3 DEF GraceOver, promptVars, TypeInv, TypeOK, DispatchTypeOK
  <2>6. ASSUME NEW a \in Agents, Drain(a), UNCHANGED <<jobVars, watchVars, tracked>>
        PROVE  TypeInv'
    <3>1. ResultText(LinesRead(a)) \in Payloads
      <4>1. /\ out[a] \in Seq(LineKinds) /\ lines_read[a] \in 0 .. Len(out[a])
        BY DEF TypeInv, TypeOK, DispatchTypeOK
      <4>2. LinesRead(a) \in Seq(LineKinds)
        BY <4>1 DEF LinesRead
      <4>3. QED
        BY <4>2, ResultIsPayload
    <3>2. QED
      BY <2>6, <2>a, <3>1 DEF Drain, promptVars, processVars, TypeInv, TypeOK, DispatchTypeOK
  <2>7. ASSUME NEW again \in SUBSET Agents, Redispatch(again),
               UNCHANGED <<jobVars, watchVars, tracked>>
        PROVE  TypeInv'
    <3>1. out' \in [Agents -> Seq(LineKinds)] /\ lines_read' \in [Agents -> Nat]
      BY <2>7 DEF Redispatch, TypeInv, TypeOK, DispatchTypeOK
    <3>2. \A a \in Agents : lines_read'[a] \in 0 .. Len(out'[a])
      BY <2>7 DEF Redispatch, TypeInv, TypeOK, DispatchTypeOK
    <3>3. attempt' \in [Agents -> 1 .. MaxDispatches]
      BY <2>7, DispatchesAssumption DEF Redispatch, TypeInv, TypeOK, DispatchTypeOK
    <3>4. QED
      BY <2>7, <2>a, <3>1, <3>2, <3>3
         DEF Redispatch, promptVars, TypeInv, TypeOK, DispatchTypeOK, Payloads
  <2>8. ASSUME NEW a \in Agents, NEW kind \in LineKinds, WriteOutput(a, kind),
               UNCHANGED <<jobVars, watchVars, tracked>>
        PROVE  TypeInv'
    BY <2>8, <2>a, OutputTypes DEF WriteOutput, taskVars, TypeInv
  <2>9. ASSUME NEW a \in Agents, StartCommand(a) \/ EndCommand(a),
               UNCHANGED <<jobVars, watchVars, tracked>>
        PROVE  TypeInv'
    BY <2>9, <2>a DEF StartCommand, EndCommand, promptVars, taskVars, TypeInv, TypeOK,
                      DispatchTypeOK
  <2>10. ASSUME NEW a \in Agents, NEW s \in {"exited", "failed"}, Exit(a, s),
                UNCHANGED <<jobVars, watchVars, tracked>>
         PROVE  TypeInv'
    BY <2>10, <2>a DEF Exit, promptVars, taskVars, TypeInv, TypeOK, DispatchTypeOK
  <2>11. ASSUME NEW a \in Agents, ReadLine(a) PROVE TypeInv'
    <3>1. /\ lines_read' = [lines_read EXCEPT ![a] = @ + 1] /\ lines_read[a] < Len(out[a])
          /\ UNCHANGED <<prompt, proc, tool, out, strays, attempt, task, torn, success, payload, channel>>
          /\ unread' = writing /\ UNCHANGED <<jobVars, idle, age, candidate, writing, tracked>>
      BY <2>11 DEF ReadLine, promptVars, processVars
    <3>2. lines_read' \in [Agents -> Nat]
      BY <3>1 DEF TypeInv
    <3>3. \A c \in Agents : lines_read'[c] \in 0 .. Len(out'[c])
      BY <3>1 DEF TypeInv, TypeOK, DispatchTypeOK
    <3>4. DispatchTypeOK'
      BY <3>1, <3>3 DEF TypeInv, TypeOK, DispatchTypeOK
    <3>5. QED
      BY <3>1, <3>2, <3>4 DEF TypeInv, TypeOK, jobVars
  <2>12. ASSUME NEW a \in Agents, Chatter(a) PROVE TypeInv'
    BY <2>12 DEF Chatter, agentVars, promptVars, processVars, taskVars, jobVars, TypeInv, TypeOK,
                 DispatchTypeOK
  <2>20. ASSUME NEW a \in Agents, NEW stream \in Streams, Tear(a, stream) PROVE TypeInv'
    BY <2>20, <2>a DEF Tear, promptVars, processVars, TypeInv, TypeOK, DispatchTypeOK
  <2>13. ASSUME NEW g \in channel, RegisterGroup(g) PROVE TypeInv'
    BY <2>13 DEF RegisterGroup, promptVars, processVars, taskVars, jobVars, watchVars, TypeInv,
                 TypeOK, DispatchTypeOK
  <2>14. ASSUME UNCHANGED <<agentVars, tracked>>,
                idle' \in 0 .. StallTimeout, age' \in 0 .. HardCap,
                registered' \in BOOLEAN, paused' \in BOOLEAN, candidate' \in BOOLEAN,
                unread' \in BOOLEAN, writing' \in BOOLEAN,
                ended_by' \in {"none", "kill", "watchdog", "pipeline"}
         PROVE  TypeInv'
    BY <2>14 DEF agentVars, promptVars, processVars, taskVars, TypeInv, TypeOK, DispatchTypeOK
  <2>15. CASE WriteLine \/ WatchdogLooks \/ Pause \/ Unpause \/ Finalize
    <3>1. CASE WriteLine
      <4>1. idle' \in 0 .. StallTimeout
        BY <3>1, LimitsAssumption DEF WriteLine, TypeInv, TypeOK
      <4>2. QED
        BY <2>14, <3>1, <4>1 DEF WriteLine, agentVars, jobVars, TypeInv, TypeOK
    <3>2. CASE WatchdogLooks
      BY <2>14, <3>2 DEF WatchdogLooks, agentVars, jobVars, TypeInv, TypeOK
    <3>3. CASE Pause
      BY <2>14, <3>3 DEF Pause, agentVars, watchVars, TypeInv, TypeOK
    <3>4. CASE Unpause
      BY <2>14, <3>4 DEF Unpause, agentVars, watchVars, TypeInv, TypeOK
    <3>5. CASE Finalize
      BY <2>14, <2>c, <3>5 DEF Finalize, Unregister, TypeInv, TypeOK
    <3>6. QED
      BY <2>15, <3>1, <3>2, <3>3, <3>4, <3>5
  <2>16. CASE Tick
    BY <2>14, <2>16, LimitsAssumption DEF Tick, Older, jobVars, TypeInv, TypeOK
  <2>17. CASE KillJob
    BY <2>17, <2>c, SignalTypes DEF KillJob, Unregister, TypeInv, TypeOK
  <2>18. CASE WatchdogActs
    <3>1. CASE StillOverdue
      BY <2>18, <2>c, <3>1, SignalTypes DEF WatchdogActs, Unregister, TypeInv, TypeOK
    <3>2. CASE ~StillOverdue
      BY <2>14, <2>18, <3>2 DEF WatchdogActs, TypeInv, TypeOK
    <3>3. QED
      BY <3>1, <3>2
  <2>19. CASE UNCHANGED vars
    BY <2>14, <2>19 DEF vars, jobVars, watchVars, TypeInv, TypeOK
  <2>21. QED
    BY <2>1, <2>2, <2>3, <2>4, <2>5, <2>6, <2>7, <2>8, <2>9, <2>10, <2>11, <2>12, <2>13, <2>15,
       <2>16, <2>17, <2>18, <2>19, <2>20
       DEF Next, Dispatching, Process, TaskStep
<1>3. TypeInv => TypeOK
  BY DEF TypeInv
<1>4. QED
  BY <1>1, <1>2, <1>3, PTL DEF Spec
=============================================================================
