--------------------------- MODULE WaveScheduler ---------------------------
(***************************************************************************)
(* One call of run_wave_execution (scheduler.rs): Kahn's algorithm orders  *)
(* the waves of the manifest, then the waves are dispatched one after the  *)
(* other; the sub-agents of a wave run concurrently and exit in any order, *)
(* and the required ones whose failure looks transient are dispatched      *)
(* again, at most MaxRetries times.                                        *)
(***************************************************************************)
EXTENDS Integers, Sequences, FiniteSets

CONSTANTS Waves,       \* the wave ids of the manifest, positive integers
          Agents,      \* the hand-off indices of a wave
          MaxRetries   \* SUBAGENT_TRANSIENT_RETRIES

ASSUME WavesAssumption   == Waves \subseteq Nat \ {0} /\ IsFiniteSet(Waves)
ASSUME AgentsAssumption  == IsFiniteSet(Agents)
ASSUME RetriesAssumption == MaxRetries \in Nat

VARIABLES
  deps,           \* manifest: depends_on of every wave
  phase,          \* where the function is
  order,          \* Kahn's output, a sequence of wave ids
  ready,          \* Kahn's worklist
  in_degree,      \* Kahn's counters
  pos,            \* index in order of the wave being traversed
  can_fail,       \* the sub-agents of the current wave whose failure is tolerated
  running,        \* the sub-agents of the current wave now running
  results,        \* last verdict of each sub-agent of the current wave
  runs,           \* how often each of them was dispatched (history)
  attempt,        \* dispatch passes of the current wave so far
  wave_outcomes,  \* finished waves, in order
  result          \* the AttemptOutcome, "none" before the return

kahnVars  == <<order, ready, in_degree>>
waveVars  == <<can_fail, running, results, runs, attempt>>
vars == <<deps, phase, kahnVars, pos, waveVars, wave_outcomes, result>>

Phases   == {"ordering", "ordered", "next_wave", "dispatching", "returned"}
Verdicts == {"success", "transient", "hard"}
Outcomes == {"none", "Success", "SemanticMistake", "ProtocolViolation", "HardInfra"}

Ordered == {order[i] : i \in DOMAIN order}

Current == order[pos]

-----------------------------------------------------------------------------
(* Ordering: topological_wave_order. *)

\* The code's worklist is a stack sorted in descending order, so that pop()
\* yields the smallest id; a set and its minimum say the same.
Init ==
  /\ deps \in [Waves -> SUBSET Waves]
  /\ phase = "ordering"
  /\ order = <<>>
  /\ in_degree = [w \in Waves |-> Cardinality(deps[w])]
  /\ ready = {w \in Waves : in_degree[w] = 0}
  /\ pos = 1
  /\ can_fail = {} /\ running = {} /\ attempt = 0
  /\ results = [a \in Agents |-> "hard"]
  /\ runs = [a \in Agents |-> 0]
  /\ wave_outcomes = <<>>
  /\ result = "none"

Return(outcome) ==
  /\ phase' = "returned"
  /\ result' = outcome

\* Considered defect: the stack is sorted in ascending order.
IsLargestReady(id) == \A x \in ready : id >= x

IsSmallestReady(id) == \A x \in ready : id <= x

Dependents(id) == {w \in Waves : id \in deps[w]}

\* Considered defect: the test for the edge is forgotten.
RelaxedUnsaturated(id) == [w \in Waves |-> in_degree[w] - 1]

Relaxed(id) ==
  [w \in Waves |-> IF w \in Dependents(id) /\ in_degree[w] > 0
                   THEN in_degree[w] - 1 ELSE in_degree[w]]

\* ready.pop(), then every counter of a dependent wave drops (saturating),
\* and a wave whose counter is now zero joins the worklist.
PopReady ==
  /\ phase = "ordering"
  /\ \E id \in ready :
       /\ IsSmallestReady(id)
       /\ order' = Append(order, id)
       /\ in_degree' = Relaxed(id)
       /\ ready' = (ready \ {id}) \cup
                   {w \in Dependents(id) : in_degree'[w] = 0}
  /\ UNCHANGED <<deps, phase, pos, waveVars, wave_outcomes, result>>

\* Considered defect: an incomplete order is not noticed.
NeverIncomplete == FALSE

OrderIncomplete == Len(order) # Cardinality(Waves)

FinishOrdering ==
  /\ phase = "ordering"
  /\ ready = {}
  /\ IF OrderIncomplete
     THEN Return("ProtocolViolation")
     ELSE phase' = "ordered" /\ UNCHANGED result
  /\ UNCHANGED <<deps, kahnVars, pos, waveVars, wave_outcomes>>

-----------------------------------------------------------------------------
(* Traversal: run_wave_execution and dispatch_wave_with_retries. *)

LoadConfig ==
  /\ phase = "ordered"
  /\ \/ phase' = "next_wave" /\ UNCHANGED result
     \/ Return("HardInfra")
  /\ UNCHANGED <<deps, kahnVars, pos, waveVars, wave_outcomes>>

\* The first pass: every hand-off of the wave is dispatched.
StartWave ==
  /\ phase = "next_wave"
  /\ pos <= Len(order)
  /\ phase' = "dispatching"
  /\ can_fail' \in SUBSET Agents
  /\ running' = Agents
  /\ results' = [a \in Agents |-> "hard"]
  /\ runs' = [a \in Agents |-> 1]
  /\ attempt' = 1
  /\ UNCHANGED <<deps, kahnVars, pos, wave_outcomes, result>>

\* build_handoffs refuses a task of the wave.
BadHandoff ==
  /\ phase = "next_wave"
  /\ pos <= Len(order)
  /\ Return("ProtocolViolation")
  /\ UNCHANGED <<deps, kahnVars, pos, waveVars, wave_outcomes>>

\* The slot of a retried hand-off is replaced; the results are only read
\* again when the pass is over.
AgentExit(a, verdict) ==
  /\ phase = "dispatching"
  /\ a \in running
  /\ running' = running \ {a}
  /\ results' = [results EXCEPT ![a] = verdict]
  /\ UNCHANGED <<deps, phase, kahnVars, pos, can_fail, runs, attempt,
                 wave_outcomes, result>>

\* Considered defect: a tolerated failure is retried too.
RetryAnyTransient == {a \in Agents : results[a] = "transient"}

RetryIndices == {a \in Agents \ can_fail : results[a] = "transient"}

PassOver == phase = "dispatching" /\ running = {}

\* Considered defect: one retry too few.
MayRetryStrict == attempt < MaxRetries /\ RetryIndices # {}

MayRetry == attempt <= MaxRetries /\ RetryIndices # {}

RetryPass ==
  /\ PassOver
  /\ MayRetry
  /\ attempt' = attempt + 1
  /\ running' = RetryIndices
  /\ runs' = [a \in Agents |-> runs[a] + IF a \in RetryIndices THEN 1 ELSE 0]
  /\ UNCHANGED <<deps, phase, kahnVars, pos, can_fail, results,
                 wave_outcomes, result>>

FailedRequired == {a \in Agents \ can_fail : results[a] # "success"}

\* Considered defect: the traversal goes on after a failed wave.
NeverAborts == FALSE

Aborts == FailedRequired # {}

FinishWave ==
  /\ PassOver
  /\ ~MayRetry
  /\ wave_outcomes' = Append(wave_outcomes, [wave_id |-> Current,
                                             failed_required |-> FailedRequired])
  /\ IF Aborts
     THEN Return("SemanticMistake") /\ UNCHANGED pos
     ELSE phase' = "next_wave" /\ pos' = pos + 1 /\ UNCHANGED result
  /\ UNCHANGED <<deps, kahnVars, waveVars>>

\* Considered defects: off by one in either direction.
TraversalOverEarly == pos >= Len(order)

TraversalOverLate == pos > Len(order) + 1

TraversalOver == pos > Len(order)

FinishTraversal ==
  /\ phase = "next_wave"
  /\ TraversalOver
  /\ Return("Success")
  /\ UNCHANGED <<deps, kahnVars, pos, waveVars, wave_outcomes>>

Next ==
  \/ PopReady
  \/ FinishOrdering
  \/ LoadConfig
  \/ StartWave
  \/ BadHandoff
  \/ \E a \in Agents, verdict \in Verdicts : AgentExit(a, verdict)
  \/ RetryPass
  \/ FinishWave
  \/ FinishTraversal

Spec == Init /\ [][Next]_vars

\* The task that runs the step is always scheduled again, and a sub-agent
\* ends: by itself, or killed by the watchdog or by its terminal-result grace.
Fairness ==
  /\ WF_vars(PopReady \/ FinishOrdering \/ LoadConfig \/ StartWave \/ BadHandoff
             \/ RetryPass \/ FinishWave \/ FinishTraversal)
  /\ \A a \in Agents : WF_vars(\E verdict \in Verdicts : AgentExit(a, verdict))

FairSpec == Spec /\ Fairness

-----------------------------------------------------------------------------
TypeOK ==
  /\ deps \in [Waves -> SUBSET Waves]
  /\ phase \in Phases
  /\ order \in Seq(Waves)
  /\ ready \subseteq Waves
  /\ in_degree \in [Waves -> Nat]
  /\ pos \in Nat \ {0}
  /\ can_fail \subseteq Agents
  /\ running \subseteq Agents
  /\ results \in [Agents -> Verdicts]
  /\ runs \in [Agents -> Nat]
  /\ attempt \in Nat
  /\ wave_outcomes \in Seq([wave_id : Waves, failed_required : SUBSET Agents])
  /\ result \in Outcomes

\* The waves before position i of the order.
Before(i) == {order[j] : j \in 1 .. (i - 1)}

\* What topological_wave_order documents: at every position stands the
\* smallest id among the waves whose dependencies all stand before it.  So the
\* order is topological, has no repetition and is determined by the manifest.
SmallestReadyFirst ==
  \A i \in DOMAIN order :
    LET eligible == {w \in Waves \ Before(i) : deps[w] \subseteq Before(i)}
    IN /\ order[i] \in eligible
       /\ \A w \in eligible : order[i] <= w

\* Some waves wait for each other: a non-empty set, each member of which
\* depends on a member.
Cyclic == \E S \in SUBSET Waves : /\ S # {}
                                  /\ \A w \in S : deps[w] \cap S # {}

\* The ordering refuses a manifest exactly when its waves form a cycle:
\* nothing of a cyclic manifest is ever dispatched, and an acyclic manifest
\* is never refused before the traversal.
CycleRefused ==
  /\ phase \in {"ordered", "next_wave", "dispatching"} => ~Cyclic
  /\ phase = "returned" /\ Len(order) # Cardinality(Waves) => Cyclic

Succeeded == {wave_outcomes[i].wave_id :
                i \in {j \in DOMAIN wave_outcomes :
                         wave_outcomes[j].failed_required = {}}}

\* While the sub-agents of a wave run, every wave it depends on has been run
\* and has no failed required sub-agent (schema of depends_on).
DependenciesSucceeded ==
  phase = "dispatching" => deps[Current] \subseteq Succeeded

\* The step reports Success exactly when every wave of the manifest was run
\* without a failed required sub-agent.
SuccessIsComplete == result = "Success" => Succeeded = Waves

\* A required sub-agent whose failure looks transient is given up only after
\* 1 + MaxRetries runs: no retry is lost because another sub-agent of the wave
\* succeeded or failed for good in the meantime.
TransientBudgetSpent ==
  result = "SemanticMistake" =>
    \A a \in Agents \ can_fail :
       results[a] = "transient" => runs[a] = 1 + MaxRetries

\* Within a wave, the only sub-agents dispatched again are required ones whose
\* last run failed in a way that looks transient, and no sub-agent of the wave
\* is running when that happens.
OnlyTransientRerun ==
  [][\A a \in Agents :
       runs'[a] > runs[a] /\ pos' = pos /\ attempt > 0 /\ phase = "dispatching"
         => a \notin can_fail /\ results[a] = "transient" /\ running = {}]_vars

\* The step always returns.
Terminates == <>(result # "none")

-----------------------------------------------------------------------------
(* The inductive invariant behind the properties above. *)

\* A counter holds the number of dependencies not yet ordered, and the
\* worklist the waves for which it is zero.
KahnInv ==
  /\ \A w \in Waves : in_degree[w] = Cardinality(deps[w] \ Ordered)
  /\ ready = {w \in Waves \ Ordered : deps[w] \subseteq Ordered}
  /\ Len(order) = Cardinality(Ordered)
  /\ phase # "ordering" => ready = {}
  /\ phase \in {"ordered", "next_wave", "dispatching"} \/ result = "Success"
       => Len(order) = Cardinality(Waves)

\* As long as no wave failed, the outcomes are those of the waves before pos.
TraversalInv ==
  /\ result = "none" <=> phase # "returned"
  /\ phase \in {"ordering", "ordered"} => pos = 1
  /\ pos <= Len(order) + 1
  /\ phase = "dispatching" => pos <= Len(order)
  /\ result = "Success" => pos = Len(order) + 1
  /\ result \in {"none", "Success"} =>
       /\ Len(wave_outcomes) = pos - 1
       /\ \A i \in 1 .. (pos - 1) :
            wave_outcomes[i] = [wave_id |-> order[i], failed_required |-> {}]

\* Every transiently failed sub-agent took part in every pass of its wave.
RetryInv ==
  /\ phase = "dispatching" =>
       /\ attempt \in 1 .. (MaxRetries + 1)
       /\ \A a \in Agents \ can_fail :
            a \in running \/ results[a] = "transient" => runs[a] = attempt
  /\ TransientBudgetSpent

IInv == TypeOK /\ KahnInv /\ SmallestReadyFirst /\ TraversalInv /\ RetryInv

-----------------------------------------------------------------------------
(* The scheduler implements WaveDag. *)

FailedWaves == {wave_outcomes[i].wave_id : i \in DOMAIN wave_outcomes} \ Succeeded

statusBar ==
  [w \in Waves |-> IF w \in Succeeded THEN "succeeded"
                   ELSE IF w \in FailedWaves THEN "failed"
                   ELSE IF phase = "dispatching" /\ w = Current THEN "running"
                   ELSE "pending"]

Dag == INSTANCE WaveDag WITH status <- statusBar

\* Every step of the scheduler is a step of WaveDag or leaves it unchanged.
ImplementsDag == Dag!Spec
=============================================================================
