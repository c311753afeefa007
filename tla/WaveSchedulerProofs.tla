------------------------ MODULE WaveSchedulerProofs ------------------------
(***************************************************************************)
(* Proofs about WaveScheduler for every finite set of waves, every finite  *)
(* set of sub-agents and every retry bound: the invariant and what follows *)
(* from it, the refinement of WaveDag, and a measure of the work that is   *)
(* left, which every step makes smaller.                                   *)
(***************************************************************************)
EXTENDS WaveScheduler, FiniteSetTheorems, WellFoundedInduction, TLAPS

-----------------------------------------------------------------------------
(* Facts about the state. *)

\* What is still to be ordered before a wave is finite and counted in Nat.
LEMMA PendingFinite ==
  ASSUME deps \in [Waves -> SUBSET Waves], NEW w \in Waves, NEW T
  PROVE  IsFiniteSet(deps[w] \ T) /\ Cardinality(deps[w] \ T) \in Nat
<1>1. deps[w] \ T \in SUBSET Waves
  OBVIOUS
<1> QED
  BY <1>1, WavesAssumption, FS_Subset, FS_CardinalityType

\* Appending to the order adds one id to the ordered ones, after the others.
LEMMA AppendOrder ==
  ASSUME order \in Seq(Waves), NEW id \in Waves, order' = Append(order, id)
  PROVE  /\ Ordered' = Ordered \cup {id}
         /\ Ordered \subseteq Waves
         /\ \A i \in DOMAIN order : Before(i)' = Before(i)
         /\ \A i \in Nat : i = Len(order) + 1 => Before(i)' = Ordered
<1>1. /\ Len(order') = Len(order) + 1 /\ DOMAIN order' = 1 .. (Len(order) + 1)
      /\ DOMAIN order = 1 .. Len(order) /\ Len(order) \in Nat
      /\ \A i \in DOMAIN order : order'[i] = order[i] /\ order[i] \in Waves
      /\ order'[Len(order) + 1] = id
  OBVIOUS
<1>2. Ordered' = {order'[i] : i \in 1 .. (Len(order) + 1)}
  BY <1>1 DEF Ordered
<1>3. \A x \in Ordered' : x \in Ordered \cup {id}
  BY <1>1, <1>2 DEF Ordered
<1>4. \A x \in Ordered \cup {id} : x \in Ordered'
  <2>1. ASSUME NEW x \in Ordered PROVE x \in Ordered'
    <3>1. PICK i \in 1 .. Len(order) : x = order[i]
      BY <1>1 DEF Ordered
    <3>2. i \in 1 .. (Len(order) + 1) /\ order'[i] = x
      BY <1>1, <3>1
    <3> QED
      BY <1>2, <3>2
  <2>2. Len(order) + 1 \in 1 .. (Len(order) + 1)
    BY <1>1
  <2> QED
    BY <1>1, <1>2, <2>1, <2>2
<1>5. Ordered \subseteq Waves
  BY <1>1 DEF Ordered
<1>6. \A i \in 1 .. (Len(order) + 1) : Before(i)' = Before(i)
  <2> SUFFICES ASSUME NEW i \in 1 .. (Len(order) + 1) PROVE Before(i)' = Before(i)
    OBVIOUS
  <2>1. \A j \in 1 .. (i - 1) : order'[j] = order[j]
    BY <1>1
  <2> QED
    BY <2>1 DEF Before
<1>7. Before(Len(order) + 1) = Ordered
  <2>1. (Len(order) + 1) - 1 = Len(order)
    BY <1>1
  <2> QED
    BY <1>1, <2>1 DEF Before, Ordered
<1>8. Len(order) + 1 \in 1 .. (Len(order) + 1)
  BY <1>1
<1>9. Ordered' = Ordered \cup {id}
  BY <1>3, <1>4
<1>10. \A i \in DOMAIN order : Before(i)' = Before(i)
  BY <1>1, <1>6
<1>11. \A i \in Nat : i = Len(order) + 1 => Before(i)' = Ordered
  BY <1>6, <1>7, <1>8
<1> QED
  BY <1>5, <1>9, <1>10, <1>11

\* A wave stands in the order after everything it depends on.
LEMMA OrderedClosed ==
  ASSUME order \in Seq(Waves), SmallestReadyFirst, NEW w \in Ordered
  PROVE  deps[w] \subseteq Ordered
<1>1. PICK i \in DOMAIN order : w = order[i]
  BY DEF Ordered
<1>2. deps[w] \subseteq Before(i)
  BY <1>1 DEF SmallestReadyFirst
<1>3. Before(i) \subseteq Ordered
  BY DEF Before, Ordered
<1> QED
  BY <1>2, <1>3

\* Kahn's counters hold initially.
LEMMA InitInvariant == Init => IInv
<1> SUFFICES ASSUME Init PROVE IInv
  OBVIOUS
<1> USE DEF Init
<1>1. Ordered = {} /\ order = <<>> /\ Len(order) = 0 /\ DOMAIN order = {}
  BY DEF Ordered
<1>2. \A w \in Waves : deps[w] \ {} = deps[w]
  OBVIOUS
<1>3. \A w \in Waves : /\ IsFiniteSet(deps[w]) /\ Cardinality(deps[w]) \in Nat
                       /\ Cardinality(deps[w]) = 0 <=> deps[w] = {}
  BY WavesAssumption, FS_Subset, FS_CardinalityType, FS_EmptySet
<1>4. TypeOK
  BY <1>3 DEF TypeOK, Phases, Verdicts, Outcomes
<1>5. KahnInv
  BY <1>1, <1>2, <1>3, FS_EmptySet DEF KahnInv
<1>6. SmallestReadyFirst
  BY <1>1 DEF SmallestReadyFirst
<1>7. TraversalInv
  BY <1>1 DEF TraversalInv
<1>8. RetryInv
  BY DEF RetryInv, TransientBudgetSpent
<1> QED
  BY <1>4, <1>5, <1>6, <1>7, <1>8 DEF IInv

-----------------------------------------------------------------------------
(* Each part of the invariant is preserved by every step. *)

\* Dropping counters keeps them natural numbers.
LEMMA RelaxedType ==
  ASSUME in_degree \in [Waves -> Nat], NEW id \in Waves
  PROVE  Relaxed(id) \in [Waves -> Nat]
BY DEF Relaxed, Dependents

\* Every step keeps the variables in their types.
LEMMA TypeStep == TypeOK /\ TraversalInv /\ [Next]_vars => TypeOK'
<1> SUFFICES ASSUME TypeOK, TraversalInv, [Next]_vars PROVE TypeOK'
  OBVIOUS
<1> USE DEF TypeOK, Phases, Verdicts, Outcomes, Return, waveVars, kahnVars
<1>1. CASE PopReady
  <2>1. PICK id \in ready : /\ order' = Append(order, id)
                            /\ in_degree' = Relaxed(id)
                            /\ ready' = (ready \ {id}) \cup
                                 {w \in Dependents(id) : in_degree'[w] = 0}
    BY <1>1 DEF PopReady
  <2>2. Dependents(id) \subseteq Waves
    BY DEF Dependents
  <2>3. in_degree' \in [Waves -> Nat]
    BY <2>1, RelaxedType
  <2> QED
    BY <1>1, <2>1, <2>2, <2>3 DEF PopReady
<1>2. CASE FinishOrdering
  BY <1>2 DEF FinishOrdering
<1>3. CASE LoadConfig
  BY <1>3 DEF LoadConfig
<1>4. CASE StartWave
  BY <1>4 DEF StartWave
<1>5. CASE BadHandoff
  BY <1>5 DEF BadHandoff
<1>6. ASSUME NEW a \in Agents, NEW verdict \in Verdicts, AgentExit(a, verdict)
      PROVE  TypeOK'
  BY <1>6 DEF AgentExit
<1>7. CASE RetryPass
  BY <1>7 DEF RetryPass, RetryIndices
<1>8. CASE FinishWave
  <2>1. Current \in Waves
    BY <1>8 DEF Current, FinishWave, PassOver, TraversalInv
  <2>2. FailedRequired \in SUBSET Agents
    BY DEF FailedRequired
  <2> DEFINE o == [wave_id |-> Current, failed_required |-> FailedRequired]
  <2>3. o \in [wave_id : Waves, failed_required : SUBSET Agents]
    BY <2>1, <2>2
  <2>4. wave_outcomes' \in Seq([wave_id : Waves, failed_required : SUBSET Agents])
    BY <1>8, <2>3 DEF FinishWave
  <2> QED
    BY <1>8, <2>4 DEF FinishWave
<1>9. CASE FinishTraversal
  BY <1>9 DEF FinishTraversal
<1>10. CASE UNCHANGED vars
  BY <1>10 DEF vars
<1> QED
  BY <1>1, <1>2, <1>3, <1>4, <1>5, <1>6, <1>7, <1>8, <1>9, <1>10 DEF Next

\* What one step of Kahn's loop does to the counters, the worklist and the
\* set of ordered waves.
LEMMA KahnPop ==
  ASSUME TypeOK, KahnInv, SmallestReadyFirst, NEW id \in ready,
         order' = Append(order, id), in_degree' = Relaxed(id), deps' = deps,
         ready' = (ready \ {id}) \cup {w \in Dependents(id) : in_degree'[w] = 0}
  PROVE  /\ \A w \in Waves : in_degree'[w] = Cardinality(deps[w] \ Ordered')
         /\ ready' = {w \in Waves \ Ordered' : deps[w] \subseteq Ordered'}
         /\ Len(order') = Cardinality(Ordered')
<1> USE DEF TypeOK
<1>1. id \in Waves /\ id \notin Ordered /\ deps[id] \subseteq Ordered
  BY DEF KahnInv
<1>2. Ordered' = Ordered \cup {id} /\ Ordered \subseteq Waves
  BY <1>1, AppendOrder
<1>3. \A w \in Waves : in_degree'[w] = Cardinality(deps[w] \ Ordered')
  <2> SUFFICES ASSUME NEW w \in Waves
               PROVE  in_degree'[w] = Cardinality(deps[w] \ Ordered')
    OBVIOUS
  <2> DEFINE left == deps[w] \ Ordered
  <2>1. IsFiniteSet(left) /\ Cardinality(left) \in Nat /\ in_degree[w] = Cardinality(left)
    BY PendingFinite DEF KahnInv
  <2>2. deps[w] \ Ordered' = left \ {id}
    BY <1>2
  <2>3. Cardinality(left \ {id}) = IF id \in left THEN Cardinality(left) - 1
                                   ELSE Cardinality(left)
    BY <2>1, FS_RemoveElement
  <2>4. w \in Dependents(id) <=> id \in left
    BY <1>1 DEF Dependents
  <2>5. id \in left => Cardinality(left) > 0
    <3>1. id \in left => left # {}
      OBVIOUS
    <3>2. Cardinality(left) = 0 => left = {}
      BY <2>1, FS_EmptySet
    <3> QED
      BY <2>1, <3>1, <3>2
  <2> QED
    BY <2>1, <2>2, <2>3, <2>4, <2>5 DEF Relaxed
<1>4. \A w \in Waves : in_degree'[w] = 0 <=> deps[w] \subseteq Ordered'
  <2> SUFFICES ASSUME NEW w \in Waves
               PROVE  in_degree'[w] = 0 <=> deps[w] \subseteq Ordered'
    OBVIOUS
  <2>1. IsFiniteSet(deps[w] \ Ordered')
    BY PendingFinite
  <2>2. in_degree'[w] = 0 <=> deps[w] \ Ordered' = {}
    BY <1>3, <2>1, FS_EmptySet
  <2> QED
    BY <2>2
<1>5. ready' = {w \in Waves \ Ordered' : deps[w] \subseteq Ordered'}
  <2>1. ASSUME NEW w \in Dependents(id), deps[w] \subseteq Ordered'
        PROVE  w \in Waves \ Ordered'
    <3>1. w \in Waves /\ id \in deps[w]
      BY DEF Dependents
    <3>2. w \notin Ordered
      BY <1>1, <3>1, OrderedClosed
    <3> QED
      BY <1>1, <1>2, <3>1, <3>2
  <2>2. Dependents(id) \subseteq Waves
    BY DEF Dependents
  <2>3. \A w \in ready' : w \in Waves \ Ordered' /\ deps[w] \subseteq Ordered'
    BY <1>2, <1>4, <2>1, <2>2 DEF KahnInv
  <2>4. ASSUME NEW w \in Waves \ Ordered', deps[w] \subseteq Ordered'
        PROVE  w \in ready'
    <3>1. CASE id \in deps[w]
      BY <1>4, <2>4, <3>1 DEF Dependents
    <3>2. CASE id \notin deps[w]
      BY <1>2, <2>4, <3>2 DEF KahnInv
    <3> QED
      BY <3>1, <3>2
  <2> QED
    BY <2>3, <2>4
<1>6. Len(order') = Cardinality(Ordered')
  <2>1. IsFiniteSet(Ordered)
    BY <1>2, WavesAssumption, FS_Subset
  <2>2. Cardinality(Ordered') = Cardinality(Ordered) + 1
    BY <1>1, <1>2, <2>1, FS_AddElement
  <2>3. Len(order') = Len(order) + 1
    BY <1>1
  <2> QED
    BY <2>2, <2>3 DEF KahnInv
<1> QED
  BY <1>3, <1>5, <1>6

\* The worklist invariant is preserved.
LEMMA KahnStep ==
  TypeOK /\ KahnInv /\ SmallestReadyFirst /\ TraversalInv /\ [Next]_vars => KahnInv'
<1> SUFFICES ASSUME TypeOK, KahnInv, SmallestReadyFirst, TraversalInv, [Next]_vars
             PROVE  KahnInv'
  OBVIOUS
<1>1. CASE PopReady
  <2>1. PICK id \in ready : /\ order' = Append(order, id)
                            /\ in_degree' = Relaxed(id)
                            /\ ready' = (ready \ {id}) \cup
                                 {w \in Dependents(id) : in_degree'[w] = 0}
    BY <1>1 DEF PopReady
  <2>2. /\ deps' = deps /\ phase' = "ordering" /\ result' = result /\ result = "none"
    BY <1>1 DEF PopReady, TraversalInv
  <2> QED
    BY <2>1, <2>2, KahnPop DEF KahnInv
<1> DEFINE Same == UNCHANGED <<deps, order, ready, in_degree>>
<1>2. Same => Ordered' = Ordered
  BY DEF Ordered
<1>3. CASE FinishOrdering
  <2>1. Same
    BY <1>3 DEF FinishOrdering, kahnVars
  <2> QED
    BY <1>2, <1>3, <2>1 DEF KahnInv, FinishOrdering, OrderIncomplete, Return, TraversalInv
<1>4. CASE \/ LoadConfig \/ StartWave \/ BadHandoff \/ RetryPass \/ FinishWave
           \/ FinishTraversal
           \/ \E a \in Agents, verdict \in Verdicts : AgentExit(a, verdict)
  <2>1. Same
    BY <1>4 DEF LoadConfig, StartWave, BadHandoff, RetryPass, FinishWave,
                FinishTraversal, AgentExit, kahnVars
  <2>2. /\ phase \in {"ordered", "next_wave", "dispatching"}
        /\ phase' # "ordering"
    BY <1>4 DEF LoadConfig, StartWave, BadHandoff, RetryPass, FinishWave,
                FinishTraversal, AgentExit, PassOver, Return
  <2> QED
    BY <1>2, <2>1, <2>2 DEF KahnInv
<1>5. CASE UNCHANGED vars
  <2>1. Same /\ UNCHANGED <<phase, result>>
    BY <1>5 DEF vars, kahnVars
  <2> QED
    BY <1>2, <2>1 DEF KahnInv
<1> QED
  BY <1>1, <1>3, <1>4, <1>5 DEF Next

\* The order stays the one that always takes the smallest eligible wave.
LEMMA OrderStep ==
  TypeOK /\ KahnInv /\ SmallestReadyFirst /\ [Next]_vars => SmallestReadyFirst'
<1> SUFFICES ASSUME TypeOK, KahnInv, SmallestReadyFirst, [Next]_vars
             PROVE  SmallestReadyFirst'
  OBVIOUS
<1>1. CASE PopReady
  <2>1. PICK id \in ready : IsSmallestReady(id) /\ order' = Append(order, id)
    BY <1>1 DEF PopReady
  <2>2. id \in Waves /\ order \in Seq(Waves) /\ deps' = deps
    BY <1>1 DEF TypeOK, PopReady
  <2>3. /\ \A i \in DOMAIN order : Before(i)' = Before(i)
        /\ \A i \in Nat : i = Len(order) + 1 => Before(i)' = Ordered
    BY <2>1, <2>2, AppendOrder
  <2> SUFFICES ASSUME NEW i \in DOMAIN order',
                      NEW E, E = {w \in Waves \ Before(i)' : deps[w] \subseteq Before(i)'}
               PROVE  order'[i] \in E /\ \A w \in E : order'[i] <= w
    BY <2>2 DEF SmallestReadyFirst
  <2>4. CASE i \in DOMAIN order
    <3>1. order'[i] = order[i]
      BY <2>1, <2>2, <2>4
    <3>2. E = {w \in Waves \ Before(i) : deps[w] \subseteq Before(i)}
      BY <2>3, <2>4
    <3> QED
      BY <2>4, <3>1, <3>2 DEF SmallestReadyFirst
  <2>5. CASE i \notin DOMAIN order
    <3>1. i \in Nat /\ i = Len(order) + 1 /\ order'[i] = id
      BY <2>1, <2>2, <2>5
    <3>2. E = ready
      BY <2>3, <3>1 DEF KahnInv
    <3> QED
      BY <2>1, <3>1, <3>2 DEF IsSmallestReady
  <2> QED
    BY <2>4, <2>5
<1>2. CASE UNCHANGED <<deps, order>>
  BY <1>2 DEF SmallestReadyFirst, Before
<1>3. PopReady \/ UNCHANGED <<deps, order>>
  BY DEF Next, FinishOrdering, LoadConfig, StartWave, BadHandoff, AgentExit,
         RetryPass, FinishWave, FinishTraversal, vars, kahnVars
<1> QED
  BY <1>1, <1>2, <1>3

\* The outcomes keep following the order.
LEMMA TraversalStep ==
  TypeOK /\ TraversalInv /\ [Next]_vars => TraversalInv'
<1> SUFFICES ASSUME TypeOK, TraversalInv, [Next]_vars PROVE TraversalInv'
  OBVIOUS
<1> USE DEF TypeOK, TraversalInv, Return
<1>1. CASE PopReady
  <2>1. PICK id \in ready : order' = Append(order, id)
    BY <1>1 DEF PopReady
  <2>2. pos = 1 /\ Len(wave_outcomes) = 0 /\ Len(order) \in Nat
        /\ Len(order') = Len(order) + 1
    BY <1>1, <2>1 DEF PopReady
  <2> QED
    BY <1>1, <2>1, <2>2 DEF PopReady
<1>2. CASE FinishOrdering
  BY <1>2 DEF FinishOrdering, kahnVars
<1>3. CASE LoadConfig
  BY <1>3 DEF LoadConfig, kahnVars
<1>4. CASE StartWave
  BY <1>4 DEF StartWave, kahnVars
<1>5. CASE BadHandoff
  BY <1>5 DEF BadHandoff, kahnVars
<1>6. ASSUME NEW a \in Agents, NEW verdict \in Verdicts, AgentExit(a, verdict)
      PROVE  TraversalInv'
  BY <1>6 DEF AgentExit, kahnVars
<1>7. CASE RetryPass
  BY <1>7 DEF RetryPass, PassOver, kahnVars
<1>8. CASE FinishWave
  <2> DEFINE o == [wave_id |-> Current, failed_required |-> FailedRequired]
  <2>1. /\ wave_outcomes' = Append(wave_outcomes, o)
        /\ order' = order /\ phase = "dispatching" /\ result = "none"
    BY <1>8 DEF FinishWave, PassOver, kahnVars
  <2>2. /\ Len(wave_outcomes) = pos - 1 /\ Len(order) \in Nat /\ pos <= Len(order)
        /\ Len(wave_outcomes') = pos /\ wave_outcomes'[pos] = o
        /\ \A i \in 1 .. (pos - 1) : wave_outcomes'[i] = wave_outcomes[i]
    BY <2>1
  <2>3. CASE Aborts
    BY <1>8, <2>1, <2>2, <2>3 DEF FinishWave
  <2>4. CASE ~Aborts
    <3>1. o = [wave_id |-> order[pos], failed_required |-> {}]
      BY <2>4 DEF Aborts, Current
    <3>2. pos' = pos + 1 /\ phase' = "next_wave" /\ result' = "none"
      BY <1>8, <2>1, <2>4 DEF FinishWave
    <3>3. \A i \in 1 .. pos : wave_outcomes'[i] =
                               [wave_id |-> order[i], failed_required |-> {}]
      <4> SUFFICES ASSUME NEW i \in 1 .. pos
                   PROVE  wave_outcomes'[i] =
                            [wave_id |-> order[i], failed_required |-> {}]
        OBVIOUS
      <4>1. CASE i = pos
        BY <2>2, <3>1, <4>1
      <4>2. CASE i # pos
        <5>1. i \in 1 .. (pos - 1)
          BY <4>2
        <5>2. wave_outcomes[i] = [wave_id |-> order[i], failed_required |-> {}]
          BY <2>1, <5>1
        <5> QED
          BY <2>2, <5>1, <5>2
      <4> QED
        BY <4>1, <4>2
    <3> QED
      BY <2>1, <2>2, <3>2, <3>3
  <2> QED
    BY <2>3, <2>4
<1>9. CASE FinishTraversal
  BY <1>9 DEF FinishTraversal, TraversalOver, kahnVars
<1>10. CASE UNCHANGED vars
  BY <1>10 DEF vars, kahnVars
<1> QED
  BY <1>1, <1>2, <1>3, <1>4, <1>5, <1>6, <1>7, <1>8, <1>9, <1>10 DEF Next

\* The run counts keep following the passes.
LEMMA RetryStep ==
  TypeOK /\ TraversalInv /\ RetryInv /\ [Next]_vars => RetryInv'
<1> SUFFICES ASSUME TypeOK, TraversalInv, RetryInv, [Next]_vars PROVE RetryInv'
  OBVIOUS
<1> USE RetriesAssumption DEF TypeOK, TraversalInv, RetryInv, TransientBudgetSpent, Return
<1>1. CASE PopReady
  BY <1>1 DEF PopReady, waveVars
<1>2. CASE FinishOrdering
  BY <1>2 DEF FinishOrdering, waveVars
<1>3. CASE LoadConfig
  BY <1>3 DEF LoadConfig, waveVars
<1>4. CASE StartWave
  BY <1>4 DEF StartWave
<1>5. CASE BadHandoff
  BY <1>5 DEF BadHandoff, waveVars
<1>6. ASSUME NEW a \in Agents, NEW verdict \in Verdicts, AgentExit(a, verdict)
      PROVE  RetryInv'
  BY <1>6 DEF AgentExit
<1>7. CASE RetryPass
  BY <1>7 DEF RetryPass, PassOver, MayRetry, RetryIndices
<1>8. CASE FinishWave
  BY <1>8 DEF FinishWave, PassOver, MayRetry, RetryIndices, waveVars
<1>9. CASE FinishTraversal
  BY <1>9 DEF FinishTraversal, waveVars
<1>10. CASE UNCHANGED vars
  BY <1>10 DEF vars, waveVars
<1> QED
  BY <1>1, <1>2, <1>3, <1>4, <1>5, <1>6, <1>7, <1>8, <1>9, <1>10 DEF Next

-----------------------------------------------------------------------------
(* The theorems. *)

\* The conjunction of the parts is an invariant of the scheduler.
THEOREM Invariant == Spec => []IInv
<1>1. IInv /\ [Next]_vars => IInv'
  BY TypeStep, KahnStep, OrderStep, TraversalStep, RetryStep DEF IInv
<1> QED
  BY InitInvariant, <1>1, PTL DEF Spec

\* The variables of run_wave_execution keep their types.
THEOREM TypeCorrect == Spec => []TypeOK
BY Invariant, PTL DEF IInv

\* topological_wave_order always takes the smallest wave whose dependencies
\* are already ordered.
THEOREM OrderCorrect == Spec => []SmallestReadyFirst
BY Invariant, PTL DEF IInv

\* A required sub-agent with a transient failure is given up only after all
\* its retries (dispatch_wave_with_retries).
THEOREM RetriesSpent == Spec => []TransientBudgetSpent
<1>1. IInv => TransientBudgetSpent
  BY DEF IInv, RetryInv
<1> QED
  BY Invariant, <1>1, PTL

\* The waves that succeeded are those before the current one.
LEMMA SucceededIsPrefix ==
  ASSUME IInv, result \in {"none", "Success"}
  PROVE  Succeeded = Before(pos)
<1>1. DOMAIN wave_outcomes = 1 .. (pos - 1)
  BY DEF IInv, TypeOK, TraversalInv
<1>2. \A j \in 1 .. (pos - 1) : /\ wave_outcomes[j].failed_required = {}
                              /\ wave_outcomes[j].wave_id = order[j]
  <2> SUFFICES ASSUME NEW j \in 1 .. (pos - 1)
               PROVE  /\ wave_outcomes[j].failed_required = {}
                      /\ wave_outcomes[j].wave_id = order[j]
    OBVIOUS
  <2>1. wave_outcomes[j] = [wave_id |-> order[j], failed_required |-> {}]
    BY DEF IInv, TraversalInv
  <2> QED
    BY <2>1
<1>3. {j \in DOMAIN wave_outcomes : wave_outcomes[j].failed_required = {}}
        = 1 .. (pos - 1)
  BY <1>1, <1>2
<1>4. Succeeded = {wave_outcomes[i].wave_id : i \in 1 .. (pos - 1)}
  BY <1>3 DEF Succeeded
<1> QED
  BY <1>2, <1>4 DEF Before

\* A wave is dispatched only when every wave it depends on has been run and
\* has no failed required sub-agent.
THEOREM DependenciesFirst == Spec => []DependenciesSucceeded
<1>1. IInv => DependenciesSucceeded
  <2> SUFFICES ASSUME IInv, phase = "dispatching"
               PROVE  deps[Current] \subseteq Succeeded
    BY DEF DependenciesSucceeded
  <2>1. result = "none" /\ pos \in DOMAIN order
    BY DEF IInv, TypeOK, TraversalInv
  <2>2. deps[Current] \subseteq Before(pos)
    BY <2>1 DEF IInv, SmallestReadyFirst, Current
  <2> QED
    BY <2>1, <2>2, SucceededIsPrefix
<1> QED
  BY Invariant, <1>1, PTL

\* When as many waves are ordered as there are, all are.
LEMMA CompleteOrder ==
  ASSUME IInv, Len(order) = Cardinality(Waves)
  PROVE  Ordered = Waves
<1>1. Ordered \subseteq Waves
  BY DEF Ordered, IInv, TypeOK
<1>2. Cardinality(Waves) = Cardinality(Ordered)
  BY DEF IInv, KahnInv
<1> QED
  BY <1>1, <1>2, WavesAssumption, FS_Subset

\* run_wave_execution returns Success only for a manifest all of whose waves
\* were run without a failed required sub-agent.
THEOREM SuccessComplete == Spec => []SuccessIsComplete
<1>1. IInv => SuccessIsComplete
  <2> SUFFICES ASSUME IInv, result = "Success" PROVE Succeeded = Waves
    BY DEF SuccessIsComplete
  <2>1. pos = Len(order) + 1 /\ Len(order) = Cardinality(Waves) /\ order \in Seq(Waves)
    BY DEF IInv, TypeOK, TraversalInv, KahnInv
  <2>2. pos - 1 = Len(order) /\ DOMAIN order = 1 .. Len(order)
    BY <2>1
  <2>3. Before(pos) = Ordered
    BY <2>2 DEF Before, Ordered
  <2> QED
    BY <2>1, <2>3, SucceededIsPrefix, CompleteOrder
<1> QED
  BY Invariant, <1>1, PTL

\* A complete order leaves no room for a cycle: the first member of a cycle in
\* the order would have to come after another member.
LEMMA CompleteOrderAcyclic ==
  ASSUME IInv, Len(order) = Cardinality(Waves)
  PROVE  ~Cyclic
<1> SUFFICES ASSUME NEW S \in SUBSET Waves, S # {},
                    \A w \in S : deps[w] \cap S # {}
             PROVE  FALSE
  BY DEF Cyclic
<1> DEFINE I == {i \in DOMAIN order : order[i] \in S}
<1>1. order \in Seq(Waves) /\ DOMAIN order = 1 .. Len(order) /\ Len(order) \in Nat
  BY DEF IInv, TypeOK
<1>2. I \subseteq Nat /\ I # {}
  <2>1. PICK w \in S : w \in Waves
    OBVIOUS
  <2>2. PICK i \in DOMAIN order : order[i] = w
    BY <2>1, CompleteOrder DEF Ordered
  <2> QED
    BY <1>1, <2>1, <2>2
<1>3. PICK i \in I : \A j \in I : ~(<<j, i>> \in OpToRel(<, Nat))
  BY <1>2, NatLessThanWellFounded, WFMin
<1>4. \A j \in I : ~(j < i)
  BY <1>2, <1>3 DEF OpToRel
<1>5. deps[order[i]] \subseteq Before(i)
  BY DEF IInv, SmallestReadyFirst
<1>6. PICK d \in deps[order[i]] : d \in S
  OBVIOUS
<1>7. PICK j \in 1 .. (i - 1) : d = order[j]
  BY <1>5, <1>6 DEF Before
<1>8. j \in I /\ j < i
  BY <1>1, <1>2, <1>6, <1>7
<1> QED
  BY <1>4, <1>8

\* When the worklist is empty and waves are left, each of these waits for
\* another one of them.
LEMMA IncompleteOrderCyclic ==
  ASSUME IInv, ready = {}, Len(order) # Cardinality(Waves)
  PROVE  Cyclic
<1> DEFINE S == Waves \ Ordered
<1>1. S # {}
  <2>1. Ordered \subseteq Waves
    BY DEF Ordered, IInv, TypeOK
  <2> QED
    BY <2>1 DEF IInv, KahnInv
<1>2. \A w \in S : deps[w] \cap S # {}
  <2> SUFFICES ASSUME NEW w \in S PROVE deps[w] \cap S # {}
    OBVIOUS
  <2>1. ~(deps[w] \subseteq Ordered)
    BY DEF IInv, KahnInv
  <2>2. deps[w] \subseteq Waves
    BY DEF IInv, TypeOK
  <2> QED
    BY <2>1, <2>2
<1> QED
  BY <1>1, <1>2 DEF Cyclic

\* The manifest is refused by the ordering exactly when its waves form a cycle.
THEOREM CycleDetection == Spec => []CycleRefused
<1>1. IInv => CycleRefused
  <2> SUFFICES ASSUME IInv PROVE CycleRefused
    OBVIOUS
  <2>1. phase \in {"ordered", "next_wave", "dispatching"} => ~Cyclic
    BY CompleteOrderAcyclic DEF IInv, KahnInv
  <2>2. phase = "returned" /\ Len(order) # Cardinality(Waves) => Cyclic
    BY IncompleteOrderCyclic DEF IInv, KahnInv
  <2> QED
    BY <2>1, <2>2 DEF CycleRefused
<1> QED
  BY Invariant, <1>1, PTL

\* A sub-agent is dispatched again within its wave only when it is required,
\* failed transiently, and nothing of the wave is running.
THEOREM RerunOnlyTransient == Spec => OnlyTransientRerun
<1> DEFINE P == \A a \in Agents :
                  runs'[a] > runs[a] /\ pos' = pos /\ attempt > 0 /\ phase = "dispatching"
                    => a \notin can_fail /\ results[a] = "transient" /\ running = {}
<1>1. IInv /\ [Next]_vars => P
  <2> SUFFICES ASSUME IInv, [Next]_vars, NEW a \in Agents,
                      runs'[a] > runs[a], phase = "dispatching"
               PROVE  a \notin can_fail /\ results[a] = "transient" /\ running = {}
    OBVIOUS
  <2>1. runs[a] \in Nat
    BY DEF IInv, TypeOK
  <2>2. RetryPass
    BY <2>1 DEF Next, PopReady, FinishOrdering, LoadConfig, StartWave, BadHandoff,
                AgentExit, FinishWave, FinishTraversal, vars, waveVars
  <2> QED
    BY <2>1, <2>2 DEF RetryPass, PassOver, RetryIndices
<1> QED
  BY Invariant, <1>1, PTL DEF Spec, OnlyTransientRerun

-----------------------------------------------------------------------------
(* The scheduler implements WaveDag. *)

\* What one more outcome adds to the waves that succeeded and that failed.
LEMMA AppendOutcome ==
  ASSUME IInv, result = "none", phase = "dispatching",
         wave_outcomes' = Append(wave_outcomes, [wave_id |-> Current,
                                                 failed_required |-> FailedRequired])
  PROVE  /\ FailedRequired = {} => Succeeded' = Succeeded \cup {Current} /\ FailedWaves' = {}
         /\ FailedRequired # {} => Succeeded' = Succeeded /\ FailedWaves' = {Current}
         /\ Current \in Waves \ Succeeded
<1> DEFINE o == [wave_id |-> Current, failed_required |-> FailedRequired]
           n == Len(wave_outcomes)
           ok(s) == {j \in DOMAIN s : s[j].failed_required = {}}
<1>1. /\ n \in Nat /\ n = pos - 1 /\ DOMAIN wave_outcomes = 1 .. n
      /\ DOMAIN wave_outcomes' = 1 .. (n + 1)
      /\ wave_outcomes'[n + 1] = o
      /\ \A i \in 1 .. n : wave_outcomes'[i] = wave_outcomes[i]
  BY DEF IInv, TypeOK, TraversalInv
<1>2. \A i \in 1 .. n : wave_outcomes[i] = [wave_id |-> order[i], failed_required |-> {}]
  BY <1>1 DEF IInv, TraversalInv
<1>3. \A i \in 1 .. n : /\ wave_outcomes[i].failed_required = {}
                       /\ wave_outcomes[i].wave_id = order[i]
  <2> SUFFICES ASSUME NEW i \in 1 .. n
               PROVE  /\ wave_outcomes[i].failed_required = {}
                      /\ wave_outcomes[i].wave_id = order[i]
    OBVIOUS
  <2>1. wave_outcomes[i] = [wave_id |-> order[i], failed_required |-> {}]
    BY <1>2
  <2> QED
    BY <2>1
<1>4. o.wave_id = Current /\ o.failed_required = FailedRequired
  OBVIOUS
<1>5. Succeeded = {wave_outcomes[i].wave_id : i \in 1 .. n} /\ Succeeded = Before(pos)
  <2>1. ok(wave_outcomes) = 1 .. n
    BY <1>1, <1>3
  <2> QED
    BY <2>1, SucceededIsPrefix DEF Succeeded
<1>6. Current \in Waves \ Succeeded
  BY <1>5 DEF IInv, TypeOK, TraversalInv, SmallestReadyFirst, Current
<1>7. {wave_outcomes'[i].wave_id : i \in DOMAIN wave_outcomes'} = Succeeded \cup {Current}
  <2>1. \A i \in 1 .. (n + 1) : i \in 1 .. n \/ i = n + 1
    BY <1>1
  <2>2. \A i \in 1 .. n : i \in 1 .. (n + 1)
    BY <1>1
  <2>3. n + 1 \in 1 .. (n + 1)
    BY <1>1
  <2>4. \A i \in DOMAIN wave_outcomes' : wave_outcomes'[i].wave_id \in Succeeded \cup {Current}
    BY <1>1, <1>4, <1>5, <2>1
  <2>5. \A x \in Succeeded : \E i \in DOMAIN wave_outcomes' : x = wave_outcomes'[i].wave_id
    BY <1>1, <1>5, <2>2
  <2>6. Current = wave_outcomes'[n + 1].wave_id /\ n + 1 \in DOMAIN wave_outcomes'
    BY <1>1, <1>4, <2>3
  <2> QED
    BY <2>4, <2>5, <2>6
<1>8. CASE FailedRequired = {}
  <2>1. ok(wave_outcomes') = DOMAIN wave_outcomes'
    BY <1>1, <1>3, <1>4, <1>8
  <2>2. Succeeded' = Succeeded \cup {Current}
    BY <1>7, <2>1 DEF Succeeded
  <2> QED
    BY <1>6, <1>7, <1>8, <2>2 DEF FailedWaves
<1>9. CASE FailedRequired # {}
  <2>1. ok(wave_outcomes') = 1 .. n
    <3>1. \A i \in 1 .. n : i \in 1 .. (n + 1)
      BY <1>1
    <3>2. \A i \in 1 .. (n + 1) : i \in 1 .. n \/ i = n + 1
      BY <1>1
    <3> QED
      BY <1>1, <1>3, <1>4, <1>9, <3>1, <3>2
  <2>2. Succeeded' = {wave_outcomes'[i].wave_id : i \in 1 .. n}
    BY <2>1 DEF Succeeded
  <2>3. Succeeded' = Succeeded
    BY <1>1, <1>5, <2>2
  <2> QED
    BY <1>6, <1>7, <1>9, <2>3 DEF FailedWaves
<1> QED
  BY <1>6, <1>8, <1>9

\* While the step runs no wave has failed.
LEMMA NoneFailed ==
  ASSUME IInv, result \in {"none", "Success"}
  PROVE  FailedWaves = {}
<1>1. \A i \in DOMAIN wave_outcomes :
         wave_outcomes[i] = [wave_id |-> order[i], failed_required |-> {}]
  <2>1. DOMAIN wave_outcomes = 1 .. (pos - 1)
    BY DEF IInv, TypeOK, TraversalInv
  <2> QED
    BY <2>1 DEF IInv, TraversalInv
<1>2. \A i \in DOMAIN wave_outcomes : wave_outcomes[i].failed_required = {}
  BY <1>1
<1> QED
  BY <1>2 DEF FailedWaves, Succeeded

\* The scheduler implements the abstract wave graph: initial states map to
\* initial states and every step maps to a step or a stutter.
THEOREM Implementation == Spec => ImplementsDag
<1> DEFINE SameOutcomes == UNCHANGED <<deps, wave_outcomes>>
<1>1. Init => Dag!Init
  <2> SUFFICES ASSUME Init PROVE Dag!Init
    OBVIOUS
  <2>1. Succeeded = {} /\ FailedWaves = {}
    BY DEF Init, Succeeded, FailedWaves
  <2> QED
    BY <2>1 DEF Init, Dag!Init, statusBar
<1>2. ASSUME IInv, [Next]_vars PROVE [Dag!Next]_(Dag!vars)
  <2> USE <1>2
  <2>1. SameOutcomes => Succeeded' = Succeeded /\ FailedWaves' = FailedWaves
    BY DEF Succeeded, FailedWaves
  <2>2. result = "none" /\ phase # "returned"
          => Succeeded = Before(pos) /\ FailedWaves = {}
    BY SucceededIsPrefix, NoneFailed
  <2>3. ASSUME SameOutcomes, phase # "dispatching", phase' # "dispatching"
        PROVE  statusBar' = statusBar
    BY <2>1, <2>3 DEF statusBar
  <2>4. ASSUME SameOutcomes, phase' = phase, pos' = pos, order' = order
        PROVE  statusBar' = statusBar
    BY <2>1, <2>4 DEF statusBar, Current
  <2>5. ASSUME result = "none", phase # "dispatching"
        PROVE  Dag!Idle
    BY <2>2, <2>5 DEF Dag!Idle, statusBar
  <2>6. ASSUME SameOutcomes, result = "none", phase # "dispatching", phase' = "returned",
               result' \in {"ProtocolViolation", "HardInfra"}
        PROVE  Dag!Next
    BY <2>3, <2>5, <2>6 DEF Dag!Next, Dag!GiveUp
  <2>7. CASE PopReady
    BY <2>3, <2>7 DEF PopReady, Dag!vars
  <2>8. CASE FinishOrdering
    BY <2>3, <2>6, <2>8 DEF FinishOrdering, Return, Dag!vars, IInv, TraversalInv
  <2>9. CASE LoadConfig
    BY <2>3, <2>6, <2>9 DEF LoadConfig, Return, Dag!vars, IInv, TraversalInv
  <2>10. CASE BadHandoff
    BY <2>6, <2>10 DEF BadHandoff, Return, IInv, TraversalInv
  <2>11. CASE StartWave
    <3>1. /\ SameOutcomes /\ result = "none" /\ result' = result /\ pos \in DOMAIN order
          /\ phase = "next_wave" /\ phase' = "dispatching" /\ Current' = Current
      BY <2>11 DEF StartWave, IInv, TypeOK, TraversalInv, kahnVars, Current
    <3>2. /\ Current \in Waves \ Succeeded
          /\ deps[Current] \subseteq Succeeded
          /\ deps[Current] \subseteq Waves
      BY <2>2, <3>1 DEF IInv, TypeOK, SmallestReadyFirst, Current
    <3>3. statusBar[Current] = "pending" /\ \A d \in deps[Current] : statusBar[d] = "succeeded"
      BY <2>2, <3>1, <3>2 DEF statusBar
    <3>4. statusBar' = [statusBar EXCEPT ![Current] = "running"]
      BY <2>1, <2>2, <3>1, <3>2 DEF statusBar
    <3>5. Dag!Dispatch(Current)
      BY <2>5, <3>1, <3>3, <3>4 DEF Dag!Dispatch
    <3> QED
      BY <3>2, <3>5 DEF Dag!Next
  <2>12. ASSUME NEW a \in Agents, NEW verdict \in Verdicts, AgentExit(a, verdict)
         PROVE  [Dag!Next]_(Dag!vars)
    BY <2>4, <2>12 DEF AgentExit, Dag!vars, kahnVars
  <2>13. CASE RetryPass
    BY <2>4, <2>13 DEF RetryPass, Dag!vars, kahnVars
  <2>14. CASE FinishWave
    <3>1. /\ result = "none" /\ phase = "dispatching" /\ phase' # "dispatching"
          /\ deps' = deps
          /\ wave_outcomes' = Append(wave_outcomes, [wave_id |-> Current,
                                          failed_required |-> FailedRequired])
      BY <2>14 DEF FinishWave, PassOver, Return, IInv, TraversalInv
    <3>2. Current \in Waves \ Succeeded
      BY <3>1, AppendOutcome
    <3>3. statusBar[Current] = "running"
      BY <2>2, <3>1, <3>2 DEF statusBar
    <3>4. CASE FailedRequired = {}
      <4>1. Succeeded' = Succeeded \cup {Current} /\ FailedWaves' = {}
        BY <3>1, <3>4, AppendOutcome
      <4>2. statusBar' = [statusBar EXCEPT ![Current] = "succeeded"]
        BY <2>2, <3>1, <3>2, <4>1 DEF statusBar
      <4>3. result' = result
        BY <2>14, <3>4 DEF FinishWave, Aborts
      <4> QED
        BY <3>1, <3>2, <3>3, <4>2, <4>3 DEF Dag!Next, Dag!Succeed
    <3>5. CASE FailedRequired # {}
      <4>1. Succeeded' = Succeeded /\ FailedWaves' = {Current}
        BY <3>1, <3>5, AppendOutcome
      <4>2. statusBar' = [statusBar EXCEPT ![Current] = "failed"]
        BY <2>2, <3>1, <3>2, <4>1 DEF statusBar
      <4>3. result' = "SemanticMistake"
        BY <2>14, <3>5 DEF FinishWave, Aborts, Return
      <4> QED
        BY <3>1, <3>2, <3>3, <4>2, <4>3 DEF Dag!Next, Dag!Fail
    <3> QED
      BY <3>4, <3>5
  <2>15. CASE FinishTraversal
    <3>1. /\ SameOutcomes /\ result = "none" /\ phase = "next_wave"
          /\ phase' = "returned" /\ result' = "Success"
      BY <2>15 DEF FinishTraversal, Return, IInv, TraversalInv
    <3>2. /\ pos - 1 = Len(order) /\ Len(order) = Cardinality(Waves)
          /\ DOMAIN order = 1 .. Len(order)
      BY <2>15, <3>1 DEF FinishTraversal, TraversalOver, IInv, TypeOK, TraversalInv, KahnInv
    <3>3. Before(pos) = Waves
      BY <3>2, CompleteOrder DEF Before, Ordered
    <3>4. \A w \in Waves : statusBar[w] = "succeeded"
      BY <2>2, <3>1, <3>3 DEF statusBar
    <3>5. statusBar' = statusBar /\ Dag!Idle
      BY <2>3, <2>5, <3>1
    <3> QED
      BY <3>1, <3>4, <3>5 DEF Dag!Next, Dag!Complete
  <2>16. CASE UNCHANGED vars
    BY <2>4, <2>16 DEF vars, kahnVars, Dag!vars
  <2> QED
    BY <2>7, <2>8, <2>9, <2>10, <2>11, <2>12, <2>13, <2>14, <2>15, <2>16 DEF Next
<1> QED
  BY <1>1, <1>2, Invariant, PTL DEF Spec, Dag!Spec, ImplementsDag

-----------------------------------------------------------------------------
(* The function comes to an end. *)

StageRank ==
  CASE phase = "ordering" -> 3
    [] phase = "ordered"  -> 2
    [] phase = "returned" -> 0
    [] OTHER              -> 1

\* Stages, waves to order, waves to dispatch, whether the wave has started, passes
\* of it, and sub-agents that run.
WorkLeft ==
  << StageRank,
     Cardinality(Waves) - Len(order),
     Len(order) + 1 - pos,
     IF phase = "dispatching" THEN 0 ELSE 1,
     IF phase = "dispatching" THEN MaxRetries + 1 - attempt ELSE 0,
     Cardinality(running) >>

\* Nothing of it is below zero.
WorkCounted == \A i \in 1 .. 6 : WorkLeft[i] \in Nat

\* The lexicographic order, which is well-founded on Nat.
Less(m, n) == \E i \in 1 .. 6 : m[i] < n[i] /\ \A j \in 1 .. (i - 1) : m[j] = n[j]

\* Every step leaves less work.
WorkShrinks == [][Less(WorkLeft', WorkLeft)]_vars

\* A counter that has risen is nearer to a bound above it.
LEMMA Closer ==
  ASSUME NEW c \in Int
  PROVE  \A m, n \in Int : n > m => c - n < c - m
OBVIOUS

LEMMA WorkIsCounted == IInv => WorkCounted
<1> SUFFICES ASSUME IInv PROVE WorkCounted
  OBVIOUS
<1>1. StageRank \in Nat
  BY DEF StageRank
<1>2. Cardinality(Waves) - Len(order) \in Nat
  <2>1. Ordered \in SUBSET Waves
    BY DEF IInv, TypeOK, Ordered
  <2>2. /\ Cardinality(Waves) \in Nat /\ Cardinality(Ordered) \in Nat
        /\ Cardinality(Ordered) <= Cardinality(Waves)
    BY <2>1, WavesAssumption, FS_Subset, FS_CardinalityType
  <2>3. QED
    BY <2>2 DEF IInv, KahnInv
<1>3. Len(order) + 1 - pos \in Nat
  <2>1. Len(order) \in Nat /\ pos \in Nat /\ pos <= Len(order) + 1
    BY DEF IInv, TypeOK, TraversalInv
  <2>2. QED
    BY <2>1
<1>4. (IF phase = "dispatching" THEN 0 ELSE 1) \in Nat
  OBVIOUS
<1>5. (IF phase = "dispatching" THEN MaxRetries + 1 - attempt ELSE 0) \in Nat
  BY RetriesAssumption DEF IInv, RetryInv
<1>6. Cardinality(running) \in Nat
  <2>1. running \in SUBSET Agents
    BY DEF IInv, TypeOK
  <2>2. QED
    BY <2>1, AgentsAssumption, FS_Subset, FS_CardinalityType
<1>7. \A i \in 1 .. 6 : i = 1 \/ i = 2 \/ i = 3 \/ i = 4 \/ i = 5 \/ i = 6
  OBVIOUS
<1>8. QED
  BY <1>1, <1>2, <1>3, <1>4, <1>5, <1>6, <1>7 DEF WorkCounted, WorkLeft

\* Ways to have less work left.
LEMMA LessStages == ASSUME StageRank' < StageRank PROVE Less(WorkLeft', WorkLeft)
BY DEF Less, WorkLeft

LEMMA LessToOrder ==
  ASSUME StageRank' = StageRank, order \in Seq(Waves), NEW id, order' = Append(order, id)
  PROVE  Less(WorkLeft', WorkLeft)
<1>1. Len(order) \in Nat /\ Len(order') = Len(order) + 1
  OBVIOUS
<1>2. Cardinality(Waves) \in Nat
  BY WavesAssumption, FS_CardinalityType
<1>3. Cardinality(Waves) - Len(order') < Cardinality(Waves) - Len(order)
  BY <1>1, <1>2
<1>4. WorkLeft'[1] = WorkLeft[1] /\ WorkLeft'[2] < WorkLeft[2]
  BY <1>3 DEF WorkLeft
<1>5. QED
  BY <1>4 DEF Less

LEMMA LessToDispatch ==
  ASSUME StageRank' = StageRank, order' = order, Len(order) \in Nat, pos \in Nat, pos' = pos + 1
  PROVE  Less(WorkLeft', WorkLeft)
<1>1. Len(order) + 1 - pos' < Len(order) + 1 - pos
  BY Closer
<1>2. WorkLeft'[1] = WorkLeft[1] /\ WorkLeft'[2] = WorkLeft[2] /\ WorkLeft'[3] < WorkLeft[3]
  BY <1>1 DEF WorkLeft
<1>3. QED
  BY <1>2 DEF Less

LEMMA LessToStart ==
  ASSUME StageRank' = StageRank, order' = order, pos' = pos,
         phase # "dispatching", phase' = "dispatching"
  PROVE  Less(WorkLeft', WorkLeft)
<1>1. /\ WorkLeft'[1] = WorkLeft[1] /\ WorkLeft'[2] = WorkLeft[2]
      /\ WorkLeft'[3] = WorkLeft[3] /\ WorkLeft'[4] < WorkLeft[4]
  BY DEF WorkLeft
<1>2. QED
  BY <1>1 DEF Less

LEMMA LessPasses ==
  ASSUME order' = order, pos' = pos, phase = "dispatching", phase' = phase,
         attempt \in Nat, attempt' = attempt + 1
  PROVE  Less(WorkLeft', WorkLeft)
<1>1. StageRank' = StageRank
  BY DEF StageRank
<1>2. MaxRetries + 1 - attempt' < MaxRetries + 1 - attempt
  BY RetriesAssumption, Closer
<1>3. /\ WorkLeft'[1] = WorkLeft[1] /\ WorkLeft'[2] = WorkLeft[2]
      /\ WorkLeft'[3] = WorkLeft[3] /\ WorkLeft'[4] = WorkLeft[4]
      /\ WorkLeft'[5] < WorkLeft[5]
  BY <1>1, <1>2 DEF WorkLeft
<1>4. QED
  BY <1>3 DEF Less

LEMMA LessRunning ==
  ASSUME order' = order, pos' = pos, phase' = phase, attempt' = attempt,
         running \subseteq Agents, NEW a \in running, running' = running \ {a}
  PROVE  Less(WorkLeft', WorkLeft)
<1>1. StageRank' = StageRank
  BY DEF StageRank
<1>2. Cardinality(running') < Cardinality(running)
  <2>1. IsFiniteSet(running)
    BY AgentsAssumption, FS_Subset
  <2>2. Cardinality(running') = Cardinality(running) - 1 /\ Cardinality(running) \in Nat
    BY <2>1, FS_RemoveElement, FS_CardinalityType
  <2>3. QED
    BY <2>2
<1>3. /\ WorkLeft'[1] = WorkLeft[1] /\ WorkLeft'[2] = WorkLeft[2]
      /\ WorkLeft'[3] = WorkLeft[3] /\ WorkLeft'[4] = WorkLeft[4]
      /\ WorkLeft'[5] = WorkLeft[5] /\ WorkLeft'[6] < WorkLeft[6]
  BY <1>1, <1>2 DEF WorkLeft
<1>4. QED
  BY <1>3 DEF Less

\* run_wave_execution cannot go round for ever, whatever the manifest says and however
\* its sub-agents end: the work that is left is a tuple of natural numbers, and each
\* step makes it smaller.  (That there is a step to take is Terminates, which a run
\* checks.)
THEOREM WorkRunsOut == Spec => []WorkCounted /\ WorkShrinks
<1>1. IInv /\ Next => Less(WorkLeft', WorkLeft)
  <2> SUFFICES ASSUME IInv, Next PROVE Less(WorkLeft', WorkLeft)
    OBVIOUS
  <2>0. /\ order \in Seq(Waves) /\ Len(order) \in Nat /\ pos \in Nat /\ attempt \in Nat
        /\ running \subseteq Agents
    BY DEF IInv, TypeOK
  <2>1. CASE PopReady
    <3>1. PICK id \in ready : order' = Append(order, id)
      BY <2>1 DEF PopReady
    <3>2. StageRank' = StageRank
      BY <2>1 DEF PopReady, StageRank
    <3>3. QED
      BY <2>0, <3>1, <3>2, LessToOrder
  <2>2. CASE FinishOrdering
    BY <2>2, LessStages DEF FinishOrdering, Return, StageRank
  <2>3. CASE LoadConfig
    BY <2>3, LessStages DEF LoadConfig, Return, StageRank
  <2>4. CASE StartWave
    BY <2>4, LessToStart DEF StartWave, StageRank, kahnVars
  <2>5. CASE BadHandoff
    BY <2>5, LessStages DEF BadHandoff, Return, StageRank
  <2>6. ASSUME NEW a \in Agents, NEW verdict \in Verdicts, AgentExit(a, verdict)
        PROVE  Less(WorkLeft', WorkLeft)
    BY <2>0, <2>6, LessRunning DEF AgentExit, kahnVars
  <2>7. CASE RetryPass
    BY <2>0, <2>7, LessPasses DEF RetryPass, PassOver, kahnVars
  <2>8. CASE FinishWave
    <3>1. CASE Aborts
      BY <2>8, <3>1, LessStages DEF FinishWave, PassOver, Return, StageRank
    <3>2. CASE ~Aborts
      <4>1. StageRank' = StageRank /\ order' = order /\ pos' = pos + 1
        BY <2>8, <3>2 DEF FinishWave, PassOver, StageRank, kahnVars
      <4>2. QED
        BY <2>0, <4>1, LessToDispatch
    <3>3. QED
      BY <3>1, <3>2
  <2>9. CASE FinishTraversal
    BY <2>9, LessStages DEF FinishTraversal, Return, StageRank
  <2>10. QED
    BY <2>1, <2>2, <2>3, <2>4, <2>5, <2>6, <2>7, <2>8, <2>9 DEF Next
<1>2. QED
  BY <1>1, WorkIsCounted, Invariant, PTL DEF Spec, WorkShrinks
=============================================================================
