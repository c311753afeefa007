--------------------------- MODULE FixWavesProofs ---------------------------
(***************************************************************************)
(* Theorems about FixWaves, for every number of waves and calls and        *)
(* whatever the skill writes.  LoopInv is inductive: it follows what is    *)
(* known about the file through the phases of dispatch_fix_wave.           *)
(***************************************************************************)
EXTENDS FixWaves, TLAPS

Strip(w, among) == [w EXCEPT !.deps = @ \cap IdsOf(among)]

\* Dropping dependencies on waves that are not dispatched leaves no cycle where
\* there was none.
LEMMA ScopedAcyclic ==
  ASSUME NEW waves, Acyclic(waves), NEW among \in SUBSET waves, among \subseteq Waves
  PROVE  Acyclic({Strip(w, among) : w \in among})
<1> SUFFICES ASSUME NEW some \in SUBSET {Strip(w, among) : w \in among}, some # {}
             PROVE  \E w \in some : w.deps \cap IdsOf(some) = {}
  BY DEF Acyclic
<1> DEFINE from == {w \in among : Strip(w, among) \in some}
<1>1. \A w \in among : /\ Strip(w, among).id = w.id
                       /\ Strip(w, among).deps = w.deps \cap IdsOf(among)
  BY DEF Strip, Waves
<1>2. \A s \in some : \E w \in from : s = Strip(w, among)
  OBVIOUS
<1>3. IdsOf(some) \subseteq IdsOf(from)
  BY <1>1, <1>2 DEF IdsOf
<1>4. from # {} /\ from \in SUBSET waves
  BY <1>2
<1>5. PICK w \in from : w.deps \cap IdsOf(from) = {}
  BY <1>4 DEF Acyclic
<1>6. Strip(w, among).deps \cap IdsOf(some) = {}
  BY <1>1, <1>3, <1>5
<1>7. QED
  BY <1>6

-----------------------------------------------------------------------------
FileInv ==
  /\ phase \in {"findings", "command", "invoking", "written", "appended"} => before \subseteq Waves
  /\ phase \in {"findings", "command", "invoking"} => before = file.waves
  /\ phase \in {"invoking", "written"} => pre = before
  /\ phase = "appended" => before \subseteq file.waves /\ Acyclic(file.waves)

LoopInv == TypeOK /\ FileInv /\ ScopeHasOrder

LEMMA OriginalWaves == Original \subseteq Waves
<1> SUFFICES ASSUME NEW i \in 1 .. (FixBase - 1)
             PROVE  [id |-> i, kind |-> "implementation", origin |-> "plan",
                     deps |-> IF i = 1 THEN {} ELSE {i - 1}] \in Waves
  BY DEF Original
<1>1. i \in Ids /\ (i # 1 => i - 1 \in Ids)
  BY FixBaseAssumption, BoundsAssumption DEF Ids
<1>2. (IF i = 1 THEN {} ELSE {i - 1}) \in SUBSET Ids
  BY <1>1
<1>3. QED
  BY <1>1, <1>2 DEF Waves, Kinds

LEMMA IdsOfWaves == ASSUME NEW waves \in SUBSET Waves PROVE IdsOf(waves) \subseteq Ids
BY DEF IdsOf, Waves

\* What the skill writes is a manifest of some form.
LEMMA WrittenFile == ASSUME TypeOK, SkillWrites PROVE file'.form \in Forms /\ file'.waves \subseteq Waves
<1>1. AddedWaves \subseteq Waves
  BY DEF AddedWaves, Waves
<1>2. CASE file' = [form |-> "broken", waves |-> {}]
  BY <1>2 DEF Forms
<1>3. CASE file' # [form |-> "broken", waves |-> {}]
  <2>1. PICK form \in {"good", "unprompted"}, lost \in {{}} \cup {{w} : w \in file.waves},
             added \in SUBSET AddedWaves :
               file' = [form |-> form, waves |-> (file.waves \ lost) \cup added]
    BY <1>3, SMTT(20) DEF SkillWrites
  <2>2. QED
    BY <1>1, <2>1 DEF Forms, TypeOK
<1>4. QED
  BY <1>2, <1>3

-----------------------------------------------------------------------------
\* The inductive invariant holds whatever the skill does to the file.
THEOREM LoopInvariant == Spec => []LoopInv
<1>1. Init => LoopInv
  BY FixBaseAssumption, BoundsAssumption, OriginalWaves, IdsOfWaves
     DEF Init, LoopInv, TypeOK, FileInv, ScopeHasOrder, Forms
<1>2. LoopInv /\ [Next]_vars => LoopInv'
  <2> SUFFICES ASSUME LoopInv, [Next]_vars PROVE LoopInv'
    OBVIOUS
  <2> USE DEF LoopInv
  <2>1. CASE Begin
    BY <2>1, BoundsAssumption DEF Begin, TypeOK, FileInv, ScopeHasOrder
  <2>2. CASE RunCommand \/ Typechecked
    BY <2>2 DEF RunCommand, Typechecked, TypeOK, FileInv, ScopeHasOrder
  <2>3. CASE ReadForAppend
    BY <2>3 DEF ReadForAppend, TypeOK, FileInv, ScopeHasOrder
  <2>4. CASE SkillWrites
    <3>1. phase' = "written" /\ UNCHANGED <<before, pre, scope, done, calls>>
      BY <2>4 DEF SkillWrites
    <3>2. phase = "invoking"
      BY <2>4 DEF SkillWrites
    <3>3. QED
      BY <2>4, <3>1, <3>2, WrittenFile DEF TypeOK, FileInv, ScopeHasOrder
  <2>5. CASE Accept
    <3>1. pre = before
      BY <2>5 DEF Accept, FileInv
    <3>2. before \subseteq file.waves /\ Acyclic(file.waves)
      BY <2>5, <3>1 DEF Accept, Accepted, SemanticCheck, Enforced, OriginalsKept
    <3>3. QED
      BY <2>5, <3>2 DEF Accept, TypeOK, FileInv, ScopeHasOrder
  <2>6. CASE Dispatch
    <3>1. Added \subseteq file.waves /\ Added # {} /\ Acyclic(file.waves)
      BY <2>6 DEF Dispatch, Added, FileInv
    <3>2. scope' = Added /\ scope' \subseteq Waves
      BY <2>6, <3>1 DEF Dispatch, TypeOK
    <3>3. TypeOK' /\ FileInv'
      BY <2>6, <3>2 DEF Dispatch, TypeOK, FileInv
    <3>4. scope' \subseteq file'.waves /\ Acyclic(file'.waves)
      BY <2>6, <3>1, <3>2 DEF Dispatch, Acyclic, IdsOf
    <3>5. Acyclic(Scoped)'
      <4>1. Acyclic({Strip(w, Added) : w \in Added})
        BY <3>1, <3>2, ScopedAcyclic
      <4>2. Scoped' = {Strip(w, Added) : w \in Added}
        BY <3>2 DEF Scoped, Strip, IdsOf
      <4>3. QED
        BY <4>1, <4>2 DEF Acyclic, IdsOf
    <3>6. QED
      BY <3>1, <3>2, <3>3, <3>5 DEF ScopeHasOrder
  <2>7. CASE Executed
    BY <2>7, IdsOfWaves DEF Executed, TypeOK, FileInv, ScopeHasOrder
  <2>8. CASE Fails
    BY <2>8 DEF Fails, TypeOK, FileInv, ScopeHasOrder
  <2>9. CASE UNCHANGED vars
    BY <2>9 DEF vars, TypeOK, FileInv, ScopeHasOrder, Scoped, IdsOf
  <2>10. QED
    BY <2>1, <2>2, <2>3, <2>4, <2>5, <2>6, <2>7, <2>8, <2>9
       DEF Next, NoFindings, CommandRefuses, TooManyFindings, ReadFails, PreparationFails,
           InvokeFails, Reject, ExecutionFails
<1>3. QED
  BY <1>1, <1>2, PTL DEF Spec

\* manifest_scoped_to_waves, semantic_check: the waves that are dispatched have an
\* order, whatever the skill has written.
THEOREM DispatchedHasOrder == Spec => []ScopeHasOrder
<1>1. LoopInv => ScopeHasOrder
  BY DEF LoopInv
<1>2. QED
  BY <1>1, LoopInvariant, PTL

\* Types of the manifest and of the call's variables.
THEOREM LoopTypes == Spec => []TypeOK
<1>1. LoopInv => TypeOK
  BY DEF LoopInv
<1>2. QED
  BY <1>1, LoopInvariant, PTL

\* enforce_post_append_invariants: when new waves are dispatched, the waves that
\* the call found are in the file, all of them unchanged.
THEOREM KnownWavesAreKept == Spec => KnownWavesKept
<1>1. LoopInv /\ [Next]_vars => [Dispatches => before \subseteq file.waves]_vars
  <2> SUFFICES ASSUME LoopInv, Next, Dispatches PROVE before \subseteq file.waves
    OBVIOUS
  <2>1. Dispatch
    BY DEF Next, Dispatches, Begin, NoFindings, RunCommand, CommandRefuses, TooManyFindings,
       ReadForAppend, ReadFails, PreparationFails, SkillWrites, InvokeFails, Accept, Reject,
       Executed, ExecutionFails, Typechecked, Fails
  <2>2. QED
    BY <2>1 DEF Dispatch, LoopInv, FileInv
<1>2. QED
  BY <1>1, LoopInvariant, PTL DEF Spec, KnownWavesKept
=============================================================================
