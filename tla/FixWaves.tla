------------------------------ MODULE FixWaves ------------------------------
(***************************************************************************)
(* How the fix loop extends the manifest it is executing.  dispatch_fix_wave*)
(* reads tasks.json, has a subprocess append waves to it (the command      *)
(* compile-fix-waves, which runs the compile-plan skill, which rewrites    *)
(* the file in place and may do anything to it), and dispatches the waves  *)
(* that were not there before.  A step that fails on the way is attempted  *)
(* again, on the file as it was left.                                      *)
(***************************************************************************)
EXTENDS Integers, FiniteSets

CONSTANTS
  FixBase,         \* fix waves are numbered from here (100)
  MaxId,           \* bound on wave ids
  MaxCalls         \* bound on the calls of dispatch_fix_wave

ASSUME FixBaseAssumption == FixBase \in Nat /\ FixBase > 1
ASSUME BoundsAssumption == MaxId \in Nat /\ MaxId >= FixBase /\ MaxCalls \in Nat

Ids   == 1 .. MaxId
Kinds == {"implementation", "fix"}

\* A wave; origin tells what compile-plan wrote first from what APPEND wrote.
Waves == [id : Ids, kind : Kinds, deps : SUBSET Ids, origin : {"plan", "append"}]

\* A manifest, its tasks counted to their waves: broken is no JSON or not of the
\* schema's shape, unprompted lacks a prompt file or has one outside of it.
Forms == {"good", "broken", "unprompted"}

VARIABLES
  file,      \* tasks.json: [form, waves]
  phase,     \* of dispatch_fix_wave
  before,    \* manifest_before, its waves
  pre,       \* pre_waves of append_fix_waves
  scope,     \* the waves dispatched last
  done,      \* history: ids of waves that were executed with success
  calls

vars == <<file, phase, before, pre, scope, done, calls>>

IdsOf(waves) == {w.id : w \in waves}

\* A compiled plan: implementation waves, each after the one before.
Original == {[id |-> i, kind |-> "implementation", origin |-> "plan",
              deps |-> IF i = 1 THEN {} ELSE {i - 1}] : i \in 1 .. (FixBase - 1)}

Init ==
  /\ file = [form |-> "good", waves |-> Original]
  /\ phase = "idle"
  /\ before = {} /\ pre = {} /\ scope = {}
  /\ done = IdsOf(Original)
  /\ calls = 0

-----------------------------------------------------------------------------
(* Checks of a manifest. *)

UniqueIds(waves) == \A v, w \in waves : v.id = w.id => v = w
DepsExist(waves) == \A w \in waves : w.deps \subseteq IdsOf(waves)

\* Every set of waves has one that waits for none of them.
Acyclic(waves) ==
  \A some \in SUBSET waves : some # {} =>
    \E w \in some : w.deps \cap IdsOf(some) = {}

\* load_manifest (validate_invariants): it looks neither for cycles nor for the
\* prompt files.
Loads(m) == m.form # "broken" /\ UniqueIds(m.waves) /\ DepsExist(m.waves)

\* Considered defect: as for load_manifest.
NoCycleCheck(m) == Loads(m) /\ m.form = "good"

\* semantic_check.
SemanticCheck(m) ==
  /\ m.form = "good"
  /\ UniqueIds(m.waves) /\ DepsExist(m.waves)
  /\ Acyclic(m.waves)

FixIds(waves)  == {i \in IdsOf(waves) : i >= FixBase}
ImplIds(waves) == IdsOf(waves) \ FixIds(waves)

NewFixWaves(waves) == {w \in waves : /\ w.id >= FixBase /\ w.kind = "fix"
                                     /\ w.id \notin IdsOf(pre)}

\* Considered defect: an original wave only has to be there.
IdsKept(waves) == IdsOf(pre) \subseteq IdsOf(waves)

OriginalsKept(waves) == pre \subseteq waves

NumbersGrow(waves) ==
  \A w \in NewFixWaves(waves) : \A i \in FixIds(pre) : w.id > i

\* enforce_post_append_invariants.  What a wave depends on exists by now, so that
\* "the last implementation wave or one present" asks for any dependency.
Enforced(waves) ==
  /\ OriginalsKept(waves)
  /\ NewFixWaves(waves) # {}
  /\ NumbersGrow(waves)
  /\ \A w \in NewFixWaves(waves) : w.deps # {}

-----------------------------------------------------------------------------
(* dispatch_fix_wave and the commands it runs. *)

\* The call is over with an outcome other than success; the file stays as it is.
Fails ==
  /\ phase' = "idle"
  /\ UNCHANGED <<file, before, pre, scope, done, calls>>

Begin ==
  /\ phase = "idle" /\ calls < MaxCalls
  /\ Loads(file)
  /\ calls' = calls + 1
  /\ before' = file.waves
  /\ phase' = "findings"
  /\ UNCHANGED <<file, pre, scope, done>>

\* build_findings_for_fix_wave: no gaps, a path out of the working directory, a
\* file that cannot be read or parsed.
NoFindings == phase = "findings" /\ Fails

\* The findings are in a file below the working directory, and the command runs.
RunCommand ==
  /\ phase = "findings"
  /\ phase' = "command"
  /\ UNCHANGED <<file, before, pre, scope, done, calls>>

\* compile-fix-waves refuses the findings file, or a manifest that is missing or
\* of another plan.
CommandRefuses == phase = "command" /\ Fails

\* sanitize_findings: more findings than the cap, each of which it would shorten.
TooManyFindings == phase = "command" /\ Fails

\* append_fix_waves reads the manifest and checks it against the schema only.
ReadForAppend ==
  /\ phase = "command"
  /\ file.form # "broken" /\ ImplIds(file.waves) # {}
  /\ pre' = file.waves
  /\ phase' = "invoking"
  /\ UNCHANGED <<file, before, scope, done, calls>>

ReadFails ==
  /\ phase = "command"
  /\ file.form = "broken" \/ ImplIds(file.waves) = {}
  /\ Fails

\* meta.json, the schema or findings.json cannot be written, or a path is not fit
\* for the prompt: the skill is not run.
PreparationFails == phase = "invoking" /\ Fails

AddedWaves == [id : Ids, kind : Kinds, deps : {{}} \cup {{i} : i \in Ids}, origin : {"append"}]

\* The skill rewrites the file: it may drop a wave and add up to two.
SkillWrites ==
  /\ phase = "invoking"
  /\ \/ file' = [form |-> "broken", waves |-> {}]
     \/ \E form \in {"good", "unprompted"}, lost \in {{}} \cup {{w} : w \in file.waves},
           added \in {{w} : w \in AddedWaves} \cup
                     {{v, w} : v \in {x \in AddedWaves : x.kind = "fix" /\ x.id >= FixBase},
                               w \in {x \in AddedWaves : x.kind = "fix" /\ x.id >= FixBase}} :
          file' = [form |-> form, waves |-> (file.waves \ lost) \cup added]
  /\ phase' = "written"
  /\ UNCHANGED <<before, pre, scope, done, calls>>

\* ClaudeInvoker: the skill exits with a status, prints no COMPILED line or runs
\* into the time-out, before or after it has written.
InvokeFails == phase \in {"invoking", "written"} /\ Fails

\* The skill reports COMPILED, the manifest is read again and checked.
Accepted == file.form # "broken" /\ SemanticCheck(file) /\ Enforced(file.waves)

Accept ==
  /\ phase \in {"invoking", "written"}
  /\ Accepted
  /\ phase' = "appended"
  /\ UNCHANGED <<file, before, pre, scope, done, calls>>

Reject ==
  /\ phase \in {"invoking", "written"}
  /\ ~Accepted
  /\ Fails

\* waves_added_by_append.
Added == {w \in file.waves : w.id \notin IdsOf(before)}

\* The manifest is loaded again; the new waves are all that the scheduler is given,
\* without their dependencies on any other wave (manifest_scoped_to_waves).  The
\* exits for a manifest that does not load or has no new wave are not reached: the
\* command has just accepted the same file.
Dispatch ==
  /\ phase = "appended"
  /\ Loads(file) /\ Added # {}
  /\ scope' = Added
  /\ phase' = "executing"
  /\ UNCHANGED <<file, before, pre, done, calls>>

Scoped == {[w EXCEPT !.deps = @ \cap IdsOf(scope)] : w \in scope}

\* run_wave_execution.
Executed ==
  /\ phase = "executing"
  /\ Acyclic(Scoped)
  /\ done' = done \cup IdsOf(scope)
  /\ phase' = "checking"
  /\ UNCHANGED <<file, before, pre, scope, calls>>

\* run_post_fix_typecheck: with no command, one that cannot be spawned and one
\* that fails, the call goes on to the helper.
Typechecked ==
  /\ phase = "checking"
  /\ phase' = "idle"
  /\ UNCHANGED <<file, before, pre, scope, done, calls>>

ExecutionFails == phase = "executing" /\ Fails

-----------------------------------------------------------------------------
Next ==
  \/ Begin \/ NoFindings \/ RunCommand
  \/ CommandRefuses \/ TooManyFindings \/ ReadForAppend \/ ReadFails
  \/ PreparationFails \/ SkillWrites \/ InvokeFails \/ Accept \/ Reject
  \/ Dispatch \/ Executed \/ ExecutionFails \/ Typechecked

Spec == Init /\ [][Next]_vars

-----------------------------------------------------------------------------
TypeOK ==
  /\ file.form \in Forms /\ file.waves \subseteq Waves
  /\ phase \in {"idle", "findings", "command", "invoking", "written",
               "appended", "executing", "checking"}
  /\ before \subseteq Waves /\ pre \subseteq Waves /\ scope \subseteq Waves
  /\ done \subseteq Ids
  /\ calls \in 0 .. MaxCalls

\* Whatever the skill has written, the waves that are dispatched can be executed:
\* the scheduler finds an order for them (semantic_check, manifest_scoped_to_waves).
ScopeHasOrder == phase = "executing" => Acyclic(Scoped) /\ scope # {}

Dispatches == phase # "executing" /\ phase' = "executing"

\* New waves are dispatched only beside the waves that the loop knew before, all
\* of them unchanged, whatever earlier calls have left in the file
\* (enforce_post_append_invariants).
KnownWavesKept == [][Dispatches => before \subseteq file.waves]_vars

-----------------------------------------------------------------------------
(* What the repository says and the code does not do. *)

\* "Strip cross-manifest dependencies that point at completed implementation
\* waves" (manifest_scoped_to_waves): a dependency that is stripped is done.
StrippedIsDone ==
  phase = "executing" => \A w \in scope : w.deps \subseteq IdsOf(scope) \cup done

\* "enforcing structural invariants (original waves preserved, ...)"
\* (compile.rs): the compiled plan's own waves are there when a fix wave runs.
OriginalWavesPreserved == phase = "executing" => Original \subseteq file.waves
=============================================================================
