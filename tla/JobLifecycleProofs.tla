------------------------- MODULE JobLifecycleProofs -------------------------
(***************************************************************************)
(* Theorems about JobLifecycle, for every number of steps, any number of   *)
(* overlapping runs and every choice of hosts. JInv is inductive: what any *)
(* record calls succeeded has succeeded, and a run stands only behind      *)
(* steps that have. When runs do not overlap, SerialInv and SoloInv are    *)
(* inductive too. Each step of a run brings it nearer to its end.          *)
(***************************************************************************)
EXTENDS JobLifecycle, WellFoundedInduction, TLAPS

DiskTypes ==
  /\ job_state \in JobStates
  /\ step_status \in [Steps -> StepStates]
  /\ manifest \in {"READY", "EXECUTING", "COMPLETED", "FAILED"}
  /\ saved_meta \in MetaStates
  /\ display \subseteq Steps

DaemonTypes ==
  /\ up \in BOOLEAN /\ running_job \in BOOLEAN /\ paused \in BOOLEAN
  /\ history \in MetaStates

RunTypes ==
  /\ pc \in [Runs -> PCs]
  /\ host \in [Runs -> Hosts]
  /\ resuming \in [Runs -> BOOLEAN]
  /\ seq \in [Runs -> 1 .. (LastStep + 1)]
  /\ from \in [Runs -> Steps]
  /\ done \in [Runs -> SUBSET Steps]
  /\ ok \in [Runs -> BOOLEAN]
  /\ copy \in [Runs -> [Steps -> StepStates]]

GhostTypes == killed \subseteq Runs /\ ever_ok \subseteq Steps /\ stranded \in BOOLEAN

\* The steps that a table of step statuses calls succeeded.
SucceededIn(status) == {s \in Steps : status[s] = "Succeeded"}

\* Whatever names a step as succeeded, on disk or in a run, names one that has
\* returned Success.
RecordsInv ==
  /\ SucceededIn(step_status) \subseteq ever_ok
  /\ display \subseteq ever_ok
  /\ \A r \in Runs : done[r] \subseteq ever_ok /\ SucceededIn(copy[r]) \subseteq ever_ok

\* A run stands behind steps that have succeeded; before it enters the loop it
\* stands at the first one.
PositionInv ==
  \A r \in Runs :
    /\ pc[r] \in {"free", "flip", "register", "open"} => seq[r] = 1
    /\ pc[r] \in {"loop", "step", "persist"} => 1 .. (seq[r] - 1) \subseteq ever_ok
    /\ pc[r] \in {"step", "persist"} => seq[r] \in Steps
    /\ pc[r] = "persist" /\ ok[r] => seq[r] \in ever_ok

\* Behind a success that is recorded, or about to be, every step has succeeded.
WholeInv ==
  /\ \A r \in Runs : pc[r] \in {"ended", "record", "metadata", "manifest"} /\ ok[r] =>
                       Steps = ever_ok
  /\ SuccessIsWhole

\* The labels of the ends of a run tell its host.
HostInv ==
  \A r \in Runs : /\ pc[r] \in {"register", "open"} => host[r] = "daemon"
                  /\ pc[r] = "manifest" => host[r] = "foreground"

JInv == TypeOK /\ RecordsInv /\ PositionInv /\ WholeInv /\ HostInv /\ EntryHasRun

-----------------------------------------------------------------------------
\* The type invariant, in the four parts that the proofs below take one by one.
LEMMA TypesSplit == TypeOK <=> DiskTypes /\ DaemonTypes /\ RunTypes /\ GhostTypes
  BY DEF TypeOK, DiskTypes, DaemonTypes, RunTypes, GhostTypes

\* The same of the next state.
LEMMA TypesSplitNext ==
  TypeOK' <=> DiskTypes' /\ DaemonTypes' /\ RunTypes' /\ GhostTypes'
  BY DEF TypeOK, DiskTypes, DaemonTypes, RunTypes, GhostTypes

\* Facts about the constants and the steps' numbers.
LEMMA Constants ==
  /\ AnyHost \in Hosts
  /\ AllPending \in [Steps -> StepStates]
  /\ SucceededIn(AllPending) = {}
  /\ 1 \in Steps /\ 1 \in 1 .. (LastStep + 1)
  /\ \A s \in Steps : s \in Int /\ s + 1 \in 1 .. (LastStep + 1)
  /\ \A s \in 1 .. (LastStep + 1) : s \in Int /\ 1 .. (s - 1) \subseteq Steps
<1>1. AnyHost \in Hosts
  BY HostsAssumption DEF AnyHost
<1>2. AllPending \in [Steps -> StepStates] /\ SucceededIn(AllPending) = {}
  BY DEF AllPending, StepStates, SucceededIn
<1>3. /\ 1 \in Steps /\ 1 \in 1 .. (LastStep + 1)
      /\ \A s \in Steps : s \in Int /\ s + 1 \in 1 .. (LastStep + 1)
      /\ \A s \in 1 .. (LastStep + 1) : s \in Int /\ 1 .. (s - 1) \subseteq Steps
  BY StepsAssumption DEF Steps
<1>4. QED
  BY <1>1, <1>2, <1>3

\* The resume point is a step.
LEMMA ResumePoint == FirstNotSucceeded \in Steps
<1> DEFINE open == Steps \ (Persisted \cup SucceededSeqs)
<1>1. CASE open = {}
  BY <1>1, Constants DEF FirstNotSucceeded
<1>2. CASE open # {}
  <2>1. \E s \in open : \A t \in open : s <= t
    <3>1. open \subseteq Nat
      BY StepsAssumption DEF Steps
    <3>2. IsWellFoundedOn(OpToRel(<, Nat), Nat)
      BY NatLessThanWellFounded
    <3>3. PICK s \in open : \A t \in open : ~(<<t, s>> \in OpToRel(<, Nat))
      <4> HIDE DEF open
      <4> QED  BY <1>2, <3>1, <3>2, WFMin
    <3>4. \A t \in open : ~(t < s)
      BY <3>1, <3>3 DEF OpToRel
    <3>5. QED
      <4> HIDE DEF open
      <4>1. s \in Nat /\ \A t \in open : t \in Nat
        BY <3>1, <3>3
      <4>2. \A t \in open : s <= t
        BY <4>1, <3>4
      <4>3. QED
        BY <3>3, <4>2
  <2>2. (CHOOSE s \in open : \A t \in open : s <= t) \in open
    <3> HIDE DEF open
    <3> QED  BY <2>1, Zenon
  <2>3. FirstNotSucceeded = CHOOSE s \in open : \A t \in open : s <= t
    BY <1>2, Zenon DEF FirstNotSucceeded
  <2>4. QED
    BY <2>2, <2>3
<1>3. QED
  BY <1>1, <1>2

\* Every step keeps the types; a step's end needs the run's position too.
LEMMA TypesKept == TypeOK /\ PositionInv /\ [Next]_vars => TypeOK'
<1> SUFFICES ASSUME TypeOK, PositionInv, [Next]_vars PROVE TypeOK'
  OBVIOUS
<1> USE Constants
<1>1. ASSUME NEW r \in Runs, Register(r) PROVE TypeOK'
  BY <1>1 DEF Register, Goto, diskVars, ghostVars, TypeOK, JobStates, StepStates,
              MetaStates, PCs
<1>1a. ASSUME NEW r \in Runs, OpenJob(r) PROVE TypeOK'
  <2>1. DiskTypes' /\ DaemonTypes'
    BY <1>1a DEF OpenJob, diskVars, daemonVars, TypeOK, DiskTypes, DaemonTypes
  <2>2. RunTypes' /\ GhostTypes'
    <3>1. CASE Goto(r, "loop") /\ UNCHANGED <<host, resuming, seq, from, done, ok, copy, ghostVars>>
      BY <3>1 DEF Goto, ghostVars, TypeOK, PCs, RunTypes, GhostTypes
    <3>2. CASE Release(r) /\ stranded' = running_job
      BY <3>2 DEF Release, TypeOK, PCs, RunTypes, GhostTypes
    <3>3. QED
      BY <1>1a, <3>1, <3>2 DEF OpenJob
  <2>3. QED
    BY <2>1, <2>2, TypesSplitNext
<1>2. ASSUME NEW r \in Runs, AbortKilled(r) PROVE TypeOK'
  BY <1>2 DEF AbortKilled, AbortOutcome, Goto, diskVars, daemonVars, ghostVars, TypeOK, JobStates,
              StepStates, MetaStates, PCs
<1>3. ASSUME NEW r \in Runs, SkipStep(r) PROVE TypeOK'
  BY <1>3 DEF SkipStep, diskVars, daemonVars, ghostVars, TypeOK, JobStates, StepStates,
              MetaStates, PCs
<1>4. ASSUME NEW r \in Runs, BeginStep(r) PROVE TypeOK'
  <2>1. DiskTypes'
    BY <1>4 DEF BeginStep, PersistStatus, TypeOK, DiskTypes, StepStates
  <2>2. DaemonTypes' /\ RunTypes' /\ GhostTypes'
    BY <1>4 DEF BeginStep, Goto, daemonVars, ghostVars, TypeOK, PCs, DaemonTypes,
                RunTypes, GhostTypes
  <2>3. QED
    BY <2>1, <2>2, TypesSplitNext
<1>5. ASSUME NEW r \in Runs, NEW success \in BOOLEAN, EndStep(r, success) PROVE TypeOK'
  <2>1. seq[r] \in Steps
    BY <1>5 DEF EndStep, PositionInv
  <2>2. DiskTypes'
    BY <1>5, <2>1 DEF EndStep, ManifestAfterStep, ManifestAfterPreflight, ManifestAfterSummary,
                      TypeOK, DiskTypes
  <2>3. DaemonTypes' /\ RunTypes' /\ GhostTypes'
    BY <1>5, <2>1 DEF EndStep, Goto, daemonVars, TypeOK, PCs, DaemonTypes, RunTypes,
                      GhostTypes
  <2>4. QED
    BY <2>2, <2>3, TypesSplitNext
<1>6. ASSUME NEW r \in Runs, PersistStep(r) PROVE TypeOK'
  <2>1. seq[r] \in Steps
    BY <1>6 DEF PersistStep, PositionInv
  <2>2. DiskTypes'
    BY <1>6, <2>1 DEF PersistStep, PersistStatus, TypeOK, DiskTypes, StepStates
  <2>3. DaemonTypes' /\ RunTypes' /\ GhostTypes'
    BY <1>6, <2>1 DEF PersistStep, Goto, Bails, daemonVars, ghostVars, TypeOK, PCs,
                      DaemonTypes, RunTypes, GhostTypes
  <2>4. QED
    BY <2>2, <2>3, TypesSplitNext
<1>7. ASSUME NEW r \in Runs, Complete(r) PROVE TypeOK'
  BY <1>7 DEF Complete, Goto, diskVars, daemonVars, ghostVars, TypeOK, JobStates,
              StepStates, MetaStates, PCs
<1>8. ASSUME NEW r \in Runs, DaemonManifest(r) PROVE TypeOK'
  BY <1>8 DEF DaemonManifest, Goto, daemonVars, ghostVars, TypeOK, JobStates, StepStates,
              MetaStates, PCs
<1>9. ASSUME NEW r \in Runs, DaemonRecord(r) PROVE TypeOK'
  BY <1>9 DEF DaemonRecord, Goto, daemonVars, ghostVars, TypeOK, JobStates, StepStates,
              MetaStates, PCs, FinalState
<1>10. ASSUME NEW r \in Runs, DaemonMetadata(r) PROVE TypeOK'
  BY <1>10 DEF DaemonMetadata, Release, TypeOK, JobStates, StepStates, MetaStates, PCs,
               EntryAfter
<1>11. ASSUME NEW r \in Runs, ForegroundRecord(r) PROVE TypeOK'
  BY <1>11 DEF ForegroundRecord, Goto, daemonVars, ghostVars, TypeOK, JobStates,
               StepStates, MetaStates, PCs, FinalState
<1>12. ASSUME NEW r \in Runs, ForegroundManifest(r) PROVE TypeOK'
  BY <1>12 DEF ForegroundManifest, Release, daemonVars, TypeOK, JobStates, StepStates,
               MetaStates, PCs
<1>13. ASSUME NEW r \in Runs, FlipToRunning(r) PROVE TypeOK'
  <2>1. DiskTypes' /\ DaemonTypes'
    BY <1>13 DEF FlipToRunning, daemonVars, TypeOK, JobStates, DiskTypes, DaemonTypes
  <2>2. RunTypes' /\ GhostTypes'
    <3>1. CASE host[r] = "daemon" /\ Goto(r, "register")
               /\ copy' = [copy EXCEPT ![r] = AllPending]
               /\ UNCHANGED <<host, resuming, seq, from, done, ok, ghostVars>>
      BY <3>1 DEF Goto, ghostVars, TypeOK, PCs, RunTypes, GhostTypes
    <3>2. CASE host[r] = "foreground" /\ Goto(r, "loop")
               /\ UNCHANGED <<host, resuming, seq, from, done, ok, copy, ghostVars>>
      BY <3>2 DEF Goto, ghostVars, TypeOK, PCs, RunTypes, GhostTypes
    <3>3. CASE Release(r) /\ UNCHANGED stranded
      BY <3>3 DEF Release, TypeOK, PCs, RunTypes, GhostTypes
    <3>4. QED
      BY <1>13, <3>1, <3>2, <3>3 DEF FlipToRunning
  <2>3. QED
    BY <2>1, <2>2, TypesSplitNext
<1>14. ASSUME NEW r \in Runs, NEW h \in Hosts, ReadForResume(r, h) PROVE TypeOK'
  BY <1>14, ResumePoint DEF ReadForResume, Goto, Active, diskVars, daemonVars, ghostVars,
                            TypeOK, JobStates, StepStates, MetaStates, PCs,
                            SucceededSeqs, Persisted
<1>15. ASSUME NEW r \in Runs, ForegroundCrash(r) PROVE TypeOK'
  BY <1>15 DEF ForegroundCrash, Release, Active, diskVars, daemonVars, TypeOK, JobStates,
               StepStates, MetaStates, PCs
<1>16. CASE KillJob
  BY <1>16 DEF KillJob, RemoveFromRunning, Active, DaemonRun, runVars, TypeOK, JobStates,
               StepStates, MetaStates, PCs
<1>17. CASE WatchdogKill
  BY <1>17 DEF WatchdogKill, RemoveFromRunning, Active, DaemonRun, runVars, TypeOK,
               JobStates, StepStates, MetaStates, PCs
<1>18. CASE PauseJob
  BY <1>18 DEF PauseJob, diskVars, runVars, ghostVars, TypeOK, JobStates, StepStates,
               MetaStates, PCs
<1>19. CASE ResumeJob
  BY <1>19 DEF ResumeJob, diskVars, runVars, ghostVars, TypeOK, JobStates, StepStates,
               MetaStates, PCs
<1>20. CASE Cancel
  BY <1>20 DEF Cancel, daemonVars, runVars, ghostVars, TypeOK, JobStates, StepStates,
               MetaStates, PCs
<1>21. CASE DaemonCrash
  BY <1>21 DEF DaemonCrash, Active, DaemonRun, diskVars, TypeOK, JobStates, StepStates,
               MetaStates, PCs
<1>22. CASE DaemonStart
  BY <1>22 DEF DaemonStart, diskVars, runVars, ghostVars, TypeOK, JobStates, StepStates,
               MetaStates, PCs
<1>23. CASE UNCHANGED vars
  BY <1>23 DEF vars, diskVars, daemonVars, runVars, ghostVars, TypeOK, JobStates,
               StepStates, MetaStates, PCs
<1>24. QED
  BY <1>1, <1>1a, <1>2, <1>3, <1>4, <1>5, <1>6, <1>7, <1>8, <1>9, <1>10, <1>11, <1>12,
     <1>13, <1>14, <1>15, <1>16, <1>17, <1>18, <1>19, <1>20, <1>21, <1>22, <1>23
     DEF Next, RunStep

\* Every step keeps the records behind what has returned Success.
LEMMA RecordsKept == TypeOK /\ RecordsInv /\ PositionInv /\ [Next]_vars => RecordsInv'
<1> SUFFICES ASSUME TypeOK, RecordsInv, PositionInv, [Next]_vars PROVE RecordsInv'
  OBVIOUS
<1> USE Constants
<1>1. ASSUME NEW r \in Runs, Register(r) PROVE RecordsInv'
  BY <1>1 DEF Register, Goto, diskVars, ghostVars, TypeOK, RecordsInv, PositionInv,
              SucceededIn
<1>1a. ASSUME NEW r \in Runs, OpenJob(r) PROVE RecordsInv'
  BY <1>1a DEF OpenJob, Goto, Release, diskVars, ghostVars, TypeOK, RecordsInv, SucceededIn
<1>2. ASSUME NEW r \in Runs, AbortKilled(r) PROVE RecordsInv'
  BY <1>2 DEF AbortKilled, Goto, diskVars, daemonVars, ghostVars, TypeOK, RecordsInv,
              PositionInv, SucceededIn
<1>3. ASSUME NEW r \in Runs, SkipStep(r) PROVE RecordsInv'
  BY <1>3 DEF SkipStep, diskVars, daemonVars, ghostVars, TypeOK, RecordsInv, PositionInv,
              SucceededIn
<1>4. ASSUME NEW r \in Runs, BeginStep(r) PROVE RecordsInv'
  BY <1>4 DEF BeginStep, Goto, PersistStatus, daemonVars, ghostVars, TypeOK, RecordsInv,
              PositionInv, SucceededIn
<1>5. ASSUME NEW r \in Runs, NEW success \in BOOLEAN, EndStep(r, success) PROVE RecordsInv'
  BY <1>5 DEF EndStep, Goto, daemonVars, TypeOK, RecordsInv, PositionInv, SucceededIn
<1>6. ASSUME NEW r \in Runs, PersistStep(r) PROVE RecordsInv'
  BY <1>6 DEF PersistStep, Goto, PersistStatus, daemonVars, ghostVars, TypeOK,
              RecordsInv, PositionInv, SucceededIn, Bails
<1>7. ASSUME NEW r \in Runs, Complete(r) PROVE RecordsInv'
  BY <1>7 DEF Complete, Goto, diskVars, daemonVars, ghostVars, TypeOK, RecordsInv,
              PositionInv, SucceededIn
<1>8. ASSUME NEW r \in Runs, DaemonManifest(r) PROVE RecordsInv'
  BY <1>8 DEF DaemonManifest, Goto, daemonVars, ghostVars, TypeOK, RecordsInv,
              PositionInv, SucceededIn
<1>9. ASSUME NEW r \in Runs, DaemonRecord(r) PROVE RecordsInv'
  BY <1>9 DEF DaemonRecord, Goto, daemonVars, ghostVars, TypeOK, RecordsInv, PositionInv,
              SucceededIn
<1>10. ASSUME NEW r \in Runs, DaemonMetadata(r) PROVE RecordsInv'
  BY <1>10 DEF DaemonMetadata, Release, TypeOK, RecordsInv, PositionInv, SucceededIn
<1>11. ASSUME NEW r \in Runs, ForegroundRecord(r) PROVE RecordsInv'
  BY <1>11 DEF ForegroundRecord, Goto, daemonVars, ghostVars, TypeOK, RecordsInv,
               PositionInv, SucceededIn
<1>12. ASSUME NEW r \in Runs, ForegroundManifest(r) PROVE RecordsInv'
  BY <1>12 DEF ForegroundManifest, Release, daemonVars, TypeOK, RecordsInv, PositionInv,
               SucceededIn
<1>13. ASSUME NEW r \in Runs, FlipToRunning(r) PROVE RecordsInv'
  BY <1>13 DEF FlipToRunning, Goto, Release, daemonVars, ghostVars, TypeOK, RecordsInv,
               PositionInv, SucceededIn
<1>14. ASSUME NEW r \in Runs, NEW h \in Hosts, ReadForResume(r, h) PROVE RecordsInv'
  BY <1>14 DEF ReadForResume, Goto, Active, diskVars, daemonVars, ghostVars, TypeOK,
               RecordsInv, PositionInv, SucceededIn, SucceededSeqs, Persisted
<1>15. ASSUME NEW r \in Runs, ForegroundCrash(r) PROVE RecordsInv'
  BY <1>15 DEF ForegroundCrash, Release, Active, diskVars, daemonVars, TypeOK,
               RecordsInv, PositionInv, SucceededIn
<1>16. CASE KillJob
  BY <1>16 DEF KillJob, RemoveFromRunning, Active, DaemonRun, runVars, TypeOK,
               RecordsInv, PositionInv, SucceededIn
<1>17. CASE WatchdogKill
  BY <1>17 DEF WatchdogKill, RemoveFromRunning, Active, DaemonRun, runVars, TypeOK,
               RecordsInv, PositionInv, SucceededIn
<1>18. CASE PauseJob
  BY <1>18 DEF PauseJob, diskVars, runVars, ghostVars, TypeOK, RecordsInv, PositionInv,
               SucceededIn
<1>19. CASE ResumeJob
  BY <1>19 DEF ResumeJob, diskVars, runVars, ghostVars, TypeOK, RecordsInv, PositionInv,
               SucceededIn
<1>20. CASE Cancel
  BY <1>20 DEF Cancel, daemonVars, runVars, ghostVars, TypeOK, RecordsInv, PositionInv,
               SucceededIn
<1>21. CASE DaemonCrash
  BY <1>21 DEF DaemonCrash, Active, DaemonRun, diskVars, TypeOK, RecordsInv, PositionInv,
               SucceededIn
<1>22. CASE DaemonStart
  BY <1>22 DEF DaemonStart, diskVars, runVars, ghostVars, TypeOK, RecordsInv,
               PositionInv, SucceededIn
<1>23. CASE UNCHANGED vars
  BY <1>23 DEF vars, diskVars, daemonVars, runVars, ghostVars, TypeOK, RecordsInv,
               PositionInv, SucceededIn
<1>24. QED
  BY <1>1, <1>1a, <1>2, <1>3, <1>4, <1>5, <1>6, <1>7, <1>8, <1>9, <1>10, <1>11, <1>12,
     <1>13, <1>14, <1>15, <1>16, <1>17, <1>18, <1>19, <1>20, <1>21, <1>22, <1>23
     DEF Next, RunStep

\* Every step keeps the runs behind steps that have succeeded.
LEMMA PositionKept == TypeOK /\ RecordsInv /\ PositionInv /\ [Next]_vars => PositionInv'
<1> SUFFICES ASSUME TypeOK, RecordsInv, PositionInv, [Next]_vars PROVE PositionInv'
  OBVIOUS
<1> USE Constants
<1>1. ASSUME NEW r \in Runs, Register(r) PROVE PositionInv'
  BY <1>1 DEF Register, Goto, diskVars, ghostVars, TypeOK, RecordsInv, PositionInv
<1>1a. ASSUME NEW r \in Runs, OpenJob(r) PROVE PositionInv'
  BY <1>1a DEF OpenJob, Goto, Release, diskVars, ghostVars, TypeOK, PositionInv
<1>2. ASSUME NEW r \in Runs, AbortKilled(r) PROVE PositionInv'
  BY <1>2 DEF AbortKilled, Goto, diskVars, daemonVars, ghostVars, TypeOK, RecordsInv,
              PositionInv
<1>3. ASSUME NEW r \in Runs, SkipStep(r) PROVE PositionInv'
  BY <1>3 DEF SkipStep, diskVars, daemonVars, ghostVars, TypeOK, RecordsInv, PositionInv,
              Skips
<1>4. ASSUME NEW r \in Runs, BeginStep(r) PROVE PositionInv'
  BY <1>4 DEF BeginStep, Goto, PersistStatus, daemonVars, ghostVars, TypeOK, RecordsInv,
              PositionInv, Skips
<1>5. ASSUME NEW r \in Runs, NEW success \in BOOLEAN, EndStep(r, success) PROVE PositionInv'
  BY <1>5 DEF EndStep, Goto, daemonVars, TypeOK, RecordsInv, PositionInv
<1>6. ASSUME NEW r \in Runs, PersistStep(r) PROVE PositionInv'
  <2>1. CASE ok[r]
    <3>1. seq[r] \in Steps /\ seq[r] \in ever_ok /\ 1 .. (seq[r] - 1) \subseteq ever_ok
      BY <1>6, <2>1 DEF PersistStep, PositionInv
    <3>2. 1 .. ((seq[r] + 1) - 1) \subseteq ever_ok
      BY <3>1
    <3>3. QED
      BY <1>6, <2>1, <3>2 DEF PersistStep, Bails, Goto, ghostVars, TypeOK, PositionInv
  <2>2. CASE ~ok[r]
    BY <1>6, <2>2 DEF PersistStep, Bails, Goto, ghostVars, TypeOK, PositionInv
  <2>3. QED
    BY <2>1, <2>2
<1>7. ASSUME NEW r \in Runs, Complete(r) PROVE PositionInv'
  BY <1>7 DEF Complete, Goto, diskVars, daemonVars, ghostVars, TypeOK, RecordsInv,
              PositionInv
<1>8. ASSUME NEW r \in Runs, DaemonManifest(r) PROVE PositionInv'
  BY <1>8 DEF DaemonManifest, Goto, daemonVars, ghostVars, TypeOK, RecordsInv, PositionInv
<1>9. ASSUME NEW r \in Runs, DaemonRecord(r) PROVE PositionInv'
  BY <1>9 DEF DaemonRecord, Goto, daemonVars, ghostVars, TypeOK, RecordsInv, PositionInv
<1>10. ASSUME NEW r \in Runs, DaemonMetadata(r) PROVE PositionInv'
  BY <1>10 DEF DaemonMetadata, Release, TypeOK, RecordsInv, PositionInv
<1>11. ASSUME NEW r \in Runs, ForegroundRecord(r) PROVE PositionInv'
  BY <1>11 DEF ForegroundRecord, Goto, daemonVars, ghostVars, TypeOK, RecordsInv,
               PositionInv
<1>12. ASSUME NEW r \in Runs, ForegroundManifest(r) PROVE PositionInv'
  BY <1>12 DEF ForegroundManifest, Release, daemonVars, TypeOK, RecordsInv, PositionInv
<1>13. ASSUME NEW r \in Runs, FlipToRunning(r) PROVE PositionInv'
  BY <1>13 DEF FlipToRunning, Goto, Release, daemonVars, ghostVars, TypeOK, RecordsInv,
               PositionInv
<1>14. ASSUME NEW r \in Runs, NEW h \in Hosts, ReadForResume(r, h) PROVE PositionInv'
  BY <1>14 DEF ReadForResume, Goto, Active, diskVars, daemonVars, ghostVars, TypeOK,
               RecordsInv, PositionInv
<1>15. ASSUME NEW r \in Runs, ForegroundCrash(r) PROVE PositionInv'
  BY <1>15 DEF ForegroundCrash, Release, Active, diskVars, daemonVars, TypeOK,
               RecordsInv, PositionInv
<1>16. CASE KillJob
  BY <1>16 DEF KillJob, RemoveFromRunning, Active, DaemonRun, runVars, TypeOK,
               RecordsInv, PositionInv
<1>17. CASE WatchdogKill
  BY <1>17 DEF WatchdogKill, RemoveFromRunning, Active, DaemonRun, runVars, TypeOK,
               RecordsInv, PositionInv
<1>18. CASE PauseJob
  BY <1>18 DEF PauseJob, diskVars, runVars, ghostVars, TypeOK, RecordsInv, PositionInv
<1>19. CASE ResumeJob
  BY <1>19 DEF ResumeJob, diskVars, runVars, ghostVars, TypeOK, RecordsInv, PositionInv
<1>20. CASE Cancel
  BY <1>20 DEF Cancel, daemonVars, runVars, ghostVars, TypeOK, RecordsInv, PositionInv
<1>21. CASE DaemonCrash
  BY <1>21 DEF DaemonCrash, Active, DaemonRun, diskVars, TypeOK, RecordsInv, PositionInv
<1>22. CASE DaemonStart
  BY <1>22 DEF DaemonStart, diskVars, runVars, ghostVars, TypeOK, RecordsInv, PositionInv
<1>23. CASE UNCHANGED vars
  BY <1>23 DEF vars, diskVars, daemonVars, runVars, ghostVars, TypeOK, RecordsInv,
               PositionInv
<1>24. QED
  BY <1>1, <1>1a, <1>2, <1>3, <1>4, <1>5, <1>6, <1>7, <1>8, <1>9, <1>10, <1>11, <1>12,
     <1>13, <1>14, <1>15, <1>16, <1>17, <1>18, <1>19, <1>20, <1>21, <1>22, <1>23
     DEF Next, RunStep

\* Every step keeps successes whole: a run is a success only past the last step.
LEMMA WholeKept == TypeOK /\ PositionInv /\ WholeInv /\ [Next]_vars => WholeInv'
<1> SUFFICES ASSUME TypeOK, PositionInv, WholeInv, [Next]_vars PROVE WholeInv'
  OBVIOUS
<1>1. ASSUME NEW r \in Runs, Register(r) PROVE WholeInv'
  BY <1>1 DEF Register, Goto, diskVars, ghostVars, TypeOK, WholeInv, SuccessIsWhole
<1>1a. ASSUME NEW r \in Runs, OpenJob(r) PROVE WholeInv'
  BY <1>1a DEF OpenJob, Goto, diskVars, ghostVars, Release, TypeOK, WholeInv, SuccessIsWhole
<1>2. ASSUME NEW r \in Runs, AbortKilled(r) PROVE WholeInv'
  BY <1>2 DEF AbortKilled, Goto, AbortOutcome, diskVars, ghostVars, TypeOK, WholeInv, SuccessIsWhole
<1>3. ASSUME NEW r \in Runs, SkipStep(r) PROVE WholeInv'
  BY <1>3 DEF SkipStep, Goto, diskVars, ghostVars, TypeOK, WholeInv, SuccessIsWhole
<1>4. ASSUME NEW r \in Runs, BeginStep(r) PROVE WholeInv'
  BY <1>4 DEF BeginStep, Goto, ghostVars, TypeOK, WholeInv, SuccessIsWhole
<1>5. ASSUME NEW r \in Runs, NEW success \in BOOLEAN, EndStep(r, success) PROVE WholeInv'
  <2>1. ever_ok \subseteq ever_ok' /\ ever_ok' \subseteq Steps
    BY <1>5 DEF EndStep, PositionInv, TypeOK
  <2>2. manifest' = "COMPLETED" => manifest = "COMPLETED" \/ (success /\ seq[r] = LastStep)
    BY <1>5, StepsAssumption DEF EndStep, ManifestAfterStep, ManifestAfterPreflight,
                                 ManifestAfterSummary
  <2>3. ASSUME success, seq[r] = LastStep PROVE Steps \subseteq ever_ok'
    <3>1. 1 .. (LastStep - 1) \subseteq ever_ok
      BY <1>5, <2>3 DEF EndStep, PositionInv
    <3>2. ever_ok' = ever_ok \cup {LastStep}
      BY <1>5, <2>3 DEF EndStep
    <3>3. QED
      BY <3>1, <3>2, StepsAssumption DEF Steps
  <2>4. SuccessIsWhole'
    BY <1>5, <2>1, <2>2, <2>3 DEF EndStep, WholeInv, SuccessIsWhole
  <2>5. QED
    BY <1>5, <2>1, <2>4 DEF EndStep, Goto, TypeOK, WholeInv
<1>6. ASSUME NEW r \in Runs, PersistStep(r) PROVE WholeInv'
  BY <1>6 DEF PersistStep, Goto, Bails, ghostVars, TypeOK, WholeInv, SuccessIsWhole
<1>7. ASSUME NEW r \in Runs, Complete(r) PROVE WholeInv'
  <2>1. seq[r] = LastStep + 1
    BY <1>7, StepsAssumption DEF Complete, TypeOK, Steps
  <2>2. 1 .. (seq[r] - 1) \subseteq ever_ok
    BY <1>7 DEF Complete, PositionInv
  <2>3. 1 .. LastStep \subseteq ever_ok
    BY <2>1, <2>2, StepsAssumption
  <2>4. Steps = ever_ok
    BY <2>3 DEF Steps, TypeOK
  <2>5. QED
    BY <1>7, <2>4 DEF Complete, Goto, diskVars, ghostVars, TypeOK, WholeInv, SuccessIsWhole
<1>8. ASSUME NEW r \in Runs, DaemonManifest(r) PROVE WholeInv'
  BY <1>8 DEF DaemonManifest, Goto, ghostVars, TypeOK, WholeInv, SuccessIsWhole
<1>9. ASSUME NEW r \in Runs, DaemonRecord(r) PROVE WholeInv'
  BY <1>9 DEF DaemonRecord, Goto, FinalState, ghostVars, TypeOK, WholeInv, SuccessIsWhole
<1>10. ASSUME NEW r \in Runs, DaemonMetadata(r) PROVE WholeInv'
  BY <1>10 DEF DaemonMetadata, Goto, Release, TypeOK, WholeInv, SuccessIsWhole
<1>11. ASSUME NEW r \in Runs, ForegroundRecord(r) PROVE WholeInv'
  BY <1>11 DEF ForegroundRecord, Goto, FinalState, ghostVars, TypeOK, WholeInv, SuccessIsWhole
<1>12. ASSUME NEW r \in Runs, ForegroundManifest(r) PROVE WholeInv'
  BY <1>12 DEF ForegroundManifest, Goto, Release, TypeOK, WholeInv, SuccessIsWhole
<1>13. ASSUME NEW r \in Runs, FlipToRunning(r) PROVE WholeInv'
  BY <1>13 DEF FlipToRunning, Goto, Release, ghostVars, TypeOK, WholeInv, SuccessIsWhole
<1>14. ASSUME NEW r \in Runs, NEW h \in Hosts, ReadForResume(r, h) PROVE WholeInv'
  BY <1>14 DEF ReadForResume, Goto, diskVars, ghostVars, TypeOK, WholeInv, SuccessIsWhole
<1>15. ASSUME NEW r \in Runs, ForegroundCrash(r) PROVE WholeInv'
  BY <1>15 DEF ForegroundCrash, Release, diskVars, TypeOK, WholeInv, SuccessIsWhole
<1>16. CASE KillJob \/ WatchdogKill
  BY <1>16 DEF KillJob, WatchdogKill, RemoveFromRunning, runVars, WholeInv, SuccessIsWhole
<1>17. CASE PauseJob \/ ResumeJob \/ DaemonStart
  BY <1>17 DEF PauseJob, ResumeJob, DaemonStart, diskVars, runVars, ghostVars, WholeInv,
               SuccessIsWhole
<1>18. CASE Cancel
  BY <1>18 DEF Cancel, runVars, ghostVars, WholeInv, SuccessIsWhole
<1>19. CASE DaemonCrash
  BY <1>19 DEF DaemonCrash, diskVars, TypeOK, WholeInv, SuccessIsWhole
<1>20. CASE UNCHANGED vars
  BY <1>20 DEF vars, diskVars, runVars, ghostVars, WholeInv, SuccessIsWhole
<1>21. QED
  BY <1>1, <1>1a, <1>2, <1>3, <1>4, <1>5, <1>6, <1>7, <1>8, <1>9, <1>10, <1>11, <1>12,
     <1>13, <1>14, <1>15, <1>16, <1>17, <1>18, <1>19, <1>20 DEF Next, RunStep

\* Every step keeps a daemon run behind the entry in running_jobs.
LEMMA EntryKept == TypeOK /\ HostInv /\ EntryHasRun /\ [Next]_vars => HostInv' /\ EntryHasRun'
<1> SUFFICES ASSUME TypeOK, HostInv, EntryHasRun, [Next]_vars PROVE HostInv' /\ EntryHasRun'
  OBVIOUS
<1> USE Constants
<1>1. ASSUME NEW r \in Runs, Register(r) PROVE HostInv' /\ EntryHasRun'
  BY <1>1 DEF Register, Goto, Active, DaemonRun, Registered, diskVars, ghostVars, TypeOK, HostInv,
              EntryHasRun
<1>1a. ASSUME NEW r \in Runs, OpenJob(r) PROVE HostInv' /\ EntryHasRun'
  BY <1>1a DEF OpenJob, Goto, Release, Active, DaemonRun, Registered, diskVars, daemonVars, ghostVars,
               TypeOK, HostInv, EntryHasRun
<1>2. ASSUME NEW r \in Runs, AbortKilled(r) PROVE HostInv' /\ EntryHasRun'
  BY <1>2 DEF AbortKilled, Goto, Active, DaemonRun, Registered, diskVars, daemonVars, ghostVars,
              TypeOK, HostInv, EntryHasRun
<1>3. ASSUME NEW r \in Runs, SkipStep(r) PROVE HostInv' /\ EntryHasRun'
  BY <1>3 DEF SkipStep, Active, DaemonRun, Registered, diskVars, daemonVars, ghostVars, TypeOK,
              HostInv, EntryHasRun
<1>4. ASSUME NEW r \in Runs, BeginStep(r) PROVE HostInv' /\ EntryHasRun'
  BY <1>4 DEF BeginStep, Goto, PersistStatus, Active, DaemonRun, Registered, daemonVars, ghostVars,
              TypeOK, HostInv, EntryHasRun
<1>5. ASSUME NEW r \in Runs, NEW success \in BOOLEAN, EndStep(r, success) PROVE HostInv' /\ EntryHasRun'
  BY <1>5 DEF EndStep, Goto, Active, DaemonRun, Registered, daemonVars, TypeOK, HostInv, EntryHasRun
<1>6. ASSUME NEW r \in Runs, PersistStep(r) PROVE HostInv' /\ EntryHasRun'
  BY <1>6 DEF PersistStep, Goto, PersistStatus, Active, DaemonRun, Registered, daemonVars, ghostVars,
              TypeOK, HostInv, EntryHasRun, Bails
<1>7. ASSUME NEW r \in Runs, Complete(r) PROVE HostInv' /\ EntryHasRun'
  BY <1>7 DEF Complete, Goto, Active, DaemonRun, Registered, diskVars, daemonVars, ghostVars, TypeOK,
              HostInv, EntryHasRun
<1>8. ASSUME NEW r \in Runs, DaemonManifest(r) PROVE HostInv' /\ EntryHasRun'
  BY <1>8 DEF DaemonManifest, Goto, Active, DaemonRun, Registered, daemonVars, ghostVars, TypeOK,
              HostInv, EntryHasRun
<1>9. ASSUME NEW r \in Runs, DaemonRecord(r) PROVE HostInv' /\ EntryHasRun'
  BY <1>9 DEF DaemonRecord, Goto, Active, DaemonRun, Registered, daemonVars, ghostVars, TypeOK,
              HostInv, EntryHasRun
<1>10. ASSUME NEW r \in Runs, DaemonMetadata(r) PROVE HostInv' /\ EntryHasRun'
  BY <1>10 DEF DaemonMetadata, Release, Active, DaemonRun, Registered, TypeOK, HostInv, EntryHasRun,
               EntryAfter
<1>11. ASSUME NEW r \in Runs, ForegroundRecord(r) PROVE HostInv' /\ EntryHasRun'
  BY <1>11 DEF ForegroundRecord, Goto, Active, DaemonRun, Registered, daemonVars, ghostVars, TypeOK,
               HostInv, EntryHasRun
<1>12. ASSUME NEW r \in Runs, ForegroundManifest(r) PROVE HostInv' /\ EntryHasRun'
  BY <1>12 DEF ForegroundManifest, Release, Active, DaemonRun, Registered, daemonVars, TypeOK,
               HostInv, EntryHasRun
<1>13. ASSUME NEW r \in Runs, FlipToRunning(r) PROVE HostInv' /\ EntryHasRun'
  BY <1>13 DEF FlipToRunning, Goto, Release, Active, DaemonRun, Registered, daemonVars, ghostVars,
               TypeOK, HostInv, EntryHasRun
<1>14. ASSUME NEW r \in Runs, NEW h \in Hosts, ReadForResume(r, h) PROVE HostInv' /\ EntryHasRun'
  BY <1>14 DEF ReadForResume, Goto, Active, DaemonRun, Registered, diskVars, daemonVars, ghostVars,
               TypeOK, HostInv, EntryHasRun
<1>15. ASSUME NEW r \in Runs, ForegroundCrash(r) PROVE HostInv' /\ EntryHasRun'
  BY <1>15 DEF ForegroundCrash, Release, Active, DaemonRun, Registered, diskVars, daemonVars, TypeOK,
               HostInv, EntryHasRun
<1>16. CASE KillJob
  BY <1>16 DEF KillJob, RemoveFromRunning, Active, DaemonRun, Registered, runVars, TypeOK, HostInv,
               EntryHasRun
<1>17. CASE WatchdogKill
  BY <1>17 DEF WatchdogKill, RemoveFromRunning, Active, DaemonRun, Registered, runVars, TypeOK,
               HostInv, EntryHasRun
<1>18. CASE PauseJob
  BY <1>18 DEF PauseJob, Active, DaemonRun, Registered, diskVars, runVars, ghostVars, TypeOK,
               HostInv, EntryHasRun
<1>19. CASE ResumeJob
  BY <1>19 DEF ResumeJob, Active, DaemonRun, Registered, diskVars, runVars, ghostVars, TypeOK,
               HostInv, EntryHasRun
<1>20. CASE Cancel
  BY <1>20 DEF Cancel, Active, DaemonRun, Registered, daemonVars, runVars, ghostVars, TypeOK,
               HostInv, EntryHasRun
<1>21. CASE DaemonCrash
  BY <1>21 DEF DaemonCrash, Active, DaemonRun, Registered, diskVars, TypeOK, HostInv, EntryHasRun
<1>22. CASE DaemonStart
  BY <1>22 DEF DaemonStart, Active, DaemonRun, Registered, diskVars, runVars, ghostVars, TypeOK,
               HostInv, EntryHasRun
<1>23. CASE UNCHANGED vars
  BY <1>23 DEF Active, DaemonRun, Registered, vars, diskVars, daemonVars, runVars, ghostVars, TypeOK,
               HostInv, EntryHasRun
<1>24. QED
  BY <1>1, <1>1a, <1>2, <1>3, <1>4, <1>5, <1>6, <1>7, <1>8, <1>9, <1>10, <1>11, <1>12,
     <1>13, <1>14, <1>15, <1>16, <1>17, <1>18, <1>19, <1>20, <1>21, <1>22, <1>23
     DEF Next, RunStep

\* The job starts in JInv.
LEMMA JInit == Init => JInv
<1> USE Constants
<1>1. SUFFICES ASSUME Init PROVE JInv
  OBVIOUS
<1>2. PICK first \in Runs, h \in Hosts :
        /\ host = [r \in Runs |-> IF r = first THEN h ELSE AnyHost]
        /\ pc = [r \in Runs |-> IF r # first THEN "free"
                                ELSE IF h = "daemon" THEN "register" ELSE "loop"]
  BY <1>1 DEF Init
<1>3. TypeOK
  <2>1. DiskTypes /\ DaemonTypes /\ GhostTypes
    BY <1>1 DEF Init, DiskTypes, DaemonTypes, GhostTypes, JobStates, MetaStates
  <2>2. RunTypes
    BY <1>1, <1>2 DEF Init, RunTypes, PCs
  <2>3. QED
    BY <2>1, <2>2, TypesSplit
<1>4. RecordsInv
  BY <1>1 DEF Init, RecordsInv
<1>5. PositionInv
  BY <1>1, <1>2 DEF Init, PositionInv
<1>6. HostInv /\ EntryHasRun /\ WholeInv
  BY <1>1, <1>2 DEF Init, HostInv, EntryHasRun, WholeInv, SuccessIsWhole
<1>7. QED
  BY <1>3, <1>4, <1>5, <1>6 DEF JInv

\* JInv holds throughout every execution: however runs overlap and whatever is
\* killed, lost or interrupted, no record of the job and no run of
\* run_pipeline_with_resume takes a step for succeeded that has not returned
\* Success.
THEOREM JobInvariant == Spec => []JInv
<1>1. JInv /\ [Next]_vars => JInv'
  BY TypesKept, RecordsKept, PositionKept, WholeKept, EntryKept DEF JInv
<1>2. QED
  BY JInit, <1>1, PTL DEF Spec

\* The variables keep their types: a resume point is always a step, and the
\* position of a run is at most one past the last.
THEOREM JobTypes == Spec => []TypeOK
<1>1. JInv => TypeOK
  BY DEF JInv
<1>2. QED
  BY JobInvariant, <1>1, PTL

\* No step runs before every earlier step has returned Success, in this run or
\* in an earlier one (run_pipeline_with_resume, ResumeMode::Resume).
THEOREM StepsInOrder == Spec => []EarlierStepsDone
<1>1. JInv => EarlierStepsDone
  BY DEF JInv, PositionInv, EarlierStepsDone
<1>2. QED
  BY JobInvariant, <1>1, PTL

\* A job is called successful, by its manifest, job.json or metadata, only when every
\* step has returned Success, however many runs share in it (run_summary, the
\* finalizers of the daemon and of a foreground process).
THEOREM SuccessesAreWhole == Spec => []SuccessIsWhole
<1>1. JInv => SuccessIsWhole
  BY DEF JInv, WholeInv
<1>2. QED
  BY JobInvariant, <1>1, PTL

-----------------------------------------------------------------------------
(* The records of a job whose runs do not overlap. *)

OneRun == \A r, s \in Runs : r = s

\* What a run that is about to write down a success leaves for the others to see:
\* a manifest that is COMPLETED, a job.json that is still open until the run's own
\* record, and a job.json that no run touches once it says Succeeded.
SerialInv ==
  /\ OneRun
  /\ \A r \in Runs :
       /\ pc[r] = "loop" /\ seq[r] = LastStep + 1 => manifest = "COMPLETED"
       /\ pc[r] = "persist" /\ seq[r] = LastStep /\ ok[r] => manifest = "COMPLETED"
       /\ pc[r] \in {"ended", "record", "metadata", "manifest"} /\ ok[r] =>
            manifest = "COMPLETED"
       /\ pc[r] = "metadata" /\ ok[r] => job_state = "Succeeded"
       /\ job_state = "Succeeded" =>
            (pc[r] = "free" \/ (pc[r] \in {"metadata", "manifest"} /\ ok[r]))
  /\ RecordsAgree

\* The job starts with records that agree.
LEMMA SerialInit == Init /\ OneRun => SerialInv
<1> SUFFICES ASSUME Init, OneRun PROVE SerialInv
  OBVIOUS
<1>1. PICK first \in Runs, h \in Hosts :
        pc = [r \in Runs |-> IF r # first THEN "free"
                             ELSE IF h = "daemon" THEN "register" ELSE "loop"]
  BY DEF Init
<1>2. QED
  BY <1>1, StepsAssumption DEF Init, SerialInv, RecordsAgree

\* Every step keeps them in agreement, given the types and where a run stands.
LEMMA SerialKept ==
  TypeOK /\ PositionInv /\ SerialInv /\ [Next]_vars => SerialInv'
<1> SUFFICES ASSUME TypeOK, PositionInv, SerialInv, [Next]_vars PROVE SerialInv'
  OBVIOUS
<1> USE Constants, StepsAssumption
<1>0. OneRun /\ OneRun'
  BY DEF SerialInv, OneRun
<1>1. ASSUME NEW r \in Runs, Register(r) PROVE SerialInv'
  BY <1>0, <1>1 DEF Register, Goto, diskVars, ghostVars, OneRun,
     TypeOK, PositionInv, SerialInv, RecordsAgree
<1>1a. ASSUME NEW r \in Runs, OpenJob(r) PROVE SerialInv'
  BY <1>0, <1>1a DEF OpenJob, Goto, Release, diskVars, daemonVars, ghostVars, OneRun,
     TypeOK, PositionInv, SerialInv, RecordsAgree
<1>2. ASSUME NEW r \in Runs, AbortKilled(r) PROVE SerialInv'
  BY <1>0, <1>2 DEF AbortKilled, AbortOutcome, Goto, diskVars, daemonVars, ghostVars, OneRun,
     TypeOK, PositionInv, SerialInv, RecordsAgree
<1>3. ASSUME NEW r \in Runs, SkipStep(r) PROVE SerialInv'
  BY <1>0, <1>3 DEF SkipStep, Skips, Steps, diskVars, daemonVars, ghostVars, OneRun,
     TypeOK, PositionInv, SerialInv, RecordsAgree
<1>4. ASSUME NEW r \in Runs, BeginStep(r) PROVE SerialInv'
  BY <1>0, <1>4 DEF BeginStep, Goto, Steps, daemonVars, ghostVars, OneRun,
     TypeOK, PositionInv, SerialInv, RecordsAgree
<1>5. ASSUME NEW r \in Runs, NEW success \in BOOLEAN, EndStep(r, success) PROVE SerialInv'
  BY <1>0, <1>5 DEF EndStep, Goto, Steps, ManifestAfterStep, ManifestAfterPreflight,
     ManifestAfterSummary, daemonVars, OneRun,
     TypeOK, PositionInv, SerialInv, RecordsAgree
<1>6. ASSUME NEW r \in Runs, PersistStep(r) PROVE SerialInv'
  BY <1>0, <1>6 DEF PersistStep, Goto, Bails, Steps, daemonVars, ghostVars, OneRun,
     TypeOK, PositionInv, SerialInv, RecordsAgree
<1>7. ASSUME NEW r \in Runs, Complete(r) PROVE SerialInv'
  BY <1>0, <1>7 DEF Complete, Goto, Steps, diskVars, daemonVars, ghostVars, OneRun,
     TypeOK, PositionInv, SerialInv, RecordsAgree
<1>8. ASSUME NEW r \in Runs, DaemonManifest(r) PROVE SerialInv'
  BY <1>0, <1>8 DEF DaemonManifest, Goto, daemonVars, ghostVars, OneRun,
     TypeOK, PositionInv, SerialInv, RecordsAgree
<1>9. ASSUME NEW r \in Runs, DaemonRecord(r) PROVE SerialInv'
  BY <1>0, <1>9 DEF DaemonRecord, Goto, FinalState, daemonVars, ghostVars, OneRun,
     TypeOK, PositionInv, SerialInv, RecordsAgree
<1>10. ASSUME NEW r \in Runs, DaemonMetadata(r) PROVE SerialInv'
  BY <1>0, <1>10 DEF DaemonMetadata, Release, StillRegistered, OneRun,
     TypeOK, PositionInv, SerialInv, RecordsAgree
<1>11. ASSUME NEW r \in Runs, ForegroundRecord(r) PROVE SerialInv'
  BY <1>0, <1>11 DEF ForegroundRecord, Goto, FinalState, daemonVars, ghostVars, OneRun,
     TypeOK, PositionInv, SerialInv, RecordsAgree
<1>12. ASSUME NEW r \in Runs, ForegroundManifest(r) PROVE SerialInv'
  BY <1>0, <1>12 DEF ForegroundManifest, Release, daemonVars, OneRun,
     TypeOK, PositionInv, SerialInv, RecordsAgree
<1>13. ASSUME NEW r \in Runs, FlipToRunning(r) PROVE SerialInv'
  BY <1>0, <1>13 DEF FlipToRunning, Goto, Release, daemonVars, ghostVars, OneRun,
     TypeOK, PositionInv, SerialInv, RecordsAgree
<1>14. ASSUME NEW r \in Runs, NEW h \in Hosts, ReadForResume(r, h) PROVE SerialInv'
  BY <1>0, <1>14 DEF ReadForResume, Active, Goto, diskVars, daemonVars, ghostVars, OneRun,
     TypeOK, PositionInv, SerialInv, RecordsAgree
<1>15. ASSUME NEW r \in Runs, ForegroundCrash(r) PROVE SerialInv'
  BY <1>0, <1>15 DEF ForegroundCrash, Release, Active, diskVars, daemonVars, OneRun,
     TypeOK, PositionInv, SerialInv, RecordsAgree
<1>16. CASE KillJob
  BY <1>0, <1>16 DEF KillJob, RemoveFromRunning, runVars, TypeOK, SerialInv, RecordsAgree
<1>17. CASE WatchdogKill
  BY <1>0, <1>17 DEF WatchdogKill, RemoveFromRunning, runVars, TypeOK, SerialInv, RecordsAgree
<1>18. CASE PauseJob
  BY <1>0, <1>18 DEF PauseJob, diskVars, runVars, ghostVars, TypeOK, SerialInv, RecordsAgree
<1>19. CASE ResumeJob
  BY <1>0, <1>19 DEF ResumeJob, diskVars, runVars, ghostVars, TypeOK, SerialInv, RecordsAgree
<1>20. CASE Cancel
  BY <1>0, <1>20 DEF Cancel, daemonVars, runVars, ghostVars, TypeOK, SerialInv, RecordsAgree
<1>21. CASE DaemonCrash
  BY <1>0, <1>21 DEF DaemonCrash, Active, DaemonRun, diskVars, TypeOK, SerialInv, RecordsAgree
<1>22. CASE DaemonStart
  BY <1>0, <1>22 DEF DaemonStart, diskVars, runVars, ghostVars, TypeOK, SerialInv, RecordsAgree
<1>23. CASE UNCHANGED vars
  BY <1>0, <1>23 DEF vars, diskVars, daemonVars, runVars, ghostVars, TypeOK, SerialInv, RecordsAgree
<1>24. QED
  BY <1>1, <1>1a, <1>2, <1>3, <1>4, <1>5, <1>6, <1>7, <1>8, <1>9, <1>10, <1>11, <1>12,
     <1>13, <1>14, <1>15, <1>16, <1>17, <1>18, <1>19, <1>20, <1>21, <1>22, <1>23
     DEF Next, RunStep

\* While runs do not overlap, job.json says Succeeded only of a job whose manifest is
\* COMPLETED, the metadata say Success only of a job that job.json calls Succeeded,
\* and the history shows what the metadata hold, whatever is killed, cancelled,
\* interrupted or resumed.
THEOREM SerialRecordsAgree == Spec /\ OneRun => []RecordsAgree
<1>1. JInv /\ SerialInv /\ [Next]_vars => SerialInv'
  BY SerialKept DEF JInv
<1>2. SerialInv => RecordsAgree
  BY DEF SerialInv
<1>3. QED
  BY SerialInit, JobInvariant, <1>1, <1>2, PTL DEF Spec

-----------------------------------------------------------------------------
(* Every run comes to an end. *)

LabelRank(label) ==
  CASE label = "flip"     -> 10
    [] label = "register" -> 9
    [] label = "open"     -> 8
    [] label = "loop"     -> 7
    [] label = "step"     -> 6
    [] label = "persist"  -> 5
    [] label = "ended"    -> 4
    [] label = "record"   -> 3
    [] label \in {"manifest", "metadata"} -> 2
    [] OTHER -> 1

\* Steps to come, and labels to come before the next one.
StepsLeft(r)  == IF pc[r] = "free" THEN 0 ELSE LastStep + 2 - seq[r]
LabelsLeft(r) == LabelRank(pc[r])

\* The lexicographic order of the two, which is well-founded on Nat.
Nearer(r) ==
  \/ StepsLeft(r)' < StepsLeft(r)
  \/ StepsLeft(r)' = StepsLeft(r) /\ LabelsLeft(r)' < LabelsLeft(r)

\* Each step of a run brings it nearer to its end, and nothing that other runs or
\* users of the job do takes it back.
RunsApproachEnd ==
  [][\A r \in Runs :
       /\ RunStep(r) => Nearer(r)
       /\ Active(r) => UNCHANGED <<pc[r], seq[r]>> \/ Nearer(r)]_vars

\* Both are natural numbers, and the first is zero only for a run that is over.
LeftInv ==
  \A r \in Runs : /\ StepsLeft(r) \in Nat /\ LabelsLeft(r) \in Nat
                  /\ Active(r) => StepsLeft(r) > 0

LEMMA LeftCounted == TypeOK => LeftInv
<1> SUFFICES ASSUME TypeOK, NEW r \in Runs
             PROVE  /\ StepsLeft(r) \in Nat /\ LabelsLeft(r) \in Nat
                    /\ Active(r) => StepsLeft(r) > 0
  BY DEF LeftInv
<1>1. seq[r] \in 1 .. (LastStep + 1)
  BY DEF TypeOK
<1>2. /\ StepsLeft(r) \in Nat /\ (Active(r) => StepsLeft(r) > 0)
  BY <1>1, StepsAssumption DEF StepsLeft, Active
<1>3. LabelsLeft(r) \in Nat
  BY DEF LabelsLeft, LabelRank
<1>4. QED
  BY <1>2, <1>3

\* The three ways to come nearer.
LEMMA NearerByEnd ==
  ASSUME TypeOK, NEW r \in Runs, Active(r), pc'[r] = "free"
  PROVE  Nearer(r)
<1>1. StepsLeft(r) > 0
  BY LeftCounted DEF LeftInv
<1>2. StepsLeft(r)' = 0
  BY DEF StepsLeft
<1>3. QED
  BY <1>1, <1>2 DEF Nearer

LEMMA NearerByStep ==
  ASSUME TypeOK, NEW r \in Runs, Active(r), pc'[r] # "free", seq'[r] = seq[r] + 1
  PROVE  Nearer(r)
<1>1. seq[r] \in Nat
  BY StepsAssumption DEF TypeOK
<1>2. LastStep + 2 - (seq[r] + 1) < LastStep + 2 - seq[r]
  BY <1>1, StepsAssumption
<1>3. StepsLeft(r) = LastStep + 2 - seq[r]
  BY DEF StepsLeft, Active
<1>4. StepsLeft(r)' = LastStep + 2 - (seq[r] + 1)
  BY DEF StepsLeft
<1>5. QED
  BY <1>2, <1>3, <1>4 DEF Nearer

LEMMA NearerByLabel ==
  ASSUME NEW r \in Runs, Active(r), pc'[r] # "free", seq'[r] = seq[r],
         LabelRank(pc'[r]) < LabelRank(pc[r])
  PROVE  Nearer(r)
<1>1. StepsLeft(r)' = StepsLeft(r)
  BY DEF StepsLeft, Active
<1>2. LabelsLeft(r)' < LabelsLeft(r)
  BY DEF LabelsLeft
<1>3. QED
  BY <1>1, <1>2 DEF Nearer

LEMMA Ranks ==
  /\ LabelRank("flip") = 10 /\ LabelRank("register") = 9 /\ LabelRank("open") = 8
  /\ LabelRank("loop") = 7
  /\ LabelRank("step") = 6 /\ LabelRank("persist") = 5 /\ LabelRank("ended") = 4
  /\ LabelRank("record") = 3 /\ LabelRank("manifest") = 2 /\ LabelRank("metadata") = 2
BY DEF LabelRank

\* One run comes nearer, and the others stay where they are.
OnlyNearer(r) ==
  Nearer(r) /\ \A s \in Runs \ {r} : pc'[s] = pc[s] /\ seq'[s] = seq[s]

\* The same three ways, as the actions take them.
LEMMA GoesOn ==
  ASSUME TypeOK, NEW r \in Runs, Active(r), NEW label \in PCs \ {"free"}, Goto(r, label),
         seq' = seq, LabelRank(label) < LabelRank(pc[r])
  PROVE  OnlyNearer(r)
<1>1. pc'[r] = label /\ seq'[r] = seq[r]
  BY DEF Goto, TypeOK
<1>2. Nearer(r)
  BY <1>1, NearerByLabel
<1>3. QED
  BY <1>2 DEF Goto, TypeOK, OnlyNearer

LEMMA Ends ==
  ASSUME TypeOK, NEW r \in Runs, Active(r), Release(r)
  PROVE  OnlyNearer(r)
<1>1. pc'[r] = "free" /\ \A s \in Runs \ {r} : pc'[s] = pc[s] /\ seq'[s] = seq[s]
  BY DEF Release, TypeOK
<1>2. QED
  BY <1>1, NearerByEnd DEF OnlyNearer

LEMMA StepsOn ==
  ASSUME TypeOK, NEW r \in Runs, Active(r), pc' = pc \/ Goto(r, "loop"),
         seq' = [seq EXCEPT ![r] = @ + 1]
  PROVE  OnlyNearer(r)
<1>1. pc'[r] # "free" /\ seq'[r] = seq[r] + 1
  BY DEF Goto, Active, TypeOK
<1>2. Nearer(r)
  BY <1>1, NearerByStep
<1>3. QED
  BY <1>2 DEF Goto, TypeOK, OnlyNearer

\* A step of one run.
LEMMA RunStepNearer ==
  ASSUME TypeOK, NEW r \in Runs, RunStep(r)
  PROVE  OnlyNearer(r)
<1>a. ASSUME NEW label \in PCs \ {"free"}, pc[r] = label PROVE Active(r)
  BY <1>a DEF Active
<1> USE Ranks DEF PCs
<1>1. CASE Register(r)
  BY <1>1, <1>a, GoesOn DEF Register
<1>1a. CASE OpenJob(r)
  BY <1>1a, <1>a, GoesOn, Ends DEF OpenJob
<1>2. CASE AbortKilled(r)
  BY <1>2, <1>a, GoesOn DEF AbortKilled
<1>3. CASE SkipStep(r)
  BY <1>3, <1>a, StepsOn DEF SkipStep
<1>4. CASE BeginStep(r)
  BY <1>4, <1>a, GoesOn DEF BeginStep
<1>5. ASSUME NEW success \in BOOLEAN, EndStep(r, success) PROVE OnlyNearer(r)
  BY <1>5, <1>a, GoesOn DEF EndStep
<1>6. CASE PersistStep(r)
  BY <1>6, <1>a, GoesOn, StepsOn DEF PersistStep
<1>7. CASE Complete(r)
  BY <1>7, <1>a, GoesOn DEF Complete
<1>8. CASE DaemonManifest(r)
  BY <1>8, <1>a, GoesOn DEF DaemonManifest
<1>9. CASE DaemonRecord(r)
  BY <1>9, <1>a, GoesOn DEF DaemonRecord
<1>10. CASE DaemonMetadata(r)
  BY <1>10, <1>a, Ends DEF DaemonMetadata
<1>11. CASE ForegroundRecord(r)
  BY <1>11, <1>a, GoesOn DEF ForegroundRecord
<1>12. CASE ForegroundManifest(r)
  BY <1>12, <1>a, Ends DEF ForegroundManifest
<1>13. CASE FlipToRunning(r)
  BY <1>13, <1>a, GoesOn, Ends DEF FlipToRunning
<1>14. QED
  BY <1>1, <1>1a, <1>2, <1>3, <1>4, <1>5, <1>6, <1>7, <1>8, <1>9, <1>10, <1>11, <1>12, <1>13
     DEF RunStep

\* Whatever is killed, cancelled, paused, resumed or interrupted meanwhile, a run of
\* run_pipeline_with_resume and its finalizer move through finitely many steps to
\* their end and never back; a resume is a run of its own.
THEOREM RunsEnd == Spec => []LeftInv /\ RunsApproachEnd
<1> DEFINE Approach == \A r \in Runs :
             /\ RunStep(r) => Nearer(r)
             /\ Active(r) => UNCHANGED <<pc[r], seq[r]>> \/ Nearer(r)
<1>1. TypeOK /\ Next => Approach
  <2> SUFFICES ASSUME TypeOK, Next, NEW r \in Runs
               PROVE  /\ RunStep(r) => Nearer(r)
                      /\ Active(r) => UNCHANGED <<pc[r], seq[r]>> \/ Nearer(r)
    OBVIOUS
  <2>1. RunStep(r) => Nearer(r)
    BY RunStepNearer DEF OnlyNearer
  <2>2. ASSUME Active(r) PROVE (pc'[r] = pc[r] /\ seq'[r] = seq[r]) \/ Nearer(r)
    <3>1. ASSUME NEW s \in Runs, RunStep(s) PROVE (pc'[r] = pc[r] /\ seq'[r] = seq[r]) \/ Nearer(r)
      <4>1. CASE r = s
        BY <3>1, <4>1, RunStepNearer DEF OnlyNearer
      <4>2. CASE r # s
        BY <3>1, <4>2, RunStepNearer DEF OnlyNearer
      <4>3. QED
        BY <4>1, <4>2
    <3>2. ASSUME NEW s \in Runs, NEW h \in Hosts, ReadForResume(s, h)
          PROVE  pc'[r] = pc[r] /\ seq'[r] = seq[r]
      BY <2>2, <3>2 DEF ReadForResume, Active, Goto, TypeOK
    <3>3. ASSUME NEW s \in Runs, ForegroundCrash(s)
          PROVE (pc'[r] = pc[r] /\ seq'[r] = seq[r]) \/ pc'[r] = "free"
      BY <3>3 DEF ForegroundCrash, Release, TypeOK
    <3>4. CASE DaemonCrash
      BY <2>2, <3>4, NearerByEnd DEF DaemonCrash, TypeOK
    <3>5. CASE KillJob \/ WatchdogKill \/ PauseJob \/ ResumeJob \/ Cancel \/ DaemonStart
      BY <3>5 DEF KillJob, WatchdogKill, RemoveFromRunning, PauseJob, ResumeJob, Cancel,
                  DaemonStart, runVars
    <3>6. QED
      BY <2>2, <3>1, <3>2, <3>3, <3>4, <3>5, NearerByEnd DEF Next
  <2>3. QED
    BY <2>1, <2>2
<1>2. TypeOK /\ [Next]_vars => [Approach]_vars
  BY <1>1
<1>3. QED
  BY <1>2, LeftCounted, JobTypes, PTL DEF Spec, RunsApproachEnd

-----------------------------------------------------------------------------
(* What the repository says and what holds of it while runs do not overlap. *)

\* A resume writes back what it read; a run that has registered its job finds it in
\* running_jobs until the job is killed, and never again after that.
SoloInv ==
  \A r \in Runs :
    /\ pc[r] = "flip" => copy[r] = step_status
    /\ r \in killed => Registered(r) /\ ~running_job
    /\ Registered(r) => running_job \/ r \in killed

\* A step that job.json records as Succeeded is taken back only because it is run
\* again, or by the end of a foreground resume (the finding of the run
\* job_clobbered).
SuccessTakenBack ==
  [][\A s \in Steps : step_status[s] = "Succeeded" /\ step_status'[s] # "Succeeded" =>
       \E r \in Runs : \/ pc[r] \in {"loop", "persist"} /\ seq[r] = s
                       \/ pc[r] = "ended" /\ host[r] = "foreground" /\ resuming[r]]_vars

\* Every step keeps SoloInv.
LEMMA SoloKept ==
  ASSUME OneRun, TypeOK, EntryHasRun, SoloInv, [Next]_vars
  PROVE  SoloInv'
<1> USE Constants DEF OneRun, Active, DaemonRun, Registered
<1>1. ASSUME NEW r \in Runs, Register(r) PROVE SoloInv'
  BY <1>1 DEF Register, Goto, diskVars, ghostVars, TypeOK, SoloInv
<1>1a. ASSUME NEW r \in Runs, OpenJob(r) PROVE SoloInv'
  BY <1>1a DEF OpenJob, Goto, Release, diskVars, daemonVars, ghostVars, TypeOK, SoloInv
<1>2. ASSUME NEW r \in Runs, AbortKilled(r) PROVE SoloInv'
  BY <1>2 DEF AbortKilled, Goto, diskVars, daemonVars, ghostVars, TypeOK, SoloInv
<1>3. ASSUME NEW r \in Runs, SkipStep(r) PROVE SoloInv'
  BY <1>3 DEF SkipStep, diskVars, daemonVars, ghostVars, TypeOK, SoloInv
<1>4. ASSUME NEW r \in Runs, BeginStep(r) PROVE SoloInv'
  BY <1>4 DEF BeginStep, Goto, daemonVars, ghostVars, TypeOK, SoloInv
<1>5. ASSUME NEW r \in Runs, NEW success \in BOOLEAN, EndStep(r, success) PROVE SoloInv'
  BY <1>5 DEF EndStep, Goto, daemonVars, TypeOK, SoloInv
<1>6. ASSUME NEW r \in Runs, PersistStep(r) PROVE SoloInv'
  BY <1>6 DEF PersistStep, Goto, daemonVars, ghostVars, TypeOK, SoloInv
<1>7. ASSUME NEW r \in Runs, Complete(r) PROVE SoloInv'
  BY <1>7 DEF Complete, Goto, diskVars, daemonVars, ghostVars, TypeOK, SoloInv
<1>8. ASSUME NEW r \in Runs, DaemonManifest(r) PROVE SoloInv'
  BY <1>8 DEF DaemonManifest, Goto, daemonVars, ghostVars, TypeOK, SoloInv
<1>9. ASSUME NEW r \in Runs, DaemonRecord(r) PROVE SoloInv'
  BY <1>9 DEF DaemonRecord, Goto, daemonVars, ghostVars, TypeOK, SoloInv
<1>10. ASSUME NEW r \in Runs, DaemonMetadata(r) PROVE SoloInv'
  BY <1>10 DEF DaemonMetadata, Release, TypeOK, SoloInv
<1>11. ASSUME NEW r \in Runs, ForegroundRecord(r) PROVE SoloInv'
  BY <1>11 DEF ForegroundRecord, Goto, daemonVars, ghostVars, TypeOK, SoloInv
<1>12. ASSUME NEW r \in Runs, ForegroundManifest(r) PROVE SoloInv'
  BY <1>12 DEF ForegroundManifest, Release, daemonVars, TypeOK, SoloInv
<1>13. ASSUME NEW r \in Runs, FlipToRunning(r) PROVE SoloInv'
  BY <1>13 DEF FlipToRunning, Goto, Release, daemonVars, ghostVars, TypeOK, SoloInv
<1>14. ASSUME NEW r \in Runs, NEW h \in Hosts, ReadForResume(r, h) PROVE SoloInv'
  BY <1>14 DEF ReadForResume, Goto, diskVars, daemonVars, ghostVars, TypeOK, SoloInv
<1>15. ASSUME NEW r \in Runs, ForegroundCrash(r) PROVE SoloInv'
  BY <1>15 DEF ForegroundCrash, Release, diskVars, daemonVars, TypeOK, SoloInv
<1>16. CASE KillJob \/ WatchdogKill
  BY <1>16 DEF KillJob, WatchdogKill, RemoveFromRunning, runVars, EntryHasRun, SoloInv
<1>17. CASE PauseJob \/ ResumeJob \/ Cancel
  BY <1>17 DEF PauseJob, ResumeJob, Cancel, diskVars, daemonVars, runVars, ghostVars, SoloInv
<1>18. CASE DaemonCrash
  BY <1>18 DEF DaemonCrash, diskVars, TypeOK, SoloInv
<1>19. CASE DaemonStart
  BY <1>19 DEF DaemonStart, diskVars, runVars, ghostVars, SoloInv
<1>20. CASE UNCHANGED vars
  BY <1>20 DEF vars, diskVars, daemonVars, runVars, ghostVars, SoloInv
<1>21. QED
  BY <1>1, <1>1a, <1>2, <1>3, <1>4, <1>5, <1>6, <1>7, <1>8, <1>9, <1>10, <1>11, <1>12,
     <1>13, <1>14, <1>15, <1>16, <1>17, <1>18, <1>19, <1>20 DEF Next, RunStep

LEMMA SoloInvariant == Spec /\ OneRun => []SoloInv
<1>1. Init => SoloInv
  BY DEF Init, SoloInv, Registered, DaemonRun, Active
<1>2. JInv => TypeOK /\ EntryHasRun
  BY DEF JInv
<1>3. OneRun /\ TypeOK /\ EntryHasRun /\ SoloInv /\ [Next]_vars => SoloInv'
  BY SoloKept
<1>4. OneRun => []OneRun
  <2>1. OneRun => OneRun'
    BY DEF OneRun
  <2>2. QED
    BY <2>1, PTL
<1>5. QED
  BY <1>1, <1>2, <1>3, <1>4, JobInvariant, PTL DEF Spec

\* While runs do not overlap, running_jobs holds the job as long as a run of the daemon
\* is under way, but for one that was killed; and no longer, but for a resume that could
\* not open its directory (spawn_resume_scheduler_job, KillJob, the finalizer).
THEOREM EntriesMatchRuns == Spec /\ OneRun => []EntryMatchesRun
<1>1. JInv /\ SoloInv => EntryMatchesRun
  BY DEF JInv, SoloInv, EntryMatchesRun, RunHasEntry
<1>2. QED
  BY <1>1, JobInvariant, SoloInvariant, PTL

\* While runs do not overlap, a run that was killed ends without another word in the
\* metadata: the kill has the last one, however late the run finishes.
THEOREM KilledStaysSaved == Spec /\ OneRun => KillSticks
<1> DEFINE Sticks == \A r \in killed : pc'[r] # pc[r] => saved_meta' = saved_meta
<1>1. OneRun /\ TypeOK /\ SoloInv /\ Next => Sticks
  <2> SUFFICES ASSUME OneRun, TypeOK, SoloInv, Next, NEW r \in killed
               PROVE  saved_meta' = saved_meta
    OBVIOUS
  <2>1. ~running_job
    BY DEF TypeOK, SoloInv
  <2>2. ASSUME NEW s \in Runs, RunStep(s) PROVE saved_meta' = saved_meta
    BY <2>1, <2>2 DEF RunStep, Register, OpenJob, AbortKilled, SkipStep, BeginStep, EndStep,
       PersistStep, Complete, DaemonManifest, DaemonRecord, DaemonMetadata,
       StillRegistered, ForegroundRecord, ForegroundManifest, FlipToRunning, diskVars
  <2>3. ASSUME NEW s \in Runs, NEW h \in Hosts, ReadForResume(s, h) \/ ForegroundCrash(s)
        PROVE  saved_meta' = saved_meta
    BY <2>3 DEF ReadForResume, ForegroundCrash, diskVars
  <2>4. CASE KillJob \/ WatchdogKill
    BY <2>1, <2>4 DEF KillJob, WatchdogKill, RemoveFromRunning
  <2>5. CASE PauseJob \/ ResumeJob \/ Cancel \/ DaemonCrash \/ DaemonStart
    BY <2>5 DEF PauseJob, ResumeJob, Cancel, DaemonCrash, DaemonStart, diskVars
  <2>6. QED
    BY <2>2, <2>3, <2>4, <2>5, HostsAssumption DEF Next
<1>2. OneRun /\ TypeOK /\ SoloInv /\ [Next]_vars => [Sticks]_vars
  BY <1>1
<1>3. OneRun => []OneRun
  <2>1. OneRun => OneRun'
    BY DEF OneRun
  <2>2. QED
    BY <2>1, PTL
<1>4. QED
  BY <1>2, <1>3, JobTypes, SoloInvariant, PTL DEF Spec, KillSticks

\* "Watches running_jobs for KillJob / watchdog kicks so the pipeline stops cleanly"
\* (DaemonObserver): true as long as the job is not resumed while the killed run
\* still ends, which is how the configuration JobLifecycle_revived refutes it.
THEOREM KilledRunsStop == Spec /\ OneRun => KilledRunStops
<1> DEFINE Stops == \A r \in killed : pc[r] = "loop" => pc'[r] # "step"
<1>1. OneRun /\ TypeOK /\ SoloInv /\ Next => Stops
  <2> SUFFICES ASSUME OneRun, TypeOK, SoloInv, Next, NEW r \in killed, pc[r] = "loop"
               PROVE  pc'[r] # "step"
    OBVIOUS
  <2>1. r \in Runs /\ Killed(r)
    BY DEF TypeOK, SoloInv, Registered, DaemonRun, Killed
  <2>2. \A s \in Runs : s = r
    BY <2>1 DEF OneRun
  <2>3. CASE RunStep(r)
    BY <2>1, <2>3 DEF RunStep, Register, OpenJob, AbortKilled, SkipStep, BeginStep, EndStep, PersistStep,
       Complete, DaemonManifest, DaemonRecord, DaemonMetadata, ForegroundRecord,
       ForegroundManifest, FlipToRunning, Goto, Release, TypeOK
  <2>4. ASSUME NEW h \in Hosts, ReadForResume(r, h) PROVE pc'[r] # "step"
    BY <2>4 DEF ReadForResume, Active
  <2>5. CASE ForegroundCrash(r)
    BY <2>1, <2>5 DEF ForegroundCrash, Release, TypeOK
  <2>6. CASE KillJob \/ WatchdogKill \/ PauseJob \/ ResumeJob \/ Cancel \/ DaemonStart
    BY <2>6 DEF KillJob, WatchdogKill, RemoveFromRunning, PauseJob, ResumeJob, Cancel,
                DaemonStart, runVars
  <2>7. CASE DaemonCrash
    BY <2>1, <2>7 DEF DaemonCrash, TypeOK
  <2>8. QED
    BY <2>2, <2>3, <2>4, <2>5, <2>6, <2>7 DEF Next
<1>2. OneRun /\ TypeOK /\ SoloInv /\ [Next]_vars => [Stops]_vars
  BY <1>1
<1>3. OneRun => []OneRun
  <2>1. OneRun => OneRun'
    BY DEF OneRun
  <2>2. QED
    BY <2>1, PTL
<1>4. QED
  BY <1>2, <1>3, JobTypes, SoloInvariant, PTL DEF Spec, KilledRunStops

\* persist_step_status and the flip of a resume lose nothing that is recorded, whatever
\* is killed, cancelled, lost or interrupted; the end of resume_foreground may.
THEOREM SuccessIsKept == Spec /\ OneRun => SuccessTakenBack
<1> DEFINE Kept == \A s \in Steps : step_status[s] = "Succeeded" /\ step_status'[s] # "Succeeded" =>
             \E r \in Runs : \/ pc[r] \in {"loop", "persist"} /\ seq[r] = s
                             \/ pc[r] = "ended" /\ host[r] = "foreground" /\ resuming[r]
<1>1. TypeOK /\ SoloInv /\ Next => Kept
  <2> SUFFICES ASSUME TypeOK, SoloInv, Next, NEW s \in Steps,
                      step_status[s] = "Succeeded", step_status'[s] # "Succeeded"
               PROVE  \E r \in Runs : \/ pc[r] \in {"loop", "persist"} /\ seq[r] = s
                                      \/ pc[r] = "ended" /\ host[r] = "foreground" /\ resuming[r]
    OBVIOUS
  <2>1. PICK r \in Runs : BeginStep(r) \/ PersistStep(r) \/ ForegroundRecord(r) \/ FlipToRunning(r)
    BY DEF Next, RunStep, Register, OpenJob, AbortKilled, SkipStep, EndStep, Complete, DaemonManifest,
       DaemonRecord, DaemonMetadata, ForegroundManifest, ReadForResume, ForegroundCrash, KillJob,
       WatchdogKill, RemoveFromRunning, PauseJob, ResumeJob, Cancel, DaemonCrash, DaemonStart,
       diskVars
  <2>2. CASE BeginStep(r)
    BY <2>2 DEF BeginStep, PersistStatus, TypeOK
  <2>3. CASE PersistStep(r)
    BY <2>3 DEF PersistStep, PersistStatus, TypeOK
  <2>4. CASE ForegroundRecord(r)
    BY <2>4 DEF ForegroundRecord
  <2>5. CASE FlipToRunning(r)
    BY <2>5 DEF FlipToRunning, SoloInv
  <2>6. QED
    BY <2>1, <2>2, <2>3, <2>4, <2>5
<1>2. TypeOK /\ SoloInv /\ [Next]_vars => [Kept]_vars
  BY <1>1
<1>3. QED
  BY <1>2, JobTypes, SoloInvariant, PTL DEF Spec, SuccessTakenBack
=============================================================================
