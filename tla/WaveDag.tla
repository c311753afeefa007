------------------------------ MODULE WaveDag ------------------------------
(***************************************************************************)
(* What wave execution promises of a manifest: each wave is dispatched at  *)
(* most once, only after every wave it depends on has succeeded, one wave  *)
(* at a time, and nothing is dispatched after a failure.  No order of      *)
(* traversal, no retry and no sub-agent appears here.  WaveScheduler is    *)
(* shown to implement it.                                                  *)
(***************************************************************************)
CONSTANT Waves

VARIABLES deps,     \* deps[w]: the waves w depends on
          status,   \* what became of each wave
          result    \* what the step returned, "none" while it runs

vars == <<deps, status, result>>

Init ==
  /\ deps \in [Waves -> SUBSET Waves]
  /\ status = [w \in Waves |-> "pending"]
  /\ result = "none"

Idle == /\ result = "none"
        /\ \A w \in Waves : status[w] # "running"

Dispatch(w) ==
  /\ Idle
  /\ status[w] = "pending"
  /\ \A d \in deps[w] : status[d] = "succeeded"
  /\ status' = [status EXCEPT ![w] = "running"]
  /\ UNCHANGED <<deps, result>>

Succeed(w) ==
  /\ result = "none"
  /\ status[w] = "running"
  /\ status' = [status EXCEPT ![w] = "succeeded"]
  /\ UNCHANGED <<deps, result>>

Fail(w) ==
  /\ result = "none"
  /\ status[w] = "running"
  /\ status' = [status EXCEPT ![w] = "failed"]
  /\ result' = "SemanticMistake"
  /\ UNCHANGED deps

Complete ==
  /\ Idle
  /\ \A w \in Waves : status[w] = "succeeded"
  /\ result' = "Success"
  /\ UNCHANGED <<deps, status>>

\* The step gives up between two waves: bad manifest, unreadable config.
GiveUp ==
  /\ Idle
  /\ result' \in {"ProtocolViolation", "HardInfra"}
  /\ UNCHANGED <<deps, status>>

Next ==
  \/ \E w \in Waves : Dispatch(w) \/ Succeed(w) \/ Fail(w)
  \/ Complete
  \/ GiveUp

Spec == Init /\ [][Next]_vars
=============================================================================
