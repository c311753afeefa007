----------------------------- MODULE StepRetry -----------------------------
(***************************************************************************)
(* What run_step_with_retries promises of one step: its attempts follow    *)
(* each other, an attempt is made again exactly as long as its outcome has *)
(* a budget that is not used up, the two budgets are independent of each   *)
(* other, and the outcome of the last attempt is the outcome of the step.  *)
(* What an attempt does is left open.  HelperSteps implements it.          *)
(***************************************************************************)
EXTENDS Integers, Sequences, FiniteSets

CONSTANTS TransientMax,   \* RetryTransient.max
          ProtocolMax     \* RetryProtocol.max

VARIABLES outcomes,   \* of the attempts made so far
          returned    \* the step is over

vars == <<outcomes, returned>>

Outcomes == {"Success", "TransientInfra", "ProtocolViolation", "HardInfra",
             "SemanticMistake", "SpecDrift"}

Budget(outcome) ==
  CASE outcome = "TransientInfra"    -> TransientMax
    [] outcome = "ProtocolViolation" -> ProtocolMax
    [] OTHER                         -> 0

\* How many of the attempts before the last one ended like the last one: each
\* of them cost a retry of that kind.
Used(outs) ==
  Cardinality({i \in 1 .. (Len(outs) - 1) : outs[i] = outs[Len(outs)]})

Retried(outs) == outs # <<>> /\ Used(outs) < Budget(outs[Len(outs)])

Init == outcomes = <<>> /\ returned = FALSE

Attempt ==
  /\ ~returned
  /\ outcomes = <<>> \/ Retried(outcomes)
  /\ \E outcome \in Outcomes : outcomes' = Append(outcomes, outcome)
  /\ UNCHANGED returned

Return ==
  /\ ~returned
  /\ outcomes # <<>> /\ ~Retried(outcomes)
  /\ returned' = TRUE
  /\ UNCHANGED outcomes

\* The next step starts, or the job is resumed at this one.
Begin == returned /\ returned' = FALSE /\ outcomes' = <<>>

Next == Attempt \/ Return \/ Begin

Spec == Init /\ [][Next]_vars
=============================================================================
