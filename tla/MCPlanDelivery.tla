--------------------------- MODULE MCPlanDelivery ---------------------------
(* The manifests of the instances of PlanDelivery. *)
EXTENDS PlanDelivery

Plain == [no_worktree |-> FALSE, skip_pr |-> FALSE, draft_pr |-> FALSE,
          merge |-> FALSE, creates |-> TRUE]

MCManifests ==
  {[Plain EXCEPT !.merge = TRUE],
   [Plain EXCEPT !.draft_pr = TRUE, !.merge = TRUE],
   [Plain EXCEPT !.no_worktree = TRUE],
   [Plain EXCEPT !.creates = FALSE]}

Skipping == {[Plain EXCEPT !.skip_pr = TRUE, !.merge = TRUE]}
=============================================================================
