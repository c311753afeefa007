--------------------------- MODULE MCJobLifecycle ---------------------------
(* JobLifecycle with interchangeable run slots. *)
EXTENDS JobLifecycle, TLC

RunSymmetry == Permutations(Runs)
=============================================================================
