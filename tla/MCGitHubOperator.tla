-------------------------- MODULE MCGitHubOperator --------------------------
(* Two applies of one bundle, or of two bundles for one or two versions of *)
(* the plan.                                                               *)
EXTENDS GitHubOperator, TLC

MCSymmetry == Permutations(Applies) \cup Permutations(Bundles)
=============================================================================
