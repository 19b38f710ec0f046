-------------------------- MODULE MCGitHubDelivery --------------------------
(* Instances of GitHubDelivery for TLC.                                     *)
EXTENDS GitHubDelivery, TLC

WorkerSymmetry == Permutations(Workers)
=============================================================================
