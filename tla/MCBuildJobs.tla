---------------------------- MODULE MCBuildJobs ----------------------------
(* Instances of BuildJobs for TLC.  Workers, and handlers, are alike in the *)
(* safety runs; the liveness run uses no symmetry.                          *)
EXTENDS BuildJobs, TLC

Alike == Permutations(Workers) \cup Permutations(Handlers) \cup Permutations(Jobs)

=============================================================================
