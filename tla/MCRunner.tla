------------------------------- MODULE MCRunner -------------------------------
(* Instances of Runner for TLC.  Children are alike in the safety runs.      *)
EXTENDS Runner, TLC

Alike == Permutations(Children)

=============================================================================
