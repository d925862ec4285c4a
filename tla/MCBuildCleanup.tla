---------------------------- MODULE MCBuildCleanup ----------------------------
(* Two builds in one workspace, or one in an isolated workspace. *)
EXTENDS BuildCleanup, TLC

\* Nothing tells two loop devices apart.
Symmetry == Permutations(Devices)
=============================================================================
