----------------------------- MODULE MCGitCache -----------------------------
(***************************************************************************)
(* The git cache on a repository of a file, two branches and two commits.  *)
(***************************************************************************)
EXTENDS GitCache, TLC

Symmetry == Permutations(Branch)
=============================================================================
