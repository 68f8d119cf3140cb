--------------------------- MODULE MCCommandCache ---------------------------
(***************************************************************************)
(* The command cache with two sessions that run the same command.          *)
(***************************************************************************)
EXTENDS CommandCache, TLC

Symmetry == Permutations(Session)
=============================================================================
