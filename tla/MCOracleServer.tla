---------------------------- MODULE MCOracleServer ----------------------------
(***************************************************************************)
(* Two server processes, two projects, and an agent's entries: one about   *)
(* each project and, between them, one about none.                         *)
(***************************************************************************)
EXTENDS OracleServer, TLC

CONSTANTS a, b, agent

AboutBoth ==
  [e \in Entry |-> CASE e = 1 -> a [] e = 2 -> NoProject [] OTHER -> b]
FromOne == [e \in Entry |-> agent]

ProcessSymmetry == Permutations(Process)
=============================================================================
