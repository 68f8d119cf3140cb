--------------------------- MODULE MCOracleIngest ---------------------------
(***************************************************************************)
(* Passive ingest with one session working on two files.                   *)
(***************************************************************************)
EXTENDS OracleIngest, TLC

Alone == [s \in Session |-> Path]

Symmetry == Permutations(Content) \cup Permutations(Path)
=============================================================================
