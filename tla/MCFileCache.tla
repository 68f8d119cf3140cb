---------------------------- MODULE MCFileCache ----------------------------
(***************************************************************************)
(* The file cache with two sessions on one table: each with a file of its  *)
(* own, or both with the same file.                                        *)
(***************************************************************************)
EXTENDS FileCache, TLC

CONSTANTS s1, s2, p1, p2

Apart == (s1 :> {p1}) @@ (s2 :> {p2})
Together == [s \in Session |-> Path]

TextSymmetry == Permutations(Content)
=============================================================================
