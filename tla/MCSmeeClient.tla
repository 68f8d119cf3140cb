---------------------------- MODULE MCSmeeClient ----------------------------
(***************************************************************************)
(* The Smee listener with an opened pull request, a push and another event.*)
(***************************************************************************)
EXTENDS SmeeClient
=============================================================================
