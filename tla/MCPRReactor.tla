----------------------------- MODULE MCPRReactor -----------------------------
(***************************************************************************)
(* The review reactor on two pull requests.                                *)
(***************************************************************************)
EXTENDS PRReactor
=============================================================================
