---------------------------- MODULE MCWebhookTools ----------------------------
(***************************************************************************)
(* The event table, kept for one day of three ticks, with a failed check   *)
(* run and a failed workflow run in it, and the tools that find them: the  *)
(* other tools have the shape of one of these two.                         *)
(***************************************************************************)
EXTENDS WebhookTools

CONSTANTS d1, d2

TwoKinds == [d \in Delivery |-> IF d = d1 THEN "check_run" ELSE "workflow_run"]
=============================================================================
