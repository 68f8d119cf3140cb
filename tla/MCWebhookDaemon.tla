--------------------------- MODULE MCWebhookDaemon ---------------------------
(***************************************************************************)
(* The daemon with a pull request that is opened and pushed to, another    *)
(* that is pushed to twice, and an event that is none of the reactor's.    *)
(***************************************************************************)
EXTENDS WebhookDaemon, TLC

CONSTANTS p1, p2, open, push, other, again

TwoPullRequests == open :> p1 @@ push :> p1 @@ other :> p2 @@ again :> p2
=============================================================================
