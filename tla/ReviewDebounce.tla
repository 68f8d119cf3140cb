--------------------------- MODULE ReviewDebounce ---------------------------
(***************************************************************************)
(* What the review reactor of the webhook server promises, without saying  *)
(* how: every push of a pull request it is told about is, sooner or later, *)
(* covered by a review that starts after the push.  Opening a pull request *)
(* is covered at once.  PRReactor implements this specification.           *)
(***************************************************************************)
EXTENDS Naturals

CONSTANT PR                     \* the pull requests of the reviewed repository

VARIABLES seen,                 \* events handled so far, per pull request
          attempted             \* value of seen when the latest review started

vars == <<seen, attempted>>

Init ==
  /\ seen = [pr \in PR |-> 0]
  /\ attempted = [pr \in PR |-> 0]

\* A push is noted; its review comes later.
Push(pr) ==
  /\ seen' = [seen EXCEPT ![pr] = @ + 1]
  /\ UNCHANGED attempted

\* An opened pull request is reviewed in the same step.
ReviewOnOpen(pr) ==
  /\ seen' = [seen EXCEPT ![pr] = @ + 1]
  /\ attempted' = [attempted EXCEPT ![pr] = seen[pr] + 1]

\* A review starts and covers everything pushed so far.
Review(pr) ==
  /\ attempted[pr] # seen[pr]
  /\ attempted' = [attempted EXCEPT ![pr] = seen[pr]]
  /\ UNCHANGED seen

Next == \E pr \in PR : Push(pr) \/ ReviewOnOpen(pr) \/ Review(pr)

SafeSpec == Init /\ [][Next]_vars

Spec == SafeSpec /\ \A pr \in PR : WF_vars(Review(pr))
=============================================================================
