------------------------------ MODULE PRReactor ------------------------------
(***************************************************************************)
(* The review reactor of the webhook server (reactor.py): one debounce     *)
(* timer per pull request on the asyncio event loop, a task per expired    *)
(* timer, and a review process per task.                                   *)
(*                                                                         *)
(* One asyncio loop runs everything, so each action below is one stretch   *)
(* of code between two awaits.  What interleaves is the order in which the *)
(* loop takes them up: a timer callback only creates a task, and the task  *)
(* takes its first step after anything that was ready before it.           *)
(*                                                                         *)
(* Events for other repositories and other actions return early and change *)
(* nothing; they are stuttering steps.                                     *)
(***************************************************************************)
EXTENDS Integers, FiniteSets

CONSTANTS PR,                   \* pull requests of auto_review_repo
          Handle,               \* TimerHandle objects alive at the same time
          Debounce,             \* debounce_seconds, in ticks of the clock
          MaxEvents,            \* bound: webhook events per pull request
          NoPR, NoHandle

ASSUME NoneAssumption == NoPR \notin PR /\ NoHandle \notin Handle
ASSUME HandleAssumption == IsFiniteSet(Handle)
ASSUME DebounceAssumption == Debounce \in Nat /\ MaxEvents \in Nat

VARIABLES
  timers,    \* self._timers: the handle remembered for a pull request
  loop,      \* the event loop's view of each handle: whose it is, time left
  ready,     \* per pull request: _spawn_review tasks that have not started
  stream,    \* the pull request whose "opened" review the SSE loop awaits
  seen,      \* ghost: events handled for a pull request
  attempted, \* ghost: value of seen when its latest review was started
  starts,    \* ghost: reviews started
  quiet      \* ghost: ticks since its latest push was handled, up to Debounce

vars == <<timers, loop, ready, stream, seen, attempted, starts, quiet>>

Idle == [pr |-> NoPR, left |-> 0]

Init ==
  /\ timers = [pr \in PR |-> NoHandle]
  /\ loop = [h \in Handle |-> Idle]
  /\ ready = [pr \in PR |-> 0]
  /\ stream = NoPR
  /\ seen = [pr \in PR |-> 0]
  /\ attempted = [pr \in PR |-> 0]
  /\ starts = [pr \in PR |-> 0]
  /\ quiet = [pr \in PR |-> Debounce]

\* Handles the loop will still call for pr.
Armed(pr) == {h \in Handle : loop[h].pr = pr}

\* A handle object the loop does not hold and _timers does not refer to.
Free(h) == loop[h] = Idle /\ \A pr \in PR : timers[pr] # h

\* Mutant of Cancelled: forgets the entry without timer.cancel().
CancelledNot(pr) == loop

\* _cancel_timer: the popped handle, if any, will not be called.
Cancelled(pr) == [h \in Handle |-> IF h = timers[pr] THEN Idle ELSE loop[h]]

\* The start of _spawn_review's process covers every push seen so far.
StartReview(pr, pushes) ==
  /\ attempted' = [attempted EXCEPT ![pr] = pushes]
  /\ starts' = [starts EXCEPT ![pr] = @ + 1]

\* Mutant of Opened: "if" for "elif", so an opened pull request is also
\* handled as a push.
OpenedFallsThrough(pr) ==
  /\ stream = NoPR
  /\ seen[pr] < MaxEvents
  /\ seen' = [seen EXCEPT ![pr] = @ + 1]
  /\ quiet' = [quiet EXCEPT ![pr] = 0]
  /\ \E h \in Handle :
       /\ Free(h)
       /\ timers' = [timers EXCEPT ![pr] = h]
       /\ loop' = [Cancelled(pr) EXCEPT ![h] = [pr |-> pr, left |-> Debounce]]
  /\ StartReview(pr, seen[pr] + 1)
  /\ stream' = pr
  /\ UNCHANGED ready

\* on_pr_event("opened"): cancel the timer and await _spawn_review inline, so
\* the SSE loop handles nothing else until the review process has ended.
Opened(pr) ==
  /\ stream = NoPR
  /\ seen[pr] < MaxEvents
  /\ seen' = [seen EXCEPT ![pr] = @ + 1]
  /\ loop' = Cancelled(pr)
  /\ timers' = [timers EXCEPT ![pr] = NoHandle]
  /\ StartReview(pr, seen[pr] + 1)
  /\ stream' = pr
  /\ UNCHANGED <<ready, quiet>>

\* The inline review's process ends, fails, or was never found.
InlineReviewEnds ==
  /\ stream # NoPR
  /\ stream' = NoPR
  /\ UNCHANGED <<timers, loop, ready, seen, attempted, starts, quiet>>

\* Mutant of Synchronize: the first push starts the timer, later pushes are
\* taken to be covered by it.
SynchronizeKeepsFirst(pr) ==
  /\ stream = NoPR
  /\ seen[pr] < MaxEvents
  /\ seen' = [seen EXCEPT ![pr] = @ + 1]
  /\ quiet' = [quiet EXCEPT ![pr] = 0]
  /\ IF timers[pr] # NoHandle
       THEN UNCHANGED <<timers, loop>>
       ELSE \E h \in Handle :
              /\ Free(h)
              /\ timers' = [timers EXCEPT ![pr] = h]
              /\ loop' = [loop EXCEPT ![h] = [pr |-> pr, left |-> Debounce]]
  /\ UNCHANGED <<ready, stream, attempted, starts>>

\* Mutant of Synchronize: timer_key without the pull-request number.
SynchronizeKeyedByRepo(pr) ==
  /\ stream = NoPR
  /\ seen[pr] < MaxEvents
  /\ seen' = [seen EXCEPT ![pr] = @ + 1]
  /\ quiet' = [quiet EXCEPT ![pr] = 0]
  /\ \E h \in Handle :
       /\ Free(h)
       /\ timers' = [other \in PR |-> h]
       /\ loop' = [Cancelled(pr) EXCEPT ![h] = [pr |-> pr, left |-> Debounce]]
  /\ UNCHANGED <<ready, stream, attempted, starts>>

\* on_pr_event("synchronize"): cancel the timer and set a new one.
Synchronize(pr) ==
  /\ stream = NoPR
  /\ seen[pr] < MaxEvents
  /\ seen' = [seen EXCEPT ![pr] = @ + 1]
  /\ quiet' = [quiet EXCEPT ![pr] = 0]
  /\ \E h \in Handle :
       /\ Free(h)
       /\ timers' = [timers EXCEPT ![pr] = h]
       /\ loop' = [Cancelled(pr) EXCEPT ![h] = [pr |-> pr, left |-> Debounce]]
  /\ UNCHANGED <<ready, stream, attempted, starts>>

\* The loop calls an expired handle: the lambda only creates a task, and
\* _timers keeps the handle until that task's first step.
TimerFires(h) ==
  /\ loop[h].pr # NoPR
  /\ loop[h].left = 0
  /\ ready' = [ready EXCEPT ![loop[h].pr] = @ + 1]
  /\ loop' = [loop EXCEPT ![h] = Idle]
  /\ UNCHANGED <<timers, stream, seen, attempted, starts, quiet>>

\* Mutant of TaskStarts: cancels what it pops, as _cancel_timer does, after
\* the review has been found unnecessary because a newer push came in.
TaskStartsOnlyIfCurrent(pr) ==
  /\ ready[pr] > 0
  /\ ready' = [ready EXCEPT ![pr] = @ - 1]
  /\ timers' = [timers EXCEPT ![pr] = NoHandle]
  /\ loop' = Cancelled(pr)
  /\ IF quiet[pr] = Debounce
       THEN StartReview(pr, seen[pr])
       ELSE UNCHANGED <<attempted, starts>>
  /\ UNCHANGED <<stream, seen, quiet>>

\* Mutant of TaskStarts: the spent handle is not popped.
TaskStartsKeepsHandle(pr) ==
  /\ ready[pr] > 0
  /\ ready' = [ready EXCEPT ![pr] = @ - 1]
  /\ StartReview(pr, seen[pr])
  /\ UNCHANGED <<timers, loop, stream, seen, quiet>>

\* The first step of a task: pop whatever _timers holds by now, without
\* cancelling it, and start the review process.  Awaiting the process holds
\* nothing else up, and its end only writes a log line.
TaskStarts(pr) ==
  /\ ready[pr] > 0
  /\ ready' = [ready EXCEPT ![pr] = @ - 1]
  /\ timers' = [timers EXCEPT ![pr] = NoHandle]
  /\ StartReview(pr, seen[pr])
  /\ UNCHANGED <<loop, stream, seen, quiet>>

\* One tick of the clock.  Nothing makes the loop run an expired handle
\* before the next tick.
Tick ==
  /\ loop' = [h \in Handle |->
               [pr |-> loop[h].pr,
                left |-> IF loop[h].left > 0 THEN loop[h].left - 1 ELSE 0]]
  /\ quiet' = [pr \in PR |->
                IF quiet[pr] < Debounce THEN quiet[pr] + 1 ELSE Debounce]
  /\ UNCHANGED <<timers, ready, stream, seen, attempted, starts>>

Next ==
  \/ \E pr \in PR : Opened(pr) \/ Synchronize(pr) \/ TaskStarts(pr)
  \/ \E h \in Handle : TimerFires(h)
  \/ InlineReviewEnds
  \/ Tick

\* The loop gets round to every expired handle and every ready task, and time
\* passes.  Nothing is assumed of GitHub or of the review processes.
Fairness ==
  /\ WF_vars(Tick)
  /\ \A h \in Handle : WF_vars(TimerFires(h))
  /\ \A pr \in PR : WF_vars(TaskStarts(pr))

Spec == Init /\ [][Next]_vars /\ Fairness

-----------------------------------------------------------------------------
\* In _timers is nothing but handles that the loop is still to call, or that it
\* has called and whose task is still to start.
SpentHandlesWait ==
  \A pr \in PR : timers[pr] # NoHandle => loop[timers[pr]].pr # NoPR \/ ready[pr] > 0

TypeOK ==
  /\ SpentHandlesWait
  /\ timers \in [PR -> Handle \cup {NoHandle}]
  /\ loop \in [Handle -> [pr : PR \cup {NoPR}, left : 0..Debounce]]
  /\ ready \in [PR -> Nat]
  /\ stream \in PR \cup {NoPR}
  /\ seen \in [PR -> 0..MaxEvents]
  /\ attempted \in [PR -> 0..MaxEvents]
  /\ starts \in [PR -> Nat]
  /\ quiet \in [PR -> 0..Debounce]

\* A handle _timers refers to is armed for that pull request or spent, and no
\* two pull requests share one.
TimersAreOwn ==
  \A pr \in PR : timers[pr] # NoHandle =>
    /\ loop[timers[pr]].pr \in {pr, NoPR}
    /\ \A other \in PR : timers[other] = timers[pr] => other = pr

\* A push that no review covers yet is never forgotten: either its task is
\* waiting to start, or the timer in _timers, the one a later push will reset,
\* is armed.  The handles the loop holds besides that one, which no push can
\* reset any more, are never all that a push depends on.
PushIsPending ==
  \A pr \in PR : attempted[pr] # seen[pr] =>
    \/ ready[pr] > 0
    \/ timers[pr] # NoHandle /\ loop[timers[pr]].pr = pr

\* The timer in _timers counts from the latest push, whichever pushes, expiries
\* and task starts came before: it has what is left of the quiet period.
TimerCountsFromLatestPush ==
  \A pr \in PR :
    (timers[pr] # NoHandle /\ loop[timers[pr]].pr = pr)
      => loop[timers[pr]].left + quiet[pr] = Debounce

\* Every review that started, waits to start or is still to be fired by the
\* loop was asked for by an event of its own.
OneReviewPerEvent ==
  \A pr \in PR : starts[pr] + ready[pr] + Cardinality(Armed(pr)) <= seen[pr]

\* A timer that no later push can reset is left behind by the start of a review
\* and by nothing else: there are never more of them than reviews started.
StraysComeFromReviews ==
  \A pr \in PR : Cardinality(Armed(pr) \ {timers[pr]}) <= starts[pr]

\* Refinement: the reactor keeps the promise of ReviewDebounce.  Its liveness
\* part says that once pushes pause, the pushes seen so far are reviewed.
Promise == INSTANCE ReviewDebounce

KeepsPromise == Promise!Spec
=============================================================================
