--------------------------- MODULE PRReactor_proofs ---------------------------
(***************************************************************************)
(* Proofs about the review reactor, for any set of pull requests, any pool *)
(* of handles, any debounce and any number of events.                      *)
(***************************************************************************)
EXTENDS PRReactor, FiniteSetTheorems, TLAPS

USE NoneAssumption, DebounceAssumption

\* A step of the reactor keeps the types, whoever takes it; that _timers keeps no
\* spent handle needs that no other pull request shares the one that is cancelled.
LEMMA TypesStay ==
  TypeOK /\ TimersAreOwn /\ [Next]_vars => TypeOK'
<1> SUFFICES ASSUME TypeOK, TimersAreOwn, [Next]_vars
             PROVE  TypeOK'
  OBVIOUS
<1> USE DEF TypeOK
<1>1. ASSUME NEW pr \in PR, Opened(pr)
      PROVE  TypeOK'
  <2>1. SpentHandlesWait'
    <3> SUFFICES ASSUME NEW q \in PR, timers'[q] # NoHandle
                 PROVE  loop'[timers'[q]].pr # NoPR \/ ready'[q] > 0
      BY DEF SpentHandlesWait
    <3>1. q # pr /\ timers'[q] = timers[q] /\ ready' = ready /\ timers[q] # timers[pr]
      BY <1>1 DEF Opened, TimersAreOwn
    <3>2. loop'[timers[q]] = loop[timers[q]]
      BY <1>1, <3>1 DEF Opened, Cancelled
    <3>3. QED
      BY <3>1, <3>2 DEF SpentHandlesWait
  <2>2. QED
    BY <1>1, <2>1 DEF Opened, Cancelled, StartReview, Idle
<1>2. ASSUME NEW pr \in PR, Synchronize(pr)
      PROVE  TypeOK'
  <2>1. SpentHandlesWait'
    <3> SUFFICES ASSUME NEW q \in PR, timers'[q] # NoHandle
                 PROVE  loop'[timers'[q]].pr # NoPR \/ ready'[q] > 0
      BY DEF SpentHandlesWait
    <3>1. PICK h \in Handle :
            /\ Free(h) /\ timers' = [timers EXCEPT ![pr] = h] /\ ready' = ready
            /\ loop' = [Cancelled(pr) EXCEPT ![h] = [pr |-> pr, left |-> Debounce]]
      BY <1>2 DEF Synchronize
    <3>2. CASE q = pr
      BY <3>1, <3>2 DEF Cancelled
    <3>3. CASE q # pr
      <4>1. timers'[q] = timers[q] /\ timers[q] # timers[pr] /\ timers[q] # h
        BY <3>1, <3>3 DEF TimersAreOwn, Free
      <4>2. loop'[timers[q]] = loop[timers[q]]
        BY <3>1, <4>1 DEF Cancelled
      <4>3. QED
        BY <3>1, <4>1, <4>2 DEF SpentHandlesWait
    <3>4. QED
      BY <3>2, <3>3
  <2>2. QED
    BY <1>2, <2>1 DEF Synchronize, Cancelled, Idle
<1>3. ASSUME NEW pr \in PR, TaskStarts(pr)
      PROVE  TypeOK'
  BY <1>3 DEF TaskStarts, StartReview, SpentHandlesWait
<1>4. ASSUME NEW h \in Handle, TimerFires(h)
      PROVE  TypeOK'
  <2>1. SpentHandlesWait'
    <3> SUFFICES ASSUME NEW q \in PR, timers[q] # NoHandle
                 PROVE  loop'[timers[q]].pr # NoPR \/ ready'[q] > 0
      BY <1>4 DEF TimerFires, SpentHandlesWait
    <3>1. CASE timers[q] = h
      BY <1>4, <3>1 DEF TimerFires, TimersAreOwn
    <3>2. CASE timers[q] # h
      BY <1>4, <3>2 DEF TimerFires, SpentHandlesWait
    <3>3. QED
      BY <3>1, <3>2
  <2>2. QED
    BY <1>4, <2>1 DEF TimerFires, Idle
<1>5. CASE InlineReviewEnds
  BY <1>5 DEF InlineReviewEnds, SpentHandlesWait
<1>6. CASE Tick
  BY <1>6 DEF Tick, SpentHandlesWait
<1>7. CASE UNCHANGED vars
  BY <1>7 DEF vars, SpentHandlesWait
<1>8. QED
  BY <1>1, <1>2, <1>3, <1>4, <1>5, <1>6, <1>7 DEF Next

LEMMA TimersStay ==
  TypeOK /\ TimersAreOwn /\ [Next]_vars => TimersAreOwn'
<1> SUFFICES ASSUME TypeOK, TimersAreOwn, [Next]_vars
             PROVE  TimersAreOwn'
  OBVIOUS
<1> USE DEF TypeOK, TimersAreOwn
<1>1. ASSUME NEW pr \in PR, Opened(pr)
      PROVE  TimersAreOwn'
  BY <1>1 DEF Opened, Cancelled, Idle
<1>2. ASSUME NEW pr \in PR, Synchronize(pr)
      PROVE  TimersAreOwn'
  BY <1>2 DEF Synchronize, Cancelled, Idle, Free
<1>3. ASSUME NEW pr \in PR, TaskStarts(pr)
      PROVE  TimersAreOwn'
  BY <1>3 DEF TaskStarts
<1>4. ASSUME NEW h \in Handle, TimerFires(h)
      PROVE  TimersAreOwn'
  BY <1>4 DEF TimerFires, Idle
<1>5. CASE InlineReviewEnds
  BY <1>5 DEF InlineReviewEnds
<1>6. CASE Tick
  BY <1>6 DEF Tick
<1>7. CASE UNCHANGED vars
  BY <1>7 DEF vars
<1>8. QED
  BY <1>1, <1>2, <1>3, <1>4, <1>5, <1>6, <1>7 DEF Next

LEMMA TypedAndOwn == Spec => [](TypeOK /\ TimersAreOwn)
<1>1. Init => TypeOK /\ TimersAreOwn
  BY DEF Init, TypeOK, SpentHandlesWait, TimersAreOwn, Idle
<1>2. QED
  BY <1>1, TypesStay, TimersStay, PTL DEF Spec

\* Every variable keeps its type, and no handle stays in _timers longer than until
\* its task starts (reactor.py:104).
THEOREM TypeCorrect == Spec => []TypeOK
  BY TypedAndOwn, PTL

\* reactor.py:104 pops a timer it does not cancel, so a handle can outlive its
\* entry in _timers; still no pull request ever holds another one's handle.
THEOREM TimersStayOwn == Spec => []TimersAreOwn
  BY TypedAndOwn, PTL

\* A review of q waits to start, or the timer a later push would reset does.
Scheduled(q) ==
  \/ ready[q] > 0
  \/ timers[q] # NoHandle /\ loop[timers[q]].pr = q

\* What is scheduled stays so until the review starts, which then covers every
\* event seen.
LEMMA ScheduledStays ==
  ASSUME TypeOK, TimersAreOwn, [Next]_vars, NEW q \in PR, Scheduled(q)
  PROVE  \/ Scheduled(q)'
         \/ starts'[q] = starts[q] + 1 /\ attempted'[q] = seen'[q]
<1> USE DEF TypeOK
<1>1. ASSUME NEW pr \in PR, Opened(pr)
      PROVE  \/ Scheduled(q)'
             \/ starts'[q] = starts[q] + 1 /\ attempted'[q] = seen'[q]
  <2>1. CASE q = pr
    BY <1>1, <2>1 DEF Opened, StartReview
  <2>2. CASE q # pr
    <3>1. timers'[q] = timers[q] /\ ready' = ready
      BY <1>1, <2>2 DEF Opened
    <3>2. timers[q] # NoHandle => loop'[timers[q]] = loop[timers[q]]
      BY <1>1, <2>2 DEF Opened, Cancelled, TimersAreOwn
    <3>3. QED
      BY <3>1, <3>2 DEF Scheduled
  <2>3. QED
    BY <2>1, <2>2
<1>2. ASSUME NEW pr \in PR, Synchronize(pr)
      PROVE  Scheduled(q)'
  <2>1. PICK h \in Handle :
          /\ Free(h)
          /\ timers' = [timers EXCEPT ![pr] = h]
          /\ loop' = [Cancelled(pr) EXCEPT ![h] = [pr |-> pr, left |-> Debounce]]
    BY <1>2 DEF Synchronize
  <2>2. CASE q = pr
    BY <2>1, <2>2 DEF Cancelled, Scheduled
  <2>3. CASE q # pr
    <3>1. timers'[q] = timers[q] /\ ready' = ready
      BY <1>2, <2>1, <2>3 DEF Synchronize
    <3>2. timers[q] # NoHandle => loop'[timers[q]] = loop[timers[q]]
      BY <2>1, <2>3 DEF Cancelled, Free, TimersAreOwn
    <3>3. QED
      BY <3>1, <3>2 DEF Scheduled
  <2>4. QED
    BY <2>2, <2>3
<1>3. ASSUME NEW pr \in PR, TaskStarts(pr)
      PROVE  \/ Scheduled(q)'
             \/ starts'[q] = starts[q] + 1 /\ attempted'[q] = seen'[q]
  BY <1>3 DEF TaskStarts, StartReview, Scheduled
<1>4. ASSUME NEW h \in Handle, TimerFires(h)
      PROVE  Scheduled(q)'
  BY <1>4 DEF TimerFires, Scheduled
<1>5. CASE InlineReviewEnds \/ Tick \/ UNCHANGED vars
  BY <1>5 DEF InlineReviewEnds, Tick, vars, Scheduled
<1>6. QED
  BY <1>1, <1>2, <1>3, <1>4, <1>5 DEF Next

\* A push sets the timer it is then due by, and nothing else adds to what has been
\* seen without a review of it.
LEMMA PushSchedules ==
  ASSUME TypeOK, [Next]_vars, NEW q \in PR, attempted[q] = seen[q],
         attempted'[q] # seen'[q]
  PROVE  Scheduled(q)'
<1> USE DEF TypeOK
<1>1. ASSUME NEW pr \in PR, Synchronize(pr)
      PROVE  Scheduled(q)'
  <2>1. q = pr
    BY <1>1 DEF Synchronize
  <2>2. QED
    BY <1>1, <2>1 DEF Synchronize, Cancelled, Scheduled
<1>2. ASSUME NEW pr \in PR, Opened(pr) \/ TaskStarts(pr)
      PROVE  FALSE
  BY <1>2 DEF Opened, TaskStarts, StartReview
<1>3. CASE InlineReviewEnds \/ Tick \/ UNCHANGED vars
  BY <1>3 DEF InlineReviewEnds, Tick, vars
<1>4. ASSUME NEW h \in Handle, TimerFires(h)
      PROVE  FALSE
  BY <1>4 DEF TimerFires
<1>5. QED
  BY <1>1, <1>2, <1>3, <1>4 DEF Next

\* No push is forgotten: whatever the order in which timers expire, tasks start
\* and further pushes arrive, a push without a review still has the task or the
\* timer that will start one.
THEOREM NoPushForgotten == Spec => []PushIsPending
<1>1. Init => PushIsPending
  BY DEF Init, PushIsPending
<1>2. TypeOK /\ TimersAreOwn /\ PushIsPending /\ [Next]_vars => PushIsPending'
  <2> SUFFICES ASSUME TypeOK, TimersAreOwn, PushIsPending, [Next]_vars,
                      NEW q \in PR, attempted'[q] # seen'[q]
               PROVE  Scheduled(q)'
    BY DEF PushIsPending, Scheduled
  <2>1. CASE attempted[q] = seen[q]
    BY <2>1, PushSchedules
  <2>2. CASE attempted[q] # seen[q]
    BY <2>2, ScheduledStays DEF PushIsPending, Scheduled
  <2>3. QED
    BY <2>1, <2>2
<1>3. QED
  BY <1>1, <1>2, TypeCorrect, TimersStayOwn, PTL DEF Spec

\* The quiet period is measured from the latest push: a timer that a push can
\* still reset is never early and never late with respect to it.
THEOREM QuietPeriodIsFull == Spec => []TimerCountsFromLatestPush
<1>1. Init => TimerCountsFromLatestPush
  BY DEF Init, TimerCountsFromLatestPush
<1>2. TypeOK /\ TimersAreOwn /\ TimerCountsFromLatestPush /\ [Next]_vars
        => TimerCountsFromLatestPush'
  <2> SUFFICES ASSUME TypeOK, TimersAreOwn, TimerCountsFromLatestPush,
                      [Next]_vars
               PROVE  TimerCountsFromLatestPush'
    OBVIOUS
  <2> USE DEF TypeOK, TimerCountsFromLatestPush
  <2>1. ASSUME NEW pr \in PR, Opened(pr)
        PROVE  TimerCountsFromLatestPush'
    BY <2>1 DEF Opened, Cancelled, Idle
  <2>2. ASSUME NEW pr \in PR, Synchronize(pr)
        PROVE  TimerCountsFromLatestPush'
    BY <2>2 DEF Synchronize, Cancelled, Idle, Free, TimersAreOwn
  <2>3. ASSUME NEW pr \in PR, TaskStarts(pr)
        PROVE  TimerCountsFromLatestPush'
    BY <2>3 DEF TaskStarts
  <2>4. ASSUME NEW h \in Handle, TimerFires(h)
        PROVE  TimerCountsFromLatestPush'
    BY <2>4 DEF TimerFires, Idle
  <2>5. CASE InlineReviewEnds
    BY <2>5 DEF InlineReviewEnds
  <2>6. CASE Tick
    BY <2>6 DEF Tick
  <2>7. CASE UNCHANGED vars
    BY <2>7 DEF vars
  <2>8. QED
    BY <2>1, <2>2, <2>3, <2>4, <2>5, <2>6, <2>7 DEF Next
<1>3. QED
  BY <1>1, <1>2, TypeCorrect, TimersStayOwn, PTL DEF Spec

\* The reactor implements the safety part of ReviewDebounce: a review that
\* starts covers everything pushed so far, nothing else changes what is
\* covered, and timers, handles and tasks stay out of sight.
THEOREM ReactorImplementsPromise == Spec => Promise!SafeSpec
<1>1. Init => Promise!Init
  BY DEF Init, Promise!Init
<1>2. TypeOK /\ [Next]_vars => [Promise!Next]_(Promise!vars)
  <2> SUFFICES ASSUME TypeOK, [Next]_vars
               PROVE  Promise!Next \/ UNCHANGED Promise!vars
    OBVIOUS
  <2>1. ASSUME NEW pr \in PR, Opened(pr)
        PROVE  Promise!ReviewOnOpen(pr)
    BY <2>1 DEF Opened, StartReview, Promise!ReviewOnOpen
  <2>2. ASSUME NEW pr \in PR, Synchronize(pr)
        PROVE  Promise!Push(pr)
    BY <2>2 DEF Synchronize, Promise!Push
  <2>3. ASSUME NEW pr \in PR, TaskStarts(pr)
        PROVE  Promise!Review(pr) \/ UNCHANGED Promise!vars
    <3>1. CASE attempted[pr] = seen[pr]
      BY <2>3, <3>1 DEF TaskStarts, StartReview, TypeOK, Promise!vars
    <3>2. CASE attempted[pr] # seen[pr]
      BY <2>3, <3>2 DEF TaskStarts, StartReview, Promise!Review
    <3>3. QED
      BY <3>1, <3>2
  <2>4. ASSUME NEW h \in Handle, TimerFires(h)
        PROVE  UNCHANGED Promise!vars
    BY <2>4 DEF TimerFires, Promise!vars
  <2>5. CASE InlineReviewEnds \/ Tick \/ UNCHANGED vars
    BY <2>5 DEF InlineReviewEnds, Tick, vars, Promise!vars
  <2>6. QED
    BY <2>1, <2>2, <2>3, <2>4, <2>5 DEF Next, Promise!Next
<1>3. QED
  BY <1>1, <1>2, TypeCorrect, PTL DEF Spec, Promise!SafeSpec

\* The handles the loop holds for a pull request are finitely many.
LEMMA ArmedIsFinite ==
  ASSUME NEW pr \in PR
  PROVE  IsFiniteSet(Armed(pr)) /\ Cardinality(Armed(pr)) \in Nat
  BY HandleAssumption, FS_Subset, FS_CardinalityType DEF Armed

\* Sets that grow by at most one element grow in cardinality by at most one.
LEMMA CardinalityStep ==
  ASSUME NEW S, IsFiniteSet(S), NEW T, NEW x, T \subseteq S \cup {x}
  PROVE  /\ Cardinality(T) \in Nat /\ Cardinality(S) \in Nat
         /\ Cardinality(T) <= Cardinality(S) + 1
<1>1. IsFiniteSet(S \cup {x}) /\ Cardinality(S) \in Nat
      /\ Cardinality(S \cup {x}) \in Nat
  BY FS_AddElement, FS_CardinalityType
<1>2. Cardinality(S \cup {x}) <= Cardinality(S) + 1
  BY <1>1, FS_AddElement
<1>3. Cardinality(T) \in Nat /\ Cardinality(T) <= Cardinality(S \cup {x})
  BY <1>1, FS_Subset, FS_CardinalityType
<1>4. QED
  BY <1>1, <1>2, <1>3

LEMMA CardinalitySubset ==
  ASSUME NEW S, IsFiniteSet(S), NEW T, T \subseteq S
  PROVE  /\ Cardinality(T) \in Nat /\ Cardinality(S) \in Nat
         /\ Cardinality(T) <= Cardinality(S)
  BY FS_Subset, FS_CardinalityType

\* A reactor with nothing scheduled, new or started again, has no review to account
\* for but those that started.
LEMMA NothingScheduled ==
  ASSUME loop' = [h \in Handle |-> Idle], ready' = [pr \in PR |-> 0],
         \A pr \in PR : starts'[pr] \in Nat /\ starts'[pr] <= seen'[pr]
  PROVE  OneReviewPerEvent'
<1>1. ASSUME NEW pr \in PR
      PROVE  starts'[pr] + ready'[pr] + Cardinality(Armed(pr)') <= seen'[pr]
  <2>1. Armed(pr)' = {}
    BY DEF Armed, Idle
  <2>2. Cardinality(Armed(pr)') = 0
    BY <2>1, FS_EmptySet
  <2>3. QED
    BY <2>2
<1>2. QED
  BY <1>1 DEF OneReviewPerEvent

LEMMA StartsAreAskedFor ==
  ASSUME TypeOK, OneReviewPerEvent, NEW pr \in PR
  PROVE  starts[pr] \in Nat /\ seen[pr] \in Nat /\ starts[pr] <= seen[pr]
  BY ArmedIsFinite DEF TypeOK, OneReviewPerEvent

LEMMA OnePerEventAtFirst == Init => OneReviewPerEvent
<1> SUFFICES ASSUME Init, NEW pr \in PR
             PROVE  starts[pr] + ready[pr] + Cardinality(Armed(pr)) <= seen[pr]
  BY DEF OneReviewPerEvent
<1>1. Armed(pr) = {}
  BY DEF Init, Armed, Idle
<1>2. QED
  BY <1>1, FS_EmptySet DEF Init

LEMMA OnePerEventStays ==
  ASSUME TypeOK, OneReviewPerEvent, [Next]_vars
  PROVE  OneReviewPerEvent'
<1> SUFFICES ASSUME NEW q \in PR
             PROVE  starts'[q] + ready'[q] + Cardinality(Armed(q)')
                      <= seen'[q]
  BY DEF OneReviewPerEvent
<1> DEFINE Goal == starts'[q] + ready'[q] + Cardinality(Armed(q)') <= seen'[q]
<1>0. /\ IsFiniteSet(Armed(q)) /\ Cardinality(Armed(q)) \in Nat
      /\ starts[q] \in Nat /\ ready[q] \in Nat /\ seen[q] \in Nat
      /\ starts[q] + ready[q] + Cardinality(Armed(q)) <= seen[q]
  BY ArmedIsFinite DEF TypeOK, OneReviewPerEvent
<1>1. ASSUME NEW pr \in PR, Opened(pr)
      PROVE  Goal
  <2>1. Armed(q)' \subseteq Armed(q)
    BY <1>1 DEF Opened, Cancelled, Armed, Idle, TypeOK
  <2>2. Cardinality(Armed(q)') \in Nat
        /\ Cardinality(Armed(q)') <= Cardinality(Armed(q))
    BY <1>0, <2>1, CardinalitySubset
  <2>3. ready' = ready
        /\ IF q = pr THEN seen'[q] = seen[q] + 1 /\ starts'[q] = starts[q] + 1
                     ELSE seen'[q] = seen[q] /\ starts'[q] = starts[q]
    BY <1>1 DEF Opened, StartReview, TypeOK
  <2>4. QED
    BY <1>0, <2>2, <2>3
<1>2. ASSUME NEW pr \in PR, Synchronize(pr)
      PROVE  Goal
  <2>1. PICK h \in Handle :
          loop' = [Cancelled(pr) EXCEPT ![h] = [pr |-> pr, left |-> Debounce]]
    BY <1>2 DEF Synchronize
  <2>2. ready' = ready /\ starts' = starts
    BY <1>2 DEF Synchronize
  <2>3. CASE q = pr
    <3>1. Armed(q)' \subseteq Armed(q) \cup {h}
      BY <2>1 DEF Cancelled, Armed, Idle, TypeOK
    <3>2. Cardinality(Armed(q)') \in Nat
          /\ Cardinality(Armed(q)') <= Cardinality(Armed(q)) + 1
      BY <1>0, <3>1, CardinalityStep
    <3>3. seen'[q] = seen[q] + 1
      BY <1>2, <2>3 DEF Synchronize, TypeOK
    <3>4. QED
      BY <1>0, <2>2, <3>2, <3>3
  <2>4. CASE q # pr
    <3>1. Armed(q)' \subseteq Armed(q)
      BY <2>1, <2>4 DEF Cancelled, Armed, Idle, TypeOK
    <3>2. Cardinality(Armed(q)') \in Nat
          /\ Cardinality(Armed(q)') <= Cardinality(Armed(q))
      BY <1>0, <3>1, CardinalitySubset
    <3>3. seen'[q] = seen[q]
      BY <1>2, <2>4 DEF Synchronize, TypeOK
    <3>4. QED
      BY <1>0, <2>2, <3>2, <3>3
  <2>5. QED
    BY <2>3, <2>4
<1>3. ASSUME NEW pr \in PR, TaskStarts(pr)
      PROVE  Goal
  <2>1. Armed(q)' = Armed(q) /\ seen' = seen
    BY <1>3 DEF TaskStarts, Armed
  <2>2. IF q = pr THEN starts'[q] = starts[q] + 1 /\ ready'[q] = ready[q] - 1
                  ELSE starts'[q] = starts[q] /\ ready'[q] = ready[q]
    BY <1>3 DEF TaskStarts, StartReview, TypeOK
  <2>3. QED
    BY <1>0, <2>1, <2>2
<1>4. ASSUME NEW h \in Handle, TimerFires(h)
      PROVE  Goal
  <2>1. starts' = starts /\ seen' = seen
    BY <1>4 DEF TimerFires
  <2>2. CASE loop[h].pr = q
    <3>1. Armed(q)' = Armed(q) \ {h} /\ h \in Armed(q)
      BY <1>4, <2>2 DEF TimerFires, Armed, Idle, TypeOK
    <3>2. Cardinality(Armed(q)') = Cardinality(Armed(q)) - 1
      BY <1>0, <3>1, FS_RemoveElement
    <3>3. ready'[q] = ready[q] + 1
      BY <1>4, <2>2 DEF TimerFires, TypeOK
    <3>4. QED
      BY <1>0, <2>1, <3>2, <3>3
  <2>3. CASE loop[h].pr # q
    <3>1. Armed(q)' = Armed(q) /\ ready'[q] = ready[q]
      BY <1>4, <2>3 DEF TimerFires, Armed, Idle, TypeOK
    <3>2. QED
      BY <1>0, <2>1, <3>1
  <2>4. QED
    BY <2>2, <2>3
<1>5. CASE InlineReviewEnds
  BY <1>0, <1>5 DEF InlineReviewEnds, Armed
<1>6. CASE Tick
  <2>1. Armed(q)' = Armed(q)
    BY <1>6 DEF Tick, Armed, TypeOK
  <2>2. QED
    BY <1>0, <1>6, <2>1 DEF Tick
<1>7. CASE UNCHANGED vars
  BY <1>0, <1>7 DEF vars, Armed
<1>8. QED
  BY <1>1, <1>2, <1>3, <1>4, <1>5, <1>6, <1>7 DEF Next

\* No review is started, waiting or scheduled that no event of its own asked
\* for: rapid pushes never multiply reviews.
THEOREM ReviewsAreAskedFor == Spec => []OneReviewPerEvent
<1>1. TypeOK /\ OneReviewPerEvent /\ [Next]_vars => OneReviewPerEvent'
  BY OnePerEventStays
<1>2. QED
  BY <1>1, OnePerEventAtFirst, TypeCorrect, PTL DEF Spec

\* A timer out of reach of later pushes is the trace of a review that started
\* while a newer push was waiting: there are never more of them than reviews.
THEOREM StraysAreBounded == Spec => []StraysComeFromReviews
<1>1. Init => StraysComeFromReviews
  <2> SUFFICES ASSUME Init, NEW pr \in PR
               PROVE  Cardinality(Armed(pr) \ {timers[pr]}) <= starts[pr]
    BY DEF StraysComeFromReviews
  <2>1. Armed(pr) \ {timers[pr]} = {}
    BY DEF Init, Armed, Idle
  <2>2. QED
    BY <2>1, FS_EmptySet DEF Init
<1>2. TypeOK /\ TimersAreOwn /\ StraysComeFromReviews /\ [Next]_vars
        => StraysComeFromReviews'
  <2> SUFFICES ASSUME TypeOK, TimersAreOwn, StraysComeFromReviews, [Next]_vars,
                      NEW q \in PR
               PROVE  Cardinality(Armed(q)' \ {timers'[q]}) <= starts'[q]
    BY DEF StraysComeFromReviews
  <2> DEFINE Strays == Armed(q) \ {timers[q]}
             Strays2 == Armed(q)' \ {timers'[q]}
             Goal == Cardinality(Strays2) <= starts'[q]
  <2>0. /\ IsFiniteSet(Strays) /\ Cardinality(Strays) \in Nat
        /\ starts[q] \in Nat /\ Cardinality(Strays) <= starts[q]
    BY ArmedIsFinite, FS_Subset, FS_CardinalityType
       DEF TypeOK, StraysComeFromReviews
  <2>1. ASSUME Strays2 \subseteq Strays, starts'[q] \in Nat,
               starts'[q] >= starts[q]
        PROVE  Goal
    <3>1. Cardinality(Strays2) \in Nat /\ Cardinality(Strays2) <= Cardinality(Strays)
      BY <2>0, <2>1, CardinalitySubset
    <3>2. QED
      BY <2>0, <2>1, <3>1
  <2>2. ASSUME NEW pr \in PR, Opened(pr)
        PROVE  Goal
    <3>1. Strays2 \subseteq Strays
      BY <2>2 DEF Opened, Cancelled, Armed, Idle, TypeOK
    <3>2. starts'[q] \in Nat /\ starts'[q] >= starts[q]
      BY <2>2 DEF Opened, StartReview, TypeOK
    <3>3. QED
      BY <2>1, <3>1, <3>2
  <2>3. ASSUME NEW pr \in PR, Synchronize(pr)
        PROVE  Goal
    <3>1. PICK h \in Handle :
            /\ Free(h)
            /\ timers' = [timers EXCEPT ![pr] = h]
            /\ loop' = [Cancelled(pr) EXCEPT ![h] = [pr |-> pr, left |-> Debounce]]
      BY <2>3 DEF Synchronize
    <3>2. Strays2 \subseteq Strays
      BY <3>1 DEF Cancelled, Armed, Idle, Free, TypeOK
    <3>3. starts'[q] \in Nat /\ starts'[q] >= starts[q]
      BY <2>3 DEF Synchronize, TypeOK
    <3>4. QED
      BY <2>1, <3>2, <3>3
  <2>4. ASSUME NEW pr \in PR, TaskStarts(pr)
        PROVE  Goal
    <3>1. CASE q = pr
      <4>1. Strays2 \subseteq Strays \cup {timers[q]}
        BY <2>4 DEF TaskStarts, Armed
      <4>2. Cardinality(Strays2) \in Nat
            /\ Cardinality(Strays2) <= Cardinality(Strays) + 1
        BY <2>0, <4>1, CardinalityStep
      <4>3. starts'[q] = starts[q] + 1
        BY <2>4, <3>1 DEF TaskStarts, StartReview, TypeOK
      <4>4. QED
        BY <2>0, <4>2, <4>3
    <3>2. CASE q # pr
      <4>1. Strays2 \subseteq Strays /\ starts'[q] = starts[q]
        BY <2>4, <3>2 DEF TaskStarts, StartReview, Armed, TypeOK
      <4>2. QED
        BY <2>0, <2>1, <4>1
    <3>3. QED
      BY <3>1, <3>2
  <2>5. ASSUME NEW h \in Handle, TimerFires(h)
        PROVE  Goal
    <3>1. Strays2 \subseteq Strays /\ starts' = starts
      BY <2>5 DEF TimerFires, Armed, Idle, TypeOK
    <3>2. QED
      BY <2>0, <2>1, <3>1
  <2>6. CASE InlineReviewEnds
    BY <2>0, <2>6 DEF InlineReviewEnds, Armed
  <2>7. CASE Tick
    <3>1. Strays2 \subseteq Strays /\ starts' = starts
      BY <2>7 DEF Tick, Armed, TypeOK
    <3>2. QED
      BY <2>0, <2>1, <3>1
  <2>8. CASE UNCHANGED vars
    BY <2>0, <2>8 DEF vars, Armed
  <2>9. QED
    BY <2>2, <2>3, <2>4, <2>5, <2>6, <2>7, <2>8 DEF Next
<1>3. QED
  BY <1>1, <1>2, TypeCorrect, TimersStayOwn, PTL DEF Spec
=============================================================================
