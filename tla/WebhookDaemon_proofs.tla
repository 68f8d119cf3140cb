------------------------- MODULE WebhookDaemon_proofs -------------------------
(***************************************************************************)
(* Proofs about the webhook server as one process, for any pull requests,  *)
(* deliveries, handles and delays: what is proved of the listener and of   *)
(* the reactor is put together.                                            *)
(***************************************************************************)
EXTENDS WebhookDaemon, FiniteSetTheorems, TLAPS

USE EventAssumption, ListenerAssumption, ReactorAssumption

SmeeProofs == INSTANCE SmeeClient_proofs WITH Opened <- OpenedEvent

ReactorProofs ==
  INSTANCE PRReactor_proofs WITH MaxEvents <- MaxReads * Cardinality(Delivery)

\* The bound on a pull request's events is a number.
LEMMA EventsAreBounded == MaxReads * Cardinality(Delivery) \in Nat
<1>1. Cardinality(Delivery) \in Nat
  BY FiniteAssumption, FS_CardinalityType
<1>2. QED
  BY <1>1

\* Seen alone, the listener of the daemon is the listener: the reactor's steps
\* leave it alone, and those it takes part in are its own.
THEOREM ListenerIsKept == Spec => SmeeProofs!SafeSpec
<1>1. Init => SmeeProofs!Init
  BY DEF Init, Smee!Init, SmeeProofs!Init
<1>2. Smee!Listen => SmeeProofs!Next
  BY DEF SmeeProofs!Next,
         Smee!Listen, Smee!ConnectFails, Smee!Responds, Smee!Accepted, 
         Smee!Rejected, Smee!StreamEnds, Smee!SleepEnds, Smee!Sleep, 
         Smee!AtMost, Smee!message, Smee!ghosts, Smee!rows,
         SmeeProofs!Listen, 
         SmeeProofs!ConnectFails, SmeeProofs!Responds, SmeeProofs!Accepted, 
         SmeeProofs!Rejected, SmeeProofs!StreamEnds, SmeeProofs!SleepEnds, 
         SmeeProofs!Sleep, SmeeProofs!AtMost, SmeeProofs!message, 
         SmeeProofs!ghosts, SmeeProofs!rows
<1>3. ASSUME NEW d \in Delivery, Smee!Read(d)
      PROVE  SmeeProofs!Next
  BY <1>3 DEF SmeeProofs!Next, Smee!Read, Smee!rows, SmeeProofs!Read, SmeeProofs!rows
<1>4. Smee!Store \/ Smee!StoreRaises \/ Smee!Notify => SmeeProofs!Next
  BY DEF SmeeProofs!Next, SmeeProofs!Process,
         Smee!Store, Smee!StoreRaises, Smee!Notify, Smee!Sleep, Smee!AtMost, 
         Smee!Done, Smee!message, Smee!ghosts, Smee!rows,
         SmeeProofs!Store, 
         SmeeProofs!StoreRaises, SmeeProofs!Notify, SmeeProofs!Sleep, 
         SmeeProofs!AtMost, SmeeProofs!Done, SmeeProofs!message, 
         SmeeProofs!ghosts, SmeeProofs!rows
<1>5. Smee!ReviewEnds \/ Smee!ReviewRaises \/ Smee!Crash => SmeeProofs!Next
  BY DEF SmeeProofs!Next,
         Smee!ReviewEnds, Smee!ReviewRaises, Smee!Crash, Smee!Sleep, 
         Smee!AtMost, Smee!Done, Smee!ghosts, Smee!rows,
         SmeeProofs!ReviewEnds, 
         SmeeProofs!ReviewRaises, SmeeProofs!Crash, SmeeProofs!Sleep, 
         SmeeProofs!AtMost, SmeeProofs!Done, SmeeProofs!ghosts, SmeeProofs!rows
<1>6. Smee!PruneCommits => SmeeProofs!Next
  BY DEF SmeeProofs!Next, Smee!PruneCommits, Smee!message, Smee!ghosts,
         SmeeProofs!PruneCommits, SmeeProofs!message, SmeeProofs!ghosts
<1>7. UNCHANGED listener => UNCHANGED SmeeProofs!vars
  BY DEF listener, SmeeProofs!vars
<1>8. [Next]_vars => [SmeeProofs!Next]_SmeeProofs!vars
  <2>1. ListenerStep \/ Tell \/ InlineReviewEnds \/ Crash => SmeeProofs!Next
    BY <1>2, <1>3, <1>4, <1>5, <1>6 DEF ListenerStep, Tell, PassOver, TellOpened, TellPush,
       InlineReviewEnds, Crash
  <2>2. Tick \/ (\E h \in Handle : TimerFires(h)) \/ (\E pr \in PR : TaskStarts(pr))
          => UNCHANGED listener
    BY DEF Tick, TimerFires, TaskStarts
  <2>3. UNCHANGED vars => UNCHANGED listener
    BY DEF vars, listener
  <2>4. QED
    BY <1>7, <2>1, <2>2, <2>3 DEF Next
<1>9. QED
  BY <1>1, <1>8, PTL DEF Spec, SmeeProofs!SafeSpec

\* What holds of the listener holds of it in the daemon.
LEMMA ListenerHolds ==
  Spec => [](Smee!TypeOK /\ Smee!ToldIsStored /\ Smee!StoredIsTold)
<1>1. SmeeProofs!TypeOK => Smee!TypeOK
  BY DEF SmeeProofs!TypeOK, Smee!TypeOK
<1>2. SmeeProofs!ToldIsStored => Smee!ToldIsStored
  BY DEF SmeeProofs!ToldIsStored, Smee!ToldIsStored
<1>3. SmeeProofs!StoredIsTold => Smee!StoredIsTold
  BY DEF SmeeProofs!StoredIsTold, Smee!StoredIsTold
<1>4. /\ OpenedEvent \subseteq PullRequest /\ PullRequest \subseteq Delivery
      /\ NoMessage \notin Delivery
  OBVIOUS
<1>5. MaxBackoff \in Nat \ {0}
  OBVIOUS
<1>6. StoreFails \in BOOLEAN
  OBVIOUS
<1>7. MaxReads \in Nat /\ MaxTries \in Nat
  OBVIOUS
<1>8. SmeeProofs!SafeSpec => []SmeeProofs!TypeOK
  BY <1>4, <1>5, <1>6, <1>7, SmeeProofs!TypeCorrect
<1>9. SmeeProofs!SafeSpec => []SmeeProofs!ToldIsStored
  BY <1>4, <1>5, <1>6, <1>7, SmeeProofs!ReactorActsOnStored
<1>10. SmeeProofs!SafeSpec => []SmeeProofs!StoredIsTold
  BY <1>4, <1>5, <1>6, <1>7, SmeeProofs!OnlyFailuresSilence
<1>11. QED
  BY <1>1, <1>2, <1>3, <1>8, <1>9, <1>10, ListenerIsKept, PTL

-----------------------------------------------------------------------------
\* A step of the daemon in which its process does not end is one of the reactor's,
\* or leaves the reactor alone.
LEMMA ReactorSteps ==
  ASSUME [Next]_vars, ~Crash
  PROVE  [ReactorProofs!Next]_ReactorProofs!vars
<1>1. ASSUME NEW pr \in PR, Reactor!Opened(pr)
      PROVE  ReactorProofs!Opened(pr)
  BY <1>1 DEF Reactor!Opened, Reactor!Cancelled, Reactor!StartReview, 
              Reactor!Idle, ReactorProofs!Opened, ReactorProofs!Cancelled, 
              ReactorProofs!StartReview, ReactorProofs!Idle
<1>2. ASSUME NEW pr \in PR, Reactor!Synchronize(pr)
      PROVE  ReactorProofs!Synchronize(pr)
  BY <1>2 DEF Reactor!Synchronize, Reactor!Cancelled, Reactor!Free, Reactor!Idle, 
              ReactorProofs!Synchronize, ReactorProofs!Cancelled, 
              ReactorProofs!Free, ReactorProofs!Idle
<1>3. ASSUME NEW pr \in PR, Reactor!TaskStarts(pr)
      PROVE  ReactorProofs!TaskStarts(pr)
  BY <1>3 DEF Reactor!TaskStarts, Reactor!StartReview, ReactorProofs!TaskStarts, 
              ReactorProofs!StartReview
<1>4. ASSUME NEW h \in Handle, Reactor!TimerFires(h)
      PROVE  ReactorProofs!TimerFires(h)
  BY <1>4 DEF Reactor!TimerFires, Reactor!Idle, ReactorProofs!TimerFires, 
              ReactorProofs!Idle
<1>5. Reactor!InlineReviewEnds => ReactorProofs!InlineReviewEnds
  BY DEF Reactor!InlineReviewEnds, ReactorProofs!InlineReviewEnds
<1>6. Reactor!Tick => ReactorProofs!Tick
  BY DEF Reactor!Tick, ReactorProofs!Tick
<1>7. UNCHANGED reactor => UNCHANGED ReactorProofs!vars
  BY DEF reactor, ReactorProofs!vars
<1>8. CASE ListenerStep \/ PassOver \/ UNCHANGED vars
  BY <1>7, <1>8 DEF ListenerStep, PassOver, vars, reactor
<1>9. CASE TellOpened
  <2>1. PrOf[msg] \in PR /\ Reactor!Opened(PrOf[msg])
    BY <1>9 DEF TellOpened, Reviewable
  <2>2. QED
    BY <1>1, <2>1 DEF ReactorProofs!Next
<1>10. CASE TellPush
  <2>1. PrOf[msg] \in PR /\ Reactor!Synchronize(PrOf[msg])
    BY <1>10 DEF TellPush, Reviewable
  <2>2. QED
    BY <1>2, <2>1 DEF ReactorProofs!Next
<1>11. CASE InlineReviewEnds \/ Tick
  BY <1>5, <1>6, <1>11 DEF InlineReviewEnds, Tick, ReactorProofs!Next
<1>12. CASE \E h \in Handle : TimerFires(h)
  BY <1>4, <1>12 DEF TimerFires, ReactorProofs!Next
<1>13. CASE \E pr \in PR : TaskStarts(pr)
  BY <1>3, <1>13 DEF TaskStarts, ReactorProofs!Next
<1>14. QED
  BY <1>8, <1>9, <1>10, <1>11, <1>12, <1>13 DEF Next, Tell

\* The reactor's lemmas about its steps, of the reactor in the daemon.
LEMMA ReactorStepHolds ==
  ASSUME Reactor!TypeOK, Reactor!TimersAreOwn, [Next]_vars, ~Crash
  PROVE  /\ Reactor!TypeOK' /\ Reactor!TimersAreOwn'
         /\ \A q \in PR : Scheduled(q) => Scheduled(q)' \/ starts'[q] = starts[q] + 1
<1>1. NoPR \notin PR /\ NoHandle \notin Handle
  OBVIOUS
<1>2. ReactorProofs!IsFiniteSet(Handle)
  BY DEF IsFiniteSet, ReactorProofs!IsFiniteSet
<1>3. Debounce \in Nat /\ MaxReads * Cardinality(Delivery) \in Nat
  BY EventsAreBounded
<1>4. ReactorProofs!TypeOK /\ ReactorProofs!TimersAreOwn
  BY DEF Reactor!TypeOK, ReactorProofs!TypeOK, Reactor!TimersAreOwn,
         ReactorProofs!TimersAreOwn, Reactor!SpentHandlesWait,
         ReactorProofs!SpentHandlesWait
<1>5. [ReactorProofs!Next]_ReactorProofs!vars
  BY ReactorSteps
<1>6. ReactorProofs!TypeOK'
  BY <1>1, <1>2, <1>3, <1>4, <1>5, ReactorProofs!TypesStay
<1>7. ReactorProofs!TimersAreOwn'
  BY <1>1, <1>2, <1>3, <1>4, <1>5, ReactorProofs!TimersStay
<1>8. ASSUME NEW q \in PR, Scheduled(q)
      PROVE  Scheduled(q)' \/ starts'[q] = starts[q] + 1
  <2>1. ReactorProofs!Scheduled(q)
    BY <1>8 DEF Scheduled, ReactorProofs!Scheduled
  <2>2. ReactorProofs!Scheduled(q)' \/ starts'[q] = starts[q] + 1
    BY <1>1, <1>2, <1>3, <1>4, <1>5, <2>1, ReactorProofs!ScheduledStays
  <2>3. QED
    BY <2>2 DEF Scheduled, ReactorProofs!Scheduled
<1>9. QED
  BY <1>6, <1>7, <1>8 DEF Reactor!TypeOK, ReactorProofs!TypeOK, Reactor!TimersAreOwn,
                          ReactorProofs!TimersAreOwn, Reactor!SpentHandlesWait,
                          ReactorProofs!SpentHandlesWait

\* The end of a process leaves an empty reactor, and nothing else disturbs it.
LEMMA ReactorHolds == Spec => [](Reactor!TypeOK /\ Reactor!TimersAreOwn)
<1>1. Init => Reactor!TypeOK /\ Reactor!TimersAreOwn
  BY EventsAreBounded DEF Init, Reactor!Init, Reactor!TypeOK, Reactor!SpentHandlesWait,
                          Reactor!TimersAreOwn, Reactor!Idle
<1>2. Reactor!TypeOK /\ Reactor!TimersAreOwn /\ [Next]_vars
        => (Reactor!TypeOK /\ Reactor!TimersAreOwn)'
  <2> SUFFICES ASSUME Reactor!TypeOK, Reactor!TimersAreOwn, [Next]_vars
               PROVE  (Reactor!TypeOK /\ Reactor!TimersAreOwn)'
    OBVIOUS
  <2>1. CASE Crash
    BY <2>1 DEF Crash, Reactor!TypeOK, Reactor!SpentHandlesWait, Reactor!TimersAreOwn,
                Reactor!Idle
  <2>2. CASE ~Crash
    BY <2>2, ReactorStepHolds
  <2>3. QED
    BY <2>1, <2>2
<1>3. QED
  BY <1>1, <1>2, PTL DEF Spec

\* The listener and the reactor agree about the review that the listener awaits
\* (reactor.py:70), and the variables of both keep their types.
Agreed ==
  /\ reviewed \subseteq Reviewable /\ forgotten \subseteq Reviewable
  /\ stage = "reviewing" => msg \in OpenedEvent /\ stream = PrOf[msg]
  /\ stage # "reviewing" => stream = NoPR

THEOREM DaemonTypeCorrect == Spec => []TypeOK
<1>1. Init => Agreed
  BY DEF Init, Agreed, Smee!Init, Reactor!Init
<1>2. Smee!TypeOK /\ Agreed /\ [Next]_vars => Agreed'
  <2> SUFFICES ASSUME Smee!TypeOK, Agreed, [Next]_vars
               PROVE  Agreed'
    OBVIOUS
  <2> USE DEF Agreed
  <2>0. msg = NoMessage <=> stage = "none"
    BY DEF Smee!TypeOK
  <2>1. ASSUME Smee!Listen, UNCHANGED <<reactor, fates>>
        PROVE  Agreed'
    <3>1. UNCHANGED <<msg, stage, stream, reviewed, forgotten>>
      BY <2>1 DEF Smee!Listen, Smee!ConnectFails, Smee!Responds, Smee!Accepted,
         Smee!Rejected, Smee!StreamEnds, Smee!SleepEnds, Smee!message, reactor, fates
    <3>2. QED
      BY <3>1
  <2>2. CASE ListenerStep
    <3>1. ASSUME Smee!Store \/ Smee!StoreRaises \/ \E d \in Delivery : Smee!Read(d)
          PROVE  stage # "reviewing" /\ stage' # "reviewing"
      BY <2>0, <3>1 DEF Smee!Store, Smee!StoreRaises, Smee!Read
    <3>2. Smee!PruneCommits => UNCHANGED <<msg, stage>>
      BY DEF Smee!PruneCommits, Smee!message
    <3>3. QED
      BY <2>1, <2>2, <3>1, <3>2 DEF ListenerStep, reactor, fates
  <2>3. CASE PassOver \/ TellPush
    <3>1. stage = "stored" /\ stage' = "none" /\ stream' = stream
      BY <2>3 DEF PassOver, TellPush, Smee!Notify, Smee!Done, Reviewable, reactor,
                  Reactor!Synchronize
    <3>2. reviewed' \subseteq reviewed /\ forgotten' = forgotten
      BY <2>3 DEF PassOver, TellPush, fates
    <3>3. QED
      BY <3>1, <3>2
  <2>4. CASE TellOpened
    <3>1. msg \in OpenedEvent /\ msg' = msg /\ stage' = "reviewing" /\ stream' = PrOf[msg]
      BY <2>4 DEF TellOpened, Smee!Notify, Reactor!Opened
    <3>2. Covers(PrOf[msg], ToldOf(PrOf[msg]) \cup {msg})
      BY <2>4 DEF TellOpened
    <3>3. reviewed' \subseteq Reviewable /\ forgotten' \subseteq Reviewable
      BY <3>1, <3>2 DEF Covers, ToldOf, Reviewable, fates
    <3>4. QED
      BY <3>1, <3>3
  <2>5. CASE InlineReviewEnds
    BY <2>5 DEF InlineReviewEnds, Smee!ReviewEnds, Smee!ReviewRaises, Smee!Done,
                Reactor!InlineReviewEnds, fates
  <2>6. CASE Tick \/ \E h \in Handle : TimerFires(h)
    BY <2>6 DEF Tick, TimerFires, Reactor!Tick, Reactor!TimerFires, listener, fates
  <2>7. ASSUME NEW pr \in PR, TaskStarts(pr)
        PROVE  Agreed'
    <3>1. UNCHANGED <<msg, stage, stream>>
      BY <2>7 DEF TaskStarts, Reactor!TaskStarts, listener
    <3>2. reviewed' \subseteq Reviewable /\ forgotten' \subseteq Reviewable
      BY <2>7 DEF TaskStarts, Covers, ToldOf, fates
    <3>3. QED
      BY <3>1, <3>2
  <2>8. CASE Crash
    BY <2>8 DEF Crash, Smee!Crash
  <2>9. CASE UNCHANGED vars
    BY <2>9 DEF vars
  <2>10. QED
    BY <2>2, <2>3, <2>4, <2>5, <2>6, <2>7, <2>8, <2>9 DEF Next, Tell
<1>3. Smee!TypeOK /\ Reactor!TypeOK /\ Agreed => TypeOK
  BY DEF Agreed, TypeOK
<1>4. QED
  BY <1>1, <1>2, <1>3, ListenerHolds, ReactorHolds, PTL DEF Spec

\* What becomes of an event in the table.
AccountedFor(d) ==
  \/ d \in reviewed \cup cut \cup forgotten
  \/ msg = d /\ stage = "stored"
  \/ Scheduled(PrOf[d])

\* README.md:237 of the webhook package, "15 minutes of quiet | One review
\* triggered", as far as safety goes: a stored event loses its review by nothing
\* but a refused write, an exception or the end of the process.
THEOREM OnlyFailuresLose == Spec => []OnlyFailuresLoseReviews
<1>1. Init => OnlyFailuresLoseReviews
  BY DEF Init, Smee!Init, OnlyFailuresLoseReviews
<1>2. Smee!TypeOK /\ Smee!ToldIsStored /\ Smee!StoredIsTold /\ Smee!StoredIsTold'
        /\ Reactor!TypeOK /\ Reactor!TimersAreOwn /\ OnlyFailuresLoseReviews
        /\ [Next]_vars => OnlyFailuresLoseReviews'
  <2> SUFFICES ASSUME Smee!TypeOK, Smee!ToldIsStored, Smee!StoredIsTold,
                      Smee!StoredIsTold', Reactor!TypeOK, Reactor!TimersAreOwn,
                      OnlyFailuresLoseReviews, [Next]_vars
               PROVE  OnlyFailuresLoseReviews'
    OBVIOUS
  <2> SUFFICES ASSUME NEW d \in table' \cap Reviewable
               PROVE  AccountedFor(d)'
    BY Zenon DEF AccountedFor, OnlyFailuresLoseReviews
  <2>1. d \in Delivery /\ d \in PullRequest /\ PrOf[d] \in PR
    BY DEF Reviewable
  <2>2. told'[d] > 0 \/ d \in cut' \/ (msg' = d /\ stage' = "stored")
    BY <2>1 DEF Smee!StoredIsTold
  <2>3. CASE Crash
    BY <2>1, <2>2, <2>3 DEF Crash, Smee!Crash, AccountedFor
  <2>4. CASE TellPush /\ msg = d
    <3> DEFINE pr == PrOf[d]
    <3>1. PICK h \in Handle :
            /\ timers' = [timers EXCEPT ![pr] = h]
            /\ loop' = [Reactor!Cancelled(pr) EXCEPT ![h] = [pr |-> pr, left |-> Debounce]]
      BY <2>4 DEF TellPush, Reactor!Synchronize
    <3>2. timers'[pr] = h /\ loop'[h].pr = pr
      BY <2>1, <3>1 DEF Reactor!Cancelled, Reactor!TypeOK
    <3>3. QED
      BY <3>2 DEF AccountedFor, Scheduled
  <2>5. CASE TellOpened /\ msg = d
    <3> DEFINE pr == PrOf[d]
    <3>1. starts[pr] \in Nat /\ starts' = [starts EXCEPT ![pr] = @ + 1]
      BY <2>1, <2>5 DEF TellOpened, Reactor!Opened, Reactor!StartReview, Reactor!TypeOK
    <3>2. starts'[pr] > starts[pr]
      BY <2>1, <3>1 DEF Reactor!TypeOK
    <3>3. d \in reviewed'
      BY <2>5, <3>2 DEF TellOpened, Covers
    <3>4. QED
      BY <3>3 DEF AccountedFor
  <2>6. CASE /\ ~Crash /\ ~((TellPush \/ TellOpened) /\ msg = d)
             /\ told'[d] > 0
    <3>1. told'[d] = told[d]
      <4>1. CASE ListenerStep
        BY <4>1 DEF ListenerStep, Smee!Listen, Smee!ConnectFails, Smee!Responds,
           Smee!Accepted, Smee!Rejected, Smee!StreamEnds, Smee!SleepEnds, Smee!Store,
           Smee!StoreRaises, Smee!PruneCommits, Smee!Read, Smee!ghosts
      <4>2. CASE Tell
        <5>1. msg # d
          BY <2>6, <4>2 DEF Tell, PassOver
        <5>2. QED
          BY <2>1, <4>2, <5>1 DEF Tell, PassOver, TellOpened, TellPush, Smee!Notify,
             Smee!TypeOK
      <4>3. CASE InlineReviewEnds
        BY <4>3 DEF InlineReviewEnds, Smee!ReviewEnds, Smee!ReviewRaises, Smee!ghosts
      <4>4. CASE Tick \/ (\E h \in Handle : TimerFires(h)) \/ \E pr \in PR : TaskStarts(pr)
        BY <4>4 DEF Tick, TimerFires, TaskStarts, listener
      <4>5. QED
        BY <2>6, <4>1, <4>2, <4>3, <4>4 DEF Next, vars
    <3>2. AccountedFor(d)
      <4>1. d \in table \/ d \in cut
        BY <2>1, <2>6, <3>1 DEF Smee!ToldIsStored, Smee!TypeOK
      <4>2. QED
        BY <2>1, <4>1 DEF OnlyFailuresLoseReviews, AccountedFor
    <3>3. CASE ListenerStep
      <4>1. cut \subseteq cut' /\ UNCHANGED <<reviewed, forgotten, timers, loop, ready>>
        BY <3>3 DEF ListenerStep, Smee!Listen, Smee!ConnectFails, Smee!Responds,
           Smee!Accepted, Smee!Rejected, Smee!StreamEnds, Smee!SleepEnds, Smee!Store,
           Smee!StoreRaises, Smee!PruneCommits, Smee!Read, Smee!ghosts, reactor, fates
      <4>2. msg = d /\ stage = "stored" => msg' = d /\ stage' = "stored"
        BY <2>1, <3>3 DEF ListenerStep, Smee!Listen, Smee!ConnectFails, Smee!Responds,
           Smee!Accepted, Smee!Rejected, Smee!StreamEnds, Smee!SleepEnds, Smee!Store,
           Smee!StoreRaises, Smee!PruneCommits, Smee!Read, Smee!message
      <4>3. QED
        BY <3>2, <4>1, <4>2 DEF AccountedFor, Scheduled
    <3>4. CASE ~ListenerStep
      <4>1. cut \subseteq cut'
        BY <2>6, <3>4 DEF Next, Tell, PassOver, TellOpened, TellPush, Smee!Notify,
           InlineReviewEnds, Smee!ReviewEnds, Smee!ReviewRaises, Smee!ghosts, Tick,
           TimerFires, TaskStarts, listener, vars
      <4>2. msg = d /\ stage = "stored" => msg' = d /\ stage' = "stored"
        BY <2>6, <3>4 DEF Next, Tell, PassOver, TellOpened, TellPush, InlineReviewEnds,
           Smee!ReviewEnds, Smee!ReviewRaises, Tick, TimerFires, TaskStarts, listener, vars
      <4>3. /\ d \in reviewed => d \in reviewed'
            /\ d \in forgotten => d \in forgotten' \cup reviewed'
        BY <2>6, <3>4 DEF Next, Tell, PassOver, TellOpened, TellPush, Covers,
           InlineReviewEnds, Tick, TimerFires, TaskStarts, fates, vars
      <4>4. Scheduled(PrOf[d]) => AccountedFor(d)'
        <5> SUFFICES ASSUME Scheduled(PrOf[d]), starts'[PrOf[d]] = starts[PrOf[d]] + 1
                     PROVE  d \in reviewed'
          BY <2>1, <2>6, ReactorStepHolds DEF AccountedFor
        <5>1. starts[PrOf[d]] \in Nat
          BY <2>1 DEF Reactor!TypeOK
        <5>3. d \in ToldOf(PrOf[d])
          BY <2>6, <3>1 DEF ToldOf
        <5>4. CASE TellOpened
          BY <2>1, <5>1, <5>3, <5>4 DEF TellOpened, Reactor!Opened, Reactor!StartReview,
             Reactor!TypeOK, Covers, Reviewable
        <5>5. ASSUME NEW pr \in PR, TaskStarts(pr)
              PROVE  d \in reviewed'
          BY <2>1, <5>1, <5>3, <5>5 DEF TaskStarts, Reactor!TaskStarts,
             Reactor!StartReview, Reactor!TypeOK, Covers
        <5>6. CASE ~TellOpened /\ ~ \E pr \in PR : TaskStarts(pr)
          <6>1. starts' = starts
            BY <2>6, <3>4, <5>6 DEF Next, Tell, PassOver, TellPush, Reactor!Synchronize,
               InlineReviewEnds, Reactor!InlineReviewEnds, Tick, Reactor!Tick, TimerFires,
               Reactor!TimerFires, reactor, vars
          <6>2. QED
            BY <5>1, <6>1
        <5>7. QED
          BY <5>4, <5>5, <5>6
      <4>5. QED
        BY <3>2, <4>1, <4>2, <4>3, <4>4 DEF AccountedFor
    <3>5. QED
      BY <3>3, <3>4
  <2>7. QED
    BY <2>2, <2>3, <2>4, <2>5, <2>6 DEF AccountedFor
<1>3. QED
  BY <1>1, <1>2, ListenerHolds, ReactorHolds, PTL DEF Spec

-----------------------------------------------------------------------------
\* No review without an event of its own, from one process to the next: the new one
\* has nothing scheduled.
LEMMA ReviewsHaveEvents == Spec => []ReactorProofs!OneReviewPerEvent
<1>0. /\ NoPR \notin PR /\ NoHandle \notin Handle
      /\ ReactorProofs!IsFiniteSet(Handle)
      /\ Debounce \in Nat /\ MaxReads * Cardinality(Delivery) \in Nat
  BY EventsAreBounded DEF IsFiniteSet, ReactorProofs!IsFiniteSet
<1>1. Init => ReactorProofs!OneReviewPerEvent
  <2>1. Init => ReactorProofs!Init
    BY DEF Init, Reactor!Init, ReactorProofs!Init, Reactor!Idle, ReactorProofs!Idle
  <2>2. QED
    BY <1>0, <2>1, ReactorProofs!OnePerEventAtFirst
<1>2. Reactor!TypeOK /\ ReactorProofs!OneReviewPerEvent /\ [Next]_vars
        => ReactorProofs!OneReviewPerEvent'
  <2> SUFFICES ASSUME Reactor!TypeOK, ReactorProofs!OneReviewPerEvent, [Next]_vars
               PROVE  ReactorProofs!OneReviewPerEvent'
    OBVIOUS
  <2>1. ReactorProofs!TypeOK
    BY DEF Reactor!TypeOK, ReactorProofs!TypeOK, Reactor!SpentHandlesWait,
           ReactorProofs!SpentHandlesWait
  <2>2. CASE Crash
    <3>1. /\ loop' = [h \in Handle |-> ReactorProofs!Idle]
          /\ ready' = [pr \in PR |-> 0]
          /\ UNCHANGED <<starts, seen>>
      BY <2>2 DEF Crash, Reactor!Idle, ReactorProofs!Idle
    <3>2. \A pr \in PR : starts'[pr] \in Nat /\ starts'[pr] <= seen'[pr]
      BY <1>0, <2>1, <3>1, ReactorProofs!StartsAreAskedFor
    <3>3. QED
      BY <1>0, <3>1, <3>2, ReactorProofs!NothingScheduled
  <2>3. CASE ~Crash
    BY <1>0, <2>1, <2>3, ReactorSteps, ReactorProofs!OnePerEventStays
  <2>4. QED
    BY <2>2, <2>3
<1>3. QED
  BY <1>1, <1>2, ReactorHolds, PTL DEF Spec

\* The tellings of the reactor of the events about pr.
Tellings(pr) ==
  {r \in Reviewable \X (1..MaxReads) : PrOf[r[1]] = pr /\ r[2] <= told[r[1]]}

LEMMA TellingsAreFinite ==
  ASSUME NEW S \in SUBSET (Reviewable \X (1..MaxReads))
  PROVE  IsFiniteSet(S) /\ Cardinality(S) \in Nat
<1>1. IsFiniteSet(Reviewable) /\ IsFiniteSet(1..MaxReads)
  BY FiniteAssumption, FS_Subset, FS_Interval DEF Reviewable
<1>2. IsFiniteSet(Reviewable \X (1..MaxReads))
  BY <1>1, FS_Product
<1>3. QED
  BY <1>2, FS_Subset, FS_CardinalityType

\* An event is handled by the reactor in the step in which it is told of it.
LEMMA SeenWhenTold ==
  ASSUME Smee!TypeOK, Reactor!TypeOK, [Next]_vars
  PROVE  \/ seen' = seen /\ \A d \in Delivery : told[d] <= told'[d]
         \/ \E d \in Reviewable : /\ seen' = [seen EXCEPT ![PrOf[d]] = @ + 1]
                                  /\ told' = [told EXCEPT ![d] = @ + 1]
<1>1. \A d \in Delivery : told[d] \in Nat
  BY DEF Smee!TypeOK
<1>2. CASE ListenerStep
  <2>1. seen' = seen /\ told' = told
    BY <1>2 DEF ListenerStep, Smee!Listen, Smee!ConnectFails, Smee!Responds, Smee!Accepted,
       Smee!Rejected, Smee!StreamEnds, Smee!SleepEnds, Smee!Store, Smee!StoreRaises,
       Smee!PruneCommits, Smee!Read, Smee!ghosts, reactor
  <2>2. QED
    BY <1>1, <2>1
<1>3. CASE PassOver
  <2>1. /\ seen' = seen
        /\ told' = told \/ told' = [told EXCEPT ![msg] = @ + 1]
    BY <1>3 DEF PassOver, Smee!Notify, reactor
  <2>2. QED
    BY <1>1, <2>1 DEF Smee!TypeOK
<1>4. CASE TellOpened \/ TellPush
  <2>1. msg \in Reviewable /\ msg \in PullRequest
    BY <1>4 DEF TellOpened, TellPush, Reviewable
  <2>2. told' = [told EXCEPT ![msg] = @ + 1]
    BY <1>4, <2>1 DEF TellOpened, TellPush, Smee!Notify
  <2>3. seen' = [seen EXCEPT ![PrOf[msg]] = @ + 1]
    BY <1>4 DEF TellOpened, TellPush, Reactor!Opened, Reactor!Synchronize
  <2>4. QED
    BY <2>1, <2>2, <2>3
<1>5. CASE InlineReviewEnds \/ Crash \/ Tick \/ UNCHANGED vars
  <2>1. seen' = seen /\ told' = told
    BY <1>5 DEF InlineReviewEnds, Smee!ReviewEnds, Smee!ReviewRaises, Smee!ghosts,
       Reactor!InlineReviewEnds, Crash, Smee!Crash, Tick, Reactor!Tick, listener, vars
  <2>2. QED
    BY <1>1, <2>1
<1>6. CASE (\E h \in Handle : TimerFires(h)) \/ (\E pr \in PR : TaskStarts(pr))
  <2>1. seen' = seen /\ told' = told
    BY <1>6 DEF TimerFires, Reactor!TimerFires, TaskStarts, Reactor!TaskStarts, listener
  <2>2. QED
    BY <1>1, <2>1
<1>7. QED
  BY <1>2, <1>3, <1>4, <1>5, <1>6 DEF Next, Tell

SeenIsTold == \A pr \in PR : seen[pr] <= Cardinality(Tellings(pr))

LEMMA SeenStaysTold == Spec => []SeenIsTold
<1>1. Init => SeenIsTold
  <2> SUFFICES ASSUME Init, NEW pr \in PR
               PROVE  seen[pr] <= Cardinality(Tellings(pr))
    BY DEF SeenIsTold
  <2>1. seen[pr] = 0
    BY DEF Init, Reactor!Init
  <2>2. Cardinality(Tellings(pr)) \in Nat
    BY TellingsAreFinite DEF Tellings
  <2>3. QED
    BY <2>1, <2>2
<1>2. Smee!TypeOK /\ Smee!TypeOK' /\ Reactor!TypeOK /\ SeenIsTold /\ [Next]_vars
        => SeenIsTold'
  <2> SUFFICES ASSUME Smee!TypeOK, Smee!TypeOK', Reactor!TypeOK, SeenIsTold, [Next]_vars,
                      NEW pr \in PR
               PROVE  seen'[pr] <= Cardinality(Tellings(pr)')
    BY DEF SeenIsTold
  <2> DEFINE before == Tellings(pr)
             after == {r \in Reviewable \X (1..MaxReads) :
                         PrOf[r[1]] = pr /\ r[2] <= told'[r[1]]}
  <2>1. /\ IsFiniteSet(before) /\ Cardinality(before) \in Nat
        /\ IsFiniteSet(after) /\ Cardinality(after) \in Nat
    BY TellingsAreFinite DEF Tellings
  <2>2. Tellings(pr)' = after
    BY DEF Tellings
  <2>3. seen[pr] \in Nat /\ seen[pr] <= Cardinality(before)
    BY DEF SeenIsTold, Reactor!TypeOK
  <2>4. \A d \in Delivery : told[d] \in 0..MaxReads /\ told'[d] \in 0..MaxReads
    BY DEF Smee!TypeOK
  <2>5. Reviewable \subseteq Delivery
    BY DEF Reviewable
  <2>6. CASE seen' = seen /\ \A d \in Delivery : told[d] <= told'[d]
    <3>1. before \subseteq after
      BY <2>4, <2>5, <2>6 DEF Tellings
    <3> HIDE DEF before, after
    <3>2. Cardinality(before) <= Cardinality(after)
      BY <2>1, <3>1, FS_Subset
    <3>3. QED
      BY <2>1, <2>2, <2>3, <2>6, <3>2
  <2>7. ASSUME NEW d \in Reviewable, seen' = [seen EXCEPT ![PrOf[d]] = @ + 1],
               told' = [told EXCEPT ![d] = @ + 1]
        PROVE  seen'[pr] <= Cardinality(after)
    <3>1. \A e \in Reviewable : told'[e] = IF e = d THEN told[e] + 1 ELSE told[e]
      BY <2>5, <2>7 DEF Smee!TypeOK
    <3>2. before \subseteq after
      BY <2>4, <2>5, <3>1 DEF Tellings
    <3>3. CASE PrOf[d] = pr
      <4> DEFINE new == <<d, told[d] + 1>>
      <4>1. told[d] \in Nat /\ told'[d] = told[d] + 1 /\ told'[d] \in 1..MaxReads
        BY <2>4, <2>5, <3>1
      <4>2. new \in after /\ new \notin before
        BY <3>3, <4>1 DEF Tellings
      <4>3. seen'[pr] = seen[pr] + 1
        BY <2>7, <3>3 DEF Reactor!TypeOK
      <4> HIDE DEF before, after, new
      <4>4. before \cup {new} \subseteq after
        BY <3>2, <4>2
      <4>5. /\ Cardinality(before \cup {new}) = Cardinality(before) + 1
            /\ Cardinality(before \cup {new}) <= Cardinality(after)
        BY <2>1, <4>2, <4>4, FS_AddElement, FS_Subset
      <4>6. QED
        BY <2>1, <2>3, <4>3, <4>5
    <3>4. CASE PrOf[d] # pr
      <4>1. seen'[pr] = seen[pr]
        BY <2>7, <3>4 DEF Reactor!TypeOK
      <4> HIDE DEF before, after
      <4>2. Cardinality(before) <= Cardinality(after)
        BY <2>1, <3>2, FS_Subset
      <4>3. QED
        BY <2>1, <2>3, <4>1, <4>2
    <3>5. QED
      BY <3>3, <3>4
  <2>8. QED
    BY <2>2, <2>6, <2>7, SeenWhenTold
<1>3. QED
  BY <1>1, <1>2, ListenerHolds, ReactorHolds, PTL DEF Spec

\* No review without a reading of an event about its pull request, whatever GitHub
\* repeats and however often the process ends: reviews are asked for by events the
\* reactor was told of, and it is told no more often than events are read.
THEOREM NoReviewUnread == Spec => []ReviewsAreRead
<1>0. /\ NoPR \notin PR /\ NoHandle \notin Handle
      /\ ReactorProofs!IsFiniteSet(Handle)
      /\ Debounce \in Nat /\ MaxReads * Cardinality(Delivery) \in Nat
  BY EventsAreBounded DEF IsFiniteSet, ReactorProofs!IsFiniteSet
<1>1. /\ OpenedEvent \subseteq PullRequest /\ PullRequest \subseteq Delivery
      /\ NoMessage \notin Delivery /\ MaxBackoff \in Nat \ {0}
      /\ StoreFails \in BOOLEAN /\ MaxReads \in Nat /\ MaxTries \in Nat
  OBVIOUS
<1>2. Spec => []SmeeProofs!ToldAtMostPerRead
  BY <1>1, SmeeProofs!CallsAreNotRepeated, ListenerIsKept, PTL
<1>3. ASSUME Smee!TypeOK, Reactor!TypeOK, ReactorProofs!OneReviewPerEvent, SeenIsTold,
             SmeeProofs!ToldAtMostPerRead
      PROVE  ReviewsAreRead
  <2> SUFFICES ASSUME NEW pr \in PR
               PROVE  starts[pr] <= Cardinality(Readings(pr))
    BY DEF ReviewsAreRead
  <2>1. ReactorProofs!TypeOK
    BY <1>3 DEF Reactor!TypeOK, ReactorProofs!TypeOK, Reactor!SpentHandlesWait,
                ReactorProofs!SpentHandlesWait
  <2>2. starts[pr] \in Nat /\ seen[pr] \in Nat /\ starts[pr] <= seen[pr]
    BY <1>0, <1>3, <2>1, ReactorProofs!StartsAreAskedFor
  <2>3. seen[pr] <= Cardinality(Tellings(pr))
    BY <1>3 DEF SeenIsTold
  <2>4. Tellings(pr) \subseteq Readings(pr)
    <3>1. \A d \in Reviewable : /\ told[d] \in Nat /\ reads[d] \in Nat
                                /\ told[d] <= reads[d]
      BY <1>3 DEF Smee!TypeOK, SmeeProofs!ToldAtMostPerRead, Reviewable
    <3>2. QED
      BY <3>1 DEF Tellings, Readings
  <2>5. /\ IsFiniteSet(Readings(pr)) /\ Cardinality(Readings(pr)) \in Nat
        /\ Cardinality(Tellings(pr)) \in Nat
    BY TellingsAreFinite DEF Tellings, Readings
  <2>6. Cardinality(Tellings(pr)) <= Cardinality(Readings(pr))
    BY <2>4, <2>5, FS_Subset
  <2>7. QED
    BY <2>2, <2>3, <2>5, <2>6
<1>4. QED
  BY <1>2, <1>3, ListenerHolds, ReactorHolds, ReviewsHaveEvents, SeenStaysTold, PTL
=============================================================================
