---------------------------- MODULE WebhookDaemon ----------------------------
(***************************************************************************)
(* The webhook server as one process (__main__.py): the Smee listener,     *)
(* which stores events and tells the reactor of pull requests, and the     *)
(* reactor, whose timers and tasks run on the same event loop.             *)
(*                                                                         *)
(* SmeeClient and PRReactor are instantiated over shared variables.  A     *)
(* step is one of the listener's, one of the reactor's, or one of both:    *)
(* telling the reactor, the end of the review the listener awaits, and the *)
(* end of the process, which only the committed table survives.            *)
(*                                                                         *)
(* Each module leaves open what its environment may do.  Here the          *)
(* reactor's events are those the listener has stored, and the listener    *)
(* waits for the reactor's own review.  Of the pruning task only its       *)
(* commits are here, the rest of it is EventStore's.                       *)
(***************************************************************************)
EXTENDS Integers, FiniteSets

CONSTANTS Delivery, PullRequest, OpenedEvent, PushEvent,
          PrOf,      \* the pull request an opened or a push event is about
          MaxBackoff, StoreFails, MaxReads, MaxTries, NoMessage,
          PR, Handle, Debounce, NoPR, NoHandle

Reviewable == OpenedEvent \cup PushEvent

ASSUME EventAssumption ==
  /\ PushEvent \subseteq PullRequest
  /\ OpenedEvent \cap PushEvent = {}
  /\ PrOf \in [Reviewable -> PR]
ASSUME FiniteAssumption == IsFiniteSet(Delivery)
ASSUME ListenerAssumption ==
  /\ OpenedEvent \subseteq PullRequest /\ PullRequest \subseteq Delivery
  /\ NoMessage \notin Delivery
  /\ MaxBackoff \in Nat \ {0} /\ StoreFails \in BOOLEAN
  /\ MaxReads \in Nat /\ MaxTries \in Nat
ASSUME ReactorAssumption ==
  NoPR \notin PR /\ NoHandle \notin Handle /\ IsFiniteSet(Handle) /\ Debounce \in Nat

VARIABLES
  conn, backoff, msg, stage, table, saved, reads, told, cut, fails,     \* listener
  timers, loop, ready, stream, seen, attempted, starts, quiet,          \* reactor
  reviewed,  \* ghost: told events with a review started since
  forgotten  \* ghost: told events whose process ended before their review

listener == <<conn, backoff, msg, stage, table, saved, reads, told, cut, fails>>
reactor == <<timers, loop, ready, stream, seen, attempted, starts, quiet>>
fates == <<reviewed, forgotten>>
vars == <<conn, backoff, msg, stage, table, saved, reads, told, cut, fails,
          timers, loop, ready, stream, seen, attempted, starts, quiet,
          reviewed, forgotten>>

Smee == INSTANCE SmeeClient WITH Opened <- OpenedEvent

\* No pull request is told of more often than events are read.
Reactor == INSTANCE PRReactor WITH MaxEvents <- MaxReads * Cardinality(Delivery)

\* The events about pr the reactor has been told of.
ToldOf(pr) == {d \in Reviewable : PrOf[d] = pr /\ told[d] > 0}

Init ==
  /\ Smee!Init /\ Reactor!Init
  /\ reviewed = {} /\ forgotten = {}

\* The listener's steps, and the pruner's commits, that the reactor has no part
\* in.
ListenerStep ==
  /\ \/ Smee!Listen \/ Smee!Store \/ Smee!StoreRaises \/ Smee!PruneCommits
     \/ \E d \in Delivery : Smee!Read(d)
  /\ UNCHANGED <<reactor, fates>>

\* An event of another type or action, or of another repository: on_pr_event
\* returns early or is not called.
PassOver ==
  /\ Smee!Notify
  /\ msg \notin Reviewable
  /\ UNCHANGED <<reactor, fates>>

\* A review of pr that this step of the reactor starts covers the events.
Covers(pr, events) ==
  IF starts'[pr] > starts[pr]
    THEN reviewed' = reviewed \cup events /\ forgotten' = forgotten \ events
    ELSE UNCHANGED fates

\* The listener's await of on_pr_event begins the review in the same step.
TellOpened ==
  /\ Smee!Notify
  /\ msg \in OpenedEvent
  /\ Reactor!Opened(PrOf[msg])
  /\ Covers(PrOf[msg], ToldOf(PrOf[msg]) \cup {msg})

\* The listener's await of on_pr_event returns with the timer set.
TellPush ==
  /\ Smee!Notify
  /\ msg \in PushEvent
  /\ Reactor!Synchronize(PrOf[msg])
  /\ reviewed' = reviewed \ {msg}
  /\ UNCHANGED forgotten

\* The review the listener awaits ends, one way or the other.
InlineReviewEnds ==
  /\ Smee!ReviewEnds \/ Smee!ReviewRaises
  /\ Reactor!InlineReviewEnds
  /\ UNCHANGED fates

\* Mutant of TimerFires: the listener blocks the event loop during a review, as
\* with subprocess.run in place of create_subprocess_exec.
TimerFiresUnlessBlocked(h) ==
  /\ stage # "reviewing"
  /\ Reactor!TimerFires(h)
  /\ UNCHANGED <<listener, fates>>

\* The reactor's steps that the listener has no part in; an inline review and a
\* queue of messages do not hold them up.
TimerFires(h) == Reactor!TimerFires(h) /\ UNCHANGED <<listener, fates>>

TaskStarts(pr) ==
  /\ Reactor!TaskStarts(pr)
  /\ Covers(pr, ToldOf(pr))
  /\ UNCHANGED listener

Tick == Reactor!Tick /\ UNCHANGED <<listener, fates>>

\* Mutant of Crash: the new process reviews what it finds in the table.
CrashReplays ==
  /\ Smee!Crash
  /\ timers' = [pr \in PR |-> NoHandle]
  /\ loop' = [h \in Handle |-> Reactor!Idle]
  /\ ready' = [pr \in PR |->
                IF \E d \in saved \cap Reviewable : PrOf[d] = pr THEN 1 ELSE 0]
  /\ stream' = NoPR
  /\ attempted' = seen
  /\ UNCHANGED <<seen, starts, quiet, fates>>

\* The process ends at any step and the LaunchAgent starts it again: PRReactor
\* has an empty _timers, and nothing looks at the events in the table.
Crash ==
  /\ Smee!Crash
  /\ timers' = [pr \in PR |-> NoHandle]
  /\ loop' = [h \in Handle |-> Reactor!Idle]
  /\ ready' = [pr \in PR |-> 0]
  /\ stream' = NoPR
  /\ attempted' = seen
  /\ forgotten' = forgotten \cup {d \in Reviewable : told[d] > 0 /\ d \notin reviewed}
  /\ UNCHANGED <<seen, starts, quiet, reviewed>>

Tell == PassOver \/ TellOpened \/ TellPush

Next ==
  \/ ListenerStep \/ Tell \/ InlineReviewEnds \/ Tick \/ Crash
  \/ \E h \in Handle : TimerFires(h)
  \/ \E pr \in PR : TaskStarts(pr)

\* The event loop takes up what is ready, and time passes.  Nothing is assumed
\* of Smee, of SQLite, or of the review processes, for which the listener waits.
Fairness ==
  /\ WF_vars(Tell) /\ WF_vars(Tick)
  /\ \A h \in Handle : WF_vars(TimerFires(h))
  /\ \A pr \in PR : WF_vars(TaskStarts(pr))

Spec == Init /\ [][Next]_vars /\ Fairness

-----------------------------------------------------------------------------
\* The two components agree about the review that the listener awaits.
TypeOK ==
  /\ Smee!TypeOK /\ Reactor!TypeOK
  /\ reviewed \subseteq Reviewable /\ forgotten \subseteq Reviewable
  /\ stage = "reviewing" => msg \in OpenedEvent /\ stream = PrOf[msg]
  /\ stage # "reviewing" => stream = NoPR

\* A review of pr waits to start, or the timer a later push would reset does.
Scheduled(pr) ==
  \/ ready[pr] > 0
  \/ timers[pr] # NoHandle /\ loop[timers[pr]].pr = pr

\* Only failures lose a review: an opened or a push event in the table has been
\* reviewed since the reactor was told, is about to be, is in the listener's
\* hand, was cut off there by a failure, or was told to a process that has
\* ended.
OnlyFailuresLoseReviews ==
  \A d \in table \cap Reviewable :
    \/ d \in reviewed \cup cut \cup forgotten
    \/ msg = d /\ stage = "stored"
    \/ Scheduled(PrOf[d])

\* The readings from a stream of the events about pr.
Readings(pr) ==
  {r \in Reviewable \X (1..MaxReads) : PrOf[r[1]] = pr /\ r[2] <= reads[r[1]]}

\* No review starts without a reading of an event of its own about the pull
\* request, over any number of processes.
ReviewsAreRead == \A pr \in PR : starts[pr] <= Cardinality(Readings(pr))

\* README.md:237 of the webhook package, "15 minutes of quiet | One review
\* triggered": every event that is stored gets its review, unless a failure cuts
\* it off or the process ends first; also when the review that the listener
\* awaits never ends.
StoredIsReviewed ==
  \A d \in Reviewable :
    d \in table ~> d \in reviewed \cup cut \cup forgotten
=============================================================================
