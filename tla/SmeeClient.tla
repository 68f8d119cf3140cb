----------------------------- MODULE SmeeClient -----------------------------
(***************************************************************************)
(* The Smee listener of the webhook server (smee_client.py): it keeps one  *)
(* SSE connection up, and for each event stores it and then tells the      *)
(* reactor.  One coroutine does all of this, so a message in hand holds    *)
(* the next one up, and an exception in handling it closes the connection. *)
(*                                                                         *)
(* The event table is a set of delivery ids, as the process's connection   *)
(* sees it and as it is committed: EventStore has its detail, the pruning  *)
(* of old rows among it.                                                   *)
(* Messages that are not JSON, have no body or name no repository return   *)
(* early and change nothing; they are stuttering steps.                    *)
(***************************************************************************)
EXTENDS Naturals

CONSTANTS Delivery,     \* values of X-GitHub-Delivery
          PullRequest,  \* those of pull_request events with an action
          Opened,       \* those of them with the action "opened"
          MaxBackoff,   \* _max_backoff, in seconds
          StoreFails,   \* whether SQLite may refuse a write
          MaxReads,     \* bound: times a delivery is read
          MaxTries,     \* bound: connection attempts that are counted
          NoMessage

ASSUME DeliveryAssumption ==
  /\ Opened \subseteq PullRequest /\ PullRequest \subseteq Delivery
  /\ NoMessage \notin Delivery
ASSUME BackoffAssumption == MaxBackoff \in Nat \ {0}
ASSUME StoreAssumption == StoreFails \in BOOLEAN
ASSUME BoundAssumption == MaxReads \in Nat /\ MaxTries \in Nat

VARIABLES
  conn,      \* where listen is
  backoff,   \* _backoff
  msg,       \* the delivery in hand, or NoMessage
  stage,     \* how far process_sse_message is with it
  table,     \* delivery ids the connection sees in the events table, those of
             \* its open transaction included
  saved,     \* those of them that are committed
  reads,     \* ghost: times each delivery was read from a stream
  told,      \* ghost: times the reactor was told of each delivery
  cut,       \* ghost: deliveries whose handling was cut off
  fails      \* ghost: sleeps since the last response

vars == <<conn, backoff, msg, stage, table, saved, reads, told, cut, fails>>
rows == <<table, saved>>
message == <<msg, stage>>
ghosts == <<reads, told, cut, fails>>

AtMost(n, cap) == IF n < cap THEN n ELSE cap

Init ==
  /\ conn = "connecting" /\ backoff = 1
  /\ msg = NoMessage /\ stage = "none"
  /\ table = {} /\ saved = {}
  /\ reads = [d \in Delivery |-> 0]
  /\ told = [d \in Delivery |-> 0]
  /\ cut = {}
  /\ fails = 0

\* Every exception, and the end of the stream, leads to the same sleep.
Sleep ==
  /\ conn' = "sleeping"
  /\ fails' = AtMost(fails + 1, MaxTries)

\* No response: httpx.ConnectError and its like.
ConnectFails ==
  /\ conn = "connecting"
  /\ Sleep
  /\ UNCHANGED <<backoff, message, rows, reads, told, cut>>

\* Mutant of Responds: the delay is only reset by a message that was handled.
RespondsKeepsBackoff ==
  /\ conn = "connecting"
  /\ conn' = "connected"
  /\ fails' = 0
  /\ UNCHANGED <<backoff, message, rows, reads, told, cut>>

\* aconnect_sse has response headers, of whatever status and content type.
Responds ==
  /\ conn = "connecting"
  /\ conn' = "connected"
  /\ backoff' = 1
  /\ fails' = 0
  /\ UNCHANGED <<message, rows, reads, told, cut>>

\* aiter_sse finds an event stream.
Accepted ==
  /\ conn = "connected"
  /\ conn' = "streaming"
  /\ UNCHANGED <<backoff, message, rows, ghosts>>


\* aiter_sse finds another content type and raises.
Rejected ==
  /\ conn = "connected"
  /\ Sleep
  /\ UNCHANGED <<backoff, message, rows, reads, told, cut>>

\* The server closes the stream, or reading it raises.
StreamEnds ==
  /\ conn = "streaming" /\ msg = NoMessage
  /\ Sleep
  /\ UNCHANGED <<backoff, message, rows, reads, told, cut>>

\* An event arrives: a new one, or one that GitHub or Smee sends again.
Read(d) ==
  /\ conn = "streaming" /\ msg = NoMessage
  /\ reads[d] < MaxReads
  /\ msg' = d /\ stage' = "read"
  /\ reads' = [reads EXCEPT ![d] = @ + 1]
  /\ UNCHANGED <<conn, backoff, rows, told, cut, fails>>

\* Mutant of Store: the pull-request filter comes before the store.
StorePullRequests ==
  /\ stage = "read"
  /\ table' = table \cup ({msg} \cap PullRequest)
  /\ saved' = table'
  /\ stage' = "stored"
  /\ UNCHANGED <<conn, backoff, msg, ghosts>>

\* store_event inserts and commits a new row, with whatever else the open
\* transaction has got, and returns True.  A delivery id the connection knows
\* raises IntegrityError, and the call returns False without a commit.  The
\* listener does not look at the result.
Store ==
  /\ stage = "read"
  /\ table' = table \cup {msg}
  /\ saved' = IF msg \in table THEN saved ELSE table'
  /\ stage' = "stored"
  /\ UNCHANGED <<conn, backoff, msg, ghosts>>

\* store_event raises, on its INSERT or, the row being in the open transaction,
\* on its commit: the message is dropped with the connection.
StoreRaises ==
  /\ StoreFails
  /\ stage = "read"
  /\ table' \in {table, table \cup {msg}}
  /\ UNCHANGED saved
  /\ cut' = cut \cup {msg}
  /\ msg' = NoMessage /\ stage' = "none"
  /\ Sleep
  /\ UNCHANGED <<backoff, reads, told>>

\* The pruning task's commit, on the same connection, which also commits what a
\* refused commit has left.
PruneCommits ==
  /\ saved # table
  /\ saved' = table
  /\ UNCHANGED <<conn, backoff, message, table, ghosts>>

\* The end of process_sse_message.
Done == msg' = NoMessage /\ stage' = "none" /\ backoff' = 1

\* Mutant of Notify: the reactor is told before the event is stored.
NotifyUnstored ==
  /\ stage \in {"read", "stored"}
  /\ msg \in PullRequest
  /\ told' = [told EXCEPT ![msg] = @ + 1]
  /\ IF stage = "read"
       THEN UNCHANGED <<backoff, message>>
       ELSE Done
  /\ UNCHANGED <<conn, rows, reads, cut, fails>>

\* Mutant of Notify: the reactor's map of timers decides, and it knows no
\* pull request that has just been opened.
NotifyPushes ==
  /\ stage = "stored"
  /\ told' = IF msg \in PullRequest \ Opened
               THEN [told EXCEPT ![msg] = @ + 1] ELSE told
  /\ Done
  /\ UNCHANGED <<conn, rows, reads, cut, fails>>

\* on_pr_event for a pull request, which for "opened" waits for the review.
Notify ==
  /\ stage = "stored"
  /\ told' = IF msg \in PullRequest THEN [told EXCEPT ![msg] = @ + 1] ELSE told
  /\ IF msg \in Opened
       THEN stage' = "reviewing" /\ UNCHANGED <<msg, backoff>>
       ELSE Done
  /\ UNCHANGED <<conn, rows, reads, cut, fails>>

\* Mutant of ReviewEnds: a review that failed is started again.
ReviewRetried ==
  /\ stage = "reviewing"
  /\ told' = [told EXCEPT ![msg] = @ + 1]
  /\ Done
  /\ UNCHANGED <<conn, rows, reads, cut, fails>>

\* The review process exits, or there is no claude CLI.
ReviewEnds ==
  /\ stage = "reviewing"
  /\ Done
  /\ UNCHANGED <<conn, rows, ghosts>>

\* The process cannot be executed, or what it wrote cannot be decoded: no
\* handler on the way up but listen's own.
ReviewRaises ==
  /\ stage = "reviewing"
  /\ msg' = NoMessage /\ stage' = "none"
  /\ Sleep
  /\ UNCHANGED <<backoff, rows, reads, told, cut>>

\* Mutant of SleepEnds: no maximum.
SleepEndsUncapped ==
  /\ conn = "sleeping"
  /\ conn' = "connecting"
  /\ backoff' = backoff * 2
  /\ UNCHANGED <<message, rows, ghosts>>

\* asyncio.sleep returns; the delay is doubled for the next failure.
SleepEnds ==
  /\ conn = "sleeping"
  /\ conn' = "connecting"
  /\ backoff' = AtMost(backoff * 2, MaxBackoff)
  /\ UNCHANGED <<message, rows, ghosts>>

\* The process ends at any step, and with it its open transaction; the
\* LaunchAgent starts it again.
Crash ==
  /\ conn' = "connecting" /\ backoff' = 1
  /\ msg' = NoMessage /\ stage' = "none"
  /\ cut' = IF msg = NoMessage THEN cut ELSE cut \cup {msg}
  /\ fails' = 0
  /\ table' = saved
  /\ UNCHANGED <<saved, reads, told>>

Listen == ConnectFails \/ Responds \/ Accepted \/ Rejected \/ StreamEnds \/ SleepEnds

Process == Store \/ StoreRaises \/ Notify

Next ==
  Listen \/ Process \/ PruneCommits \/ ReviewEnds \/ ReviewRaises \/ Crash
  \/ \E d \in Delivery : Read(d)

\* The coroutine runs whenever it can.  Nothing is assumed of Smee, of what it
\* sends, of SQLite or of the review processes; the HTTP client is made with
\* timeout=None, so that an attempt to connect may last for ever as well.
Fairness ==
  /\ WF_vars(Process)
  /\ WF_vars(SleepEnds)
  /\ WF_vars(Accepted \/ Rejected)

Spec == Init /\ [][Next]_vars /\ Fairness

-----------------------------------------------------------------------------
TypeOK ==
  /\ conn \in {"connecting", "connected", "streaming", "sleeping"}
  /\ backoff \in 1..MaxBackoff
  /\ msg \in Delivery \cup {NoMessage}
  /\ stage \in {"none", "read", "stored", "reviewing"}
  /\ msg = NoMessage <=> stage = "none"
  /\ saved \subseteq table /\ table \subseteq Delivery
  /\ reads \in [Delivery -> 0..MaxReads]
  /\ told \in [Delivery -> 0..MaxReads]
  /\ cut \subseteq Delivery
  /\ fails \in 0..MaxTries

\* What the reactor has acted on is committed, over crashes too, unless a reading
\* of that event was cut off without a call: its commit was refused then, a
\* redelivery found the row in the open transaction and was told without a
\* commit (storage.py:112), and no later commit came before the process ended.
ToldIsStored ==
  \A d \in Delivery :
    told[d] > 0 => d \in saved \/ (d \in cut /\ told[d] < reads[d])

\* A pull-request event in the table that the reactor was not told of is in
\* hand or was cut off by a failure; no other path loses it.
StoredIsTold ==
  \A d \in table \cap PullRequest :
    told[d] > 0 \/ d \in cut \/ (msg = d /\ stage = "stored")

\* The reactor is told at most once for each time a delivery was read, also
\* over crashes.
ToldAtMostPerRead == \A d \in Delivery : told[d] <= reads[d]

\* The delay before the next attempt is 1 s after the first failure since the
\* last response, and doubles with each further one up to the maximum.
DelayIsExponential ==
  (conn = "sleeping" /\ fails < MaxTries)
     => backoff = AtMost(2 ^ (fails - 1), MaxBackoff)


\* The handling of an event that was read ends, or waits for a review, with the
\* event stored or cut off.
EventsAreHandled ==
  \A d \in Delivery :
    msg = d ~> ((msg = NoMessage \/ stage = "reviewing") /\ d \in table \cup cut)

\* webhook design.md:145, "delivery_id UNIQUE constraint silently ignores
\* dupes": the reactor hears of a delivery once.
DuplicatesAreIgnored == \A d \in Delivery : told[d] <= 1
=============================================================================
