----------------------------- MODULE WebhookTools -----------------------------
(***************************************************************************)
(* The query tools of the webhook server (server.py) over its event table. *)
(*                                                                         *)
(* A tool is a coroutine beside the listener and the pruner.  It awaits    *)
(* one get_events after the other, and builds its answer from what each of *)
(* them found; between two of them events are stored, pruned, and pruned   *)
(* and stored again.                                                       *)
(*                                                                         *)
(* Events are told apart by the select that is meant for them.  One whose  *)
(* payload the tool passes over, for the reviewer, the number of the pull  *)
(* request or the conclusion, counts as "other", as does one of another    *)
(* repository when the caller names one.                                   *)
(***************************************************************************)
EXTENDS EventStore, Sequences

CONSTANTS Kind,     \* the kind of each delivery's event
          Tool,     \* bound: the tools that are called
          NoQuery

Kinds == {"review_requested", "opened", "review", "comment",
          "check_run", "check_suite", "workflow_run", "other"}

ASSUME KindAssumption == Kind \in [Delivery -> Kinds]

VARIABLES
  query  \* the tool in progress, or the last one of this tick: the kinds its
         \* further selects ask for, whether they are given `since`, and (ghost)
         \* the events it owes its caller and has not found yet

toolVars == <<tod, rows, saved, storing, up, pruner, acked, query>>

Selects ==
  [get_pending_reviews |-> << {"review_requested"} >>,
   get_review_feedback |-> << {"review"}, {"comment"} >>,
   get_ci_status       |-> << {"check_run"}, {"check_suite"}, {"workflow_run"} >>,
   get_new_prs         |-> << {"opened"} >>,
   get_notifications   |-> << Kinds >>]

ASSUME ToolAssumption == Tool \subseteq DOMAIN Selects

HasSince == {"get_new_prs", "get_notifications"}

ToolsInit == Init /\ query = NoQuery

InProgress == IF query = NoQuery THEN FALSE ELSE query.todo # <<>>

\* get_events with the default `since`, 24 hours before the call, or without.
\* Both timestamps are in UTC and in one format, so their texts compare as they
\* do.
GetEvents(kinds, since) ==
  {d \in Delivery : /\ rows[d] # NoRow
                    /\ Kind[d] \in kinds
                    /\ since => rows[d].age <= DayLen}

\* What the caller may count on: the events it was told were stored, as long as
\* they are kept.
Owed(tool) ==
  {d \in Delivery : /\ acked[d] # NoRow /\ acked[d] < Days * DayLen
                    /\ \E i \in DOMAIN Selects[tool] : Kind[d] \in Selects[tool][i]
                    /\ tool \in HasSince => acked[d] <= DayLen}

\* A tool is called; bound: once in a tick.
Call(tool) ==
  /\ up = "running"
  /\ query = NoQuery
  /\ query' = [todo |-> Selects[tool], since |-> tool \in HasSince, owed |-> Owed(tool)]
  /\ UNCHANGED vars

\* Mutant of Select: the loop over the event types returns with the first of
\* them that has any events.
SelectUntilFound ==
  /\ InProgress
  /\ LET found == GetEvents(Head(query.todo), query.since)
     IN query' = [query EXCEPT !.todo = IF found = {} THEN Tail(@) ELSE <<>>,
                               !.owed = @ \ found]
  /\ UNCHANGED vars

\* One get_events; after the last one the tool answers.  A row that is written or
\* deleted between execute and fetchall is none the tool owes.
Select ==
  /\ InProgress
  /\ query' = [query EXCEPT !.todo = Tail(@),
                            !.owed = @ \ GetEvents(Head(query.todo), query.since)]
  /\ UNCHANGED vars

\* What the listener and the pruner do meanwhile.
StoreStep ==
  /\ \/ \E d \in Delivery : StoreExecute(d)
     \/ StoreCommit \/ StoreRaises
     \/ PruneExecute \/ PruneCommit \/ PruneRaises
  /\ UNCHANGED query

\* A call lasts less than a tick, and none outlives the process.
ToolsTick ==
  /\ ~InProgress
  /\ Tick
  /\ query' = NoQuery

ToolsCrash == Crash /\ query' = NoQuery

ToolsNext ==
  \/ \E tool \in Tool : Call(tool)
  \/ Select \/ StoreStep \/ ToolsTick \/ ToolsCrash

ToolsFairness == Fairness /\ WF_toolVars(Select)

ToolsSpec == ToolsInit /\ [][ToolsNext]_toolVars /\ ToolsFairness

-----------------------------------------------------------------------------
\* An answer leaves out no event that store_event had reported as stored when the
\* tool was called and that is younger than the window, and than 24 hours where
\* the tool asks for those: whatever was stored, refused and pruned between its
\* selects, and through whatever restarts since.
AnswersAreComplete == (query # NoQuery /\ query.todo = <<>>) => query.owed = {}
=============================================================================
