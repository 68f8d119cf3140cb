----------------------------- MODULE EventStore -----------------------------
(***************************************************************************)
(* The event table of the webhook server (storage.py) and the loop that    *)
(* prunes it (__main__.py), through crashes of the process.                *)
(*                                                                         *)
(* All coroutines share one SQLite connection, so an uncommitted change is *)
(* visible to all of them and whichever commits first commits it for all;  *)
(* a crash goes back to what was committed.                                *)
(*                                                                         *)
(* prune compares the text of received_at, "2026-03-15T...", with that of  *)
(* datetime('now', '-7 days'), "2026-03-15 ...".  Dates compare as dates,  *)
(* but on the same date "T" is greater than " ", so what decides is how    *)
(* many midnights (UTC) a row has seen.  Time is relative: every row has   *)
(* an age in ticks and a count of midnights, both capped where a larger    *)
(* value makes no difference.                                              *)
(***************************************************************************)
EXTENDS Integers

CONSTANTS Delivery,     \* values of X-GitHub-Delivery
          Days,         \* prune_days
          DayLen,       \* ticks in a day: a tick is the pruning interval
          WriteFails,   \* whether SQLite may refuse a write
          NoRow, NoEvent

ASSUME NoEventAssumption == NoEvent \notin Delivery
ASSUME TimeAssumption == Days \in Nat \ {0} /\ DayLen \in Nat \ {0}
ASSUME WriteAssumption == WriteFails \in BOOLEAN

VARIABLES
  tod,      \* ticks since midnight
  rows,     \* the table as the connection sees it
  saved,    \* the table as committed
  storing,  \* the event whose INSERT was executed and not yet committed
  up,       \* "booting" until the first prune is done, then "running"
  pruner,   \* where the pruning coroutine is
  acked     \* ghost: age of an event since store_event last returned True

vars == <<tod, rows, saved, storing, up, pruner, acked>>

MaxAge == (Days + 2) * DayLen
Stamp == [age : 0..MaxAge, midnights : 0..Days + 2]
Fresh == [age |-> 0, midnights |-> 0]
ASSUME NoRowAssumption ==
  NoRow \notin [age : 0..MaxAge, midnights : 0..Days + 2] /\ NoRow \notin Nat

Init ==
  /\ tod \in 0..DayLen - 1
  /\ rows = [d \in Delivery |-> NoRow]
  /\ saved = [d \in Delivery |-> NoRow]
  /\ storing = NoEvent
  /\ up = "booting"
  /\ pruner = "due"
  /\ acked = [d \in Delivery |-> NoRow]

\* Mutant of StoreExecute: received_at is local time, ahead of UTC by less than
\* a day, so that the row has a midnight still to come.
StoreLocalTime(d) ==
  /\ up = "running"
  /\ storing = NoEvent
  /\ rows[d] = NoRow
  /\ rows' = [rows EXCEPT ![d] = [age |-> 0, midnights |-> -1]]
  /\ storing' = d
  /\ UNCHANGED <<tod, saved, up, pruner, acked>>

\* store_event, INSERT: a delivery id already in the table raises
\* IntegrityError, and the call returns False with nothing changed.
StoreExecute(d) ==
  /\ up = "running"
  /\ storing = NoEvent
  /\ rows[d] = NoRow
  /\ rows' = [rows EXCEPT ![d] = Fresh]
  /\ storing' = d
  /\ UNCHANGED <<tod, saved, up, pruner, acked>>

\* Mutant of StoreCommit: no commit, left to the next one.
StoreWithoutCommit ==
  /\ storing # NoEvent
  /\ storing' = NoEvent
  /\ acked' = [acked EXCEPT ![storing] = 0]
  /\ UNCHANGED <<tod, rows, saved, up, pruner>>

\* store_event, commit: only then does it return True.
StoreCommit ==
  /\ storing # NoEvent
  /\ saved' = rows
  /\ storing' = NoEvent
  /\ acked' = [acked EXCEPT ![storing] = 0]
  /\ UNCHANGED <<tod, rows, up, pruner>>

\* The commit fails: store_event raises, and the row waits for a later commit.
StoreRaises ==
  /\ WriteFails
  /\ storing # NoEvent
  /\ storing' = NoEvent
  /\ UNCHANGED <<tod, rows, saved, up, pruner, acked>>

\* Mutant of Prunable: = for <, as if no day could be missed.
PrunableThatDay(row) == row # NoRow /\ row.midnights = Days + 1

\* Mutant of Prunable: a day too many.
PrunableLate(row) == row # NoRow /\ row.midnights > Days + 1

\* DELETE ... WHERE received_at < datetime('now', '-N days')
Prunable(row) == row # NoRow /\ row.midnights > Days

\* prune, DELETE: on booting, before anything else, and from then on first
\* thing in the loop.
PruneExecute ==
  /\ pruner = "due"
  /\ rows' = [d \in Delivery |-> IF Prunable(rows[d]) THEN NoRow ELSE rows[d]]
  /\ pruner' = "executed"
  /\ UNCHANGED <<tod, saved, storing, up, acked>>

\* prune, commit: the first one lets the server start its two tasks.
PruneCommit ==
  /\ pruner = "executed"
  /\ saved' = rows
  /\ pruner' = IF up = "booting" THEN "due" ELSE "asleep"
  /\ up' = "running"
  /\ UNCHANGED <<tod, rows, storing, acked>>

\* prune raises in the loop: the task ends, and nothing looks at it.
PruneRaises ==
  /\ WriteFails
  /\ up = "running"
  /\ pruner \in {"due", "executed"}
  /\ pruner' = "dead"
  /\ UNCHANGED <<tod, rows, saved, storing, up, acked>>

\* The process ends at any step, also by prune raising while it boots, and the
\* LaunchAgent starts it again.
Crash ==
  /\ rows' = saved
  /\ storing' = NoEvent
  /\ up' = "booting"
  /\ pruner' = "due"
  /\ UNCHANGED <<tod, saved, acked>>

AtMost(n, cap) == IF n < cap THEN n ELSE cap

\* The next tick ends the day (UTC).
Midnight == tod = DayLen - 1

Older(row) ==
  IF row = NoRow THEN NoRow
  ELSE [age |-> AtMost(row.age + 1, MaxAge),
        midnights |-> AtMost(IF Midnight THEN row.midnights + 1
                                         ELSE row.midnights, Days + 2)]

\* Time passes: what is executed is committed within a tick, and the loop's
\* asyncio.sleep(6 * 3600) is one tick.
Tick ==
  /\ storing = NoEvent
  /\ pruner # "executed"
  /\ tod' = IF Midnight THEN 0 ELSE tod + 1
  /\ rows' = [d \in Delivery |-> Older(rows[d])]
  /\ saved' = [d \in Delivery |-> Older(saved[d])]
  /\ acked' = [d \in Delivery |->
                IF acked[d] = NoRow THEN NoRow ELSE AtMost(acked[d] + 1, MaxAge)]
  /\ pruner' = IF pruner = "asleep" THEN "due" ELSE pruner
  /\ UNCHANGED <<storing, up>>

Next ==
  \/ \E d \in Delivery : StoreExecute(d)
  \/ StoreCommit \/ StoreRaises
  \/ PruneExecute \/ PruneCommit \/ PruneRaises
  \/ Tick \/ Crash

\* The loop keeps scheduling the coroutines and the clock goes on.
Fairness ==
  /\ WF_vars(StoreCommit)
  /\ WF_vars(PruneExecute) /\ WF_vars(PruneCommit)
  /\ WF_vars(Tick)

Spec == Init /\ [][Next]_vars /\ Fairness

-----------------------------------------------------------------------------
TypeOK ==
  /\ tod \in 0..DayLen - 1
  /\ rows \in [Delivery -> Stamp \cup {NoRow}]
  /\ saved \in [Delivery -> Stamp \cup {NoRow}]
  /\ storing \in Delivery \cup {NoEvent}
  /\ up \in {"booting", "running"}
  /\ pruner \in {"due", "executed", "asleep", "dead"}
  /\ acked \in [Delivery -> 0..MaxAge \cup {NoRow}]

\* design.md:146, "SQLite persists events": an event store_event has reported
\* as stored is in the committed table, through crashes, prunes and failed
\* writes, until it is older than the retention window.
StoredEventsLast ==
  \A d \in Delivery : acked[d] # NoRow =>
    saved[d] # NoRow \/ acked[d] >= Days * DayLen

\* What a prune leaves is never older than the window and the day it falls in.
RetentionIsBounded ==
  [][PruneExecute => \A d \in Delivery :
       rows'[d] = NoRow \/ rows'[d].age < (Days + 1) * DayLen]_vars

\* README.md:220 of the webhook package, "Auto-prune keeps the database from
\* growing unbounded": once the process stops crashing, and unless a refused
\* write ends its pruning task, every row goes.
OldEventsGo ==
  ([](pruner # "dead") /\ <>[][~Crash]_vars)
    => \A d \in Delivery : rows[d] # NoRow ~> rows[d] = NoRow
=============================================================================
