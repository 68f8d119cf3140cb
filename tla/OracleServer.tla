----------------------------- MODULE OracleServer -----------------------------
(***************************************************************************)
(* The oracle's server processes around their caches: the queue directory  *)
(* that the hooks fill and every process drains (ingest.py), the registry  *)
(* with its current project (registry.py), the log of calls that the       *)
(* processes of a project share (storage/store.py), and what is computed   *)
(* from it, one SELECT after the other (tools/stats.py, telemetry.py).     *)
(*                                                                         *)
(* A process handles one tool call at a time; the gauges are observed in a *)
(* thread of their own.  What a tool does to its cache is the matter of    *)
(* FileCache, CommandCache and GitCache: here a call finds its project,    *)
(* and leaves a row in that project's log.                                 *)
(*                                                                         *)
(* A process is known by its session id, which the registry draws at       *)
(* random: a server that is started again is another process.  The log is  *)
(* a count of rows per session, by the kinds that the statistics tell      *)
(* apart.                                                                  *)
(***************************************************************************)
EXTENDS Integers, FiniteSets, Functions

CONSTANTS Process,     \* server processes
          Agent,       \* the session ids that hooks write in their entries
          Project,
          Entry,       \* queue files, as their place in the order of names
          About,       \* About[e]: the project of the entry's path or cwd
          From,        \* From[e]: the agent whose hook wrote it
          Recent,      \* sessions the trend is taken over
          StoreFails,  \* whether SQLite may refuse a write
          Fragile,     \* queue files that the system may refuse to read or delete
          MaxCalls,    \* bound: tool calls of all processes
          NoProject, NoObservation

Session == Process \cup Agent

ASSUME SessionAssumption == Process \cap Agent = {} /\ IsFiniteSet(Session)
ASSUME EntryAssumption == Entry \subseteq Nat /\ From \in [Entry -> Agent]
ASSUME FragileAssumption == Fragile \subseteq Entry
ASSUME AboutAssumption ==
  NoProject \notin Project /\ About \in [Entry -> Project \cup {NoProject}]
ASSUME BoundAssumption ==
  StoreFails \in BOOLEAN /\ Recent \in Nat /\ MaxCalls \in Nat
ASSUME ObservationAssumption == NoObservation \notin Nat

VARIABLES
  dir,       \* the queue directory
  at,        \* where a process is in a tool call
  listed,    \* files its drain has listed and not yet dealt with
  batch,     \* entries it has read and not yet processed
  projects,  \* _projects
  current,   \* _current
  log,       \* agent_log of every project
  gauge,     \* the project whose log the telemetry singleton observes
  stats,     \* what oracle_stats has selected so far
  observed,  \* hits the gauge callback has selected, its count still to come
  calls,     \* tool calls begun
  rowsOf,    \* ghost: log rows written for an entry
  shared,    \* ghost: entries that two processes had listed at the same time
  cut,       \* ghost: entries read half-written, or not readable, or in a batch
             \* that was dropped
  kept,      \* ghost: entries whose file a drain could not delete
  due        \* ghost: what may be current: the project the agent named last, and
             \* those of the entries ingested since

queue == <<dir, listed, batch>>
registry == <<projects, current>>
reports == <<gauge, stats, observed>>
fates == <<rowsOf, shared, cut, kept>>
vars == <<dir, at, listed, batch, projects, current, log, gauge, stats, observed,
          calls, rowsOf, shared, cut, kept, due>>

Counts == [oracle : Nat, builtin : Nat, hits : Nat]
NoRows == [oracle |-> 0, builtin |-> 0, hits |-> 0]
NoStats == [others |-> {}, used |-> [s \in Session |-> 0],
            total |-> [s \in Session |-> 0], hits |-> 0, calls |-> 0]

Init ==
  /\ dir = [e \in Entry |-> "unwritten"]
  /\ at = [p \in Process |-> "idle"]
  /\ listed = [p \in Process |-> {}]
  /\ batch = [p \in Process |-> {}]
  /\ projects = [p \in Process |-> {}]
  /\ current = [p \in Process |-> NoProject]
  /\ log = [prj \in Project |-> [s \in Session |-> NoRows]]
  /\ gauge = [p \in Process |-> NoProject]
  /\ stats = [p \in Process |-> NoStats]
  /\ observed = [p \in Process |-> NoObservation]
  /\ calls = 0
  /\ rowsOf = [e \in Entry |-> 0]
  /\ shared = {} /\ cut = {} /\ kept = {}
  /\ due = [p \in Process |-> {NoProject}]

\* The hook's shell opens the file in the background, and writes it later.
HookOpens(e) ==
  /\ dir[e] = "unwritten"
  /\ dir' = [dir EXCEPT ![e] = "torn"]
  /\ UNCHANGED <<at, listed, batch, registry, log, reports, calls, fates, due>>

\* What is written to a file that was deleted meanwhile is lost with it.
HookWrites(e) ==
  /\ dir[e] = "torn"
  /\ dir' = [dir EXCEPT ![e] = "whole"]
  /\ UNCHANGED <<at, listed, batch, registry, log, reports, calls, fates, due>>

\* The file, or the entry, whose turn it is; there is none in an empty set.
First(files) == {e \in files : \A f \in files : e <= f}

\* Every tool first lists the directory.
BeginCall(p) ==
  /\ at[p] = "idle"
  /\ calls < MaxCalls
  /\ calls' = calls + 1
  /\ at' = [at EXCEPT ![p] = "drain"]
  /\ LET found == {e \in Entry : dir[e] \in {"torn", "whole"}}
     IN /\ listed' = [listed EXCEPT ![p] = found]
        /\ shared' = shared \cup
             {e \in found : \E q \in Process \ {p} : e \in listed[q]}
  /\ UNCHANGED <<dir, batch, registry, log, reports, rowsOf, cut, kept, due>>

\* The file is read, if it is there and holds a whole JSON text; what cannot be
\* read or decoded is skipped like a malformed one.
ReadFile(p) ==
  /\ at[p] = "drain"
  /\ at' = [at EXCEPT ![p] = "unlink"]
  /\ \E e \in First(listed[p]) :
       \/ /\ dir[e] = "whole"
          /\ batch' = [batch EXCEPT ![p] = @ \cup {e}]
          /\ UNCHANGED cut
       \/ /\ dir[e] = "torn" \/ (e \in Fragile /\ dir[e] = "whole")
          /\ cut' = cut \cup {e}
          /\ UNCHANGED batch
       \/ dir[e] = "gone" /\ UNCHANGED <<batch, cut>>
  /\ UNCHANGED <<dir, listed, registry, log, reports, calls, rowsOf, shared, kept, due>>

\* Mutant of Unlink: what could be read is kept, and only a malformed file is
\* deleted.
UnlinkMalformed(p) ==
  /\ at[p] = "unlink"
  /\ at' = [at EXCEPT ![p] = "drain"]
  /\ \E e \in First(listed[p]) :
       /\ dir' = IF e \in batch[p] THEN dir ELSE [dir EXCEPT ![e] = "gone"]
       /\ listed' = [listed EXCEPT ![p] = @ \ {e}]
  /\ UNCHANGED <<batch, registry, log, reports, calls, fates, due>>

\* Mutant of Unlink: the directory is cleared once its files have been read.
UnlinkAll(p) ==
  /\ at[p] = "unlink"
  /\ at' = [at EXCEPT ![p] = "drain"]
  /\ \E e \in First(listed[p]) :
       /\ dir' = IF listed[p] = {e}
                   THEN [f \in Entry |-> IF dir[f] = "unwritten" THEN dir[f] ELSE "gone"]
                   ELSE dir
       /\ listed' = [listed EXCEPT ![p] = @ \ {e}]
  /\ UNCHANGED <<batch, registry, log, reports, calls, fates, due>>

\* It is deleted, whatever it held; another process may have done so already.  An
\* OSError of the unlink is suppressed: the file stays, for the next tool call.
Unlink(p) ==
  /\ at[p] = "unlink"
  /\ at' = [at EXCEPT ![p] = "drain"]
  /\ \E e \in First(listed[p]) :
       /\ \/ dir' = [dir EXCEPT ![e] = "gone"] /\ UNCHANGED kept
          \/ e \in Fragile /\ dir[e] # "gone" /\ UNCHANGED dir /\ kept' = kept \cup {e}
       /\ listed' = [listed EXCEPT ![p] = @ \ {e}]
  /\ UNCHANGED <<batch, registry, log, reports, calls, rowsOf, shared, cut, due>>

\* Mutant of ForPath: a project that is known is returned, and not made current.
ForPathNewOnly(p, prj) ==
  /\ projects' = [projects EXCEPT ![p] = @ \cup ({prj} \ {NoProject})]
  /\ current' = IF prj \in projects[p] \cup {NoProject}
                  THEN current ELSE [current EXCEPT ![p] = prj]

\* for_path: the project of a path becomes the current one; a path of no project
\* changes nothing.
ForPath(p, prj) ==
  IF prj = NoProject THEN UNCHANGED registry
  ELSE /\ projects' = [projects EXCEPT ![p] = @ \cup {prj}]
       /\ current' = [current EXCEPT ![p] = prj]

\* The row of a call: of an oracle tool, with its cache_hit, or of a built-in one.
OracleCall(hit) == [oracle |-> 1, builtin |-> 0, hits |-> hit]
BuiltinCall == [oracle |-> 0, builtin |-> 1, hits |-> 0]

Plus(r, row) == [oracle |-> r.oracle + row.oracle, builtin |-> r.builtin + row.builtin,
                 hits |-> r.hits + row.hits]

\* log_interaction under a session id.
LogRow(prj, s, row) == log' = [log EXCEPT ![prj][s] = Plus(@, row)]

\* process_ingest takes up the first entry of its batch: its project becomes the
\* current one, and gets a row under the id of the agent that wrote it.
IngestEntry(p) ==
  /\ at[p] = "drain" /\ listed[p] = {}
  /\ \E e \in First(batch[p]) :
       /\ batch' = [batch EXCEPT ![p] = @ \ {e}]
       /\ ForPath(p, About[e])
       /\ IF About[e] = NoProject
            THEN UNCHANGED <<log, rowsOf, due>>
            ELSE /\ LogRow(About[e], From[e], BuiltinCall)
                 /\ rowsOf' = [rowsOf EXCEPT ![e] = @ + 1]
                 /\ due' = [due EXCEPT ![p] = @ \cup {About[e]}]
  /\ UNCHANGED <<dir, at, listed, reports, calls, shared, cut, kept>>

\* Mutant of Cropped: the project is made current before its store is opened.
CroppedHalfKnown(p, prj, s, row) ==
  \/ prj \notin projects[p] /\ UNCHANGED <<projects, log>>
       /\ current' = [current EXCEPT ![p] = prj]
  \/ ForPath(p, prj) /\ UNCHANGED log
  \/ ForPath(p, prj) /\ LogRow(prj, s, row)

\* What an exception before or after the row for prj is written leaves: that row,
\* under s, or none; the store of a new project may be what raises.
Cropped(p, prj, s, row) ==
  \/ prj \notin projects[p] /\ UNCHANGED <<registry, log>>
  \/ ForPath(p, prj) /\ UNCHANGED log
  \/ ForPath(p, prj) /\ LogRow(prj, s, row)

\* The database of the entry's project cannot be opened, or a row cannot be
\* written: the tool call ends with the exception, and with it the batch, whose
\* files the drain has dealt with.
IngestRaises(p) ==
  /\ StoreFails
  /\ at[p] = "drain" /\ listed[p] = {}
  /\ \E e \in First(batch[p]) :
       /\ About[e] # NoProject
       /\ Cropped(p, About[e], From[e], BuiltinCall)
       /\ rowsOf' = IF log' = log THEN rowsOf ELSE [rowsOf EXCEPT ![e] = @ + 1]
       /\ due' = IF current' = current THEN due ELSE [due EXCEPT ![p] = @ \cup {About[e]}]
  /\ batch' = [batch EXCEPT ![p] = {}]
  /\ cut' = cut \cup batch[p]
  /\ at' = [at EXCEPT ![p] = "idle"]
  /\ UNCHANGED <<dir, listed, reports, calls, shared, kept>>

-----------------------------------------------------------------------------
\* _before_tool has returned.
Ready(p) == at[p] = "drain" /\ listed[p] = {} /\ batch[p] = {}

Return(p) == at' = [at EXCEPT ![p] = "idle"]

\* The gauges are registered for one database, for as long as the process lasts.
CreateTelemetry(p, prj) == gauge' = [gauge EXCEPT ![p] = prj]

\* _get_telemetry: a singleton of the process, for the project that is current when
\* it is first asked for.
GetTelemetry(p) ==
  IF gauge[p] = NoProject THEN CreateTelemetry(p, current'[p]) ELSE UNCHANGED gauge

\* _log: the row, and then the telemetry.
Log(p, prj, hit) ==
  /\ LogRow(prj, p, OracleCall(hit))
  /\ GetTelemetry(p)

\* oracle_read, oracle_forget, and oracle_grep with a path.
PathTool(p) ==
  /\ Ready(p)
  /\ \E prj \in Project, hit \in {0, 1} :
       /\ ForPath(p, prj)
       /\ Log(p, prj, hit)
       /\ due' = [due EXCEPT ![p] = {prj}]
  /\ Return(p)
  /\ UNCHANGED <<queue, stats, observed, calls, fates>>

\* oracle_status, oracle_run, oracle_ask, and oracle_grep without a path.
CurrentTool(p) ==
  /\ Ready(p)
  /\ current[p] # NoProject
  /\ UNCHANGED registry
  /\ \E hit \in {0, 1} : Log(p, current[p], hit)
  /\ Return(p)
  /\ UNCHANGED <<queue, stats, observed, calls, fates, due>>

\* A tool that finds no project, or asks for a path of none, returns an error.
NoProjectFound(p) ==
  /\ Ready(p)
  /\ Return(p)
  /\ UNCHANGED <<queue, registry, log, reports, calls, fates, due>>

\* A tool, or the writing of its row, raises.
ToolRaises(p) ==
  /\ StoreFails
  /\ Ready(p)
  /\ \E prj \in Project, hit \in {0, 1} :
       /\ Cropped(p, prj, p, OracleCall(hit))
       /\ due' = IF current' = current THEN due ELSE [due EXCEPT ![p] = {prj}]
  /\ Return(p)
  /\ UNCHANGED <<queue, reports, calls, fates>>

-----------------------------------------------------------------------------
Rows(row) == row.oracle + row.builtin
Hits(prj) == SumFunction([s \in Session |-> log[prj][s].hits])
OracleRows(prj) == SumFunction([s \in Session |-> log[prj][s].oracle])
AllRows(prj) == SumFunction([s \in Session |-> Rows(log[prj][s])])

StatsStep(p, from, to) ==
  /\ at[p] = from
  /\ at' = [at EXCEPT ![p] = to]
  /\ UNCHANGED <<queue, registry, log, gauge, observed, calls, fates, due>>

\* oracle_stats, up to the SELECT for the other sessions: those that logged last.
\* The SELECTs before it are about rows that only this process writes.
SelectOthers(p) ==
  /\ Ready(p)
  /\ current[p] # NoProject
  /\ LET others == {s \in Session \ {p} : Rows(log[current[p]][s]) > 0}
     IN \E latest \in SUBSET others :
          /\ latest = others \/ Cardinality(latest) = Recent
          /\ Cardinality(latest) <= Recent
          /\ stats' = [stats EXCEPT ![p].others = latest]
  /\ StatsStep(p, "drain", "used")

\* _recent_session_averages: the oracle rows of those sessions, then all rows.
SelectUsed(p) ==
  /\ StatsStep(p, "used", "total")
  /\ stats' = [stats EXCEPT ![p].used =
                 [s \in Session |-> IF s \in stats[p].others
                                      THEN log[current[p]][s].oracle ELSE 0]]

SelectTotal(p) ==
  /\ StatsStep(p, "total", "hits")
  /\ stats' = [stats EXCEPT ![p].total =
                 [s \in Session |-> IF s \in stats[p].others
                                      THEN Rows(log[current[p]][s]) ELSE 0]]

\* Mutant of SelectCumulative: the rows are counted first, then the hits.
SelectCountedFirst(p) ==
  \/ /\ StatsStep(p, "hits", "calls")
     /\ stats' = [stats EXCEPT ![p].calls = OracleRows(current[p])]
  \/ /\ StatsStep(p, "calls", "report")
     /\ stats' = [stats EXCEPT ![p].hits = Hits(current[p])]

\* _format_cumulative_section: the hits of all sessions, then the breakdown.
SelectCumulative(p) ==
  \/ /\ StatsStep(p, "hits", "calls")
     /\ stats' = [stats EXCEPT ![p].hits = Hits(current[p])]
  \/ /\ StatsStep(p, "calls", "report")
     /\ stats' = [stats EXCEPT ![p].calls = OracleRows(current[p])]

Report(p) ==
  /\ StatsStep(p, "report", "idle")
  /\ stats' = [stats EXCEPT ![p] = NoStats]

\* _observe_cache_hit_rate, in the metric reader's thread with a connection of
\* its own: the hits, and then the count of all rows.
ObserveHits(p) ==
  /\ at[p] # "ended"
  /\ gauge[p] # NoProject
  /\ observed[p] = NoObservation
  /\ observed' = [observed EXCEPT ![p] = Hits(gauge[p])]
  /\ UNCHANGED <<queue, at, registry, log, gauge, stats, calls, fates, due>>

ObserveCount(p) ==
  /\ observed[p] # NoObservation
  /\ observed' = [observed EXCEPT ![p] = NoObservation]
  /\ UNCHANGED <<queue, at, registry, log, gauge, stats, calls, fates, due>>

\* A process ends at any step, with the entries it has in hand.
End(p) ==
  /\ at' = [at EXCEPT ![p] = "ended"]
  /\ listed' = [listed EXCEPT ![p] = {}]
  /\ batch' = [batch EXCEPT ![p] = {}]
  /\ cut' = cut \cup batch[p]
  /\ stats' = [stats EXCEPT ![p] = NoStats]
  /\ observed' = [observed EXCEPT ![p] = NoObservation]
  /\ UNCHANGED <<dir, registry, log, gauge, calls, rowsOf, shared, kept, due>>

Drain(p) == BeginCall(p) \/ ReadFile(p) \/ Unlink(p) \/ IngestEntry(p) \/ IngestRaises(p)

Tool(p) == PathTool(p) \/ CurrentTool(p) \/ NoProjectFound(p) \/ ToolRaises(p)

Stats(p) ==
  \/ SelectOthers(p) \/ SelectUsed(p) \/ SelectTotal(p)
  \/ SelectCumulative(p) \/ Report(p)

Observe(p) == ObserveHits(p) \/ ObserveCount(p)

Next ==
  \/ \E e \in Entry : HookOpens(e) \/ HookWrites(e)
  \/ \E p \in Process : Drain(p) \/ Tool(p) \/ Stats(p) \/ Observe(p) \/ End(p)

Spec == Init /\ [][Next]_vars

-----------------------------------------------------------------------------
\* What a process has in hand, and what it knows.
QueueTypeOK ==
  /\ dir \in [Entry -> {"unwritten", "torn", "whole", "gone"}]
  /\ at \in [Process -> {"idle", "drain", "unlink", "used", "total", "hits", "calls",
                          "report", "ended"}]
  /\ listed \in [Process -> SUBSET Entry] /\ batch \in [Process -> SUBSET Entry]
  /\ rowsOf \in [Entry -> Nat]
  /\ shared \subseteq Entry /\ cut \subseteq Entry /\ kept \subseteq Entry

RegistryTypeOK ==
  /\ projects \in [Process -> SUBSET Project]
  /\ current \in [Process -> Project \cup {NoProject}]
  /\ \A p \in Process : current[p] \in projects[p] \cup {NoProject}
  /\ log \in [Project -> [Session -> Counts]]
  /\ gauge \in [Process -> Project \cup {NoProject}]
  /\ due \in [Process -> SUBSET (Project \cup {NoProject})]
  /\ calls \in 0..MaxCalls

TypeOK ==
  /\ QueueTypeOK /\ RegistryTypeOK
  /\ observed \in [Process -> Nat \cup {NoObservation}]

\* No built-in call goes missing but by a failure: once an entry's file is gone,
\* a process has it in its batch or it is in the log, unless it belongs to no
\* project, was half-written or could not be read when a drain took it, or was in a
\* batch that an exception or the end of its process dropped.
EntriesReachTheLog ==
  \A e \in Entry :
    \/ dir[e] # "gone" \/ About[e] = NoProject
    \/ \E p \in Process : e \in batch[p]
    \/ rowsOf[e] > 0 \/ e \in cut

\* No built-in call is logged more than once, whichever drains and failures its file
\* meets, unless two processes had it listed at the same time, or a drain that read
\* it could not delete it.
LoggedTwiceOnlyIfShared == \A e \in Entry : rowsOf[e] <= 1 \/ e \in shared \cup kept

\* The tools that are given no path act on the project of the last path the agent
\* gave this process, or on that of an entry ingested since, whichever agent's.
CurrentIsNamedOrIngested == \A p \in Process : current[p] \in due[p]

\* No rate that is reported exceeds 100 %, though every one is divided from two
\* SELECTs between which other processes log: the adoption of each of the recent
\* sessions and the cumulative hit rate of oracle_stats, and the gauge.
RatesAreRates ==
  \A p \in Process :
    /\ at[p] = "report" =>
         /\ stats[p].hits <= stats[p].calls
         /\ \A s \in stats[p].others : stats[p].used[s] <= stats[p].total[s]
    /\ observed[p] # NoObservation => observed[p] <= AllRows(gauge[p])
=============================================================================
