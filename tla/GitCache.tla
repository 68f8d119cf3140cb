------------------------------ MODULE GitCache ------------------------------
(***************************************************************************)
(* The git state a server process of the oracle keeps (cache/git_cache.py, *)
(* integrations/git.py) and what its agent learns from it.                 *)
(*                                                                         *)
(* A snapshot takes five git commands, and the repository may change       *)
(* between any two of them.  Three questions take snapshots and replace    *)
(* the last one: "what changed?" (get_delta), "are we ready to push?"      *)
(* (refresh) and oracle_status, which computes a delta for its statistics, *)
(* drops it and then refreshes.  The answer only reaches the agent if the  *)
(* call's log row is written: the snapshot has been replaced by then.      *)
(*                                                                         *)
(* Commits are numbered as they are made, a file is a number that stands   *)
(* for its place in git's order.  get_dirty_files strips the whole output  *)
(* of git status before it cuts three characters off each line; a file     *)
(* that loses the first character of its name that way is its negation.    *)
(***************************************************************************)
EXTENDS Integers, FiniteSets

CONSTANTS File, Branch,
          FileState,    \* bound: the states of a file in git status that occur
          MaxCommits,   \* bound: commits made
          LogLen,       \* lines of git log that are kept (20)
          Questions,    \* what the agent asks
          GitFails,     \* whether a git command may fail or time out
          StoreFails,   \* whether SQLite may refuse a log row
          None, Unknown

ASSUME FileAssumption == File \subseteq Nat \ {0}
\* What git status --porcelain tells apart: XY is " M", "M ", "MM" and "??".
ASSUME StateAssumption ==
  FileState \subseteq {"clean", "modified", "staged", "both", "untracked"}
ASSUME ClosedAssumption ==
  "clean" \in FileState /\ ("both" \in FileState => "modified" \in FileState)
ASSUME BoundAssumption == MaxCommits \in Nat /\ LogLen \in Nat \ {0}
ASSUME QuestionAssumption == Questions \subseteq {"changes", "ready", "status"}
ASSUME FailsAssumption == GitFails \in BOOLEAN /\ StoreFails \in BOOLEAN
ASSUME NoneAssumption == None \notin Branch /\ Unknown \notin Branch /\ Unknown # None

VARIABLES
  branch, history, made, tree,  \* the repository
  snap,    \* _last_snapshot, or None
  cap,     \* the snapshot being taken: for what, which command is next
  known    \* ghost: what the agent has been told, Unknown where it cannot tell or
           \* the call that had it to tell has failed

repo == <<branch, history, made, tree>>
vars == <<branch, history, made, tree, snap, cap, known>>

Commit == 1..MaxCommits
Name == File \cup {-f : f \in File}
Largest(S) == CHOOSE n \in S \cup {0} : \A m \in S : m <= n

Head == Largest(history)
Log == {c \in history : Cardinality({d \in history : d > c}) < LogLen}

Nothing ==
  [branch |-> Unknown, dirty |-> Unknown, staged |-> Unknown, commits |-> Unknown]

Init ==
  /\ branch \in Branch
  /\ history = {} /\ made = 0
  /\ tree = [f \in File |-> "clean"]
  /\ snap = None
  /\ cap = None
  /\ known = Nothing

-----------------------------------------------------------------------------
(* The repository, in the hands of the agent and of everybody else.        *)

Touch(f) ==
  /\ \E st \in FileState \ {tree[f]} : tree' = [tree EXCEPT ![f] = st]
  /\ UNCHANGED <<branch, history, made, snap, cap, known>>

AfterCommit(st) ==
  IF st = "staged" THEN "clean" ELSE IF st = "both" THEN "modified" ELSE st

MakeCommit ==
  /\ made < MaxCommits
  /\ made' = made + 1
  /\ history' = history \cup {made + 1}
  /\ tree' = [f \in File |-> AfterCommit(tree[f])]
  /\ UNCHANGED <<branch, snap, cap, known>>

\* git reset HEAD~1, with the tree as it was.
Reset ==
  /\ history # {}
  /\ history' = history \ {Head}
  /\ UNCHANGED <<branch, made, tree, snap, cap, known>>

\* git checkout -b
Switch ==
  /\ branch' \in Branch \ {branch}
  /\ UNCHANGED <<history, made, tree, snap, cap, known>>

-----------------------------------------------------------------------------
(* Taking a snapshot.                                                      *)

InState(S) == {f \in File : tree[f] \in S}

\* Tracked files come first in git status, and the first line of its output
\* loses a leading space to strip().
FirstLine(f) ==
  /\ tree[f] = "modified"
  /\ \A g \in InState({"modified", "staged", "both"}) : f <= g

\* get_dirty_files
DirtyFiles ==
  {f \in InState({"modified", "staged", "both", "untracked"}) : ~FirstLine(f)}
    \cup {-f : f \in {g \in File : FirstLine(g)}}

\* Mutant of StagedFiles: taken from git status like the dirty ones.
StagedFromStatus == {f \in DirtyFiles : f < 0 \/ tree[f] \in {"staged", "both"}}

\* get_staged_files
StagedFiles == InState({"staged", "both"})

Ask(q) ==
  /\ cap = None
  /\ cap' = [for |-> IF q = "status" THEN "stats" ELSE q, next |-> "branch",
             branch |-> None, head |-> 0, dirty |-> {}, staged |-> {}, log |-> {}]
  /\ UNCHANGED <<repo, snap, known>>

\* The next git command, which on failure returns an empty string.
GitCommand ==
  /\ cap # None
  /\ \E fails \in {FALSE, GitFails} :
       \/ /\ cap.next = "branch"
          /\ cap' = [cap EXCEPT !.next = "head", !.branch = IF fails THEN None ELSE branch]
       \/ /\ cap.next = "head"
          /\ cap' = [cap EXCEPT !.next = "dirty", !.head = IF fails THEN 0 ELSE Head]
       \/ /\ cap.next = "dirty"
          /\ cap' = [cap EXCEPT !.next = "staged", !.dirty = IF fails THEN {} ELSE DirtyFiles]
       \/ /\ cap.next = "staged"
          /\ cap' = [cap EXCEPT !.next = "log", !.staged = IF fails THEN {} ELSE StagedFiles]
       \/ /\ cap.next = "log"
          /\ cap' = [cap EXCEPT !.next = "done", !.log = IF fails THEN {} ELSE Log]
  /\ UNCHANGED <<repo, snap, known>>

\* git wrote something that is not UTF-8: the exception ends the call, and the
\* last snapshot stays.
GitRaises ==
  /\ GitFails
  /\ cap # None /\ cap.next # "done"
  /\ cap' = None
  /\ UNCHANGED <<repo, snap, known>>

\* The server process ends.  The next one has no snapshot, and what it tells
\* does not build on what was told before.
Restart ==
  /\ snap' = None /\ cap' = None
  /\ known' = Nothing
  /\ UNCHANGED repo

Taken(for) == cap # None /\ cap.next = "done" /\ cap.for = for

Snapshot == [branch |-> cap.branch, head |-> cap.head, dirty |-> cap.dirty,
             staged |-> cap.staged, log |-> cap.log]

\* HEAD and the log were taken of the same history.
Whole == cap.head = Largest(cap.log)

-----------------------------------------------------------------------------
(* Answering.                                                              *)

\* Mutant of NewCommits: the newest line for all the new ones.
NewestCommit == IF cap.head # snap.head THEN {cap.head} \cap cap.log ELSE {}

\* Lines of the log that the last one did not have, if HEAD has moved.
NewCommits == IF cap.head # snap.head THEN cap.log \ snap.log ELSE {}

\* The delta's lines, applied to a list of files the agent has.
Applied(list, old, new) ==
  IF list = Unknown THEN Unknown ELSE (list \ (old \ new)) \cup (new \ old)

\* Mutant of Keep: the last snapshot is only replaced if there is none.
KeepFirst == snap' = IF snap = None THEN Snapshot ELSE snap

\* self._last_snapshot = ...
Keep == snap' = Snapshot

\* _format_full: the first snapshot is told in full.
TellFull ==
  /\ Taken("changes") /\ snap = None
  /\ Keep
  /\ known' = [branch |-> cap.branch, dirty |-> cap.dirty, staged |-> cap.staged,
               commits |-> IF Whole THEN cap.log ELSE Unknown]
  /\ cap' = None
  /\ UNCHANGED repo

\* get_delta: only what differs from the last snapshot, which may be nothing.
TellDelta ==
  /\ Taken("changes") /\ snap # None
  /\ Keep
  /\ known' = [branch |-> IF cap.branch # snap.branch THEN cap.branch ELSE known.branch,
               dirty |-> Applied(known.dirty, snap.dirty, cap.dirty),
               staged |-> Applied(known.staged, snap.staged, cap.staged),
               commits |-> IF known.commits # Unknown /\ Whole
                            THEN known.commits \cup NewCommits ELSE Unknown]
  /\ cap' = None
  /\ UNCHANGED repo

\* _readiness_check: the lists of files and nothing else.
TellReady ==
  /\ Taken("ready")
  /\ Keep
  /\ known' = [branch |-> Unknown, dirty |-> cap.dirty, staged |-> cap.staged,
               commits |-> Unknown]
  /\ cap' = None
  /\ UNCHANGED repo

\* oracle_status, get_delta_with_stats: the text is dropped.
DropDelta ==
  /\ Taken("stats")
  /\ Keep
  /\ known' = Nothing
  /\ cap' = [cap EXCEPT !.for = "status", !.next = "branch"]
  /\ UNCHANGED repo

\* handle_oracle_status: the branch, and how many files are dirty.
TellStatus ==
  /\ Taken("status")
  /\ Keep
  /\ known' = [known EXCEPT !.branch = cap.branch,
                            !.dirty = IF cap.dirty = {} THEN {} ELSE Unknown]
  /\ cap' = None
  /\ UNCHANGED repo

\* _log raises once the snapshot has been replaced: the agent gets an error for
\* an answer, and the next delta starts from what it was not told.
AnswerFails ==
  /\ StoreFails
  /\ Taken("changes") \/ Taken("ready") \/ Taken("status")
  /\ Keep
  /\ known' = IF snap = Snapshot THEN known ELSE Nothing
  /\ cap' = None
  /\ UNCHANGED repo

Next ==
  \/ \E f \in File : Touch(f)
  \/ MakeCommit \/ Reset \/ Switch
  \/ \E q \in Questions : Ask(q)
  \/ GitCommand \/ GitRaises \/ Restart
  \/ TellFull \/ TellDelta \/ TellReady \/ DropDelta \/ TellStatus \/ AnswerFails

Spec == Init /\ [][Next]_vars

-----------------------------------------------------------------------------
Asks == {"changes", "ready", "stats", "status"}
Commands == {"branch", "head", "dirty", "staged", "log", "done"}

SnapshotType ==
  [branch : Branch \cup {None}, head : 0..MaxCommits, dirty : SUBSET Name,
   staged : SUBSET File, log : SUBSET Commit]

CaptureType ==
  [for : Asks, next : Commands,
   branch : Branch \cup {None}, head : 0..MaxCommits, dirty : SUBSET Name,
   staged : SUBSET File, log : SUBSET Commit]

TypeOK ==
  /\ branch \in Branch
  /\ made \in 0..MaxCommits /\ history \subseteq 1..made
  /\ tree \in [File -> FileState]
  /\ snap \in {None} \cup SnapshotType
  /\ cap \in {None} \cup CaptureType
  /\ known \in [branch : Branch \cup {None, Unknown},
                dirty : {Unknown} \cup SUBSET Name,
                staged : {Unknown} \cup SUBSET File,
                commits : {Unknown} \cup SUBSET Commit]

\* Applying every delta to what it was told before, the agent has the branch
\* and the files of the last snapshot, however torn the snapshots are, whatever
\* git commands failed and whichever questions replaced the snapshot: unless a
\* call has failed with its snapshot taken and changes to tell, which no later
\* delta makes up for, and until what it lost is told outright again.
DeltasAddUp ==
  snap # None =>
    /\ known.branch \in {Unknown, snap.branch}
    /\ known.dirty \in {Unknown, snap.dirty}
    /\ known.staged \in {Unknown, snap.staged}

\* git_cache.py:56, "return only what changed": as long as every snapshot was
\* whole, was taken for "what changed?" and, if it had changes, was answered
\* without an error, the agent has been told of every commit in the last one's
\* log, over commits, resets and failed commands.
CommitsAreTold ==
  (snap # None /\ known.commits # Unknown) => snap.log \subseteq known.commits
=============================================================================
