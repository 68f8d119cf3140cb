--------------------------- MODULE GitCache_proofs ---------------------------
(***************************************************************************)
(* Proofs about the deltas of the git cache, for any files, branches,      *)
(* number of commits and length of the log, whatever git commands fail and *)
(* however the repository moves between them.                              *)
(***************************************************************************)
EXTENDS GitCache, FiniteSetTheorems, TLAPS

USE FileAssumption, StateAssumption, ClosedAssumption, BoundAssumption,
    QuestionAssumption, FailsAssumption, NoneAssumption

\* Every set of commits made so far has a largest one: an induction over the
\* commits, which the behaviour itself carries out.
HaveLargest ==
  \A S \in SUBSET (1..made) : \E n \in S \cup {0} : \A m \in S : m <= n

LEMMA LargestIsLargest ==
  ASSUME made \in Nat, HaveLargest, NEW S \in SUBSET (1..made)
  PROVE  /\ Largest(S) \in S \cup {0} /\ Largest(S) \in 0..made
         /\ \A m \in S : m <= Largest(S)
<1>1. \E n \in S \cup {0} : \A m \in S : m <= n
  BY DEF HaveLargest
<1>2. Largest(S) \in S \cup {0} /\ \A m \in S : m <= Largest(S)
  BY <1>1 DEF Largest
<1>3. ASSUME NEW n \in S \cup {0}
      PROVE  n \in 0..made
  OBVIOUS
<1>4. QED
  BY <1>2, <1>3

\* What git status and git diff answer are sets of names and of files.
LEMMA NamesAreTyped ==
  ASSUME TypeOK
  PROVE  DirtyFiles \in SUBSET Name /\ StagedFiles \in SUBSET File
  BY DEF DirtyFiles, StagedFiles, InState, Name

\* The heads and logs of snapshots are of commits made.
SnapshotsAreOfMade ==
  /\ snap # None => snap.head \in 0..made /\ snap.log \subseteq 1..made
  /\ cap # None => cap.head \in 0..made /\ cap.log \subseteq 1..made

Typed == TypeOK /\ HaveLargest /\ SnapshotsAreOfMade

LEMMA TypedThroughout == Spec => []Typed
<1>1. Init => Typed
  BY DEF Init, Nothing, Typed, TypeOK, HaveLargest, SnapshotsAreOfMade
<1>2. Typed /\ [Next]_vars => Typed'
  <2> SUFFICES ASSUME Typed, [Next]_vars
               PROVE  Typed'
    OBVIOUS
  <2>0. TypeOK /\ HaveLargest /\ SnapshotsAreOfMade /\ made \in Nat
    BY DEF Typed, TypeOK
  <2>a. made' = made => HaveLargest'
    BY <2>0 DEF HaveLargest
  <2> USE DEF TypeOK, SnapshotsAreOfMade, Typed, repo
  <2>1. ASSUME NEW f \in File, Touch(f)
        PROVE  Typed'
    BY <2>0, <2>a, <2>1 DEF Touch
  <2>2. CASE MakeCommit
    <3>1. /\ made' = made + 1 /\ made' \in 0..MaxCommits /\ history' \subseteq 1..made'
          /\ snap' = snap /\ cap' = cap /\ branch' = branch /\ known' = known
      BY <2>0, <2>2 DEF MakeCommit
    <3>2. tree' \in [File -> FileState]
      BY <2>0, <2>2 DEF MakeCommit, AfterCommit
    <3>3. ASSUME NEW S \in SUBSET (1..made')
          PROVE  \E n \in S \cup {0} : \A m \in S : m <= n
      <4>1. CASE made' \in S
        BY <2>0, <3>1, <4>1
      <4>2. CASE made' \notin S
        <5>1. S \in SUBSET (1..made)
          BY <2>0, <3>1, <4>2
        <5>2. QED
          BY <2>0, <5>1 DEF HaveLargest
      <4>3. QED
        BY <4>1, <4>2
    <3>4. HaveLargest'
      BY <3>3 DEF HaveLargest
    <3>5. TypeOK'
      BY <2>0, <3>1, <3>2
    <3>6. SnapshotsAreOfMade'
      BY <2>0, <3>1
    <3>7. QED
      BY <3>4, <3>5, <3>6
  <2>3. CASE Reset \/ Switch
    BY <2>0, <2>a, <2>3 DEF Reset, Switch
  <2>4. ASSUME NEW q \in Questions, Ask(q)
        PROVE  Typed'
    BY <2>0, <2>a, <2>4 DEF Ask, CaptureType, Asks, Commands
  <2>5. CASE GitCommand
    <3>1. UNCHANGED <<branch, history, made, tree, snap, known>>
      BY <2>5 DEF GitCommand
    <3>2. Head \in 0..made
      BY <2>0, LargestIsLargest DEF Head
    <3>3. Log \in SUBSET history
      BY DEF Log
    <3>4. cap # None /\ cap \in CaptureType
      BY <2>0, <2>5 DEF GitCommand
    <3>5. cap' \in CaptureType /\ cap'.head \in 0..made /\ cap'.log \subseteq 1..made
      <4>1. cap.head \in 0..made /\ cap.log \subseteq 1..made /\ branch \in Branch
        BY <2>0, <3>4
      <4>2. Log \subseteq 1..made /\ Log \subseteq Commit
        <5>1. \A c \in 1..made : c \in 1..MaxCommits
          BY <2>0
        <5>2. QED
          BY <2>0, <3>3, <5>1 DEF Commit
      <4>3. 0 \in 0..made /\ 0 \in 0..MaxCommits /\ Head \in 0..MaxCommits
        BY <2>0, <3>2
      <4>4. DirtyFiles \in SUBSET Name /\ StagedFiles \in SUBSET File
        BY <2>0, NamesAreTyped
      <4> HIDE DEF TypeOK, Typed, SnapshotsAreOfMade
      <4> USE <3>4, <4>1 DEF CaptureType, Commands
      <4>5. CASE cap.next = "branch"
        BY <2>5, <4>5 DEF GitCommand
      <4>6. CASE cap.next = "head"
        BY <2>5, <3>2, <4>3, <4>6 DEF GitCommand
      <4>7. CASE cap.next = "dirty"
        BY <2>5, <4>4, <4>7 DEF GitCommand
      <4>8. CASE cap.next = "staged"
        BY <2>5, <4>4, <4>8 DEF GitCommand
      <4>9. CASE cap.next = "log"
        <5>1. PICK log \in {{}, Log} : cap' = [cap EXCEPT !.next = "done", !.log = log]
          BY <2>5, <4>9 DEF GitCommand
        <5>2. log \subseteq 1..made /\ log \subseteq Commit
          BY <4>2, <5>1
        <5>3. QED
          BY <5>1, <5>2
      <4>10. QED
        BY <2>5, <4>5, <4>6, <4>7, <4>8, <4>9 DEF GitCommand
    <3>6. QED
      BY <2>0, <2>a, <3>1, <3>5
  <2>6. CASE TellFull \/ TellDelta \/ TellReady \/ DropDelta \/ TellStatus
    <3>1. cap # None /\ cap \in CaptureType /\ snap' = Snapshot
          /\ UNCHANGED <<branch, history, made, tree>>
      BY <2>0, <2>6 DEF TellFull, TellDelta, TellReady, DropDelta, TellStatus, Taken, Keep
    <3>2. Snapshot \in SnapshotType
      BY <3>1 DEF Snapshot, SnapshotType, CaptureType
    <3>3. cap' \in {None} \cup CaptureType
          /\ (cap' # None => cap'.head = cap.head /\ cap'.log = cap.log)
      <4> HIDE DEF TypeOK, Typed, SnapshotsAreOfMade
      <4>1. cap' = None \/ cap' = [cap EXCEPT !.for = "status", !.next = "branch"]
        BY <2>6 DEF TellFull, TellDelta, TellReady, DropDelta, TellStatus
      <4>2. "status" \in Asks /\ "branch" \in Commands
        BY DEF Asks, Commands
      <4>3. QED
        BY <3>1, <4>1, <4>2 DEF CaptureType
    <3>4. known' \in [branch : Branch \cup {None, Unknown},
                      dirty : {Unknown} \cup SUBSET Name,
                      staged : {Unknown} \cup SUBSET File,
                      commits : {Unknown} \cup SUBSET Commit]
      <4>1. CASE TellFull
        BY <3>1, <4>1 DEF TellFull, CaptureType
      <4>2. CASE TellDelta
        <5>1. snap \in SnapshotType
          BY <2>0, <4>2 DEF TellDelta
        <5>2. Applied(known.dirty, snap.dirty, cap.dirty) \in {Unknown} \cup SUBSET Name
          BY <2>0, <3>1, <5>1 DEF Applied, CaptureType, SnapshotType
        <5>3. Applied(known.staged, snap.staged, cap.staged) \in {Unknown} \cup SUBSET File
          BY <2>0, <3>1, <5>1 DEF Applied, CaptureType, SnapshotType
        <5>4. NewCommits \in SUBSET Commit
          BY <3>1 DEF NewCommits, CaptureType
        <5>5. QED
          BY <2>0, <3>1, <4>2, <5>2, <5>3, <5>4 DEF TellDelta, CaptureType
      <4>3. CASE TellReady \/ DropDelta
        BY <3>1, <4>3 DEF TellReady, DropDelta, Nothing, CaptureType
      <4>4. CASE TellStatus
        BY <2>0, <3>1, <4>4 DEF TellStatus, CaptureType
      <4>5. QED
        BY <2>6, <4>1, <4>2, <4>3, <4>4
    <3>5. TypeOK'
      BY <2>0, <3>1, <3>2, <3>3, <3>4
    <3>6. SnapshotsAreOfMade'
      BY <2>0, <3>1, <3>3 DEF Snapshot
    <3>7. QED
      BY <2>a, <3>1, <3>5, <3>6
  <2>7. CASE AnswerFails
    <3>1. cap # None /\ cap \in CaptureType /\ snap' = Snapshot /\ cap' = None
          /\ UNCHANGED <<branch, history, made, tree>>
      BY <2>0, <2>7 DEF AnswerFails, Taken, Keep
    <3>2. Snapshot \in SnapshotType
      BY <3>1 DEF Snapshot, SnapshotType, CaptureType
    <3>3. known' \in {known, Nothing}
      BY <2>7 DEF AnswerFails
    <3>4. TypeOK'
      BY <2>0, <3>1, <3>2, <3>3 DEF Nothing
    <3>5. SnapshotsAreOfMade'
      BY <2>0, <3>1 DEF Snapshot
    <3>6. QED
      BY <2>a, <3>1, <3>4, <3>5
  <2>8. CASE GitRaises
    BY <2>0, <2>a, <2>8 DEF GitRaises
  <2>9. CASE Restart
    BY <2>0, <2>a, <2>9 DEF Restart, Nothing
  <2>10. CASE UNCHANGED vars
    BY <2>0, <2>a, <2>10 DEF vars
  <2>11. QED
    BY <2>1, <2>2, <2>3, <2>4, <2>5, <2>6, <2>7, <2>8, <2>9, <2>10 DEF Next
<1>3. QED
  BY <1>1, <1>2, PTL DEF Spec

\* Every variable keeps its type.
THEOREM TypeCorrect == Spec => []TypeOK
<1>1. Typed => TypeOK
  BY DEF Typed
<1>2. QED
  BY <1>1, TypedThroughout, PTL

-----------------------------------------------------------------------------
\* Between the two snapshots of oracle_status the agent knows nothing for sure.
StatusStartsBlank ==
  (cap # None /\ cap.for = "status") =>
    known.branch = Unknown /\ known.dirty = Unknown /\ known.staged = Unknown
      /\ known.commits = Unknown

LEMMA DeltasAddUpInductive == Spec => [](DeltasAddUp /\ StatusStartsBlank)
<1>1. Init => DeltasAddUp /\ StatusStartsBlank
  BY DEF Init, Nothing, DeltasAddUp, StatusStartsBlank
<1>2. TypeOK /\ DeltasAddUp /\ StatusStartsBlank /\ [Next]_vars
        => (DeltasAddUp /\ StatusStartsBlank)'
  <2> SUFFICES ASSUME TypeOK, DeltasAddUp, StatusStartsBlank, [Next]_vars
               PROVE  (DeltasAddUp /\ StatusStartsBlank)'
    OBVIOUS
  <2> USE DEF TypeOK, DeltasAddUp, StatusStartsBlank
  <2>1. ASSUME UNCHANGED <<snap, cap, known>>
        PROVE  (DeltasAddUp /\ StatusStartsBlank)'
    BY <2>1
  <2>2. CASE \E f \in File : Touch(f)
    BY <2>1, <2>2 DEF Touch
  <2>3. CASE MakeCommit \/ Reset \/ Switch \/ UNCHANGED vars
    BY <2>1, <2>3 DEF MakeCommit, Reset, Switch, vars
  <2>4. ASSUME NEW q \in Questions, Ask(q)
        PROVE  (DeltasAddUp /\ StatusStartsBlank)'
    BY <2>4 DEF Ask
  <2>5. CASE GitCommand
    <3>1. UNCHANGED <<snap, known>> /\ cap # None /\ cap \in CaptureType
      BY <2>5 DEF GitCommand
    <3>2. cap'.for = cap.for
      <4> HIDE DEF TypeOK, DeltasAddUp, StatusStartsBlank
      <4>1. QED
        BY <2>5, <3>1 DEF GitCommand, CaptureType
    <3>3. QED
      BY <3>1, <3>2
  <2>6. CASE TellFull
    BY <2>6 DEF TellFull, Keep, Snapshot
  <2>7. CASE TellDelta
    <3>1. cap \in CaptureType /\ snap \in SnapshotType /\ snap' = Snapshot /\ cap' = None
      BY <2>7 DEF TellDelta, Taken, Keep
    <3>2. \A list, old, new : list \in {Unknown, old} =>
             Applied(list, old, new) \in {Unknown, new}
      BY DEF Applied
    <3>3. QED
      BY <2>7, <3>1, <3>2 DEF TellDelta, Snapshot
  <2>8. CASE TellReady
    BY <2>8 DEF TellReady, Keep, Snapshot
  <2>9. CASE DropDelta
    BY <2>9 DEF DropDelta, Nothing, Keep, Snapshot, CaptureType
  <2>10. CASE TellStatus
    BY <2>10 DEF TellStatus, Keep, Snapshot, Taken
  <2>11. CASE AnswerFails
    BY <2>11 DEF AnswerFails, Nothing, Keep
  <2>12. CASE GitRaises \/ Restart
    BY <2>12 DEF GitRaises, Restart, Nothing
  <2>13. QED
    BY <2>2, <2>3, <2>4, <2>5, <2>6, <2>7, <2>8, <2>9, <2>10, <2>11, <2>12 DEF Next
<1>3. QED
  BY <1>1, <1>2, TypeCorrect, PTL DEF Spec

\* git_cache.py:56, "return only what changed": an agent that applies what it is
\* told to what it was told before has the last snapshot's branch and files, up
\* to what the answer of a failed call had to tell.
THEOREM DeltasAreComplete == Spec => []DeltasAddUp
  BY DeltasAddUpInductive, PTL

-----------------------------------------------------------------------------
\* The log of the history as it was when h was its head.
LogAt(h) ==
  {c \in history : c <= h /\ Cardinality({d \in history : d > c /\ d <= h}) < LogLen}

\* A head and a log of one history, which is still part of the present one.
Present(head, log) == head = Largest(log) /\ head \in history \cup {0}

\* Commits are numbered as they are made and only the newest is ever reset, so
\* that what is below a commit does not change as long as it is there.
LogsArePresent ==
  /\ (snap # None /\ Present(snap.head, snap.log)) => snap.log = LogAt(snap.head)
  /\ (cap # None /\ cap.next = "done" /\ Present(cap.head, cap.log))
       => cap.log = LogAt(cap.head)

\* Equal heads of whole snapshots are heads of equal logs: if HEAD has not moved
\* there is nothing to tell (git_cache.py:118).
EqualHeadsEqualLogs ==
  (snap # None /\ cap # None /\ cap.next = "done" /\ Whole
     /\ snap.head = Largest(snap.log) /\ cap.head = snap.head) => cap.log = snap.log

\* The agent can tell the commits only on top of a whole snapshot.
ToldOfWhole ==
  known.commits # Unknown => snap.head = Largest(snap.log)

\* The log at the present head is the log.
LEMMA LogIsLogAtHead ==
  ASSUME Typed
  PROVE  Log = LogAt(Head) /\ Present(Head, Log) /\ Present(0, {}) /\ LogAt(0) = {}
<1>1. made \in Nat /\ history \in SUBSET (1..made) /\ HaveLargest
  BY DEF Typed, TypeOK
<1>2. /\ Head \in history \cup {0} /\ Head \in 0..made
      /\ \A c \in history : c <= Head
  BY <1>1, LargestIsLargest DEF Head
<1>3. Log = LogAt(Head)
  <2>1. ASSUME NEW c \in history
        PROVE  {d \in history : d > c /\ d <= Head} = {d \in history : d > c}
    BY <1>2
  <2>2. QED
    BY <1>2, <2>1 DEF Log, LogAt
<1>4. Head = Largest(Log)
  <2>1. Head \in history => Head \in Log
    <3>0. \A d \in history : ~(d > Head)
      BY <1>1, <1>2
    <3>1. {d \in history : d > Head} = {}
      BY <3>0
    <3>2. Cardinality({d \in history : d > Head}) = 0
      BY <3>1, FS_EmptySet
    <3>3. QED
      BY <3>2 DEF Log
  <2>2. Log \in SUBSET (1..made) /\ \A c \in Log : c <= Head
    BY <1>1, <1>2 DEF Log
  <2>3. Head \notin history => Log = {} /\ Head = 0
    <3>1. Head \notin history => Head = 0 /\ history = {}
      BY <1>1, <1>2
    <3>2. QED
      BY <3>1 DEF Log
  <2>4. /\ Largest(Log) \in Log \cup {0} /\ Largest(Log) \in 0..made
        /\ \A c \in Log : c <= Largest(Log)
    BY <1>1, <2>2, LargestIsLargest
  <2>5. Largest(Log) <= Head
    BY <1>2, <2>2, <2>4
  <2>6. CASE Head \in history
    BY <1>2, <2>1, <2>4, <2>5, <2>6
  <2>7. CASE Head \notin history
    BY <2>3, <2>4, <2>7
  <2>8. QED
    BY <2>6, <2>7
<1>5. Largest({}) = 0
  BY <1>1, LargestIsLargest
<1>6. LogAt(0) = {}
  <2>1. \A c \in history : ~(c <= 0)
    BY <1>1
  <2>2. QED
    BY <2>1 DEF LogAt
<1>7. QED
  BY <1>2, <1>3, <1>4, <1>5, <1>6 DEF Present

\* What is below a present commit stays when another is made or the head reset.
LEMMA LogAtStays ==
  ASSUME Typed, NEW h \in 0..made, h \in history' \cup {0},
         \/ history' = history \cup {made + 1}
         \/ history # {} /\ history' = history \ {Head}
  PROVE  LogAt(h)' = LogAt(h) /\ h \in history \cup {0}
<1>1. made \in Nat /\ history \in SUBSET (1..made) /\ HaveLargest
  BY DEF Typed, TypeOK
<1>2. /\ Head \in history \cup {0} /\ Head \in 0..made
      /\ \A c \in history : c <= Head
  BY <1>1, LargestIsLargest DEF Head
<1>3. history' # history \cup {made + 1} => Head > h
  <2>1. SUFFICES ASSUME history # {}, history' = history \ {Head}
                 PROVE  Head > h
    OBVIOUS
  <2>2. PICK c \in history : TRUE
    BY <2>1
  <2>3. c \in 1..made /\ c <= Head
    BY <1>1, <1>2
  <2>4. CASE h = 0
    BY <1>2, <2>3, <2>4
  <2>5. CASE h \in history'
    BY <1>1, <1>2, <2>1, <2>5
  <2>6. QED
    BY <2>4, <2>5
<1>4. h \in history \cup {0}
  BY <1>1
<1>5. \A d : (d \in history' /\ d <= h) <=> (d \in history /\ d <= h)
  BY <1>1, <1>2, <1>3
<1>6. ASSUME NEW c
      PROVE  {d \in history' : d > c /\ d <= h} = {d \in history : d > c /\ d <= h}
  BY <1>5
<1>7. QED
  BY <1>4, <1>5, <1>6 DEF LogAt

LEMMA CommitsInductive ==
  Spec => [](LogsArePresent /\ EqualHeadsEqualLogs /\ ToldOfWhole /\ CommitsAreTold)
<1> DEFINE Inv == LogsArePresent /\ EqualHeadsEqualLogs /\ ToldOfWhole /\ CommitsAreTold
<1>1. Init => Inv
  BY DEF Init, Nothing, LogsArePresent, EqualHeadsEqualLogs, ToldOfWhole, CommitsAreTold
<1>2. Typed /\ Typed' /\ StatusStartsBlank /\ Inv /\ [Next]_vars => Inv'
  <2> SUFFICES ASSUME Typed, Typed', StatusStartsBlank, Inv, [Next]_vars
               PROVE  Inv'
    OBVIOUS
  <2>0. made \in Nat /\ TypeOK /\ SnapshotsAreOfMade
    BY DEF Typed, TypeOK
  <2>1. ASSUME UNCHANGED <<history, snap, cap, known>>
        PROVE  Inv'
    BY <2>1
    DEF LogsArePresent, Present, LogAt, EqualHeadsEqualLogs, Whole, ToldOfWhole, CommitsAreTold
  <2>2. CASE \/ \E f \in File : Touch(f)
             \/ Switch \/ UNCHANGED vars
    BY <2>1, <2>2 DEF Touch, Switch, vars
  <2>3. CASE MakeCommit \/ Reset
    <3>1. /\ UNCHANGED <<snap, cap, known>>
          /\ \/ history' = history \cup {made + 1}
             \/ history # {} /\ history' = history \ {Head}
      BY <2>3 DEF MakeCommit, Reset
    <3>2. \A h \in 0..made : h \in history' \cup {0} =>
            LogAt(h)' = LogAt(h) /\ h \in history \cup {0}
      BY <3>1, LogAtStays
    <3>3. LogsArePresent'
      BY <2>0, <3>1, <3>2 DEF LogsArePresent, Present, SnapshotsAreOfMade
    <3>4. QED
      BY <3>1, <3>3 DEF EqualHeadsEqualLogs, Whole, ToldOfWhole, CommitsAreTold
  <2>4. ASSUME NEW q \in Questions, Ask(q)
        PROVE  Inv'
    BY <2>4 DEF Ask, repo, LogsArePresent, Present, LogAt, EqualHeadsEqualLogs, Whole,
                ToldOfWhole, CommitsAreTold
  <2>5. CASE GitCommand
    <3>1. UNCHANGED <<history, snap, known>> /\ cap # None /\ cap \in CaptureType
      BY <2>0, <2>5 DEF GitCommand, repo, TypeOK
    <3>2. ToldOfWhole' /\ CommitsAreTold'
      BY <3>1 DEF ToldOfWhole, CommitsAreTold
    <3>3. CASE cap'.next # "done"
      BY <3>1, <3>2, <3>3 DEF LogsArePresent, Present, LogAt, EqualHeadsEqualLogs, Whole
    <3>4. CASE cap'.next = "done"
      <4>1. cap.next = "log" /\ cap'.head = cap.head /\ cap'.log \in {{}, Log}
        BY <2>5, <3>1, <3>4 DEF GitCommand, CaptureType
      <4>2. cap'.head = Largest(cap'.log) =>
              cap'.log = LogAt(cap'.head) /\ Present(cap'.head, cap'.log)
        BY <4>1, LogIsLogAtHead DEF Present
      <4>3. LogsArePresent'
        BY <3>1, <4>2 DEF LogsArePresent, Present, LogAt
      <4>4. EqualHeadsEqualLogs'
        BY <3>1, <4>2 DEF EqualHeadsEqualLogs, Whole, LogsArePresent, Present
      <4>5. QED
        BY <3>2, <4>3, <4>4
    <3>5. QED
      BY <3>3, <3>4
  <2>6. CASE TellFull \/ TellDelta \/ TellReady \/ DropDelta \/ TellStatus
    <3>1. /\ cap # None /\ cap.next = "done" /\ cap \in CaptureType
          /\ snap' = Snapshot /\ history' = history
      BY <2>0, <2>6
      DEF TellFull, TellDelta, TellReady, DropDelta, TellStatus, Taken, Keep, repo, TypeOK
    <3>2. snap'.head = cap.head /\ snap'.log = cap.log
      BY <3>1 DEF Snapshot
    <3>3. cap' = None \/ cap'.next # "done"
      BY <2>6, <3>1 DEF TellFull, TellDelta, TellReady, DropDelta, TellStatus, CaptureType
    <3>4. LogsArePresent' /\ EqualHeadsEqualLogs'
      BY <3>1, <3>2, <3>3 DEF LogsArePresent, EqualHeadsEqualLogs, Present, LogAt
    <3>5. known'.commits # Unknown => Whole /\ snap'.log \subseteq known'.commits
      <4>1. CASE TellFull
        BY <3>2, <4>1 DEF TellFull
      <4>2. CASE TellDelta
        <5>1. SUFFICES ASSUME known'.commits # Unknown
                       PROVE  Whole /\ cap.log \subseteq known'.commits
          BY <3>2
        <5>2. /\ snap # None /\ Whole /\ known.commits # Unknown
              /\ known'.commits = known.commits \cup NewCommits
          BY <4>2, <5>1 DEF TellDelta
        <5>3. snap.head = Largest(snap.log) /\ snap.log \subseteq known.commits
          BY <5>2 DEF ToldOfWhole, CommitsAreTold
        <5>4. CASE cap.head = snap.head
          BY <3>1, <5>2, <5>3, <5>4 DEF EqualHeadsEqualLogs
        <5>5. CASE cap.head # snap.head
          BY <5>2, <5>3, <5>5 DEF NewCommits
        <5>6. QED
          BY <5>2, <5>4, <5>5
      <4>3. CASE TellReady \/ DropDelta
        BY <4>3 DEF TellReady, DropDelta, Nothing
      <4>4. CASE TellStatus
        BY <2>0, <4>4 DEF TellStatus, Taken, StatusStartsBlank, TypeOK
      <4>5. QED
        BY <2>6, <4>1, <4>2, <4>3, <4>4
    <3>6. QED
      BY <3>2, <3>4, <3>5 DEF ToldOfWhole, CommitsAreTold, Whole
  <2>7. CASE AnswerFails
    <3>1. /\ cap # None /\ cap.next = "done" /\ snap' = Snapshot
          /\ cap' = None /\ history' = history
      BY <2>7 DEF AnswerFails, Taken, Keep, repo
    <3>2. snap'.head = cap.head /\ snap'.log = cap.log
      BY <3>1 DEF Snapshot
    <3>3. LogsArePresent' /\ EqualHeadsEqualLogs'
      BY <3>1, <3>2 DEF LogsArePresent, EqualHeadsEqualLogs, Present, LogAt
    <3>4. (snap' = snap /\ known' = known) \/ known' = Nothing
      BY <2>7, <3>1 DEF AnswerFails
    <3>5. ToldOfWhole' /\ CommitsAreTold'
      BY <3>4 DEF ToldOfWhole, CommitsAreTold, Nothing
    <3>6. QED
      BY <3>3, <3>5
  <2>8. CASE GitRaises
    BY <2>8 DEF GitRaises, repo, LogsArePresent, Present, LogAt, EqualHeadsEqualLogs,
                ToldOfWhole, CommitsAreTold
  <2>9. CASE Restart
    BY <2>9 DEF Restart, Nothing, LogsArePresent, EqualHeadsEqualLogs, ToldOfWhole,
                CommitsAreTold
  <2>10. QED
    BY <2>2, <2>3, <2>4, <2>5, <2>6, <2>7, <2>8, <2>9 DEF Next
<1>3. QED
  BY <1>1, <1>2, TypedThroughout, DeltasAddUpInductive, PTL DEF Spec

\* git_cache.py:118: as long as HEAD and the log of every snapshot are of one
\* history, no other question replaced it and no answer with changes was lost to
\* an error, the agent has been told of every commit in the last snapshot's log,
\* although commits are compared only if HEAD has moved.
THEOREM CommitsAreComplete == Spec => []CommitsAreTold
  BY CommitsInductive, PTL
=============================================================================
