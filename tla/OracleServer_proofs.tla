------------------------- MODULE OracleServer_proofs -------------------------
(***************************************************************************)
(* Proofs about the queue directory, the registry, the log and what is     *)
(* reported of it, for any processes, agents, projects and entries,        *)
(* whatever writes fail and whichever processes end.                       *)
(*                                                                         *)
(* The reports add counts up over the sessions with SumFunction, which is  *)
(* recursive; its monotonicity is proved here from the least-number        *)
(* principle, by building the function that it is defined to choose.       *)
(***************************************************************************)
EXTENDS OracleServer, FiniteSetTheorems, WellFoundedInduction, TLAPS

USE SessionAssumption, EntryAssumption, AboutAssumption, BoundAssumption

\* Whose turn it is is unique.
LEMMA FirstIsOne ==
  ASSUME NEW files \in SUBSET Entry, NEW e \in First(files), NEW f \in First(files)
  PROVE  e = f /\ e \in Entry /\ e \in files
  BY DEF First

Held(p) == listed[p] \cup batch[p]

\* Entries that can be taken a second time.
Again == shared \cup kept

\* A process in neither stage of a drain has nothing in hand.
HandsAreEmpty ==
  \A p \in Process : at[p] \notin {"drain", "unlink"} => listed[p] = {} /\ batch[p] = {}

\* What is listed was there, and what has been read and not yet deleted is in the
\* batch, unless it was half-written or another process has deleted it.
ListedWasThere ==
  \A p \in Process : \A e \in listed[p] :
    /\ dir[e] # "unwritten"
    /\ at[p] = "unlink" /\ e \in First(listed[p]) =>
         e \in batch[p] \/ e \in cut \/ dir[e] = "gone"

\* An entry in a batch is deleted, or just about to be, unless it was kept.
BatchIsDeleted ==
  \A p \in Process : \A e \in batch[p] \ Again :
    \/ dir[e] = "gone" /\ e \notin listed[p]
    \/ at[p] = "unlink" /\ e \in First(listed[p])

\* Only a shared or a kept entry is in more than one hand.
InOneHand ==
  \A p, q \in Process : \A e \in Held(p) \cap Held(q) : p = q \/ e \in Again

\* A logged entry is done with.
LoggedIsDone ==
  \A e \in Entry \ Again :
    rowsOf[e] # 0 => /\ rowsOf[e] = 1 /\ dir[e] = "gone"
                     /\ \A p \in Process : e \notin Held(p)

QueueInv ==
  /\ HandsAreEmpty /\ ListedWasThere /\ BatchIsDeleted /\ InOneHand
  /\ LoggedIsDone /\ EntriesReachTheLog

\* Tools and the statistics leave the queue alone, and only the call itself ends.
Elsewhere ==
  /\ UNCHANGED <<dir, listed, batch, rowsOf, shared, cut, kept>>
  /\ \/ at' = at
     \/ \E p \in Process :
          /\ \/ at[p] \notin {"drain", "unlink"}
             \/ listed[p] = {} /\ batch[p] = {}
          /\ \E to \in {"idle", "used", "total", "hits", "calls", "report"} :
               at' = [at EXCEPT ![p] = to]

\* What taking up an entry does to the queue, and what an exception there does.
Takes(p, e) ==
  /\ at[p] = "drain" /\ listed[p] = {} /\ e \in First(batch[p])
  /\ \/ About[e] = NoProject /\ rowsOf' = rowsOf
     \/ rowsOf' = [rowsOf EXCEPT ![e] = @ + 1]
  /\ batch' = [batch EXCEPT ![p] = @ \ {e}]
  /\ UNCHANGED <<dir, at, listed, shared, cut, kept>>

DropsBatch(p, e) ==
  /\ at[p] = "drain" /\ listed[p] = {} /\ e \in First(batch[p])
  /\ rowsOf' = rowsOf \/ rowsOf' = [rowsOf EXCEPT ![e] = @ + 1]
  /\ batch' = [batch EXCEPT ![p] = {}]
  /\ cut' = cut \cup batch[p]
  /\ at' = [at EXCEPT ![p] = "idle"]
  /\ UNCHANGED <<dir, listed, shared, kept>>

LEMMA EntriesAreTaken ==
  ASSUME NEW p \in Process
  PROVE  /\ IngestEntry(p) => \E e \in First(batch[p]) : Takes(p, e)
         /\ IngestRaises(p) => \E e \in First(batch[p]) : DropsBatch(p, e)
<1>1. ASSUME IngestEntry(p)
      PROVE  \E e \in First(batch[p]) : Takes(p, e)
  BY <1>1, Zenon DEF IngestEntry, Takes
<1>2. ASSUME IngestRaises(p)
      PROVE  \E e \in First(batch[p]) : DropsBatch(p, e)
  BY <1>2, Zenon DEF IngestRaises, DropsBatch
<1>3. QED
  BY <1>1, <1>2

LEMMA OthersAreElsewhere ==
  ASSUME \/ \E p \in Process : Tool(p) \/ Stats(p) \/ Observe(p)
         \/ UNCHANGED vars
  PROVE  Elsewhere
<1>1. ASSUME NEW p \in Process, Tool(p)
      PROVE  Elsewhere
  BY <1>1 DEF Tool, PathTool, CurrentTool, NoProjectFound, ToolRaises, Ready, Return,
              queue, fates, Elsewhere
<1>2. ASSUME NEW p \in Process, Stats(p)
      PROVE  Elsewhere
  BY <1>2 DEF Stats, SelectOthers, SelectUsed, SelectTotal, SelectCumulative, Report,
              StatsStep, Ready, queue, fates, Elsewhere
<1>3. ASSUME NEW p \in Process, Observe(p)
      PROVE  Elsewhere
  BY <1>3 DEF Observe, ObserveHits, ObserveCount, queue, fates, Elsewhere
<1>4. CASE UNCHANGED vars
  BY <1>4 DEF vars, Elsewhere
<1>5. QED
  BY <1>1, <1>2, <1>3, <1>4

\* What the processes have in hand keeps its type.
THEOREM QueueIsTyped == Spec => []QueueTypeOK
<1>1. Init => QueueTypeOK
  BY DEF Init, QueueTypeOK
<1>2. QueueTypeOK /\ [Next]_vars => QueueTypeOK'
  <2> SUFFICES ASSUME QueueTypeOK, [Next]_vars
               PROVE  QueueTypeOK'
    OBVIOUS
  <2> USE DEF QueueTypeOK
  <2>1. ASSUME NEW e \in Entry, HookOpens(e) \/ HookWrites(e)
        PROVE  QueueTypeOK'
    BY <2>1 DEF HookOpens, HookWrites, fates
  <2>2. ASSUME NEW p \in Process, BeginCall(p)
        PROVE  QueueTypeOK'
    BY <2>2 DEF BeginCall
  <2>3. ASSUME NEW p \in Process, ReadFile(p)
        PROVE  QueueTypeOK'
    <3>1. PICK e \in First(listed[p]) :
            /\ batch' \in {batch, [batch EXCEPT ![p] = @ \cup {e}]}
            /\ cut' \in {cut, cut \cup {e}}
      BY <2>3 DEF ReadFile
    <3>2. e \in Entry
      BY DEF First
    <3>3. QED
      BY <2>3, <3>1, <3>2 DEF ReadFile
  <2>4. ASSUME NEW p \in Process, Unlink(p)
        PROVE  QueueTypeOK'
    <3>1. PICK e \in First(listed[p]) :
            /\ dir' \in {dir, [dir EXCEPT ![e] = "gone"]}
            /\ kept' \in {kept, kept \cup {e}}
            /\ listed' = [listed EXCEPT ![p] = @ \ {e}]
      BY <2>4 DEF Unlink
    <3>2. e \in Entry
      BY DEF First
    <3>3. QED
      BY <2>4, <3>1, <3>2 DEF Unlink
  <2>5. ASSUME NEW p \in Process, NEW e \in First(batch[p]), Takes(p, e)
        PROVE  QueueTypeOK'
    BY <2>5 DEF Takes, First
  <2>6. ASSUME NEW p \in Process, NEW e \in First(batch[p]), DropsBatch(p, e)
        PROVE  QueueTypeOK'
    <3>1. e \in Entry /\ batch[p] \subseteq Entry
      BY DEF First
    <3>2. rowsOf' \in [Entry -> Nat]
      BY <2>6, <3>1 DEF DropsBatch
    <3>3. QED
      BY <2>6, <3>1, <3>2 DEF DropsBatch
  <2>7. ASSUME NEW p \in Process, End(p)
        PROVE  QueueTypeOK'
    BY <2>7 DEF End
  <2>8. CASE Elsewhere
    BY <2>8 DEF Elsewhere
  <2>9. QED
    BY <2>1, <2>2, <2>3, <2>4, <2>5, <2>6, <2>7, <2>8, OthersAreElsewhere,
       EntriesAreTaken
       DEF Next, Drain
<1>3. QED
  BY <1>1, <1>2, PTL DEF Spec

\* What the queue directory, the drains and the log have in common, through
\* every step.
LEMMA QueueStays == Spec => []QueueInv
<1> USE DEF QueueTypeOK, Held, Again
<1>1. Init => QueueInv
  BY DEF Init, QueueInv, HandsAreEmpty, ListedWasThere, BatchIsDeleted, InOneHand,
         LoggedIsDone, EntriesReachTheLog
<1>2. QueueTypeOK /\ QueueInv /\ [Next]_vars => QueueInv'
  <2> SUFFICES ASSUME QueueTypeOK, QueueInv, [Next]_vars
               PROVE  QueueInv'
    OBVIOUS
  <2> USE DEF QueueInv
  <2>1. ASSUME NEW e \in Entry, HookOpens(e)
        PROVE  QueueInv'
    <3>1. HandsAreEmpty'
      BY <2>1 DEF HookOpens, fates, HandsAreEmpty
    <3>2. ListedWasThere'
      BY <2>1 DEF HookOpens, fates, ListedWasThere, HandsAreEmpty, First
    <3>3. BatchIsDeleted'
      BY <2>1 DEF HookOpens, fates, BatchIsDeleted, First
    <3>4. InOneHand'
      BY <2>1 DEF HookOpens, fates, InOneHand, HandsAreEmpty
    <3>5. LoggedIsDone'
      BY <2>1 DEF HookOpens, fates, LoggedIsDone, First, BatchIsDeleted, InOneHand
    <3>6. EntriesReachTheLog'
      BY <2>1 DEF HookOpens, fates, EntriesReachTheLog, ListedWasThere, First
    <3>7. QED
      BY <3>1, <3>2, <3>3, <3>4, <3>5, <3>6
  <2>2. ASSUME NEW e \in Entry, HookWrites(e)
        PROVE  QueueInv'
    <3>1. HandsAreEmpty'
      BY <2>2 DEF HookWrites, fates, HandsAreEmpty
    <3>2. ListedWasThere'
      BY <2>2 DEF HookWrites, fates, ListedWasThere, HandsAreEmpty, First
    <3>3. BatchIsDeleted'
      BY <2>2 DEF HookWrites, fates, BatchIsDeleted, First
    <3>4. InOneHand'
      BY <2>2 DEF HookWrites, fates, InOneHand, HandsAreEmpty
    <3>5. LoggedIsDone'
      BY <2>2 DEF HookWrites, fates, LoggedIsDone, First, BatchIsDeleted, InOneHand
    <3>6. EntriesReachTheLog'
      BY <2>2 DEF HookWrites, fates, EntriesReachTheLog, ListedWasThere, First
    <3>7. QED
      BY <3>1, <3>2, <3>3, <3>4, <3>5, <3>6
  <2>3. ASSUME NEW p \in Process, BeginCall(p)
        PROVE  QueueInv'
    <3>1. HandsAreEmpty'
      BY <2>3 DEF BeginCall, HandsAreEmpty
    <3>2. ListedWasThere'
      BY <2>3 DEF BeginCall, ListedWasThere, HandsAreEmpty, First
    <3>3. BatchIsDeleted'
      BY <2>3 DEF BeginCall, BatchIsDeleted, First
    <3>4. InOneHand'
      <4>0. DEFINE found == {e \in Entry : dir[e] \in {"torn", "whole"}}
      <4>1. /\ at[p] = "idle" /\ listed' = [listed EXCEPT ![p] = found]
            /\ shared' = shared \cup {e \in found : \E q \in Process \ {p} : e \in listed[q]}
            /\ batch' = batch /\ kept' = kept
        BY <2>3 DEF BeginCall
      <4>2. batch[p] = {}
        BY <4>1 DEF HandsAreEmpty
      <4>3. ASSUME NEW q \in Process, q # p, NEW e \in found, e \in Held(q)
            PROVE  e \in Again'
        BY <4>1, <4>3 DEF BatchIsDeleted, First
      <4>4. Held(p)' = found /\ \A q \in Process \ {p} : Held(q)' = Held(q)
        BY <4>1, <4>2
      <4>5. Again \subseteq Again'
        BY <4>1
      <4> HIDE DEF Held, found, Again
      <4>6. ASSUME NEW q \in Process, NEW r \in Process, NEW e \in Held(q)' \cap Held(r)'
            PROVE  q = r \/ e \in Again'
        <5>1. CASE q = p \/ r = p
          BY <4>3, <4>4, <4>6, <5>1
        <5>2. CASE q # p /\ r # p
          BY <4>4, <4>5, <4>6, <5>2 DEF InOneHand
        <5>3. QED
          BY <5>1, <5>2
      <4>7. QED
        BY <4>6 DEF InOneHand
    <3>5. LoggedIsDone'
      BY <2>3 DEF BeginCall, LoggedIsDone, First, BatchIsDeleted, InOneHand
    <3>6. EntriesReachTheLog'
      BY <2>3 DEF BeginCall, EntriesReachTheLog, ListedWasThere, First
    <3>7. QED
      BY <3>1, <3>2, <3>3, <3>4, <3>5, <3>6
  <2>4. ASSUME NEW p \in Process, ReadFile(p)
        PROVE  QueueInv'
    <3>1. HandsAreEmpty'
      BY <2>4 DEF ReadFile, HandsAreEmpty
    <3> PICK e \in First(listed[p]) :
          \/ /\ dir[e] = "whole" /\ cut' = cut
             /\ batch' = [batch EXCEPT ![p] = @ \cup {e}]
          \/ /\ dir[e] \in {"torn", "whole"}
             /\ cut' = cut \cup {e} /\ batch' = batch
          \/ dir[e] = "gone" /\ UNCHANGED <<batch, cut>>
      BY <2>4 DEF ReadFile
    <3>a. /\ at[p] = "drain" /\ at' = [at EXCEPT ![p] = "unlink"]
          /\ UNCHANGED <<dir, listed, rowsOf, shared, kept>>
          /\ e \in listed[p] /\ e \in Entry
      BY <2>4 DEF ReadFile, First
    <3>b. /\ cut \subseteq cut'
          /\ e \in batch'[p] \/ e \in cut' \/ dir[e] = "gone"
          /\ \A q \in Process : batch[q] \subseteq batch'[q]
          /\ \A q \in Process \ {p} : batch'[q] = batch[q]
          /\ batch'[p] \subseteq batch[p] \cup {e}
      BY <3>a
    <3>c. \A q \in Process : Held(q)' = Held(q)
      BY <3>a, <3>b
    <3>2. ListedWasThere'
      <4> SUFFICES ASSUME NEW q \in Process, NEW f \in listed[q]
                   PROVE  /\ dir[f] # "unwritten"
                          /\ at'[q] = "unlink" /\ f \in First(listed[q]) =>
                               f \in batch'[q] \/ f \in cut' \/ dir[f] = "gone"
        BY <3>a DEF ListedWasThere, First
      <4>1. dir[f] # "unwritten"
        BY DEF ListedWasThere
      <4>2. CASE q = p
        <5>1. f \in First(listed[p]) => f = e
          BY <4>2, FirstIsOne
        <5>2. QED
          BY <3>b, <4>1, <4>2, <5>1
      <4>3. CASE q # p
        BY <3>a, <3>b, <4>3 DEF ListedWasThere
      <4>4. QED
        BY <4>2, <4>3
    <3>3. BatchIsDeleted'
      <4> SUFFICES ASSUME NEW q \in Process, NEW f \in batch'[q] \ Again
                   PROVE  \/ dir[f] = "gone" /\ f \notin listed[q]
                          \/ at'[q] = "unlink" /\ f \in First(listed[q])
        BY <3>a DEF BatchIsDeleted, First
      <4>1. CASE q = p
        BY <3>a, <3>b, <4>1 DEF BatchIsDeleted
      <4>2. CASE q # p
        BY <3>a, <3>b, <4>2 DEF BatchIsDeleted
      <4>3. QED
        BY <4>1, <4>2
    <3>4. InOneHand'
      BY <3>a, <3>c, Zenon DEF InOneHand
    <3>5. LoggedIsDone'
      BY <3>a, <3>c, ZenonT(60) DEF LoggedIsDone
    <3>6. EntriesReachTheLog'
      BY <2>4 DEF ReadFile, EntriesReachTheLog, ListedWasThere, First
    <3>7. QED
      BY <3>1, <3>2, <3>3, <3>4, <3>5, <3>6
  <2>5. ASSUME NEW p \in Process, Unlink(p)
        PROVE  QueueInv'
    <3>1. HandsAreEmpty'
      BY <2>5 DEF Unlink, fates, HandsAreEmpty
    <3> PICK e \in First(listed[p]) :
          /\ \/ dir' = [dir EXCEPT ![e] = "gone"] /\ kept' = kept
             \/ dir' = dir /\ kept' = kept \cup {e}
          /\ listed' = [listed EXCEPT ![p] = @ \ {e}]
      BY <2>5 DEF Unlink
    <3>a. /\ at[p] = "unlink" /\ at' = [at EXCEPT ![p] = "drain"]
          /\ UNCHANGED <<batch, rowsOf, shared, cut>>
          /\ e \in listed[p] /\ e \in Entry
      BY <2>5 DEF Unlink, First
    <3>b. /\ dir'[e] = "gone" \/ (dir' = dir /\ e \in Again')
          /\ \A f \in Entry \ {e} : dir'[f] = dir[f]
          /\ Again \subseteq Again'
          /\ listed'[p] = listed[p] \ {e}
          /\ \A q \in Process \ {p} : listed'[q] = listed[q] /\ at'[q] = at[q]
          /\ at'[p] = "drain"
      BY <3>a
    <3> HIDE DEF Again
    <3>c. \A q \in Process : Held(q)' \subseteq Held(q)
      BY <3>a, <3>b
    <3>2. ListedWasThere'
      <4> SUFFICES ASSUME NEW q \in Process, NEW f \in listed'[q]
                   PROVE  /\ dir'[f] # "unwritten"
                          /\ at'[q] = "unlink" /\ f \in First(listed'[q]) =>
                               f \in batch[q] \/ f \in cut \/ dir'[f] = "gone"
        BY <3>a DEF ListedWasThere, First
      <4>1. f \in listed[q] /\ f \in Entry
        BY <3>b
      <4>2. dir'[f] = "gone" \/ dir'[f] = dir[f]
        BY <3>b, <4>1
      <4>3. QED
        BY <3>b, <4>1, <4>2 DEF ListedWasThere
    <3>3. BatchIsDeleted'
      <4> SUFFICES ASSUME NEW q \in Process, NEW f \in batch[q] \ Again'
                   PROVE  \/ dir'[f] = "gone" /\ f \notin listed'[q]
                          \/ at'[q] = "unlink" /\ f \in First(listed'[q])
        BY <3>a DEF BatchIsDeleted, First
      <4>1. \/ dir[f] = "gone" /\ f \notin listed[q]
            \/ at[q] = "unlink" /\ f \in First(listed[q])
        BY <3>b DEF BatchIsDeleted
      <4>2. CASE dir[f] = "gone" /\ f \notin listed[q]
        BY <3>b, <4>2
      <4>3. CASE at[q] = "unlink" /\ f \in First(listed[q]) /\ q = p
        BY <3>b, <4>3, FirstIsOne
      <4>4. CASE at[q] = "unlink" /\ f \in First(listed[q]) /\ q # p
        BY <3>b, <4>4
      <4>5. QED
        BY <4>1, <4>2, <4>3, <4>4
    <3>4. InOneHand'
      BY <3>a, <3>b, <3>c DEF InOneHand
    <3>5. LoggedIsDone'
      <4> SUFFICES ASSUME NEW f \in Entry \ Again', rowsOf[f] # 0
                   PROVE  /\ rowsOf[f] = 1 /\ dir'[f] = "gone"
                          /\ \A q \in Process : f \notin Held(q)'
        BY <3>a DEF LoggedIsDone
      <4>1. /\ rowsOf[f] = 1 /\ dir[f] = "gone"
            /\ \A q \in Process : f \notin Held(q)
        BY <3>b DEF LoggedIsDone
      <4>2. QED
        BY <3>b, <3>c, <4>1
    <3>6. EntriesReachTheLog'
      <4> SUFFICES ASSUME NEW f \in Entry, dir'[f] = "gone", About[f] # NoProject
                   PROVE  \/ \E q \in Process : f \in batch[q]
                          \/ rowsOf[f] > 0 \/ f \in cut
        BY <3>a DEF EntriesReachTheLog
      <4>1. dir[f] = "gone" \/ f = e
        BY <3>b
      <4>2. e \in batch[p] \/ e \in cut \/ dir[e] = "gone"
        BY <3>a DEF ListedWasThere
      <4>3. QED
        BY <4>1, <4>2 DEF EntriesReachTheLog
    <3>7. QED
      BY <3>1, <3>2, <3>3, <3>4, <3>5, <3>6
  <2>6. ASSUME NEW p \in Process, NEW e \in First(batch[p]), Takes(p, e)
        PROVE  QueueInv'
    <3>1. HandsAreEmpty'
      BY <2>6 DEF Takes, HandsAreEmpty
    <3>2. ListedWasThere'
      BY <2>6 DEF Takes, ListedWasThere, HandsAreEmpty, First
    <3>3. BatchIsDeleted'
      BY <2>6 DEF Takes, BatchIsDeleted, First
    <3>4. InOneHand'
      BY <2>6 DEF Takes, InOneHand, HandsAreEmpty
    <3>5. LoggedIsDone'
      BY <2>6 DEF Takes, LoggedIsDone, First, BatchIsDeleted, InOneHand
    <3>6. EntriesReachTheLog'
      BY <2>6 DEF Takes, EntriesReachTheLog, ListedWasThere, First
    <3>7. QED
      BY <3>1, <3>2, <3>3, <3>4, <3>5, <3>6
  <2>7. ASSUME NEW p \in Process, NEW e \in First(batch[p]), DropsBatch(p, e)
        PROVE  QueueInv'
    <3>1. HandsAreEmpty'
      BY <2>7 DEF DropsBatch, HandsAreEmpty
    <3>2. ListedWasThere'
      BY <2>7 DEF DropsBatch, ListedWasThere, HandsAreEmpty, First
    <3>3. BatchIsDeleted'
      BY <2>7 DEF DropsBatch, BatchIsDeleted, First
    <3>4. InOneHand'
      BY <2>7 DEF DropsBatch, InOneHand, HandsAreEmpty
    <3>5. LoggedIsDone'
      BY <2>7 DEF DropsBatch, LoggedIsDone, First, BatchIsDeleted, InOneHand
    <3>6. EntriesReachTheLog'
      BY <2>7 DEF DropsBatch, EntriesReachTheLog, ListedWasThere, First
    <3>7. QED
      BY <3>1, <3>2, <3>3, <3>4, <3>5, <3>6
  <2>8. ASSUME NEW p \in Process, End(p)
        PROVE  QueueInv'
    <3>1. HandsAreEmpty'
      BY <2>8 DEF End, HandsAreEmpty
    <3>2. ListedWasThere'
      BY <2>8 DEF End, ListedWasThere, HandsAreEmpty, First
    <3>3. BatchIsDeleted'
      BY <2>8 DEF End, BatchIsDeleted, First
    <3>4. InOneHand'
      BY <2>8 DEF End, InOneHand, HandsAreEmpty
    <3>5. LoggedIsDone'
      BY <2>8 DEF End, LoggedIsDone, First, BatchIsDeleted, InOneHand
    <3>6. EntriesReachTheLog'
      BY <2>8 DEF End, EntriesReachTheLog, ListedWasThere, First
    <3>7. QED
      BY <3>1, <3>2, <3>3, <3>4, <3>5, <3>6
  <2>9. CASE Elsewhere
    BY <2>9 DEF Elsewhere, HandsAreEmpty, ListedWasThere, BatchIsDeleted, InOneHand,
                LoggedIsDone, EntriesReachTheLog
  <2>10. QED
    BY <2>1, <2>2, <2>3, <2>4, <2>5, <2>6, <2>7, <2>8, <2>9, OthersAreElsewhere,
       EntriesAreTaken DEF Next, Drain
<1>3. QED
  BY <1>1, <1>2, QueueIsTyped, PTL DEF Spec

\* Every built-in call that a hook has queued is in a batch or in the log once its
\* file is gone, but for those a failure dropped: through torn and unreadable files,
\* unlinks that fail, drains that overlap, exceptions in mid-batch and processes that end.
THEOREM QueuedCallsReachTheLog == Spec => []EntriesReachTheLog
<1>1. QueueInv => EntriesReachTheLog
  BY DEF QueueInv
<1>2. QED
  BY <1>1, QueueStays, PTL

\* An entry that no two drains had listed at once, and that none failed to delete, is
\* logged at most once.
THEOREM UnsharedAreLoggedOnce == Spec => []LoggedTwiceOnlyIfShared
<1>1. QueueTypeOK /\ QueueInv => LoggedTwiceOnlyIfShared
  BY DEF QueueTypeOK, QueueInv, LoggedIsDone, LoggedTwiceOnlyIfShared, Again
<1>2. QED
  BY <1>1, QueueIsTyped, QueueStays, PTL

-----------------------------------------------------------------------------
LEMMA LogStaysTyped ==
  ASSUME log \in [Project -> [Session -> Counts]],
         NEW prj \in Project, NEW s \in Session, NEW row \in Counts, LogRow(prj, s, row)
  PROVE  log' \in [Project -> [Session -> Counts]]
<1>1. log[prj][s] \in Counts
  OBVIOUS
<1>2. Plus(log[prj][s], row) \in Counts
  BY <1>1 DEF Counts, Plus
<1>3. log' = [log EXCEPT ![prj] = [log[prj] EXCEPT ![s] = Plus(log[prj][s], row)]]
  BY DEF LogRow
<1>4. QED
  BY <1>2, <1>3

\* The rows that calls leave: none is a hit without being a call of the oracle.
CallRows == {row \in Counts : row.hits <= row.oracle}

LEMMA CallsAreRows ==
  /\ BuiltinCall \in CallRows
  /\ \A hit \in {0, 1} : OracleCall(hit) \in CallRows
  BY DEF BuiltinCall, OracleCall, CallRows, Counts

\* Finding a project keeps the registry's type, and makes it the current one.
LEMMA RegistryFinds ==
  ASSUME RegistryTypeOK, NEW p \in Process, NEW prj \in Project, ForPath(p, prj)
  PROVE  /\ projects' \in [Process -> SUBSET Project]
         /\ current' = [current EXCEPT ![p] = prj]
         /\ \A q \in Process : current'[q] \in projects'[q] \cup {NoProject}
  BY SMTT(30) DEF RegistryTypeOK, ForPath

\* What a step means for the registry: a process has found prj, for an entry or for
\* its agent, and may have left a row there.
Finds(p, prj) ==
  /\ ForPath(p, prj)
  /\ \/ due' = [due EXCEPT ![p] = @ \cup {prj}]
     \/ due' = [due EXCEPT ![p] = {prj}]
     \/ UNCHANGED <<current, due>>
  /\ UNCHANGED log \/ \E s \in Session, row \in CallRows : LogRow(prj, s, row)
  /\ gauge' = gauge \/ gauge' = [gauge EXCEPT ![p] = prj]
  /\ UNCHANGED calls

LEMMA FindingStays ==
  ASSUME RegistryTypeOK, CurrentIsNamedOrIngested,
         NEW p \in Process, NEW prj \in Project, Finds(p, prj)
  PROVE  RegistryTypeOK' /\ CurrentIsNamedOrIngested'
<1>1. log' \in [Project -> [Session -> Counts]]
  BY LogStaysTyped DEF Finds, RegistryTypeOK, CallRows
<1>2. /\ projects' \in [Process -> SUBSET Project]
      /\ current' = [current EXCEPT ![p] = prj]
      /\ \A q \in Process : current'[q] \in projects'[q] \cup {NoProject}
  BY RegistryFinds DEF Finds
<1>3. due' \in [Process -> SUBSET (Project \cup {NoProject})]
  BY DEF Finds, RegistryTypeOK
<1>4. RegistryTypeOK'
  BY <1>1, <1>2, <1>3 DEF Finds, RegistryTypeOK
<1>5. CurrentIsNamedOrIngested'
  <2>1. due \in [Process -> SUBSET (Project \cup {NoProject})]
        /\ current \in [Process -> Project \cup {NoProject}]
    BY DEF RegistryTypeOK
  <2>2. prj \in due'[p] \/ UNCHANGED <<current, due>>
    BY <2>1 DEF Finds
  <2>3. \A q \in Process \ {p} : due'[q] = due[q]
    BY <2>1 DEF Finds
  <2>4. QED
    BY <1>2, <2>1, <2>2, <2>3 DEF CurrentIsNamedOrIngested
<1>6. QED
  BY <1>4, <1>5

\* Steps that touch neither the registry, nor the log, nor the gauges.
Nothing ==
  projects' = projects /\ current' = current /\ due' = due /\ log' = log /\ gauge' = gauge

CallsCounted ==
  \/ calls' = calls
  \/ calls < MaxCalls /\ calls' = calls + 1

\* Steps that find no project may log under the current one.
Stays(p) ==
  /\ UNCHANGED <<registry, due>>
  /\ UNCHANGED log \/ \E row \in CallRows : current[p] \in Project /\ LogRow(current[p], p, row)
  /\ gauge' = gauge \/ gauge' = [gauge EXCEPT ![p] = current[p]]
  /\ CallsCounted

LEMMA NothingHappened ==
  ASSUME NEW p \in Process, Nothing, CallsCounted
  PROVE  Stays(p)
  BY DEF Nothing, Stays, registry

LEMMA StayingStays ==
  ASSUME RegistryTypeOK, CurrentIsNamedOrIngested, NEW p \in Process, Stays(p)
  PROVE  RegistryTypeOK' /\ CurrentIsNamedOrIngested'
<1>1. log' \in [Project -> [Session -> Counts]]
  BY LogStaysTyped DEF Stays, RegistryTypeOK, Session, CallRows
<1>2. calls' \in 0..MaxCalls
  BY DEF CallsCounted, Stays, RegistryTypeOK
<1>3. QED
  BY <1>1, <1>2 DEF Stays, RegistryTypeOK, CurrentIsNamedOrIngested, registry

\* An exception leaves the registry as it is, or finds the project.
LEMMA CroppedFindsOrStays ==
  ASSUME NEW p \in Process, NEW prj \in Project, NEW s \in Session, NEW row \in CallRows,
         Cropped(p, prj, s, row), gauge' = gauge, calls' = calls,
         \/ due' = [due EXCEPT ![p] = @ \cup {prj}]
         \/ due' = [due EXCEPT ![p] = {prj}]
         \/ current' = current /\ due' = due,
         current' = current => due' = due
  PROVE  Stays(p) \/ Finds(p, prj)
<1>1. CASE UNCHANGED <<registry, log>>
  <2>1. Nothing
    BY <1>1 DEF registry, Nothing
  <2>2. CallsCounted
    BY DEF CallsCounted
  <2>3. QED
    BY <2>1, <2>2, NothingHappened
<1>2. CASE ForPath(p, prj) /\ UNCHANGED log
  BY <1>2 DEF Finds
<1>3. CASE ForPath(p, prj) /\ LogRow(prj, s, row)
  BY <1>3 DEF Finds
<1>4. QED
  BY <1>1, <1>2, <1>3 DEF Cropped

LEMMA EveryStepFindsOrStays ==
  ASSUME QueueTypeOK, RegistryTypeOK, NEW p \in Process,
         Drain(p) \/ Tool(p) \/ Stats(p) \/ Observe(p) \/ End(p)
  PROVE  Stays(p) \/ \E prj \in Project : Finds(p, prj)
<1>1. CASE \/ BeginCall(p) \/ ReadFile(p) \/ Unlink(p) \/ NoProjectFound(p)
           \/ Stats(p) \/ Observe(p) \/ End(p)
  <2>1. Nothing /\ CallsCounted
    <3>1. CASE BeginCall(p)
      BY <3>1 DEF BeginCall, registry, reports, Nothing, CallsCounted
    <3>2. CASE ReadFile(p)
      BY <3>2 DEF ReadFile, registry, reports, Nothing, CallsCounted
    <3>3. CASE Unlink(p)
      BY <3>3 DEF Unlink, registry, reports, Nothing, CallsCounted
    <3>4. CASE NoProjectFound(p)
      BY <3>4 DEF NoProjectFound, registry, reports, Nothing, CallsCounted
    <3>5. CASE Stats(p)
      <4>1. \E from, to \in {"drain", "used", "total", "hits", "calls", "report", "idle"} :
              StatsStep(p, from, to)
        BY <3>5 DEF Stats, SelectOthers, SelectUsed, SelectTotal, SelectCumulative, Report
      <4>2. QED
        BY <4>1 DEF StatsStep, registry, Nothing, CallsCounted
    <3>6. CASE Observe(p)
      BY <3>6 DEF Observe, ObserveHits, ObserveCount, registry, Nothing, CallsCounted
    <3>7. CASE End(p)
      BY <3>7 DEF End, registry, Nothing, CallsCounted
    <3>8. QED
      BY <1>1, <3>1, <3>2, <3>3, <3>4, <3>5, <3>6, <3>7
  <2>2. QED
    BY <2>1, NothingHappened
<1>2. CASE IngestEntry(p)
  <2>1. PICK e \in First(batch[p]) :
          /\ ForPath(p, About[e])
          /\ IF About[e] = NoProject
               THEN UNCHANGED <<log, rowsOf, due>>
               ELSE /\ LogRow(About[e], From[e], BuiltinCall)
                    /\ due' = [due EXCEPT ![p] = @ \cup {About[e]}]
    BY <1>2, Zenon DEF IngestEntry
  <2>2. e \in Entry
    BY DEF First, QueueTypeOK
  <2>3. About[e] \in Project \cup {NoProject} /\ From[e] \in Session
    BY <2>2 DEF Session
  <2>4. UNCHANGED <<gauge, calls>>
    BY <1>2 DEF IngestEntry, reports
  <2>5. CASE About[e] = NoProject
    <3>1. Nothing /\ CallsCounted
      BY <2>1, <2>4, <2>5 DEF ForPath, registry, Nothing, CallsCounted
    <3>2. QED
      BY <3>1, NothingHappened
  <2>6. CASE About[e] # NoProject
    BY <2>1, <2>3, <2>4, <2>6, CallsAreRows DEF Finds
  <2>7. QED
    BY <2>5, <2>6
<1>3. CASE IngestRaises(p)
  <2>1. PICK e \in First(batch[p]) :
          /\ About[e] # NoProject
          /\ Cropped(p, About[e], From[e], BuiltinCall)
          /\ due' = IF current' = current THEN due
                     ELSE [due EXCEPT ![p] = @ \cup {About[e]}]
    BY <1>3, Zenon DEF IngestRaises
  <2>2. e \in Entry
    BY DEF First, QueueTypeOK
  <2>3. About[e] \in Project /\ From[e] \in Session
    BY <2>1, <2>2 DEF Session
  <2>4. UNCHANGED <<gauge, calls>>
    BY <1>3 DEF IngestRaises, reports
  <2>5. QED
    BY <2>1, <2>3, <2>4, CallsAreRows, CroppedFindsOrStays
<1>4. CASE PathTool(p)
  <2>1. PICK prj \in Project, hit \in {0, 1} :
          ForPath(p, prj) /\ Log(p, prj, hit) /\ due' = [due EXCEPT ![p] = {prj}]
    BY <1>4 DEF PathTool
  <2>2. current'[p] = prj /\ UNCHANGED calls
    BY <1>4, <2>1 DEF PathTool, ForPath, RegistryTypeOK
  <2>3. QED
    BY <2>1, <2>2, CallsAreRows DEF Log, GetTelemetry, CreateTelemetry, Finds, Session
<1>5. CASE CurrentTool(p)
  <2>1. PICK hit \in {0, 1} : Log(p, current[p], hit)
    BY <1>5 DEF CurrentTool
  <2>2. current[p] \in Project /\ UNCHANGED <<projects, current, calls, due>>
    BY <1>5 DEF CurrentTool, RegistryTypeOK, registry
  <2>3. LogRow(current[p], p, OracleCall(hit))
    BY <2>1 DEF Log
  <2>4. gauge' = gauge \/ gauge' = [gauge EXCEPT ![p] = current[p]]
    BY <2>1, <2>2 DEF Log, GetTelemetry, CreateTelemetry
  <2>5. QED
    <3>1. OracleCall(hit) \in CallRows
      BY CallsAreRows
    <3>2. CallsCounted
      BY <2>2 DEF CallsCounted
    <3>3. \E row \in CallRows : current[p] \in Project /\ LogRow(current[p], p, row)
      BY <2>2, <2>3, <3>1
    <3>4. QED
      BY <2>2, <2>4, <3>2, <3>3 DEF Stays, registry
<1>6. CASE ToolRaises(p)
  <2>1. PICK prj \in Project, hit \in {0, 1} :
          /\ Cropped(p, prj, p, OracleCall(hit))
          /\ due' = IF current' = current THEN due ELSE [due EXCEPT ![p] = {prj}]
    BY <1>6 DEF ToolRaises
  <2>2. UNCHANGED <<gauge, calls>>
    BY <1>6 DEF ToolRaises, reports
  <2>3. QED
    BY <2>1, <2>2, CallsAreRows, CroppedFindsOrStays DEF Session
<1>7. QED
  BY <1>1, <1>2, <1>3, <1>4, <1>5, <1>6 DEF Drain, Tool

\* The registry, the log and the telemetry keep their types, and the tools that are
\* given no path act on a project of a path the agent gave or of an entry ingested
\* since, also after a call that raised half-way.
THEOREM ToolsActOnFoundProject ==
  Spec => [](RegistryTypeOK /\ CurrentIsNamedOrIngested)
<1> DEFINE I == RegistryTypeOK /\ CurrentIsNamedOrIngested
<1>1. Init => I
  BY DEF Init, RegistryTypeOK, CurrentIsNamedOrIngested, NoRows, Counts
<1>2. QueueTypeOK /\ I /\ [Next]_vars => I'
  <2> SUFFICES ASSUME QueueTypeOK, I, [Next]_vars
               PROVE  I'
    OBVIOUS
  <2>1. ASSUME NEW p \in Process,
               Drain(p) \/ Tool(p) \/ Stats(p) \/ Observe(p) \/ End(p)
        PROVE  I'
    BY <2>1, EveryStepFindsOrStays, FindingStays, StayingStays
  <2>2. CASE \/ \E e \in Entry : HookOpens(e) \/ HookWrites(e)
             \/ UNCHANGED vars
    <3>1. UNCHANGED <<projects, current, log, gauge, due, calls>>
      BY <2>2 DEF HookOpens, HookWrites, vars, registry, reports
    <3>2. QED
      BY <3>1 DEF RegistryTypeOK, CurrentIsNamedOrIngested
  <2>3. QED
    BY <2>1, <2>2 DEF Next
<1>3. QED
  BY <1>1, <1>2, QueueIsTyped, PTL DEF Spec
-----------------------------------------------------------------------------
\* A set of numbers that holds 0, and with each number the next, holds them all.
LEMMA NatSetInduction ==
  ASSUME NEW N \in SUBSET Nat, 0 \in N, \A n \in N : n + 1 \in N
  PROVE  N = Nat
<1> SUFFICES ASSUME Nat \ N # {}
             PROVE  FALSE
  OBVIOUS
<1> DEFINE missing == Nat \ N
<1>1. \E n \in missing : \A m \in missing : ~ (<<m, n>> \in OpToRel(<, Nat))
  BY NatLessThanWellFounded, WFMin
<1>2. \A m, n \in Nat : m < n => <<m, n>> \in OpToRel(<, Nat)
  <2> SUFFICES ASSUME NEW m \in Nat, NEW n \in Nat, m < n
               PROVE  <<m, n>> \in OpToRel(<, Nat)
    OBVIOUS
  <2>1. <<m, n>> \in Nat \X Nat /\ <<m, n>>[1] < <<m, n>>[2]
    OBVIOUS
  <2>2. QED
    BY <2>1, Zenon DEF OpToRel
<1>3. \E n \in missing : \A m \in missing : ~ (m < n)
  BY <1>1, <1>2, Zenon
<1>4. PICK n \in missing : \A m \in missing : ~ (m < n)
  BY <1>3
<1>5. n # 0 /\ n - 1 \in Nat
  BY <1>4
<1>6. n - 1 \in N
  BY <1>4, <1>5
<1>7. n \in N
  BY <1>5, <1>6
<1>8. QED
  BY <1>7

\* How SumFunction adds: it picks an element, and adds it to the sum of the rest.
Pick(T) == CHOOSE x \in T : TRUE
Adds(f, T, sum) == IF T = {} THEN 0 ELSE f[Pick(T)] + sum[T \ {Pick(T)}]
IsSum(f, S, sum) == sum = [T \in SUBSET S |-> Adds(f, T, sum)]

LEMMA SmallerByOne ==
  ASSUME NEW T, T # {}, IsFiniteSet(T)
  PROVE  /\ Pick(T) \in T /\ IsFiniteSet(T \ {Pick(T)})
         /\ Cardinality(T) \in Nat /\ Cardinality(T \ {Pick(T)}) = Cardinality(T) - 1
  BY FS_RemoveElement, FS_CardinalityType DEF Pick

LEMMA SumsExist ==
  ASSUME NEW S, IsFiniteSet(S), NEW f \in [S -> Nat]
  PROVE  \E sum : IsSum(f, S, sum)
<1> DEFINE UpTo(n) == {T \in SUBSET S : Cardinality(T) <= n}
           Summed(n) == \E sum \in [UpTo(n) -> Nat] :
                          \A T \in UpTo(n) : sum[T] = Adds(f, T, sum)
           N == {n \in Nat : Summed(n)}
<1>1. \A T \in SUBSET S : IsFiniteSet(T) /\ Cardinality(T) \in Nat /\ Cardinality(T) <= Cardinality(S)
  BY FS_Subset, FS_CardinalityType
<1>2. 0 \in N
  <2> DEFINE sum == [T \in UpTo(0) |-> 0]
  <2>1. \A T \in UpTo(0) : T = {}
    BY <1>1, FS_EmptySet
  <2>2. sum \in [UpTo(0) -> Nat] /\ \A T \in UpTo(0) : sum[T] = Adds(f, T, sum)
    BY <2>1 DEF Adds
  <2>3. QED
    BY <2>2
<1>3. ASSUME NEW n \in N
      PROVE  n + 1 \in N
  <2>1. PICK sum \in [UpTo(n) -> Nat] : \A T \in UpTo(n) : sum[T] = Adds(f, T, sum)
    OBVIOUS
  <2> DEFINE next == [T \in UpTo(n + 1) |-> Adds(f, T, sum)]
  <2>2. ASSUME NEW T \in UpTo(n + 1), T # {}
        PROVE  T \ {Pick(T)} \in UpTo(n) /\ T \ {Pick(T)} \in UpTo(n + 1) /\ Pick(T) \in S
    <3>1. n \in Nat /\ Cardinality(T) <= n + 1 /\ IsFiniteSet(T)
      BY <1>1
    <3>2. /\ Pick(T) \in T /\ Cardinality(T) \in Nat
          /\ Cardinality(T \ {Pick(T)}) = Cardinality(T) - 1
      BY <3>1, <2>2, SmallerByOne, Zenon
    <3>3. QED
      BY <3>1, <3>2, <1>1
  <2>3. next \in [UpTo(n + 1) -> Nat]
    BY <2>2 DEF Adds
  <2>4. ASSUME NEW T \in UpTo(n + 1)
        PROVE  next[T] = Adds(f, T, next)
    <3>1. CASE T = {}
      BY <3>1 DEF Adds
    <3>2. CASE T # {}
      <4>1. next[T \ {Pick(T)}] = sum[T \ {Pick(T)}]
        BY <2>1, <2>2, <3>2
      <4>2. QED
        BY <3>2, <4>1 DEF Adds
    <3>3. QED
      BY <3>1, <3>2
  <2>5. Summed(n + 1)
    <3> HIDE DEF next, UpTo
    <3>1. QED
      BY <2>3, <2>4
  <2>6. QED
    <3> HIDE DEF Summed
    <3>1. QED
      BY <2>5
<1>4. N = Nat
  <2> HIDE DEF N
  <2>1. N \in SUBSET Nat
    BY DEF N
  <2>2. QED
    BY <1>2, <1>3, <2>1, NatSetInduction
<1>5. Cardinality(S) \in N
  BY <1>4, FS_CardinalityType
<1>6. UpTo(Cardinality(S)) = SUBSET S
  BY <1>1
<1>7. PICK sum \in [SUBSET S -> Nat] : \A T \in SUBSET S : sum[T] = Adds(f, T, sum)
  BY <1>5, <1>6
<1>8. sum = [T \in SUBSET S |-> Adds(f, T, sum)]
  BY <1>7
<1>9. QED
  BY <1>8 DEF IsSum

LEMMA SumsOfSubsets ==
  ASSUME NEW S, IsFiniteSet(S), NEW f \in [S -> Nat], NEW g \in [S -> Nat],
         \A s \in S : f[s] <= g[s],
         NEW lower, IsSum(f, S, lower), NEW upper, IsSum(g, S, upper)
  PROVE  \A T \in SUBSET S : lower[T] \in Nat /\ upper[T] \in Nat /\ lower[T] <= upper[T]
<1> DEFINE Right(T) == lower[T] \in Nat /\ upper[T] \in Nat /\ lower[T] <= upper[T]
           N == {n \in Nat : \A T \in SUBSET S : Cardinality(T) = n => Right(T)}
<1>1. \A T \in SUBSET S : IsFiniteSet(T) /\ Cardinality(T) \in Nat
  BY FS_Subset, FS_CardinalityType
<1>2. \A T \in SUBSET S : lower[T] = Adds(f, T, lower) /\ upper[T] = Adds(g, T, upper)
  BY DEF IsSum
<1>3. 0 \in N
  <2>1. \A T \in SUBSET S : Cardinality(T) = 0 => T = {}
    BY <1>1, FS_EmptySet
  <2>2. lower[{}] = 0 /\ upper[{}] = 0
    BY <1>2 DEF Adds
  <2>3. QED
    BY <2>1, <2>2
<1>4. ASSUME NEW n \in N
      PROVE  n + 1 \in N
  <2> SUFFICES ASSUME NEW T \in SUBSET S, Cardinality(T) = n + 1
               PROVE  Right(T)
    OBVIOUS
  <2>1. T # {} /\ IsFiniteSet(T) /\ n \in Nat
    BY <1>1, FS_EmptySet
  <2>2. Pick(T) \in T /\ Cardinality(T \ {Pick(T)}) = Cardinality(T) - 1
    BY <2>1, SmallerByOne, Zenon
  <2>3. Right(T \ {Pick(T)})
    BY <2>1, <2>2
  <2>4. f[Pick(T)] \in Nat /\ g[Pick(T)] \in Nat /\ f[Pick(T)] <= g[Pick(T)]
    BY <2>2
  <2>5. /\ lower[T] = f[Pick(T)] + lower[T \ {Pick(T)}]
        /\ upper[T] = g[Pick(T)] + upper[T \ {Pick(T)}]
    BY <1>2, <2>1 DEF Adds
  <2>6. QED
    BY <2>3, <2>4, <2>5
<1>5. N = Nat
  <2> HIDE DEF N
  <2>1. N \in SUBSET Nat
    BY DEF N
  <2>2. QED
    BY <1>3, <1>4, <2>1, NatSetInduction
<1>6. ASSUME NEW T \in SUBSET S
      PROVE  Right(T)
  <2>1. Cardinality(T) \in N
    BY <1>1, <1>5
  <2>2. QED
    BY <2>1
<1>7. QED
  BY <1>6

LEMMA SumIsItsRecursion ==
  ASSUME NEW f, NEW S
  PROVE  SumFunctionOnSet(f, S) = (CHOOSE sum : IsSum(f, S, sum))[S]
  BY DEF SumFunctionOnSet, FoldFunctionOnSet, MapThenFoldSet, IsSum, Adds, Pick

LEMMA SumsGrow ==
  ASSUME NEW S, IsFiniteSet(S), NEW f \in [S -> Nat], NEW g \in [S -> Nat],
         \A s \in S : f[s] <= g[s]
  PROVE  SumFunction(f) \in Nat /\ SumFunction(f) <= SumFunction(g)
<1> DEFINE sum(h) == CHOOSE it : IsSum(h, S, it)
<1>1. IsSum(f, S, sum(f)) /\ IsSum(g, S, sum(g))
  BY SumsExist
<1>2. SumFunction(f) = sum(f)[S] /\ SumFunction(g) = sum(g)[S]
  BY SumIsItsRecursion DEF SumFunction
<1> HIDE DEF sum
<1>3. \A T \in SUBSET S : sum(f)[T] \in Nat /\ sum(g)[T] \in Nat /\ sum(f)[T] <= sum(g)[T]
  BY <1>1, SumsOfSubsets
<1>4. QED
  BY <1>2, <1>3

-----------------------------------------------------------------------------
\* The table only ever gets rows.
RowsAreAdded ==
  \A prj \in Project, s \in Session :
    /\ log[prj][s].oracle <= log'[prj][s].oracle
    /\ log[prj][s].builtin <= log'[prj][s].builtin
    /\ log[prj][s].hits <= log'[prj][s].hits

HitsAreCalls ==
  \A prj \in Project, s \in Session : log[prj][s].hits <= log[prj][s].oracle

LEMMA LogIsAppended ==
  ASSUME QueueTypeOK, RegistryTypeOK, HitsAreCalls, [Next]_vars
  PROVE  RowsAreAdded /\ HitsAreCalls'
<1>1. ASSUME NEW prj \in Project, NEW s \in Session, NEW row \in CallRows,
             LogRow(prj, s, row)
      PROVE  RowsAreAdded /\ HitsAreCalls'
  <2>1. log \in [Project -> [Session -> Counts]]
    BY DEF RegistryTypeOK
  <2>2. /\ log'[prj][s] = Plus(log[prj][s], row)
        /\ \A a \in Project, r \in Session :
             a # prj \/ r # s => log'[a][r] = log[a][r]
    BY <1>1, <2>1 DEF LogRow
  <2>3. \A a \in Project, r \in Session :
          /\ log[a][r].oracle \in Nat /\ log[a][r].builtin \in Nat
          /\ log[a][r].hits \in Nat
    BY <2>1 DEF Counts
  <2>4. /\ row.oracle \in Nat /\ row.builtin \in Nat /\ row.hits \in Nat
        /\ row.hits <= row.oracle
    BY DEF CallRows, Counts
  <2>5. /\ log'[prj][s].oracle = log[prj][s].oracle + row.oracle
        /\ log'[prj][s].builtin = log[prj][s].builtin + row.builtin
        /\ log'[prj][s].hits = log[prj][s].hits + row.hits
    BY <2>2 DEF Plus
  <2>6. RowsAreAdded
    BY <2>2, <2>3, <2>4, <2>5 DEF RowsAreAdded
  <2>7. HitsAreCalls'
    BY <2>2, <2>3, <2>4, <2>5 DEF HitsAreCalls
  <2>8. QED
    BY <2>6, <2>7
<1>2. CASE log' = log
  BY <1>2 DEF RowsAreAdded, HitsAreCalls, RegistryTypeOK, Counts
<1>3. CASE \E p \in Process : Drain(p) \/ Tool(p) \/ Stats(p) \/ Observe(p) \/ End(p)
  BY <1>1, <1>2, <1>3, EveryStepFindsOrStays DEF Finds, Stays, Session
<1>4. CASE (\E e \in Entry : HookOpens(e) \/ HookWrites(e)) \/ UNCHANGED vars
  BY <1>2, <1>4 DEF HookOpens, HookWrites, vars
<1>5. QED
  BY <1>3, <1>4 DEF Next

\* What SELECT COUNT and SUM give of a project, now and after a step.
LEMMA CountsGrow ==
  ASSUME RegistryTypeOK, RegistryTypeOK', HitsAreCalls, RowsAreAdded,
         NEW prj \in Project
  PROVE  /\ Hits(prj) \in Nat /\ OracleRows(prj) \in Nat /\ AllRows(prj) \in Nat
         /\ Hits(prj) <= OracleRows(prj) /\ Hits(prj) <= AllRows(prj)
         /\ OracleRows(prj)' \in Nat /\ OracleRows(prj) <= OracleRows(prj)'
         /\ AllRows(prj)' \in Nat /\ AllRows(prj) <= AllRows(prj)'
<1> DEFINE hits == [s \in Session |-> log[prj][s].hits]
           oracle == [s \in Session |-> log[prj][s].oracle]
           all == [s \in Session |-> Rows(log[prj][s])]
           oracleLater == [s \in Session |-> log'[prj][s].oracle]
           allLater == [s \in Session |-> Rows(log'[prj][s])]
<1>1. \A s \in Session :
        /\ log[prj][s].oracle \in Nat /\ log[prj][s].builtin \in Nat
        /\ log[prj][s].hits \in Nat /\ log'[prj][s].oracle \in Nat
        /\ log'[prj][s].builtin \in Nat
  BY DEF RegistryTypeOK, Counts
<1>2. /\ hits \in [Session -> Nat] /\ oracle \in [Session -> Nat]
      /\ all \in [Session -> Nat] /\ oracleLater \in [Session -> Nat]
      /\ allLater \in [Session -> Nat]
  BY <1>1 DEF Rows
<1>3. \A s \in Session : /\ hits[s] <= oracle[s] /\ hits[s] <= all[s]
                         /\ oracle[s] <= oracleLater[s] /\ all[s] <= allLater[s]
  BY <1>1 DEF HitsAreCalls, RowsAreAdded, Rows
<1>4. /\ Hits(prj) = SumFunction(hits) /\ OracleRows(prj) = SumFunction(oracle)
      /\ AllRows(prj) = SumFunction(all)
      /\ OracleRows(prj)' = SumFunction(oracleLater)
      /\ AllRows(prj)' = SumFunction(allLater)
  BY DEF Hits, OracleRows, AllRows
<1> HIDE DEF hits, oracle, all, oracleLater, allLater
<1>5. QED
  BY <1>2, <1>3, <1>4, SumsGrow

\* The stages of oracle_stats: the current project is the one it selects from.
StatsTyped ==
  stats \in [Process -> [others : SUBSET Session, used : [Session -> Nat],
                         total : [Session -> Nat], hits : Nat, calls : Nat]]

\* What has been selected is no more than what is selected next, now or later.
SelectedOf(p) ==
  /\ at[p] \in {"used", "total", "hits", "calls"} => current[p] \in Project
  /\ at[p] = "total" =>
       \A s \in stats[p].others : stats[p].used[s] <= log[current[p]][s].oracle
  /\ at[p] \in {"hits", "calls", "report"} =>
       \A s \in stats[p].others : stats[p].used[s] <= stats[p].total[s]
  /\ at[p] = "calls" => stats[p].hits <= OracleRows(current[p])
  /\ at[p] = "report" => stats[p].hits <= stats[p].calls

ObservedOf(p) ==
  observed[p] # NoObservation =>
    gauge[p] \in Project /\ observed[p] \in Nat /\ observed[p] <= AllRows(gauge[p])

ReportsInv ==
  /\ StatsTyped /\ observed \in [Process -> Nat \cup {NoObservation}]
  /\ \A p \in Process : SelectedOf(p) /\ ObservedOf(p)

LEMMA SelectionsKeep ==
  ASSUME RegistryTypeOK, RegistryTypeOK', HitsAreCalls, RowsAreAdded, StatsTyped,
         NEW q \in Process, SelectedOf(q),
         \/ at'[q] = at[q] /\ stats'[q] = stats[q] /\ current'[q] = current[q]
         \/ at'[q] \notin {"used", "total", "hits", "calls", "report"}
  PROVE  SelectedOf(q)'
<1>1. CASE at'[q] \notin {"used", "total", "hits", "calls", "report"}
  BY <1>1 DEF SelectedOf
<1>2. CASE at'[q] = at[q] /\ stats'[q] = stats[q] /\ current'[q] = current[q]
  <2>1. ASSUME at[q] = "total"
        PROVE  \A s \in stats[q].others : stats[q].used[s] <= log'[current[q]][s].oracle
    <3>1. current[q] \in Project
      BY <2>1 DEF SelectedOf
    <3>2. TAKE s \in stats[q].others
    <3>3. s \in Session /\ stats[q].used[s] \in Nat
      BY DEF StatsTyped
    <3>4. /\ log[current[q]][s].oracle \in Nat /\ log'[current[q]][s].oracle \in Nat
          /\ log[current[q]][s].oracle <= log'[current[q]][s].oracle
          /\ stats[q].used[s] <= log[current[q]][s].oracle
      BY <2>1, <3>1, <3>3 DEF SelectedOf, RowsAreAdded, RegistryTypeOK, Counts
    <3>5. QED
      BY <3>3, <3>4
  <2>2. ASSUME at[q] = "calls"
        PROVE  stats'[q].hits <= OracleRows(current[q])'
    <3>1. PICK prj \in Project : prj = current[q] /\ prj = current'[q]
      BY <1>2, <2>2 DEF SelectedOf
    <3>2. /\ OracleRows(prj) \in Nat /\ OracleRows(prj)' \in Nat
          /\ OracleRows(prj) <= OracleRows(prj)'
      BY CountsGrow
    <3>3. OracleRows(current[q]) = OracleRows(prj) /\ OracleRows(current[q])' = OracleRows(prj)'
      BY <3>1 DEF OracleRows
    <3>4. stats'[q].hits \in Nat /\ stats'[q].hits <= OracleRows(current[q])
      BY <1>2, <2>2 DEF SelectedOf, StatsTyped
    <3>5. QED
      BY <3>2, <3>3, <3>4
  <2>3. QED
    BY <1>2, <2>1, <2>2 DEF SelectedOf
<1>3. QED
  BY <1>1, <1>2

LEMMA ObservationKeeps ==
  ASSUME RegistryTypeOK, RegistryTypeOK', HitsAreCalls, RowsAreAdded,
         NEW q \in Process, ObservedOf(q),
         \/ /\ observed'[q] = observed[q]
            /\ gauge'[q] = gauge[q] \/ gauge[q] = NoProject
         \/ observed'[q] = NoObservation
  PROVE  ObservedOf(q)'
<1> SUFFICES ASSUME observed'[q] # NoObservation
             PROVE  /\ gauge'[q] \in Project /\ observed'[q] \in Nat
                    /\ observed'[q] <= AllRows(gauge[q])'
  BY DEF ObservedOf
<1>1. /\ observed'[q] = observed[q] /\ observed[q] \in Nat
      /\ gauge[q] \in Project /\ observed[q] <= AllRows(gauge[q])
  BY DEF ObservedOf
<1>2. PICK prj \in Project : prj = gauge[q] /\ prj = gauge'[q]
  BY <1>1
<1>3. /\ AllRows(prj) \in Nat /\ AllRows(prj)' \in Nat
      /\ AllRows(prj) <= AllRows(prj)'
  BY CountsGrow
<1>4. AllRows(gauge[q]) = AllRows(prj) /\ AllRows(gauge[q])' = AllRows(prj)'
  BY <1>2 DEF AllRows
<1>5. QED
  BY <1>1, <1>2, <1>3, <1>4

\* A step is one process's own.
ActsAlone(p) ==
  \A q \in Process \ {p} :
    UNCHANGED <<at[q], stats[q], current[q], observed[q], gauge[q]>>

\* Draining and the other tools select nothing, and may give the process its gauge.
LEMMA CallsReportNothing ==
  ASSUME QueueTypeOK, RegistryTypeOK, NEW p \in Process, Drain(p) \/ Tool(p)
  PROVE  /\ UNCHANGED <<stats, observed>>
         /\ at'[p] \in {"idle", "drain", "unlink"}
         /\ gauge' = gauge \/ gauge[p] = NoProject
         /\ ActsAlone(p)
<1>1. CASE BeginCall(p) \/ ReadFile(p) \/ Unlink(p)
  BY <1>1 DEF BeginCall, ReadFile, Unlink, registry, reports, QueueTypeOK, ActsAlone
<1>2. CASE IngestEntry(p)
  <2>1. UNCHANGED <<stats, observed, gauge, at>> /\ at[p] = "drain"
    BY <1>2 DEF IngestEntry, reports
  <2>2. \A q \in Process \ {p} : current'[q] = current[q]
    BY <1>2 DEF IngestEntry, ForPath, registry, RegistryTypeOK
  <2>3. QED
    BY <2>1, <2>2 DEF ActsAlone
<1>3. CASE IngestRaises(p)
  <2>1. UNCHANGED <<stats, observed, gauge>> /\ at' = [at EXCEPT ![p] = "idle"]
    BY <1>3 DEF IngestRaises, reports
  <2>2. \A q \in Process \ {p} : current'[q] = current[q]
    BY <1>3 DEF IngestRaises, Cropped, ForPath, registry, RegistryTypeOK
  <2>3. QED
    BY <2>1, <2>2 DEF ActsAlone, QueueTypeOK
<1>4. CASE Tool(p)
  <2>1. UNCHANGED <<stats, observed>> /\ at' = [at EXCEPT ![p] = "idle"]
    BY <1>4 DEF Tool, PathTool, CurrentTool, NoProjectFound, ToolRaises, Return, reports
  <2>2. \A q \in Process \ {p} : current'[q] = current[q]
    BY <1>4 DEF Tool, PathTool, CurrentTool, NoProjectFound, ToolRaises, Cropped, ForPath,
                registry, RegistryTypeOK
  <2>3. \/ gauge' = gauge
        \/ gauge[p] = NoProject /\ gauge' = [gauge EXCEPT ![p] = current'[p]]
    BY <1>4 DEF Tool, PathTool, CurrentTool, NoProjectFound, ToolRaises, reports, Log,
                GetTelemetry, CreateTelemetry
  <2>4. QED
    BY <2>1, <2>2, <2>3 DEF ActsAlone, QueueTypeOK, RegistryTypeOK
<1>5. QED
  BY <1>1, <1>2, <1>3, <1>4 DEF Drain

LEMMA SelectsKeepReports ==
  ASSUME QueueTypeOK, RegistryTypeOK, RegistryTypeOK', HitsAreCalls, RowsAreAdded,
         ReportsInv, NEW p \in Process, Stats(p)
  PROVE  ReportsInv'
<1>0. /\ StatsTyped /\ SelectedOf(p)
      /\ \A q \in Process : SelectedOf(q) /\ ObservedOf(q)
  BY DEF ReportsInv
<1>1. /\ UNCHANGED <<current, log, gauge, observed>>
      /\ \E to \in {"idle", "used", "total", "hits", "calls", "report"} :
           at' = [at EXCEPT ![p] = to]
  BY DEF Stats, SelectOthers, SelectUsed, SelectTotal, SelectCumulative, Report,
         StatsStep, registry
<1>2. ASSUME StatsTyped', SelectedOf(p)', \A q \in Process \ {p} : stats'[q] = stats[q]
      PROVE  ReportsInv'
  <2>1. ASSUME NEW q \in Process, q # p
        PROVE  SelectedOf(q)'
    <3>1. at'[q] = at[q] /\ stats'[q] = stats[q] /\ current'[q] = current[q]
      BY <1>1, <1>2, <2>1 DEF QueueTypeOK
    <3>2. QED
      BY <1>0, <3>1, SelectionsKeep
  <2>2. ASSUME NEW q \in Process
        PROVE  ObservedOf(q)'
    BY <1>0, <1>1, ObservationKeeps
  <2>3. QED
    BY <1>1, <1>2, <2>1, <2>2 DEF ReportsInv
<1>3. CASE SelectOthers(p)
  <2>1. PICK latest \in SUBSET Session : stats' = [stats EXCEPT ![p].others = latest]
    BY <1>3 DEF SelectOthers
  <2>2. at'[p] = "used" /\ current[p] # NoProject
    BY <1>3 DEF SelectOthers, StatsStep, QueueTypeOK
  <2>3. StatsTyped' /\ \A q \in Process \ {p} : stats'[q] = stats[q]
    BY <1>0, <2>1 DEF StatsTyped
  <2>4. SelectedOf(p)'
    BY <1>1, <2>2 DEF SelectedOf, RegistryTypeOK
  <2>5. QED
    BY <1>2, <2>3, <2>4
<1>4. CASE SelectUsed(p)
  <2> DEFINE used == [s \in Session |-> IF s \in stats[p].others
                                          THEN log[current[p]][s].oracle ELSE 0]
  <2>1. /\ at[p] = "used" /\ at'[p] = "total"
        /\ stats' = [stats EXCEPT ![p].used = used]
    BY <1>4 DEF SelectUsed, StatsStep, QueueTypeOK
  <2>2. current[p] \in Project
    BY <1>0, <2>1 DEF SelectedOf
  <2>3. \A s \in Session : log[current[p]][s].oracle \in Nat
    BY <2>2 DEF RegistryTypeOK, Counts
  <2>4. used \in [Session -> Nat]
    BY <2>3
  <2>5. \A s \in stats[p].others : used[s] <= log[current[p]][s].oracle
    BY <1>0, <2>3 DEF StatsTyped
  <2> HIDE DEF used
  <2>6. /\ StatsTyped' /\ \A q \in Process \ {p} : stats'[q] = stats[q]
        /\ stats'[p].others = stats[p].others /\ stats'[p].used = used
    BY <1>0, <2>1, <2>4 DEF StatsTyped
  <2>7. SelectedOf(p)'
    BY <1>1, <2>1, <2>2, <2>5, <2>6 DEF SelectedOf
  <2>8. QED
    BY <1>2, <2>6, <2>7
<1>5. CASE SelectTotal(p)
  <2> DEFINE total == [s \in Session |-> IF s \in stats[p].others
                                           THEN Rows(log[current[p]][s]) ELSE 0]
  <2>1. /\ at[p] = "total" /\ at'[p] = "hits"
        /\ stats' = [stats EXCEPT ![p].total = total]
    BY <1>5 DEF SelectTotal, StatsStep, QueueTypeOK
  <2>2. current[p] \in Project
    BY <1>0, <2>1 DEF SelectedOf
  <2>3. \A s \in Session : /\ log[current[p]][s].oracle \in Nat
                           /\ log[current[p]][s].builtin \in Nat
    BY <2>2 DEF RegistryTypeOK, Counts
  <2>4. total \in [Session -> Nat]
    BY <2>3 DEF Rows
  <2>5. \A s \in stats[p].others : stats[p].used[s] <= total[s]
    <3>1. TAKE s \in stats[p].others
    <3>2. s \in Session /\ stats[p].used[s] \in Nat
      BY <1>0 DEF StatsTyped
    <3>3. stats[p].used[s] <= log[current[p]][s].oracle
      BY <1>0, <2>1 DEF SelectedOf
    <3>4. QED
      BY <2>3, <3>2, <3>3 DEF Rows
  <2> HIDE DEF total
  <2>6. /\ StatsTyped' /\ \A q \in Process \ {p} : stats'[q] = stats[q]
        /\ stats'[p].others = stats[p].others /\ stats'[p].used = stats[p].used
        /\ stats'[p].total = total
    BY <1>0, <2>1, <2>4 DEF StatsTyped
  <2>7. SelectedOf(p)'
    BY <1>1, <2>1, <2>2, <2>5, <2>6 DEF SelectedOf
  <2>8. QED
    BY <1>2, <2>6, <2>7
<1>6. CASE SelectCumulative(p)
  <2>1. at[p] \in {"hits", "calls"} /\ current[p] \in Project
    BY <1>0, <1>6 DEF SelectCumulative, StatsStep, SelectedOf
  <2>2. PICK prj \in Project : prj = current[p] /\ prj = current'[p]
    BY <1>1, <2>1
  <2>3. /\ Hits(prj) \in Nat /\ OracleRows(prj) \in Nat /\ OracleRows(prj)' \in Nat
        /\ Hits(prj) <= OracleRows(prj) /\ OracleRows(prj) <= OracleRows(prj)'
    BY CountsGrow
  <2>4. /\ Hits(current[p]) = Hits(prj) /\ OracleRows(current[p]) = OracleRows(prj)
        /\ OracleRows(current[p])' = OracleRows(prj)'
    BY <2>2 DEF Hits, OracleRows
  <2>5. CASE /\ at[p] = "hits" /\ at'[p] = "calls"
             /\ stats' = [stats EXCEPT ![p].hits = Hits(prj)]
    <3>1. /\ StatsTyped' /\ \A q \in Process \ {p} : stats'[q] = stats[q]
          /\ stats'[p].others = stats[p].others /\ stats'[p].used = stats[p].used
          /\ stats'[p].total = stats[p].total /\ stats'[p].hits = Hits(prj)
      BY <1>0, <2>3, <2>5 DEF StatsTyped
    <3>2. stats'[p].hits <= OracleRows(current[p])'
      BY <2>3, <2>4, <3>1
    <3>3. SelectedOf(p)'
      BY <1>0, <2>2, <2>5, <3>1, <3>2 DEF SelectedOf
    <3>4. QED
      BY <1>2, <3>1, <3>3
  <2>6. CASE /\ at[p] = "calls" /\ at'[p] = "report"
             /\ stats' = [stats EXCEPT ![p].calls = OracleRows(prj)]
    <3>1. /\ StatsTyped' /\ \A q \in Process \ {p} : stats'[q] = stats[q]
          /\ stats'[p].others = stats[p].others /\ stats'[p].used = stats[p].used
          /\ stats'[p].total = stats[p].total /\ stats'[p].hits = stats[p].hits
          /\ stats'[p].calls = OracleRows(prj)
      BY <1>0, <2>3, <2>6 DEF StatsTyped
    <3>2. stats[p].hits <= OracleRows(prj)
      BY <1>0, <2>4, <2>6 DEF SelectedOf
    <3>3. SelectedOf(p)'
      BY <1>0, <2>2, <2>6, <3>1, <3>2 DEF SelectedOf
    <3>4. QED
      BY <1>2, <3>1, <3>3
  <2>7. QED
    BY <1>6, <2>4, <2>5, <2>6 DEF SelectCumulative, StatsStep, QueueTypeOK
<1>7. CASE Report(p)
  <2>1. at'[p] = "idle" /\ stats' = [stats EXCEPT ![p] = NoStats]
    BY <1>7 DEF Report, StatsStep, QueueTypeOK
  <2>2. StatsTyped' /\ \A q \in Process \ {p} : stats'[q] = stats[q]
    BY <1>0, <2>1 DEF StatsTyped, NoStats
  <2>3. SelectedOf(p)'
    BY <2>1 DEF SelectedOf
  <2>4. QED
    BY <1>2, <2>2, <2>3
<1>8. QED
  BY <1>3, <1>4, <1>5, <1>6, <1>7 DEF Stats

LEMMA ObserverKeepsReports ==
  ASSUME QueueTypeOK, RegistryTypeOK, RegistryTypeOK', HitsAreCalls, RowsAreAdded,
         ReportsInv, NEW p \in Process, Observe(p) \/ End(p)
  PROVE  ReportsInv'
<1>0. /\ StatsTyped /\ observed \in [Process -> Nat \cup {NoObservation}]
      /\ \A q \in Process : SelectedOf(q) /\ ObservedOf(q)
  BY DEF ReportsInv
<1>1. UNCHANGED <<current, log, gauge>>
  BY DEF Observe, ObserveHits, ObserveCount, End, registry
<1>2. \E x : observed' = [observed EXCEPT ![p] = x]
  BY DEF Observe, ObserveHits, ObserveCount, End
<1>3. \A q \in Process \ {p} : observed'[q] = observed[q]
  BY <1>0, <1>2
<1>4. \/ UNCHANGED <<at, stats>>
      \/ at' = [at EXCEPT ![p] = "ended"] /\ stats' = [stats EXCEPT ![p] = NoStats]
  BY DEF Observe, ObserveHits, ObserveCount, End
<1>5. StatsTyped'
  <2>1. NoStats \in [others : SUBSET Session, used : [Session -> Nat],
                     total : [Session -> Nat], hits : Nat, calls : Nat]
    BY DEF NoStats
  <2>2. QED
    BY <1>0, <1>4, <2>1, Zenon DEF StatsTyped
<1>6. ASSUME NEW q \in Process
      PROVE  SelectedOf(q)'
  <2>1. \/ at'[q] = at[q] /\ stats'[q] = stats[q] /\ current'[q] = current[q]
        \/ at'[q] = "ended"
    BY <1>0, <1>1, <1>4 DEF QueueTypeOK, StatsTyped
  <2>2. QED
    BY <1>0, <2>1, SelectionsKeep
<1>7. ASSUME NEW q \in Process, q # p
      PROVE  ObservedOf(q)'
  BY <1>0, <1>1, <1>3, <1>7, ObservationKeeps
<1>8. ObservedOf(p)'
  <2>1. CASE ObserveHits(p)
    <3>1. /\ gauge[p] # NoProject /\ log' = log
          /\ observed' = [observed EXCEPT ![p] = Hits(gauge[p])]
      BY <2>1 DEF ObserveHits
    <3>2. PICK prj \in Project : prj = gauge[p] /\ prj = gauge'[p]
      BY <1>1, <3>1 DEF RegistryTypeOK
    <3>3. /\ Hits(prj) \in Nat /\ AllRows(prj) \in Nat /\ AllRows(prj)' \in Nat
          /\ Hits(prj) <= AllRows(prj) /\ AllRows(prj) <= AllRows(prj)'
      BY CountsGrow
    <3>4. Hits(gauge[p]) = Hits(prj) /\ AllRows(gauge[p])' = AllRows(prj)'
      BY <3>2 DEF Hits, AllRows
    <3>5. observed'[p] = Hits(prj)
      BY <1>0, <3>1, <3>4
    <3>6. QED
      BY <3>2, <3>3, <3>4, <3>5 DEF ObservedOf
  <2>2. CASE ObserveCount(p) \/ End(p)
    <3>1. observed'[p] = NoObservation
      BY <1>0, <2>2 DEF ObserveCount, End
    <3>2. QED
      BY <1>0, <3>1, ObservationKeeps
  <2>3. QED
    BY <2>1, <2>2 DEF Observe
<1>9. observed' \in [Process -> Nat \cup {NoObservation}]
  <2>1. observed'[p] \in Nat \cup {NoObservation}
    BY <1>8 DEF ObservedOf
  <2>2. QED
    BY <1>0, <1>2, <2>1
<1>10. QED
  BY <1>5, <1>6, <1>7, <1>8, <1>9 DEF ReportsInv

LEMMA ReportsStay == Spec => [](HitsAreCalls /\ ReportsInv)
<1>1. Init => HitsAreCalls /\ ReportsInv
  BY DEF Init, HitsAreCalls, NoRows, NoStats, ReportsInv, StatsTyped, SelectedOf, ObservedOf
<1>2. ASSUME QueueTypeOK, RegistryTypeOK, RegistryTypeOK', HitsAreCalls, ReportsInv,
             [Next]_vars
      PROVE  HitsAreCalls' /\ ReportsInv'
  <2>1. RowsAreAdded /\ HitsAreCalls'
    BY <1>2, LogIsAppended
  <2>2. /\ StatsTyped /\ observed \in [Process -> Nat \cup {NoObservation}]
        /\ \A q \in Process : SelectedOf(q) /\ ObservedOf(q)
    BY <1>2 DEF ReportsInv
  <2>3. ASSUME NEW p \in Process, Drain(p) \/ Tool(p)
        PROVE  ReportsInv'
    <3>1. /\ UNCHANGED <<stats, observed>>
          /\ at'[p] \in {"idle", "drain", "unlink"}
          /\ gauge' = gauge \/ gauge[p] = NoProject
          /\ ActsAlone(p)
      BY <1>2, <2>3, CallsReportNothing
    <3>2. ASSUME NEW q \in Process
          PROVE  SelectedOf(q)' /\ ObservedOf(q)'
      <4>1. \/ at'[q] = at[q] /\ stats'[q] = stats[q] /\ current'[q] = current[q]
            \/ at'[q] \notin {"used", "total", "hits", "calls", "report"}
        BY <3>1 DEF ActsAlone
      <4>2. observed'[q] = observed[q] /\ (gauge'[q] = gauge[q] \/ gauge[q] = NoProject)
        BY <3>1 DEF ActsAlone
      <4>3. QED
        BY <1>2, <2>1, <2>2, <4>1, <4>2, SelectionsKeep, ObservationKeeps
    <3>3. QED
      BY <2>2, <3>1, <3>2 DEF ReportsInv, StatsTyped
  <2>4. ASSUME NEW p \in Process, Stats(p) \/ Observe(p) \/ End(p)
        PROVE  ReportsInv'
    BY <1>2, <2>1, <2>4, SelectsKeepReports, ObserverKeepsReports
  <2>5. CASE (\E e \in Entry : HookOpens(e) \/ HookWrites(e)) \/ UNCHANGED vars
    <3>1. UNCHANGED <<at, current, log, gauge, stats, observed>>
      BY <2>5 DEF HookOpens, HookWrites, vars, registry, reports
    <3>2. \A q \in Process : SelectedOf(q)' /\ ObservedOf(q)'
      BY <1>2, <2>1, <2>2, <3>1, SelectionsKeep, ObservationKeeps
    <3>3. QED
      BY <2>1, <2>2, <3>1, <3>2 DEF ReportsInv, StatsTyped
  <2>6. ReportsInv'
    <3>1. \/ \E p \in Process : Drain(p) \/ Tool(p) \/ Stats(p) \/ Observe(p) \/ End(p)
          \/ (\E e \in Entry : HookOpens(e) \/ HookWrites(e)) \/ UNCHANGED vars
      BY <1>2 DEF Next
    <3>2. QED
      BY <2>3, <2>4, <2>5, <3>1
  <2>7. QED
    BY <2>1, <2>6
<1>3. Spec => [](RegistryTypeOK /\ CurrentIsNamedOrIngested)
  BY ToolsActOnFoundProject
<1>4. QED
  BY <1>1, <1>2, <1>3, QueueIsTyped, PTL DEF Spec

\* No rate that oracle_stats or the gauge reports exceeds 100 %, between whichever of
\* its SELECTs other processes log: what is divided is selected first, the log only
\* grows, and no row is a hit that is not a call.
THEOREM ReportedRatesAreRates == Spec => []RatesAreRates
<1>1. ReportsInv => RatesAreRates
  BY DEF ReportsInv, SelectedOf, ObservedOf, RatesAreRates
<1>2. QED
  BY <1>1, ReportsStay, PTL

\* The server processes and what they share keep their types.
THEOREM ServerIsTyped == Spec => []TypeOK
<1>1. QueueTypeOK /\ RegistryTypeOK /\ ReportsInv => TypeOK
  BY DEF TypeOK, ReportsInv
<1>2. QED
  BY <1>1, QueueIsTyped, ToolsActOnFoundProject, ReportsStay, PTL

-----------------------------------------------------------------------------
\* What hooks queue about a project for an agent, and how much of it is logged.
OfAgent(prj, s) == {e \in Entry : About[e] = prj /\ From[e] = s}
Logged(prj, s) == {e \in OfAgent(prj, s) : rowsOf[e] > 0}

\* An agent's rows in a project's log are its logged entries, one for each.
RowsAreEntries ==
  \A prj \in Project, s \in Agent :
    /\ IsFiniteSet(Logged(prj, s))
    /\ OfAgent(prj, s) \cap Again = {} =>
         log[prj][s].builtin = Cardinality(Logged(prj, s))

LogsEntry(p, e) ==
  /\ About[e] # NoProject
  /\ LogRow(About[e], From[e], BuiltinCall)
  /\ rowsOf' = [rowsOf EXCEPT ![e] = @ + 1]

LogsTool ==
  /\ rowsOf' = rowsOf
  /\ \E prj \in Project, s \in Process, hit \in {0, 1} :
       LogRow(prj, s, OracleCall(hit))

LEMMA BuiltinCallIsLogged ==
  ASSUME RegistryTypeOK, NEW prj \in Project, NEW s \in Session,
         LogRow(prj, s, BuiltinCall)
  PROVE  /\ log'[prj][s].builtin = log[prj][s].builtin + 1
         /\ log[prj][s].builtin \in Nat
         /\ \A a \in Project, r \in Session :
              a # prj \/ r # s => log'[a][r] = log[a][r]
<1>1. log \in [Project -> [Session -> Counts]]
  BY DEF RegistryTypeOK
<1>2. log'[prj][s] = Plus(log[prj][s], BuiltinCall)
  BY <1>1 DEF LogRow
<1>3. log[prj][s] \in Counts
  BY <1>1
<1>4. /\ log'[prj][s].builtin = log[prj][s].builtin + 1
      /\ log[prj][s].builtin \in Nat
  BY <1>2, <1>3 DEF Plus, BuiltinCall, Counts
<1>5. \A a \in Project, r \in Session : a # prj \/ r # s => log'[a][r] = log[a][r]
  BY <1>1 DEF LogRow
<1>6. QED
  BY <1>4, <1>5

\* Every row is a tool's, under its process, or an entry's, counted with it.
LEMMA RowsHaveReasons ==
  ASSUME QueueTypeOK, RegistryTypeOK, [Next]_vars
  PROVE  /\ Again \subseteq Again'
         /\ \/ UNCHANGED <<log, rowsOf>>
            \/ LogsTool
            \/ \E p \in Process : \E e \in First(batch[p]) : LogsEntry(p, e)
<1> DEFINE Goal == /\ Again \subseteq Again'
                   /\ \/ UNCHANGED <<log, rowsOf>>
                      \/ LogsTool
                      \/ \E p \in Process : \E e \in First(batch[p]) : LogsEntry(p, e)
<1>1. ASSUME NEW e \in Entry, HookOpens(e) \/ HookWrites(e)
      PROVE  Goal
  BY <1>1 DEF HookOpens, HookWrites, fates, Again
<1>2. ASSUME NEW p \in Process, BeginCall(p) \/ ReadFile(p) \/ Unlink(p)
      PROVE  Goal
  BY <1>2 DEF BeginCall, ReadFile, Unlink, Again
<1>3. ASSUME NEW p \in Process, IngestEntry(p)
      PROVE  Goal
  <2>1. PICK e \in First(batch[p]) :
          IF About[e] = NoProject
            THEN UNCHANGED <<log, rowsOf>>
            ELSE /\ LogRow(About[e], From[e], BuiltinCall)
                 /\ rowsOf' = [rowsOf EXCEPT ![e] = @ + 1]
    BY <1>3, Zenon DEF IngestEntry
  <2>2. Again' = Again
    BY <1>3 DEF IngestEntry, Again
  <2>3. QED
    BY <2>1, <2>2 DEF LogsEntry
<1>4. ASSUME NEW p \in Process, IngestRaises(p)
      PROVE  Goal
  <2>1. PICK e \in First(batch[p]) :
          /\ About[e] # NoProject
          /\ log' = log \/ LogRow(About[e], From[e], BuiltinCall)
          /\ rowsOf' = IF log' = log THEN rowsOf ELSE [rowsOf EXCEPT ![e] = @ + 1]
    BY <1>4, Zenon DEF IngestRaises, Cropped
  <2>2. Again' = Again
    BY <1>4 DEF IngestRaises, Again
  <2>3. QED
    BY <2>1, <2>2 DEF LogsEntry
<1>5. ASSUME NEW p \in Process, Tool(p)
      PROVE  Goal
  <2>1. UNCHANGED <<rowsOf, Again>>
    BY <1>5 DEF Tool, PathTool, CurrentTool, NoProjectFound, ToolRaises, fates, Again
  <2>2. CASE PathTool(p)
    BY <2>1, <2>2 DEF PathTool, Log, LogsTool
  <2>3. CASE CurrentTool(p)
    BY <2>1, <2>3 DEF CurrentTool, RegistryTypeOK, Log, LogsTool
  <2>4. CASE NoProjectFound(p)
    BY <2>1, <2>4 DEF NoProjectFound
  <2>5. CASE ToolRaises(p)
    BY <2>1, <2>5 DEF ToolRaises, Cropped, LogsTool
  <2>6. QED
    BY <1>5, <2>2, <2>3, <2>4, <2>5 DEF Tool
<1>6. ASSUME NEW p \in Process, Stats(p)
      PROVE  Goal
  BY <1>6 DEF Stats, SelectOthers, SelectUsed, SelectTotal, SelectCumulative, Report,
              StatsStep, fates, Again
<1>7. ASSUME NEW p \in Process, Observe(p) \/ End(p)
      PROVE  Goal
  BY <1>7 DEF Observe, ObserveHits, ObserveCount, End, fates, Again
<1>8. CASE UNCHANGED vars
  BY <1>8 DEF vars, Again
<1>9. QED
  BY <1>1, <1>2, <1>3, <1>4, <1>5, <1>6, <1>7, <1>8 DEF Next, Drain

LEMMA RowsStayEntries == Spec => []RowsAreEntries
<1>1. Init => RowsAreEntries
  <2> SUFFICES ASSUME Init, NEW prj \in Project, NEW s \in Agent
               PROVE  /\ Logged(prj, s) = {} /\ log[prj][s].builtin = 0
    BY FS_EmptySet DEF RowsAreEntries
  <2>1. QED
    BY DEF Init, Logged, OfAgent, Session, NoRows
<1>2. ASSUME QueueTypeOK, RegistryTypeOK, QueueInv, RowsAreEntries, [Next]_vars
      PROVE  RowsAreEntries'
  <2>0. /\ Again \subseteq Again'
        /\ \/ UNCHANGED <<log, rowsOf>>
           \/ LogsTool
           \/ \E p \in Process : \E e \in First(batch[p]) : LogsEntry(p, e)
    BY <1>2, RowsHaveReasons
  <2>1. CASE rowsOf' = rowsOf /\ \A prj \in Project, s \in Agent :
                                   log'[prj][s].builtin = log[prj][s].builtin
    <3>1. \A prj \in Project, s \in Agent : Logged(prj, s)' = Logged(prj, s)
      BY <2>1 DEF Logged, OfAgent
    <3>2. QED
      BY <1>2, <2>0, <2>1, <3>1 DEF RowsAreEntries, OfAgent
  <2>2. CASE LogsTool
    <3>1. log \in [Project -> [Session -> Counts]]
      BY <1>2 DEF RegistryTypeOK
    <3>2. PICK a \in Project, t \in Process, hit \in {0, 1} : LogRow(a, t, OracleCall(hit))
      BY <2>2 DEF LogsTool
    <3>3. \A prj \in Project, s \in Agent : log'[prj][s] = log[prj][s]
      BY <3>1, <3>2 DEF LogRow, Session
    <3>4. QED
      BY <2>1, <2>2, <3>3 DEF LogsTool
  <2>3. ASSUME NEW p \in Process, NEW e \in First(batch[p]), LogsEntry(p, e)
        PROVE  RowsAreEntries'
    <3>1. e \in Entry /\ e \in batch[p] /\ rowsOf \in [Entry -> Nat]
      BY <1>2 DEF QueueTypeOK, First
    <3>2. About[e] \in Project /\ From[e] \in Agent
      BY <2>3, <3>1 DEF LogsEntry
    <3>3. /\ log'[About[e]][From[e]].builtin = log[About[e]][From[e]].builtin + 1
          /\ log[About[e]][From[e]].builtin \in Nat
          /\ \A prj \in Project, s \in Agent :
               prj # About[e] \/ s # From[e] => log'[prj][s] = log[prj][s]
      BY <1>2, <2>3, <3>2, BuiltinCallIsLogged DEF LogsEntry, Session
    <3>4. e \notin Again => rowsOf[e] = 0
      BY <1>2, <3>1 DEF QueueInv, LoggedIsDone, Held
    <3>5. SUFFICES ASSUME NEW prj \in Project, NEW s \in Agent
                   PROVE  /\ IsFiniteSet(Logged(prj, s)')
                          /\ OfAgent(prj, s) \cap Again' = {} =>
                               log'[prj][s].builtin = Cardinality(Logged(prj, s)')
      BY DEF RowsAreEntries, OfAgent
    <3>6. /\ IsFiniteSet(Logged(prj, s))
          /\ OfAgent(prj, s) \cap Again = {} =>
               log[prj][s].builtin = Cardinality(Logged(prj, s))
      BY <1>2 DEF RowsAreEntries
    <3>7. CASE e \in OfAgent(prj, s)
      <4>0. /\ rowsOf'[e] > 0
            /\ \A f \in Entry \ {e} : rowsOf'[f] = rowsOf[f]
        BY <2>3, <3>1 DEF LogsEntry
      <4>1. Logged(prj, s)' = Logged(prj, s) \cup {e}
        BY <3>7, <4>0 DEF Logged, OfAgent
      <4>2. About[e] = prj /\ From[e] = s
        BY <3>7 DEF OfAgent
      <4>3. e \notin Again => e \notin Logged(prj, s)
        BY <3>4 DEF Logged
      <4>4. /\ IsFiniteSet(Logged(prj, s) \cup {e})
            /\ e \notin Logged(prj, s) =>
                 Cardinality(Logged(prj, s) \cup {e}) = Cardinality(Logged(prj, s)) + 1
        BY <3>6, FS_AddElement
      <4>5. OfAgent(prj, s) \cap Again' = {} =>
              e \notin Again /\ OfAgent(prj, s) \cap Again = {}
        BY <2>0, <3>7
      <4>6. QED
        BY <3>3, <3>6, <4>1, <4>2, <4>3, <4>4, <4>5
    <3>8. CASE e \notin OfAgent(prj, s)
      <4>1. Logged(prj, s)' = Logged(prj, s)
        BY <2>3, <3>1, <3>8 DEF LogsEntry, Logged, OfAgent
      <4>2. log'[prj][s] = log[prj][s]
        BY <3>1, <3>3, <3>8 DEF OfAgent
      <4>3. QED
        BY <2>0, <3>6, <4>1, <4>2
    <3>9. QED
      BY <3>7, <3>8
  <2>4. QED
    BY <2>0, <2>1, <2>2, <2>3
<1>3. Spec => [](RegistryTypeOK /\ CurrentIsNamedOrIngested)
  BY ToolsActOnFoundProject
<1>4. QED
  BY <1>1, <1>2, <1>3, QueueIsTyped, QueueStays, PTL DEF Spec

\* The adoption that oracle_stats computes for an agent counts its built-in calls
\* exactly, in whatever order and by whichever processes they were ingested: once
\* what its hooks have written about a project is done with, and none of it was
\* listed by two processes at once, kept by a failed unlink or dropped by another
\* failure, there is one row for each entry.
BuiltinCallsAreCounted ==
  \A prj \in Project, s \in Agent :
    LET written == {e \in OfAgent(prj, s) : dir[e] # "unwritten"}
    IN (/\ OfAgent(prj, s) \cap Again = {}
        /\ \A e \in written :
             dir[e] = "gone" /\ e \notin cut /\ \A p \in Process : e \notin batch[p])
       => IsFiniteSet(written) /\ log[prj][s].builtin = Cardinality(written)

\* No built-in call is counted twice, nor missed, but by drains that overlap and by
\* failures, for any processes, agents and projects.
THEOREM CountsAreExact == Spec => []BuiltinCallsAreCounted
<1>1. QueueTypeOK /\ QueueInv /\ RowsAreEntries => BuiltinCallsAreCounted
  <2> SUFFICES ASSUME QueueTypeOK, QueueInv, RowsAreEntries,
                      NEW prj \in Project, NEW s \in Agent,
                      OfAgent(prj, s) \cap Again = {},
                      \A e \in OfAgent(prj, s) : dir[e] # "unwritten" =>
                        /\ dir[e] = "gone" /\ e \notin cut
                        /\ \A p \in Process : e \notin batch[p]
               PROVE  {e \in OfAgent(prj, s) : dir[e] # "unwritten"} = Logged(prj, s)
    BY ZenonT(60) DEF RowsAreEntries, BuiltinCallsAreCounted
  <2>1. ASSUME NEW e \in OfAgent(prj, s), dir[e] # "unwritten"
        PROVE  rowsOf[e] > 0
    BY <2>1 DEF QueueInv, EntriesReachTheLog, OfAgent
  <2>2. ASSUME NEW e \in OfAgent(prj, s), rowsOf[e] > 0
        PROVE  dir[e] = "gone"
    BY <2>2 DEF QueueTypeOK, QueueInv, LoggedIsDone, OfAgent
  <2>3. QED
    BY <2>1, <2>2 DEF Logged
<1>2. QED
  BY <1>1, QueueIsTyped, QueueStays, RowsStayEntries, PTL
=============================================================================
