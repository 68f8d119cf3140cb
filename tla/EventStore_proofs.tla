-------------------------- MODULE EventStore_proofs --------------------------
(***************************************************************************)
(* Proofs about the event table and the tools that query it, for any       *)
(* deliveries, any retention and any length of the day in ticks, through   *)
(* crashes and refused writes.                                             *)
(***************************************************************************)
EXTENDS WebhookTools, TLAPS

USE NoEventAssumption, TimeAssumption, NoRowAssumption

\* The retention window in ticks is a number below the cap on ages.
LEMMA Window == MaxAge \in Nat /\ Days * DayLen \in Nat /\ Days * DayLen <= MaxAge
<1>1. MaxAge = Days * DayLen + 2 * DayLen /\ Days * DayLen \in Nat
  BY DEF MaxAge
<1>2. QED
  BY <1>1

\* Every variable keeps its type.
THEOREM TypeCorrect == Spec => []TypeOK
<1>1. Init => TypeOK
  BY DEF Init, TypeOK
<1>2. TypeOK /\ [Next]_vars => TypeOK'
  <2> SUFFICES ASSUME TypeOK, [Next]_vars
               PROVE  TypeOK'
    OBVIOUS
  <2> USE Window DEF TypeOK, Stamp
  <2>1. ASSUME NEW d \in Delivery, StoreExecute(d)
        PROVE  TypeOK'
    BY <2>1 DEF StoreExecute, Fresh
  <2>2. CASE StoreCommit
    BY <2>2 DEF StoreCommit
  <2>3. CASE StoreRaises
    BY <2>3 DEF StoreRaises
  <2>4. CASE PruneExecute
    BY <2>4 DEF PruneExecute
  <2>5. CASE PruneCommit
    BY <2>5 DEF PruneCommit
  <2>6. CASE PruneRaises
    BY <2>6 DEF PruneRaises
  <2>7. CASE Tick
    <3>1. \A row \in Stamp \cup {NoRow} : Older(row) \in Stamp \cup {NoRow}
      BY DEF Older, AtMost, Midnight
    <3>2. acked' \in [Delivery -> 0..MaxAge \cup {NoRow}]
      BY <2>7 DEF Tick, AtMost
    <3>3. tod' \in 0..DayLen - 1
      BY <2>7 DEF Tick, Midnight
    <3>4. QED
      BY <2>7, <3>1, <3>2, <3>3 DEF Tick
  <2>8. CASE Crash
    BY <2>8 DEF Crash
  <2>9. CASE UNCHANGED vars
    BY <2>9 DEF vars
  <2>10. QED
    BY <2>1, <2>2, <2>3, <2>4, <2>5, <2>6, <2>7, <2>8, <2>9 DEF Next
<1>3. QED
  BY <1>1, <1>2, PTL DEF Spec

\* What a row's midnights say of its age, at the time t of the day: it may have
\* come at any time of the day before the first of them.
Dated(row, t) ==
  row # NoRow =>
    /\ (row.midnights - 1) * DayLen + 1 + t <= row.age
    /\ row.age <= row.midnights * DayLen + t

\* A tick keeps a row's midnights and its age in step, also at their caps.
LEMMA DatedOlder ==
  ASSUME TypeOK, NEW row \in Stamp, Dated(row, tod)
  PROVE  Dated(Older(row), IF Midnight THEN 0 ELSE tod + 1)
<1> DEFINE m == row.midnights
           a == row.age
           m2 == Older(row).midnights
           a2 == Older(row).age
           k == m * DayLen
<1>1. m \in 0..Days + 2 /\ a \in 0..MaxAge /\ tod \in 0..DayLen - 1 /\ row # NoRow
  BY DEF Stamp, TypeOK
<1>2. /\ m2 = AtMost(IF Midnight THEN m + 1 ELSE m, Days + 2)
      /\ a2 = AtMost(a + 1, MaxAge)
  BY <1>1 DEF Older
<1>3. k \in Int /\ (m - 1) * DayLen = k - DayLen /\ (m + 1) * DayLen = k + DayLen
      /\ (m + 1 - 1) * DayLen = k
  BY <1>1
<1>4. k - DayLen + 1 + tod <= a /\ a <= k + tod
  BY <1>1, <1>3 DEF Dated
<1>5. m <= Days + 1 => k + DayLen <= MaxAge
  <2>1. SUFFICES ASSUME m <= Days + 1
                 PROVE  (m + 1) * DayLen <= (Days + 2) * DayLen
    BY <1>3 DEF MaxAge
  <2>2. PICK n \in Nat : Days + 2 = m + 1 + n
    <3>1. Days + 2 - (m + 1) \in Nat
      BY <1>1, <2>1
    <3>2. QED
      BY <1>1, <3>1
  <2>3. (Days + 2) * DayLen = (m + 1) * DayLen + n * DayLen /\ n * DayLen \in Nat
    BY <1>1, <2>2
  <2>4. QED
    BY <1>1, <1>3, <2>3
<1>6. m = Days + 2 => k = MaxAge
  BY DEF MaxAge
<1>7. MaxAge \in Nat
  BY Window
<1>8. CASE ~Midnight
  <2>1. m2 = m /\ tod + 1 <= DayLen - 1
    BY <1>1, <1>2, <1>8 DEF Midnight, AtMost
  <2>2. k - DayLen + 1 + (tod + 1) <= a2 /\ a2 <= k + (tod + 1)
    BY <1>1, <1>2, <1>3, <1>4, <1>5, <1>6, <1>7, <2>1 DEF AtMost
  <2>3. QED
    BY <1>3, <1>8, <2>1, <2>2 DEF Dated
<1>9. CASE Midnight /\ m <= Days + 1
  <2>1. m2 = m + 1 /\ tod = DayLen - 1
    BY <1>1, <1>2, <1>9 DEF Midnight, AtMost
  <2>2. k + 1 <= a2 /\ a2 <= k + DayLen
    BY <1>1, <1>2, <1>3, <1>4, <1>5, <1>7, <2>1 DEF AtMost
  <2>3. m2 - 1 = m /\ (m2 - 1) * DayLen = k /\ m2 * DayLen = k + DayLen
    BY <1>1, <1>3, <2>1
  <2>4. (m2 - 1) * DayLen + 1 + 0 <= a2 /\ a2 <= m2 * DayLen + 0
    BY <1>1, <1>2, <1>3, <1>7, <2>1, <2>2, <2>3 DEF AtMost
  <2>5. QED
    BY <1>9, <2>4 DEF Dated
<1>10. CASE Midnight /\ m = Days + 2
  <2>1. m2 = m /\ tod = DayLen - 1
    BY <1>1, <1>2, <1>10 DEF Midnight, AtMost
  <2>2. k - DayLen + 1 <= a2 /\ a2 <= k
    BY <1>1, <1>2, <1>3, <1>4, <1>6, <1>7, <1>10, <2>1 DEF AtMost
  <2>3. QED
    BY <1>3, <1>10, <2>1, <2>2 DEF Dated
<1>11. QED
  BY <1>1, <1>8, <1>9, <1>10

\* The rows the connection sees and the committed ones have dates that fit, and
\* the row of an INSERT that is not committed yet is of this very tick.
RowsAreDated ==
  /\ \A d \in Delivery : Dated(rows[d], tod) /\ Dated(saved[d], tod)
  /\ storing # NoEvent => rows[storing] = Fresh

LEMMA DatesFit == Spec => []RowsAreDated
<1>1. Init => RowsAreDated
  BY DEF Init, RowsAreDated, Dated
<1>2. TypeOK /\ RowsAreDated /\ [Next]_vars => RowsAreDated'
  <2> SUFFICES ASSUME TypeOK, RowsAreDated, [Next]_vars
               PROVE  RowsAreDated'
    OBVIOUS
  <2>0. Dated(Fresh, tod)
    BY DEF Fresh, Dated, TypeOK
  <2> USE DEF RowsAreDated
  <2>1. ASSUME NEW d \in Delivery, StoreExecute(d)
        PROVE  RowsAreDated'
    BY <2>0, <2>1 DEF StoreExecute, TypeOK, Dated
  <2>2. CASE StoreCommit \/ StoreRaises
    BY <2>2 DEF StoreCommit, StoreRaises, Dated
  <2>3. CASE PruneExecute
    <3>1. ~Prunable(Fresh) /\ Fresh # NoRow
      BY Window DEF Prunable, Fresh
    <3>2. \A d \in Delivery : rows'[d] \in {NoRow, rows[d]}
      BY <2>3 DEF PruneExecute
    <3>3. storing # NoEvent => rows'[storing] = Fresh
      BY <2>3, <3>1 DEF PruneExecute, TypeOK
    <3>4. QED
      BY <2>3, <3>2, <3>3 DEF PruneExecute, Dated
  <2>4. CASE PruneCommit \/ PruneRaises
    BY <2>4 DEF PruneCommit, PruneRaises, Dated
  <2>5. CASE Tick
    <3>1. storing' = NoEvent /\ tod' = IF Midnight THEN 0 ELSE tod + 1
      BY <2>5 DEF Tick
    <3>2. ASSUME NEW row \in Stamp \cup {NoRow}, Dated(row, tod)
          PROVE  Dated(Older(row), tod')
      <4>1. CASE row = NoRow
        BY <4>1 DEF Older, Dated
      <4>2. CASE row # NoRow
        BY <3>1, <3>2, <4>2, DatedOlder
      <4>3. QED
        BY <4>1, <4>2
    <3>3. \A d \in Delivery : /\ rows'[d] = Older(rows[d])
                               /\ saved'[d] = Older(saved[d])
      BY <2>5 DEF Tick
    <3>4. ASSUME NEW d \in Delivery
          PROVE  Dated(Older(rows[d]), tod') /\ Dated(Older(saved[d]), tod')
      BY <3>2 DEF TypeOK
    <3>5. QED
      BY <3>1, <3>3, <3>4 DEF Dated
  <2>6. CASE Crash
    BY <2>6 DEF Crash, Dated
  <2>7. CASE UNCHANGED vars
    BY <2>7 DEF vars, Dated
  <2>8. QED
    BY <2>1, <2>2, <2>3, <2>4, <2>5, <2>6, <2>7 DEF Next
<1>3. QED
  BY <1>1, <1>2, TypeCorrect, PTL DEF Spec

\* A row that must not be pruned is younger than the window and a day, and one
\* that may be pruned is older than the window.
LEMMA PrunableByAge ==
  ASSUME TypeOK, NEW row \in Stamp, Dated(row, tod)
  PROVE  IF Prunable(row) THEN row.age > Days * DayLen
                          ELSE row.age < (Days + 1) * DayLen
<1> DEFINE m == row.midnights
<1>1. m \in 0..Days + 2 /\ row.age \in 0..MaxAge /\ tod \in 0..DayLen - 1 /\ row # NoRow
  BY DEF Stamp, TypeOK
<1>2. m * DayLen \in Int /\ (m - 1) * DayLen = m * DayLen - DayLen
      /\ (Days + 1) * DayLen = Days * DayLen + DayLen /\ Days * DayLen \in Int
  BY <1>1
<1>3. m * DayLen - DayLen + 1 + tod <= row.age /\ row.age <= m * DayLen + tod
  BY <1>1, <1>2 DEF Dated
<1>4. CASE m > Days
  <2>1. PICK n \in Nat : m = Days + 1 + n
    <3>1. m - (Days + 1) \in Nat /\ m = Days + 1 + (m - (Days + 1))
      BY <1>1, <1>4
    <3>2. QED
      BY <3>1
  <2>2. m * DayLen = Days * DayLen + DayLen + n * DayLen /\ n * DayLen \in Nat
    BY <1>1, <2>1
  <2>3. row.age > Days * DayLen
    BY <1>1, <1>2, <1>3, <2>2
  <2>4. QED
    BY <1>1, <1>4, <2>3 DEF Prunable
<1>5. CASE m <= Days
  <2>1. PICK n \in Nat : Days = m + n
    <3>1. Days - m \in Nat
      BY <1>1, <1>5
    <3>2. QED
      BY <1>1, <3>1
  <2>2. Days * DayLen = m * DayLen + n * DayLen /\ n * DayLen \in Nat
    BY <1>1, <2>1
  <2>3. row.age < (Days + 1) * DayLen
    BY <1>1, <1>2, <1>3, <2>2
  <2>4. QED
    BY <1>1, <1>5, <2>3 DEF Prunable
<1>6. m > Days \/ m <= Days
  BY <1>1
<1>7. QED
  BY <1>4, <1>5, <1>6

\* The text comparison of storage.py:195 is a day late at the most: what a prune
\* leaves is younger than the window and a day.
THEOREM PruneKeepsYoung == Spec => RetentionIsBounded
<1>1. TypeOK /\ RowsAreDated /\ [Next]_vars =>
        [PruneExecute => \A d \in Delivery :
           rows'[d] = NoRow \/ rows'[d].age < (Days + 1) * DayLen]_vars
  <2> SUFFICES ASSUME TypeOK, RowsAreDated, PruneExecute, NEW d \in Delivery,
                      rows'[d] # NoRow
               PROVE  rows'[d].age < (Days + 1) * DayLen
    OBVIOUS
  <2>1. rows'[d] = rows[d] /\ ~Prunable(rows[d])
    BY DEF PruneExecute
  <2>2. rows[d] \in Stamp /\ Dated(rows[d], tod)
    BY <2>1 DEF TypeOK, RowsAreDated
  <2>3. QED
    BY <2>1, <2>2, PrunableByAge
<1>2. QED
  BY <1>1, TypeCorrect, DatesFit, PTL DEF Spec, RetentionIsBounded

\* Within the window an acknowledged event has a row the connection sees and a
\* committed one, neither of them older than the acknowledgement.
Kept(d) ==
  (acked[d] # NoRow /\ acked[d] < Days * DayLen) =>
    /\ rows[d] # NoRow /\ rows[d].age <= acked[d]
    /\ saved[d] # NoRow /\ saved[d].age <= acked[d]

AllKept == \A d \in Delivery : Kept(d)

LEMMA AcknowledgedAreKept == Spec => []AllKept
<1>1. Init => AllKept
  BY DEF Init, AllKept, Kept
<1>2. TypeOK /\ RowsAreDated /\ AllKept /\ [Next]_vars => AllKept'
  <2> SUFFICES ASSUME TypeOK, RowsAreDated, AllKept, [Next]_vars, NEW d \in Delivery
               PROVE  Kept(d)'
    BY DEF AllKept
  <2>0. Kept(d) /\ MaxAge \in Nat /\ Days * DayLen \in Nat /\ Days * DayLen <= MaxAge
    BY Window DEF AllKept
  <2> DEFINE D == Days * DayLen
  <2>1. ASSUME NEW e \in Delivery, StoreExecute(e)
        PROVE  Kept(d)'
    <3>1. CASE e = d
      BY <2>0, <2>1, <3>1 DEF StoreExecute, Kept
    <3>2. CASE e # d
      BY <2>0, <2>1, <3>2 DEF StoreExecute, Kept, TypeOK
    <3>3. QED
      BY <3>1, <3>2
  <2>2. CASE StoreCommit
    <3>1. CASE storing = d
      <4>1. rows[d] = Fresh /\ rows'[d] = Fresh /\ saved'[d] = Fresh /\ acked'[d] = 0
        BY <2>2, <3>1 DEF StoreCommit, RowsAreDated, TypeOK
      <4>2. Fresh # NoRow /\ Fresh.age <= 0
        BY Window DEF Fresh
      <4>3. QED
        BY <4>1, <4>2 DEF Kept
    <3>2. CASE storing # d
      BY <2>0, <2>2, <3>2 DEF StoreCommit, Kept, TypeOK
    <3>3. QED
      BY <3>1, <3>2
  <2>3. CASE PruneExecute
    <3>1. ASSUME acked[d] # NoRow, acked[d] < D
          PROVE  rows'[d] = rows[d]
      <4>1. rows[d] \in Stamp /\ Dated(rows[d], tod) /\ rows[d].age <= acked[d]
        BY <2>0, <3>1 DEF Kept, TypeOK, RowsAreDated
      <4>2. acked[d] \in Nat /\ rows[d].age \in Nat
        BY <3>1, <4>1, Window DEF TypeOK, Stamp
      <4>3. ~Prunable(rows[d])
        BY <2>0, <3>1, <4>1, <4>2, PrunableByAge
      <4>4. QED
        BY <2>3, <4>3 DEF PruneExecute
    <3>2. acked' = acked /\ saved' = saved
      BY <2>3 DEF PruneExecute
    <3>3. QED
      BY <2>0, <3>1, <3>2 DEF Kept
  <2>4. CASE PruneCommit
    BY <2>0, <2>4 DEF PruneCommit, Kept
  <2>5. CASE StoreRaises \/ PruneRaises \/ UNCHANGED vars
    BY <2>0, <2>5 DEF StoreRaises, PruneRaises, vars, Kept
  <2>6. CASE Crash
    BY <2>0, <2>6 DEF Crash, Kept
  <2>7. CASE Tick
    <3>1. /\ acked'[d] = IF acked[d] = NoRow THEN NoRow ELSE AtMost(acked[d] + 1, MaxAge)
          /\ rows'[d] = Older(rows[d]) /\ saved'[d] = Older(saved[d])
      BY <2>7 DEF Tick
    <3>2. SUFFICES ASSUME acked'[d] # NoRow, acked'[d] < D
                   PROVE  /\ rows'[d] # NoRow /\ rows'[d].age <= acked'[d]
                          /\ saved'[d] # NoRow /\ saved'[d].age <= acked'[d]
      BY DEF Kept
    <3>3. acked[d] # NoRow /\ acked[d] \in 0..MaxAge
      BY <3>1, <3>2 DEF TypeOK
    <3>4. acked'[d] = acked[d] + 1 /\ acked[d] < D
      BY <2>0, <3>1, <3>2, <3>3 DEF AtMost
    <3>5. ASSUME NEW row \in Stamp, row # NoRow, row.age <= acked[d]
          PROVE  Older(row) # NoRow /\ Older(row).age <= acked[d] + 1
      <4>1. row.age \in 0..MaxAge
        BY DEF Stamp
      <4>2. Older(row).age = AtMost(row.age + 1, MaxAge)
        BY <3>5 DEF Older
      <4>3. Older(row) \in Stamp
        BY <2>0, <3>5, <4>1 DEF Older, AtMost, Stamp, Midnight
      <4>4. Older(row) # NoRow
        BY <4>3 DEF Stamp
      <4>5. QED
        BY <2>0, <3>3, <3>5, <4>1, <4>2, <4>4 DEF AtMost
    <3>6. /\ rows[d] \in Stamp /\ rows[d] # NoRow /\ rows[d].age <= acked[d]
          /\ saved[d] \in Stamp /\ saved[d] # NoRow /\ saved[d].age <= acked[d]
      BY <2>0, <3>3, <3>4 DEF Kept, TypeOK
    <3>7. QED
      BY <3>1, <3>4, <3>5, <3>6
  <2>8. QED
    BY <2>1, <2>2, <2>3, <2>4, <2>5, <2>6, <2>7 DEF Next
<1>3. QED
  BY <1>1, <1>2, TypeCorrect, DatesFit, PTL DEF Spec

\* design.md:146, "SQLite persists events": once store_event has returned True,
\* no crash, refused write or prune loses the event within the window.
THEOREM AcknowledgedEventsLast == Spec => []StoredEventsLast
<1>1. TypeOK /\ AllKept => StoredEventsLast
  <2> SUFFICES ASSUME TypeOK, AllKept, NEW d \in Delivery, acked[d] # NoRow,
                      acked[d] < Days * DayLen
               PROVE  saved[d] # NoRow
    BY Window DEF TypeOK, StoredEventsLast
  <2>1. QED
    BY DEF AllKept, Kept
<1>2. QED
  BY <1>1, TypeCorrect, AcknowledgedAreKept, PTL

-----------------------------------------------------------------------------
\* The tools leave the table and its upkeep as they are: whatever holds of the
\* event store holds of it under its tools.
THEOREM ToolsOnlyRead == ToolsSpec => Spec
<1>1. ToolsInit => Init
  BY DEF ToolsInit
<1>2. [ToolsNext]_toolVars => [Next]_vars
  BY DEF ToolsNext, toolVars, vars, Call, Select, StoreStep, ToolsTick, ToolsCrash, Next
<1>3. QED
  BY <1>1, <1>2, PTL DEF ToolsSpec, ToolsFairness, Spec

\* What a tool still owes is in the window, and among the kinds of a select that
\* is still to come.
StillToCome ==
  query # NoQuery =>
    /\ query \in [todo : Seq(SUBSET Kinds), since : BOOLEAN, owed : SUBSET Delivery]
    /\ \A d \in query.owed :
         /\ acked[d] # NoRow /\ acked[d] < Days * DayLen
         /\ query.since => acked[d] <= DayLen
         /\ \E i \in 1..Len(query.todo) : Kind[d] \in query.todo[i]

LEMMA SelectsAreKinds ==
  ASSUME NEW tool \in Tool
  PROVE  Selects[tool] \in Seq(SUBSET Kinds)
<1> DEFINE Select1 == {"get_pending_reviews", "get_new_prs", "get_notifications"}
<1>1. tool \in Select1 \cup {"get_review_feedback", "get_ci_status"}
  BY ToolAssumption DEF Selects
<1>2. CASE tool \in Select1
  <2>1. PICK kinds \in SUBSET Kinds : Selects[tool] = <<kinds>>
    BY <1>2 DEF Selects, Kinds
  <2>2. QED
    BY <2>1
<1>3. CASE tool = "get_review_feedback"
  <2>1. Selects[tool] = << {"review"}, {"comment"} >>
    BY <1>3 DEF Selects
  <2>2. {"review"} \in SUBSET Kinds /\ {"comment"} \in SUBSET Kinds
    BY DEF Kinds
  <2>3. QED
    BY <2>1, <2>2
<1>4. CASE tool = "get_ci_status"
  <2>1. Selects[tool] = << {"check_run"}, {"check_suite"}, {"workflow_run"} >>
    BY <1>4 DEF Selects
  <2>2. /\ {"check_run"} \in SUBSET Kinds /\ {"check_suite"} \in SUBSET Kinds
        /\ {"workflow_run"} \in SUBSET Kinds
    BY DEF Kinds
  <2>3. QED
    BY <2>1, <2>2
<1>5. QED
  BY <1>1, <1>2, <1>3, <1>4

\* A select finds every event it is owed, since the table still has it.
LEMMA SelectFinds ==
  ASSUME TypeOK, AllKept, StillToCome, Select
  PROVE  StillToCome'
<1> DEFINE found == GetEvents(Head(query.todo), query.since)
<1>1. query # NoQuery /\ query.todo # <<>>
  BY DEF Select, InProgress
<1>2. query \in [todo : Seq(SUBSET Kinds), since : BOOLEAN, owed : SUBSET Delivery]
  BY <1>1 DEF StillToCome
<1>3. query' = [query EXCEPT !.todo = Tail(query.todo), !.owed = query.owed \ found]
  BY DEF Select
<1>4. query' = [todo |-> Tail(query.todo), since |-> query.since, owed |-> query.owed \ found]
  BY <1>2, <1>3
<1>5. Tail(query.todo) \in Seq(SUBSET Kinds)
  BY <1>1, <1>2
<1>6. ASSUME NEW d \in query.owed, d \notin found
      PROVE  \E i \in 1..Len(Tail(query.todo)) : Kind[d] \in Tail(query.todo)[i]
  <2>1. /\ acked[d] # NoRow /\ acked[d] < Days * DayLen
        /\ query.since => acked[d] <= DayLen
        /\ d \in Delivery
    BY <1>1, <1>2 DEF StillToCome
  <2>2. rows[d] # NoRow /\ rows[d].age <= acked[d]
    BY <2>1 DEF AllKept, Kept
  <2>3. acked[d] \in Nat /\ rows[d].age \in Nat
    BY <2>1, <2>2, Window DEF TypeOK, Stamp
  <2>4. Kind[d] \notin Head(query.todo)
    BY <1>6, <2>1, <2>2, <2>3 DEF GetEvents
  <2>5. PICK i \in 1..Len(query.todo) : Kind[d] \in query.todo[i]
    BY <1>1 DEF StillToCome
  <2>6. i # 1
    <3>1. query.todo \in Seq(SUBSET Kinds)
      BY <1>2
    <3>2. Head(query.todo) = query.todo[1]
      BY <1>1, <3>1
    <3>3. QED
      BY <2>4, <2>5, <3>2
  <2>7. i - 1 \in 1..Len(Tail(query.todo)) /\ Tail(query.todo)[i - 1] = query.todo[i]
    <3>1. query.todo \in Seq(SUBSET Kinds)
      BY <1>2
    <3>2. QED
      BY <1>1, <2>5, <2>6, <3>1
  <2>8. QED
    BY <2>5, <2>7
<1>7. acked' = acked
  BY DEF Select, vars
<1>8. QED
  BY <1>1, <1>2, <1>4, <1>5, <1>6, <1>7 DEF StillToCome

\* server.py:204, "Get all webhook events since a given time", and the other tools:
\* the answer leaves out nothing that was reported as stored when the tool was called,
\* whatever is stored, pruned and lost between its selects.
THEOREM AnswersLeaveNothingOut == ToolsSpec => []AnswersAreComplete
<1>1. ToolsInit => StillToCome
  BY DEF ToolsInit, StillToCome
<1>2. TypeOK /\ AllKept /\ StillToCome /\ [ToolsNext]_toolVars => StillToCome'
  <2> SUFFICES ASSUME TypeOK, AllKept, StillToCome, [ToolsNext]_toolVars
               PROVE  StillToCome'
    OBVIOUS
  <2>1. ASSUME NEW tool \in Tool, Call(tool)
        PROVE  StillToCome'
    <3>1. query' = [todo |-> Selects[tool], since |-> tool \in HasSince, owed |-> Owed(tool)]
          /\ acked' = acked
      BY <2>1 DEF Call, vars
    <3>2. Owed(tool) \subseteq Delivery /\ (tool \in HasSince) \in BOOLEAN
      BY DEF Owed
    <3>3. query' \in [todo : Seq(SUBSET Kinds), since : BOOLEAN, owed : SUBSET Delivery]
      BY <3>1, <3>2, SelectsAreKinds
    <3>4. ASSUME NEW d \in Owed(tool)
          PROVE  /\ acked[d] # NoRow /\ acked[d] < Days * DayLen
                 /\ tool \in HasSince => acked[d] <= DayLen
                 /\ \E i \in 1..Len(Selects[tool]) : Kind[d] \in Selects[tool][i]
      BY SelectsAreKinds DEF Owed
    <3>5. QED
      BY <3>1, <3>3, <3>4 DEF StillToCome
  <2>2. CASE Select
    BY <2>2, SelectFinds
  <2>3. CASE StoreStep
    <3>1. query' = query
      BY <2>3 DEF StoreStep
    <3>2. CASE StoreCommit
      <4>1. acked' = [acked EXCEPT ![storing] = 0] /\ 0 # NoRow
        BY <3>2 DEF StoreCommit
      <4>2. \A d \in Delivery : acked'[d] = acked[d] \/ acked'[d] = 0
        BY <4>1 DEF TypeOK
      <4>3. 0 < Days * DayLen /\ 0 <= DayLen
        BY Window
      <4>4. QED
        BY <3>1, <4>1, <4>2, <4>3 DEF StillToCome
    <3>3. CASE ~StoreCommit
      <4>1. acked' = acked
        BY <2>3, <3>3 DEF StoreStep, StoreExecute, StoreRaises, PruneExecute, PruneCommit,
                          PruneRaises
      <4>2. QED
        BY <3>1, <4>1 DEF StillToCome
    <3>4. QED
      BY <3>2, <3>3
  <2>4. CASE ToolsTick \/ ToolsCrash
    BY <2>4 DEF ToolsTick, ToolsCrash, StillToCome
  <2>5. CASE UNCHANGED toolVars
    BY <2>5 DEF toolVars, StillToCome
  <2>6. QED
    BY <2>1, <2>2, <2>3, <2>4, <2>5 DEF ToolsNext
<1>3. StillToCome => AnswersAreComplete
  BY DEF StillToCome, AnswersAreComplete
<1>4. QED
  BY <1>1, <1>2, <1>3, ToolsOnlyRead, TypeCorrect, AcknowledgedAreKept, PTL DEF ToolsSpec
=============================================================================
