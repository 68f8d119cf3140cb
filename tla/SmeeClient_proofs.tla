-------------------------- MODULE SmeeClient_proofs --------------------------
(***************************************************************************)
(* Proofs about the Smee listener, for any deliveries, any maximum of the  *)
(* delay and any number of redeliveries, through crashes, refused writes   *)
(* and failing reviews.                                                    *)
(***************************************************************************)
EXTENDS SmeeClient, FiniteSetTheorems, TLAPS

USE DeliveryAssumption, BackoffAssumption, BoundAssumption

\* Nothing here rests on the fairness of Spec, so that it also holds of a listener
\* in a process that has other things to do.
SafeSpec == Init /\ [][Next]_vars

\* A delivery in hand that the reactor was not told of yet still owes a call.
Owed(d) == msg = d /\ stage \in {"read", "stored"}

\* Every call of the reactor, made or owed, has a reading of its own.
CallsAreRead ==
  \A d \in Delivery : /\ told[d] <= reads[d]
                      /\ Owed(d) => told[d] < reads[d]

\* The type invariant needs the count of calls, and the other way round.
LEMMA Counted == SafeSpec => [](TypeOK /\ CallsAreRead)
<1>1. Init => TypeOK /\ CallsAreRead
  BY DEF Init, TypeOK, CallsAreRead, Owed
<1>2. TypeOK /\ CallsAreRead /\ [Next]_vars => (TypeOK /\ CallsAreRead)'
  <2> SUFFICES ASSUME TypeOK, CallsAreRead, [Next]_vars
               PROVE  (TypeOK /\ CallsAreRead)'
    OBVIOUS
  <2> USE DEF TypeOK, AtMost, message, rows, ghosts, CallsAreRead, Owed
  <2>1. ASSUME Listen
        PROVE  (TypeOK /\ CallsAreRead)'
    <3>1. CASE ConnectFails \/ Rejected \/ StreamEnds
      BY <3>1 DEF ConnectFails, Rejected, StreamEnds, Sleep
    <3>2. CASE Responds \/ Accepted
      BY <3>2 DEF Responds, Accepted
    <3>3. CASE SleepEnds
      BY <3>3 DEF SleepEnds
    <3>4. QED
      BY <2>1, <3>1, <3>2, <3>3 DEF Listen
  <2>2. ASSUME NEW d \in Delivery, Read(d)
        PROVE  (TypeOK /\ CallsAreRead)'
    BY <2>2 DEF Read
  <2>3. CASE Store
    BY <2>3 DEF Store
  <2>4. CASE StoreRaises
    BY <2>4 DEF StoreRaises, Sleep
  <2>5. CASE Notify
    <3>1. msg \in Delivery /\ told[msg] < reads[msg]
      BY <2>5 DEF Notify
    <3>2. told' \in [Delivery -> 0..MaxReads]
      BY <2>5, <3>1 DEF Notify
    <3>3. CASE msg \in Opened
      BY <2>5, <3>1, <3>2, <3>3 DEF Notify
    <3>4. CASE msg \notin Opened
      BY <2>5, <3>1, <3>2, <3>4 DEF Notify, Done
    <3>5. QED
      BY <3>3, <3>4
  <2>6. CASE ReviewEnds
    BY <2>6 DEF ReviewEnds, Done
  <2>7. CASE ReviewRaises
    BY <2>7 DEF ReviewRaises, Sleep
  <2>8. CASE Crash
    BY <2>8 DEF Crash
  <2>9. CASE PruneCommits
    BY <2>9 DEF PruneCommits
  <2>10. CASE UNCHANGED vars
    BY <2>10 DEF vars
  <2>11. QED
    BY <2>1, <2>2, <2>3, <2>4, <2>5, <2>6, <2>7, <2>8, <2>9, <2>10 DEF Next, Process
<1>3. QED
  BY <1>1, <1>2, PTL DEF SafeSpec

\* Every variable keeps its type: in particular _backoff never leaves
\* 1.._max_backoff (smee_client.py:168), and a message is in hand exactly while
\* process_sse_message is at work on it.
THEOREM TypeCorrect == SafeSpec => []TypeOK
  BY Counted, PTL

\* However often GitHub sends an event and the process crashes, the reactor is
\* called no more often than the event was read from a stream.
THEOREM CallsAreNotRepeated == SafeSpec => []ToldAtMostPerRead
<1>1. CallsAreRead => ToldAtMostPerRead
  BY DEF CallsAreRead, ToldAtMostPerRead
<1>2. QED
  BY <1>1, Counted, PTL

\* A reading of d has gone by, or will, without a call of the reactor.
Missed(d) == d \in cut /\ told[d] < reads[d] /\ (Owed(d) => told[d] + 1 < reads[d])

\* From the store on the message in hand is in the table; and what is in the
\* table, or was told of, is committed unless its commit has been refused.
StoredOrMissed ==
  /\ stage \in {"stored", "reviewing"} => msg \in table
  /\ \A d \in Delivery : (d \in table \/ told[d] > 0) => (d \in saved \/ Missed(d))

\* smee_client.py:114 comes before :126: the reactor never acts on an event that
\* is not committed, whatever exceptions and crashes come in between, but for the
\* event whose own commit was refused at an earlier reading.
THEOREM ReactorActsOnStored == SafeSpec => []ToldIsStored
<1>1. Init => StoredOrMissed
  BY DEF Init, StoredOrMissed
<1>2. TypeOK /\ CallsAreRead /\ StoredOrMissed /\ [Next]_vars => StoredOrMissed'
  <2> SUFFICES ASSUME TypeOK, CallsAreRead, StoredOrMissed, [Next]_vars
               PROVE  StoredOrMissed'
    OBVIOUS
  <2> USE DEF TypeOK, message, rows, ghosts, CallsAreRead, StoredOrMissed, Missed, Owed
  <2>1. ASSUME Listen
        PROVE  StoredOrMissed'
    BY <2>1 DEF Listen, ConnectFails, Responds, Accepted, Rejected, StreamEnds, SleepEnds
  <2>2. ASSUME NEW d \in Delivery, Read(d)
        PROVE  StoredOrMissed'
    BY <2>2 DEF Read
  <2>3. CASE Store
    BY <2>3 DEF Store
  <2>4. CASE StoreRaises
    BY <2>4 DEF StoreRaises
  <2>5. CASE Notify
    <3>1. msg \in table /\ UNCHANGED <<rows, reads, cut>>
      BY <2>5 DEF Notify
    <3>2. \A d \in Delivery : d # msg => told'[d] = told[d]
      BY <2>5 DEF Notify
    <3>3. msg \in Delivery /\ told'[msg] \in {told[msg], told[msg] + 1}
      BY <2>5 DEF Notify
    <3>4. msg' \in {msg, NoMessage} /\ stage' \in {"reviewing", "none"}
          /\ (stage' = "reviewing" => msg' = msg)
      BY <2>5 DEF Notify, Done
    <3>5. msg \in saved \/ (msg \in cut /\ told[msg] + 1 < reads[msg])
      BY <2>5, <3>1, <3>3 DEF Notify
    <3>6. ASSUME NEW d \in Delivery, d \in table' \/ told'[d] > 0
          PROVE  d \in saved' \/ Missed(d)'
      <4>1. CASE d = msg
        BY <3>1, <3>3, <3>4, <3>5, <4>1
      <4>2. CASE d # msg
        BY <3>1, <3>2, <3>4, <3>6, <4>2
      <4>3. QED
        BY <4>1, <4>2
    <3>7. QED
      BY <3>1, <3>4, <3>6
  <2>6. CASE ReviewEnds \/ ReviewRaises \/ Crash
    BY <2>6 DEF ReviewEnds, Done, ReviewRaises, Crash
  <2>7. CASE PruneCommits
    BY <2>7 DEF PruneCommits
  <2>8. CASE UNCHANGED vars
    BY <2>8 DEF vars
  <2>9. QED
    BY <2>1, <2>2, <2>3, <2>4, <2>5, <2>6, <2>7, <2>8 DEF Next, Process
<1>3. StoredOrMissed => ToldIsStored
  BY DEF StoredOrMissed, Missed, ToldIsStored
<1>4. QED
  BY <1>1, <1>2, <1>3, Counted, PTL DEF SafeSpec

\* No path through process_sse_message stores a pull-request event and goes on
\* to the next message without a call of the reactor: only an exception or the
\* end of the process does.
THEOREM OnlyFailuresSilence == SafeSpec => []StoredIsTold
<1>1. Init => StoredIsTold
  BY DEF Init, StoredIsTold
<1>2. TypeOK /\ StoredIsTold /\ [Next]_vars => StoredIsTold'
  <2> SUFFICES ASSUME TypeOK, StoredIsTold, [Next]_vars,
                      NEW q \in Delivery, q \in table', q \in PullRequest
               PROVE  told'[q] > 0 \/ q \in cut' \/ (msg' = q /\ stage' = "stored")
    BY DEF StoredIsTold, TypeOK
  <2> DEFINE Goal == told'[q] > 0 \/ q \in cut' \/ (msg' = q /\ stage' = "stored")
  <2>0. \/ q \notin table
        \/ told[q] > 0
        \/ q \in cut
        \/ msg = q /\ stage = "stored"
    BY DEF StoredIsTold
  <2> USE DEF TypeOK, message, rows, ghosts
  <2>1. CASE Listen
    BY <2>0, <2>1 DEF Listen, ConnectFails, Responds, Accepted, Rejected, StreamEnds, SleepEnds
  <2>2. ASSUME NEW d \in Delivery, Read(d)
        PROVE  Goal
    BY <2>0, <2>2 DEF Read
  <2>3. CASE Store
    BY <2>0, <2>3 DEF Store
  <2>4. CASE StoreRaises
    BY <2>0, <2>4 DEF StoreRaises
  <2>5. CASE Notify
    <3>1. CASE q = msg
      BY <2>5, <3>1 DEF Notify
    <3>2. CASE q # msg
      BY <2>0, <2>5, <3>2 DEF Notify
    <3>3. QED
      BY <3>1, <3>2
  <2>6. CASE ReviewEnds \/ ReviewRaises \/ Crash
    BY <2>0, <2>6 DEF ReviewEnds, Done, ReviewRaises, Crash
  <2>7. CASE PruneCommits \/ UNCHANGED vars
    BY <2>0, <2>7 DEF PruneCommits, vars
  <2>8. QED
    BY <2>1, <2>2, <2>3, <2>4, <2>5, <2>6, <2>7 DEF Next, Process
<1>3. QED
  BY <1>1, <1>2, TypeCorrect, PTL DEF SafeSpec

-----------------------------------------------------------------------------
\* A set with one more element has twice as many subsets: those without it, and
\* those with it.
LEMMA SubsetsDouble ==
  ASSUME NEW S, IsFiniteSet(S), NEW x, x \notin S
  PROVE  Cardinality(SUBSET (S \cup {x})) = Cardinality(SUBSET S) + Cardinality(SUBSET S)
<1> DEFINE Without == SUBSET S
           With == {T \cup {x} : T \in Without}
           add == [T \in Without |-> T \cup {x}]
<1>1. IsFiniteSet(Without)
  BY FS_SUBSET
<1>2. SUBSET (S \cup {x}) = Without \cup With
  <2>1. ASSUME NEW T \in SUBSET (S \cup {x})
        PROVE  T \in Without \cup With
    <3>1. CASE x \in T
      <4>1. T = (T \ {x}) \cup {x} /\ T \ {x} \in Without
        BY <3>1
      <4>2. QED
        BY <4>1
    <3>2. CASE x \notin T
      BY <3>2
    <3>3. QED
      BY <3>1, <3>2
  <2>2. Without \cup With \subseteq SUBSET (S \cup {x})
    OBVIOUS
  <2>3. QED
    BY <2>1, <2>2
<1>3. Without \cap With = {}
  OBVIOUS
<1>4. IsFiniteSet(With) /\ Cardinality(With) = Cardinality(Without)
  <2>1. \A T \in Without : (T \cup {x}) \ {x} = T
    OBVIOUS
  <2>2. \A T, U \in Without : add[T] = add[U] => T = U
    BY <2>1
  <2>3. add \in [Without -> With] /\ \A U \in With : \E T \in Without : add[T] = U
    OBVIOUS
  <2>4. add \in Bijection(Without, With)
    BY <2>2, <2>3 DEF Bijection, Injection, Surjection, IsInjective
  <2>5. QED
    BY <1>1, <2>4, FS_Bijection DEF ExistsBijection
<1>5. Cardinality(Without) \in Nat
  BY <1>1, FS_CardinalityType
<1> HIDE DEF Without, With
<1>6. Cardinality(Without \cup With)
        = Cardinality(Without) + Cardinality(With) - Cardinality({})
  BY <1>1, <1>3, <1>4, FS_Union
<1>7. Cardinality(Without \cup With) = Cardinality(Without) + Cardinality(Without)
  BY <1>4, <1>5, <1>6, FS_EmptySet
<1>8. QED
  BY <1>2, <1>7 DEF Without

\* Powers of two, counted as subsets.
LEMMA PowersDouble ==
  /\ 2 ^ 0 = 1
  /\ \A n \in Nat : 2 ^ n \in Nat /\ 2 ^ (n + 1) = 2 ^ n + 2 ^ n
<1>1. 2 ^ 0 = 1
  <2>1. Cardinality(SUBSET {}) = 2 ^ Cardinality({})
    BY FS_EmptySet, FS_SUBSET
  <2>2. SUBSET {} = {{}}
    OBVIOUS
  <2>3. QED
    BY <2>1, <2>2, FS_EmptySet, FS_Singleton
<1>2. ASSUME NEW n \in Nat
      PROVE  2 ^ n \in Nat /\ 2 ^ (n + 1) = 2 ^ n + 2 ^ n
  <2>1. /\ IsFiniteSet(1..n) /\ Cardinality(1..n) = n
        /\ IsFiniteSet(1..(n + 1)) /\ Cardinality(1..(n + 1)) = n + 1
    BY FS_Interval
  <2>2. 1..(n + 1) = (1..n) \cup {n + 1} /\ n + 1 \notin 1..n
    OBVIOUS
  <2>3. Cardinality(SUBSET (1..n)) = 2 ^ n
    BY <2>1, FS_SUBSET
  <2>4. Cardinality(SUBSET (1..(n + 1))) = 2 ^ (n + 1)
    BY <2>1, FS_SUBSET
  <2>5. 2 ^ n \in Nat
    BY <2>1, <2>3, FS_SUBSET, FS_CardinalityType
  <2>6. 2 ^ (n + 1) = 2 ^ n + 2 ^ n
    BY <2>1, <2>2, <2>3, <2>4, SubsetsDouble
  <2>7. QED
    BY <2>5, <2>6
<1>3. QED
  BY <1>1, <1>2

\* The delay a number of failures has led to.
Delay(n) == AtMost(2 ^ n, MaxBackoff)

\* Doubling a delay that is capped gives the next one.
LEMMA DelaysDouble ==
  /\ Delay(0) = 1
  /\ \A n \in Nat : Delay(n + 1) = AtMost(Delay(n) * 2, MaxBackoff)
<1>1. Delay(0) = 1
  BY PowersDouble DEF Delay, AtMost
<1>2. ASSUME NEW n \in Nat
      PROVE  Delay(n + 1) = AtMost(Delay(n) * 2, MaxBackoff)
  <2> DEFINE p == 2 ^ n
             q == 2 ^ (n + 1)
  <2>1. p \in Nat /\ q = p + p
    BY PowersDouble
  <2>2. Delay(n) = AtMost(p, MaxBackoff) /\ Delay(n + 1) = AtMost(q, MaxBackoff)
    BY DEF Delay
  <2> HIDE DEF p, q
  <2>3. QED
    BY <2>1, <2>2 DEF AtMost
<1>3. QED
  BY <1>1, <1>2

\* Where the delay stands between two attempts, as long as all failures are
\* counted; and no message is in hand but on a stream, whose response has reset it.
DelayFollowsFailures ==
  /\ stage # "none" => conn = "streaming"
  /\ fails < MaxTries =>
       \/ conn = "connecting" /\ backoff = Delay(fails)
       \/ conn = "sleeping" /\ fails > 0 /\ backoff = Delay(fails - 1)
       \/ conn \in {"connected", "streaming"} /\ fails = 0 /\ backoff = 1

\* smee_client.py:168 doubles the delay and caps it: before the n-th attempt in a
\* row after a failure it is 2 to the power of n - 1, up to _max_backoff, whatever
\* raised, and starts over with the first response.
THEOREM DelayDoubles == SafeSpec => []DelayIsExponential
<1> USE DEF DelayFollowsFailures
<1>1. Init => DelayFollowsFailures
  BY DelaysDouble DEF Init
<1>2. TypeOK /\ DelayFollowsFailures /\ [Next]_vars => DelayFollowsFailures'
  <2> SUFFICES ASSUME TypeOK, DelayFollowsFailures, [Next]_vars
               PROVE  DelayFollowsFailures'
    OBVIOUS
  <2>0. /\ fails \in 0..MaxTries
        /\ conn \in {"connecting", "connected", "streaming", "sleeping"}
        /\ msg = NoMessage <=> stage = "none"
    BY DEF TypeOK
  <2> USE DEF message, rows, ghosts
  <2>1. CASE ConnectFails
    BY <2>0, <2>1 DEF ConnectFails, Sleep, AtMost
  <2>2. CASE Responds
    BY <2>0, <2>2 DEF Responds
  <2>3. CASE Accepted \/ \E d \in Delivery : Read(d)
    BY <2>0, <2>3 DEF Accepted, Read
  <2>4. CASE Rejected \/ StreamEnds \/ StoreRaises \/ ReviewRaises
    <3>1. conn \in {"connected", "streaming"} /\ stage' = "none"
      BY <2>0, <2>4 DEF Rejected, StreamEnds, StoreRaises, ReviewRaises
    <3>2. conn' = "sleeping" /\ fails' = AtMost(fails + 1, MaxTries) /\ backoff' = backoff
      BY <2>4 DEF Rejected, StreamEnds, StoreRaises, ReviewRaises, Sleep
    <3>3. QED
      BY <2>0, <3>1, <3>2, DelaysDouble DEF AtMost
  <2>5. CASE SleepEnds
    <3>1. conn = "sleeping" /\ conn' = "connecting" /\ stage' = "none" /\ fails' = fails
      BY <2>0, <2>5 DEF SleepEnds
    <3>2. ASSUME fails < MaxTries
          PROVE  backoff' = Delay(fails)
      <4>1. fails - 1 \in Nat /\ backoff = Delay(fails - 1) /\ (fails - 1) + 1 = fails
        BY <2>0, <3>1, <3>2
      <4>2. backoff' = AtMost(backoff * 2, MaxBackoff)
        BY <2>5 DEF SleepEnds
      <4>3. QED
        BY <4>1, <4>2, DelaysDouble
    <3>3. QED
      BY <3>1, <3>2
  <2>6. CASE Store
    BY <2>0, <2>6 DEF Store
  <2>7. CASE Notify \/ ReviewEnds
    BY <2>0, <2>7 DEF Notify, ReviewEnds, Done
  <2>8. CASE Crash
    BY <2>8, DelaysDouble DEF Crash
  <2>9. CASE PruneCommits \/ UNCHANGED vars
    BY <2>9 DEF PruneCommits, vars
  <2>10. QED
    BY <2>1, <2>2, <2>3, <2>4, <2>5, <2>6, <2>7, <2>8, <2>9 DEF Next, Listen, Process
<1>3. DelayFollowsFailures => DelayIsExponential
  BY DEF DelayIsExponential, Delay
<1>4. QED
  BY <1>1, <1>2, <1>3, TypeCorrect, PTL DEF SafeSpec
=============================================================================
