------------------------- MODULE CommandCache_proofs -------------------------
(***************************************************************************)
(* Proofs about the command cache, for any sessions, commands, files and   *)
(* versions, whichever files the hash covers and whether or not edits set  *)
(* modification times back.                                                *)
(***************************************************************************)
EXTENDS CommandCache, TLAPS

USE HashedAssumption, VersionAssumption, NoneAssumption

\* A command is only started with the hash complete.
RunIsHashed ==
  \A s \in Session : At(s, "run") => \A f \in Hashed : call[s].hash[f] # -1

\* The type of a row needs the hash complete, and the other way round.
LEMMA TypedAndHashed == Spec => [](TypeOK /\ RunIsHashed)
<1>1. Init => TypeOK /\ RunIsHashed
  BY DEF Init, TypeOK, Version, RunIsHashed, At
<1>2. TypeOK /\ RunIsHashed /\ [Next]_vars => (TypeOK /\ RunIsHashed)'
  <2> SUFFICES ASSUME TypeOK, RunIsHashed, [Next]_vars
               PROVE  (TypeOK /\ RunIsHashed)'
    OBVIOUS
  <2> USE DEF TypeOK, CallRecord, Row, Taken, Version, RunIsHashed, At, files
  <2>1. ASSUME NEW f \in File, Edit(f)
        PROVE  (TypeOK /\ RunIsHashed)'
    <3>1. PICK v \in Version, t \in Version : EditTo(f, v, t)
      BY <2>1 DEF Edit
    <3>2. QED
      BY <3>1 DEF EditTo
  <2>2. ASSUME NEW s \in Session, NEW c \in Command, Begin(s, c)
        PROVE  (TypeOK /\ RunIsHashed)'
    BY <2>2 DEF Begin
  <2>3. ASSUME NEW s \in Session, NEW f \in File, HashFile(s, f)
        PROVE  (TypeOK /\ RunIsHashed)'
    BY <2>3, ZenonT(60) DEF HashFile
  <2>4. ASSUME NEW s \in Session, NEW f \in File, RunFile(s, f)
        PROVE  (TypeOK /\ RunIsHashed)'
    BY <2>4, ZenonT(60) DEF RunFile
  <2>5. ASSUME NEW s \in Session, Hit(s) \/ Abort(s)
        PROVE  (TypeOK /\ RunIsHashed)'
    BY <2>5 DEF Hit, Abort
  <2>6. ASSUME NEW s \in Session, Miss(s)
        PROVE  (TypeOK /\ RunIsHashed)'
    BY <2>6, SMTT(30) DEF Miss, IsHashed
  <2>7. ASSUME NEW s \in Session, Save(s)
        PROVE  (TypeOK /\ RunIsHashed)'
    <3>1. call[s].hash \in [Hashed -> Version] /\ call[s].output \in [File -> Version]
      BY <2>7 DEF Save, HasRun
    <3>2. rows' \in [Command -> Row \cup {NoRow}]
      BY <2>7, <3>1 DEF Save, HasRun
    <3>3. QED
      BY <2>7, <3>2 DEF Save
  <2>8. CASE UNCHANGED vars
    BY <2>8 DEF vars
  <2>9. QED
    BY <2>1, <2>2, <2>3, <2>4, <2>5, <2>6, <2>7, <2>8 DEF Next
<1>3. QED
  BY <1>1, <1>2, PTL DEF Spec

\* Every variable keeps its type: in particular no row holds the output of a
\* command that has not run to its end (command_cache.py:115).
THEOREM TypeCorrect == Spec => []TypeOK
  BY TypedAndHashed, PTL

-----------------------------------------------------------------------------
\* No modification time is ahead of its file, nothing that was taken is newer
\* than its file, and no call has taken an output that is older than its hash.
TakenInOrder ==
  /\ \A f \in File : mtime[f] <= version[f]
  /\ \A s \in Session : call[s] # NoCall =>
       /\ \A f \in File : call[s].output[f] <= version[f]
       /\ \A f \in Hashed : /\ call[s].hash[f] <= version[f]
                            /\ call[s].output[f] # -1
                                 => call[s].hash[f] <= call[s].output[f]
       /\ call[s].at = "hash" => \A f \in File : call[s].output[f] = -1
  /\ \A c \in Command : rows[c] # NoRow =>
       \A f \in File : rows[c].output[f] <= version[f]

LEMMA OutputsInOrder == Spec => [](OutputNotBeforeHash /\ TakenInOrder)
<1>1. Init => OutputNotBeforeHash /\ TakenInOrder
  BY DEF Init, OutputNotBeforeHash, TakenInOrder
<1>2. TypeOK /\ RunIsHashed /\ OutputNotBeforeHash /\ TakenInOrder /\ [Next]_vars
        => (OutputNotBeforeHash /\ TakenInOrder)'
  <2> SUFFICES ASSUME TypeOK, RunIsHashed, OutputNotBeforeHash, TakenInOrder, [Next]_vars
               PROVE  (OutputNotBeforeHash /\ TakenInOrder)'
    OBVIOUS
  <2> USE DEF TypeOK, CallRecord, Row, Taken, Version, RunIsHashed, At, files,
              OutputNotBeforeHash, TakenInOrder
  <2>1. ASSUME NEW f \in File, Edit(f)
        PROVE  (OutputNotBeforeHash /\ TakenInOrder)'
    <3>1. PICK t \in Version : t <= version[f] + 1 /\ EditTo(f, version[f] + 1, t)
      BY <2>1 DEF Edit
    <3>2. /\ version' \in [File -> Int] /\ rows' = rows /\ call' = call
          /\ \A g \in File : version[g] <= version'[g]
      BY <3>1 DEF EditTo
    <3>3. \A g \in File : mtime'[g] <= version'[g]
      <4>1. mtime' = [mtime EXCEPT ![f] = t] /\ version' = [version EXCEPT ![f] = @ + 1]
        BY <3>1 DEF EditTo
      <4>2. /\ DOMAIN mtime = File /\ DOMAIN version = File
            /\ t \in Int /\ mtime \in [File -> Int] /\ version \in [File -> Int]
            /\ \A g \in File : mtime[g] <= version[g]
        OBVIOUS
      <4> HIDE DEF TypeOK, TakenInOrder, OutputNotBeforeHash, RunIsHashed
      <4>3. /\ mtime'[f] = t /\ version'[f] = version[f] + 1
            /\ \A g \in File \ {f} : mtime'[g] = mtime[g] /\ version'[g] = version[g]
        BY <4>1, <4>2
      <4>4. QED
        BY <3>1, <4>2, <4>3
    <3>4. \A s \in Session : call[s] # NoCall =>
            /\ \A g \in File : call[s].output[g] <= version'[g]
            /\ \A g \in Hashed : call[s].hash[g] <= version'[g]
      <4> SUFFICES ASSUME NEW s \in Session, call[s] # NoCall
                   PROVE  /\ \A g \in File : call[s].output[g] <= version'[g]
                          /\ \A g \in Hashed : call[s].hash[g] <= version'[g]
        OBVIOUS
      <4>1. /\ call[s].output \in [File -> Int] /\ call[s].hash \in [Hashed -> Int]
            /\ version \in [File -> Int]
            /\ \A g \in File : call[s].output[g] <= version[g]
            /\ \A g \in Hashed : call[s].hash[g] <= version[g]
        OBVIOUS
      <4> HIDE DEF TypeOK, TakenInOrder, OutputNotBeforeHash, RunIsHashed
      <4>2. QED
        BY <3>2, <4>1
    <3>5. \A c \in Command : rows[c] # NoRow => \A g \in File : rows[c].output[g] <= version'[g]
      <4> SUFFICES ASSUME NEW c \in Command, rows[c] # NoRow
                   PROVE  \A g \in File : rows[c].output[g] <= version'[g]
        OBVIOUS
      <4>1. /\ rows[c].output \in [File -> Int] /\ version \in [File -> Int]
            /\ \A g \in File : rows[c].output[g] <= version[g]
        OBVIOUS
      <4> HIDE DEF TypeOK, TakenInOrder, OutputNotBeforeHash, RunIsHashed
      <4>2. QED
        BY <3>2, <4>1
    <3>6. OutputNotBeforeHash'
      BY <3>2
    <3>7. TakenInOrder'
      <4> HIDE DEF TypeOK
      <4>1. QED
        BY <3>2, <3>3, <3>4, <3>5
    <3>8. QED
      BY <3>6, <3>7
  <2>2. ASSUME NEW s \in Session, NEW c \in Command, Begin(s, c)
        PROVE  (OutputNotBeforeHash /\ TakenInOrder)'
    BY <2>2 DEF Begin
  <2>3. ASSUME NEW s \in Session, NEW f \in File, HashFile(s, f)
        PROVE  (OutputNotBeforeHash /\ TakenInOrder)'
    BY <2>3 DEF HashFile
  <2>4. ASSUME NEW s \in Session, NEW f \in File, RunFile(s, f)
        PROVE  (OutputNotBeforeHash /\ TakenInOrder)'
    BY <2>4 DEF RunFile
  <2>5. ASSUME NEW s \in Session, Hit(s) \/ Abort(s)
        PROVE  (OutputNotBeforeHash /\ TakenInOrder)'
    BY <2>5 DEF Hit, Abort
  <2>6. ASSUME NEW s \in Session, Miss(s)
        PROVE  (OutputNotBeforeHash /\ TakenInOrder)'
    BY <2>6 DEF Miss, IsHashed
  <2>7. ASSUME NEW s \in Session, Save(s)
        PROVE  (OutputNotBeforeHash /\ TakenInOrder)'
    BY <2>7 DEF Save, HasRun
  <2>8. CASE UNCHANGED vars
    BY <2>8 DEF vars
  <2>9. QED
    BY <2>1, <2>2, <2>3, <2>4, <2>5, <2>6, <2>7, <2>8 DEF Next
<1>3. QED
  BY <1>1, <1>2, TypedAndHashed, PTL DEF Spec

\* command_cache.py:87 hashes before the command runs: no row has an output that
\* is older, in any file of the hash, than the hash it is filed under.
THEOREM HashComesFirst == Spec => []OutputNotBeforeHash
  BY OutputsInOrder, PTL

-----------------------------------------------------------------------------
\* A version x either is one of S, those of a call, or is from before them all.
Known(S, x) == x \in S \/ \A y \in S : x < y

\* A file whose edits have all given it a new mtime has that of its last one.
MtimesTell == \A f \in File \ setBack : mtime[f] = version[f]

\* A call has seen every version of a file since it began, and takes the hash of
\* a file that was never set back from those.
CallsWatch ==
  \A s \in Session : call[s] # NoCall =>
    /\ \A f \in File :
         /\ version[f] \in during[s][f]
         /\ \A c \in Command : rows[c] # NoRow => Known(during[s][f], rows[c].output[f])
         /\ \A t \in Session :
              (call[t] # NoCall /\ call[t].output[f] # -1) => Known(during[s][f], call[t].output[f])
    /\ \A f \in Hashed \ setBack :
         call[s].hash[f] # -1 => call[s].hash[f] \in during[s][f]

LEMMA MtimesKeepTelling == Spec => []MtimesTell
<1>1. Init => MtimesTell
  BY DEF Init, MtimesTell
<1>2. TypeOK /\ MtimesTell /\ [Next]_vars => MtimesTell'
  <2> SUFFICES ASSUME TypeOK, MtimesTell, [Next]_vars
               PROVE  MtimesTell'
    OBVIOUS
  <2>1. ASSUME NEW g \in File, Edit(g)
        PROVE  MtimesTell'
    <3>1. PICK v, t : EditTo(g, v, t)
      BY <2>1 DEF Edit
    <3>2. /\ version' = [version EXCEPT ![g] = v] /\ mtime' = [mtime EXCEPT ![g] = t]
          /\ setBack \subseteq setBack' /\ (g \notin setBack' => t = v)
      BY <3>1 DEF EditTo
    <3>3. QED
      BY <3>2 DEF TypeOK, MtimesTell
  <2>2. CASE UNCHANGED files
    BY <2>2 DEF files, MtimesTell
  <2>3. QED
    BY <2>1, <2>2 DEF Next, vars, files, Begin, HashFile, RunFile, Hit, Miss, Save, Abort
<1>3. QED
  BY <1>1, <1>2, TypedAndHashed, PTL DEF Spec

LEMMA CallsKeepWatch == Spec => []CallsWatch
<1>1. Init => CallsWatch
  BY DEF Init, CallsWatch
<1>2. TypeOK /\ TakenInOrder /\ MtimesTell /\ CallsWatch /\ [Next]_vars => CallsWatch'
  <2> SUFFICES ASSUME TypeOK, TakenInOrder, MtimesTell, CallsWatch, [Next]_vars
               PROVE  CallsWatch'
    OBVIOUS
  <2> USE DEF TypeOK, CallRecord, Row, Taken, Version, At, CallsWatch, files
  <2>0. ASSUME UNCHANGED <<files, rows, during>>,
               \A t \in Session :
                 \/ call'[t] = NoCall
                 \/ /\ call[t] # NoCall
                    /\ call'[t].output = call[t].output /\ call'[t].hash = call[t].hash
        PROVE  CallsWatch'
    BY <2>0, ZenonT(60) DEF Known
  <2>1. ASSUME NEW g \in File, Edit(g)
        PROVE  CallsWatch'
    <3>1. PICK v \in Version :
            /\ v > version[g] /\ version' = [version EXCEPT ![g] = v]
            /\ during' = [s \in Session |-> [during[s] EXCEPT ![g] = @ \cup {v}]]
            /\ rows' = rows /\ call' = call /\ setBack \subseteq setBack'
      BY <2>1, SMTT(30) DEF Edit, EditTo
    <3>2. \A s \in Session, f \in File :
            during'[s][f] = IF f = g THEN during[s][f] \cup {v} ELSE during[s][f]
      BY <3>1
    <3>3. ASSUME NEW s \in Session, call[s] # NoCall, NEW f \in File,
                 NEW x \in Version, x <= version[f], Known(during[s][f], x)
          PROVE  Known(during'[s][f], x)
      BY <3>1, <3>2, <3>3 DEF Known
    <3>4. \A s \in Session, f \in File :
            call[s] # NoCall => version'[f] \in during'[s][f]
      BY <3>1, <3>2
    <3>5. ASSUME NEW s \in Session, NEW f \in File, NEW c \in Command,
                 call[s] # NoCall, rows[c] # NoRow
          PROVE  Known(during'[s][f], rows'[c].output[f])
      <4>1. rows[c].output[f] \in Version /\ rows[c].output[f] <= version[f]
        BY <3>5 DEF TakenInOrder
      <4>2. Known(during[s][f], rows[c].output[f])
        BY <3>5
      <4>3. QED
        BY <3>1, <3>3, <3>5, <4>1, <4>2
    <3>6. ASSUME NEW s \in Session, NEW t \in Session, NEW f \in File,
                 call[s] # NoCall, call[t] # NoCall, call[t].output[f] # -1
          PROVE  Known(during'[s][f], call'[t].output[f])
      <4>1. call[t].output[f] \in Version /\ call[t].output[f] <= version[f]
        BY <3>6 DEF TakenInOrder
      <4>2. Known(during[s][f], call[t].output[f])
        BY <3>6
      <4>3. QED
        BY <3>1, <3>3, <3>6, <4>1, <4>2
    <3>7. \A s \in Session, f \in Hashed \ setBack :
            (call[s] # NoCall /\ call[s].hash[f] # -1) => call[s].hash[f] \in during'[s][f]
      BY <3>2
    <3>8. QED
      BY <3>1, <3>4, <3>5, <3>6, <3>7
  <2>2. ASSUME NEW s \in Session, NEW c \in Command, Begin(s, c)
        PROVE  CallsWatch'
    <3>1. /\ version' = version /\ rows' = rows /\ setBack' = setBack
          /\ \A t \in Session \ {s} : call'[t] = call[t] /\ during'[t] = during[t]
          /\ call'[s] # NoCall
          /\ \A f \in File : call'[s].output[f] = -1 /\ during'[s][f] = {version[f]}
          /\ \A f \in Hashed : call'[s].hash[f] = -1
      BY <2>2 DEF Begin
    <3>2. ASSUME NEW f \in File, NEW x \in Version, x <= version[f]
          PROVE  Known(during'[s][f], x)
      <4>1. x \in Int /\ version[f] \in Int
        OBVIOUS
      <4> HIDE DEF TypeOK, CallsWatch
      <4>2. x = version[f] \/ x < version[f]
        BY <3>2, <4>1
      <4>3. during'[s][f] = {version[f]}
        BY <3>1
      <4>4. QED
        BY <4>2, <4>3 DEF Known
    <3>3. \A t \in Session \ {s}, f \in File, x \in Version :
            Known(during[t][f], x) => Known(during'[t][f], x)
      BY <3>1 DEF Known
    <3>4. \A t \in Session, f \in File :
            call'[t] # NoCall => version'[f] \in during'[t][f]
      BY <3>1
    <3>5. \A t \in Session, f \in File, e \in Command :
            (call'[t] # NoCall /\ rows[e] # NoRow) => Known(during'[t][f], rows'[e].output[f])
      BY <3>1, <3>2, <3>3 DEF TakenInOrder
    <3>6. \A t, u \in Session, f \in File :
            (call'[t] # NoCall /\ call'[u] # NoCall /\ call'[u].output[f] # -1)
              => Known(during'[t][f], call'[u].output[f])
      <4>1. SUFFICES ASSUME NEW t \in Session, NEW u \in Session, NEW f \in File,
                            call'[t] # NoCall, call'[u] # NoCall, call'[u].output[f] # -1
                     PROVE  Known(during'[t][f], call'[u].output[f])
        OBVIOUS
      <4>2. u # s /\ call'[u] = call[u] /\ call[u].output[f] \in Version
            /\ call[u].output[f] <= version[f]
        BY <3>1, <4>1 DEF TakenInOrder
      <4>3. CASE t = s
        BY <3>2, <4>2, <4>3
      <4>4. CASE t # s
        BY <3>1, <3>3, <4>1, <4>2, <4>4
      <4>5. QED
        BY <4>3, <4>4
    <3>7. \A t \in Session, f \in Hashed \ setBack :
            (call'[t] # NoCall /\ call'[t].hash[f] # -1)
              => call'[t].hash[f] \in during'[t][f]
      BY <3>1
    <3>8. QED
      BY <3>1, <3>4, <3>5, <3>6, <3>7
  <2>3. ASSUME NEW s \in Session, NEW f \in File, HashFile(s, f)
        PROVE  CallsWatch'
    <3>1. /\ version' = version /\ rows' = rows /\ during' = during /\ setBack' = setBack
          /\ call[s] # NoCall /\ f \in Hashed
          /\ \A t \in Session : call[t] # NoCall =>
               /\ call'[t].output = call[t].output
               /\ \A g \in Hashed :
                    call'[t].hash[g] = IF t = s /\ g = f THEN mtime[f] ELSE call[t].hash[g]
      BY <2>3 DEF HashFile
    <3>2. \A t \in Session : call[t] = NoCall => call'[t] = NoCall
      BY <2>3 DEF HashFile
    <3>3. f \notin setBack => mtime[f] \in during[s][f]
      BY <3>1 DEF MtimesTell
    <3>4. \A t \in Session, g \in Hashed \ setBack :
            (call'[t] # NoCall /\ call'[t].hash[g] # -1) => call'[t].hash[g] \in during[t][g]
      BY <3>1, <3>2, <3>3
    <3>5. QED
      BY <3>1, <3>2, <3>4
  <2>4. ASSUME NEW s \in Session, NEW f \in File, RunFile(s, f)
        PROVE  CallsWatch'
    BY <2>4 DEF RunFile, Known
  <2>5. ASSUME NEW s \in Session, Hit(s) \/ Abort(s)
        PROVE  CallsWatch'
    <3>1. \A t \in Session : call'[t] \in {NoCall, call[t]}
      BY <2>5 DEF Hit, Abort
    <3>2. QED
      BY <2>0, <2>5, <3>1 DEF Hit, Abort
  <2>6. ASSUME NEW s \in Session, Miss(s)
        PROVE  CallsWatch'
    <3>1. \A t \in Session : call[t] # NoCall =>
            /\ call'[t].output = call[t].output
            /\ call'[t].hash = call[t].hash
      BY <2>6 DEF Miss, IsHashed
    <3>2. \A t \in Session : call[t] = NoCall => call'[t] = NoCall
      BY <2>6 DEF Miss, IsHashed
    <3>3. QED
      BY <2>0, <2>6, <3>1, <3>2 DEF Miss
  <2>7. ASSUME NEW s \in Session, Save(s)
        PROVE  CallsWatch'
    BY <2>7 DEF Save, HasRun, Known
  <2>8. CASE UNCHANGED vars
    BY <2>8 DEF vars, Known
  <2>9. QED
    BY <2>1, <2>2, <2>3, <2>4, <2>5, <2>6, <2>7, <2>8 DEF Next
<1>3. QED
  BY <1>1, <1>2, TypedAndHashed, OutputsInOrder, MtimesKeepTelling, PTL DEF Spec

\* command_cache.py:90 answers from the row if the hashes agree: in each file of
\* the hash that no edit has set back, that output is of a version the file has
\* had since the call began.
THEOREM EditsAreTold == Spec => HashTellsEdits
<1>1. TypeOK /\ OutputNotBeforeHash /\ CallsWatch /\ [Next]_vars =>
        [\A s \in Session : Hit(s) => \A f \in Hashed \ setBack : FreshIn(s, f)]_vars
  <2> SUFFICES ASSUME TypeOK, OutputNotBeforeHash, CallsWatch,
                      NEW s \in Session, Hit(s), NEW f \in Hashed \ setBack
               PROVE  FreshIn(s, f)
    OBVIOUS
  <2> DEFINE c == call[s].command
  <2>1. /\ call[s] # NoCall /\ c \in Command /\ rows[c] # NoRow
        /\ rows[c].hash = call[s].hash /\ call[s].hash[f] # -1
    BY DEF Hit, IsHashed, At, Matches, TypeOK, CallRecord
  <2>2. call[s].hash[f] \in during[s][f] /\ Known(during[s][f], rows[c].output[f])
    BY <2>1 DEF CallsWatch
  <2>3. rows[c].hash[f] <= rows[c].output[f]
    BY <2>1 DEF OutputNotBeforeHash
  <2>4. rows[c].hash[f] \in Version /\ rows[c].output[f] \in Version
    BY <2>1 DEF TypeOK, Row
  <2>5. ~(rows[c].output[f] < rows[c].hash[f])
    BY <2>3, <2>4 DEF Version
  <2>6. QED
    BY <2>1, <2>2, <2>5 DEF Known, FreshIn
<1>2. QED
  BY <1>1, TypedAndHashed, HashComesFirst, CallsKeepWatch, PTL DEF Spec, HashTellsEdits
=============================================================================
