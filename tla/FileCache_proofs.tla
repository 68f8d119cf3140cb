--------------------------- MODULE FileCache_proofs ---------------------------
(***************************************************************************)
(* Proofs about the file cache, for any sessions, files and texts.  Those  *)
(* about whole answers assume that no two sessions work on the same file;  *)
(* the run FileCache_shared_row shows what becomes of them with a shared   *)
(* file.  Writes may fail everywhere.                                      *)
(***************************************************************************)
EXTENDS OracleIngest, TLAPS

USE NoneAssumption, ScopeAssumption, StoreAssumption, CallAssumption

\* Every variable keeps its type, however the processes interleave and fail.
THEOREM TypeCorrect == Spec => []TypeOK
<1>1. Init => TypeOK
  BY DEF Init, TypeOK, Call
<1>2. TypeOK /\ [Next]_vars => TypeOK'
  <2> SUFFICES ASSUME TypeOK, [Next]_vars
               PROVE  TypeOK'
    OBVIOUS
  <2> USE DEF TypeOK, Call
  <2>1. ASSUME NEW p \in Path, Edit(p)
        PROVE  TypeOK'
    BY <2>1 DEF Edit
  <2>2. ASSUME NEW s \in Session, Lookup(s)
        PROVE  TypeOK'
    BY <2>2, ZenonT(60) DEF Lookup
  <2>3. ASSUME NEW s \in Session, Answer(s)
        PROVE  TypeOK'
    BY <2>3 DEF Answer, Save, MarkSeen, Understood, AnswersInFull
  <2>4. ASSUME NEW s \in Session, SaveRaises(s)
        PROVE  TypeOK'
    BY <2>4 DEF SaveRaises, Save
  <2>5. ASSUME NEW s \in Session, LogRaises(s)
        PROVE  TypeOK'
    BY <2>5 DEF LogRaises, Save, MarkSeen
  <2>6. ASSUME NEW s \in Session, Restart(s)
        PROVE  TypeOK'
    BY <2>6 DEF Restart, Save
  <2>7. ASSUME NEW s \in Session, NEW p \in Scope[s], ReadText(s, p, "tool")
        PROVE  TypeOK'
    BY <2>7 DEF ReadText
  <2>8. ASSUME NEW s \in Session, NEW p \in Scope[s], Forget(s, p)
        PROVE  TypeOK'
    BY <2>8 DEF Forget
  <2>9. ASSUME NEW s \in Session, NEW p \in Scope[s], ForgetRaises(s, p)
        PROVE  TypeOK'
    BY <2>9 DEF ForgetRaises
  <2>10. CASE UNCHANGED vars
    BY <2>10 DEF vars
  <2>11. QED
    BY <2>1, <2>2, <2>3, <2>4, <2>5, <2>6, <2>7, <2>8, <2>9, <2>10
       DEF Next, Step
<1>3. QED
  BY <1>1, <1>2, PTL DEF Spec

\* A session's calls and its _session_seen stay within the session's files.
InScope ==
  \A s \in Session :
    /\ session_seen[s] \subseteq Scope[s]
    /\ call[s] # NoCall => call[s].path \in Scope[s] /\ call[s].by = "tool"

LEMMA StaysInScope == Spec => []InScope
<1>1. Init => InScope
  BY DEF Init, InScope
<1>2. TypeOK /\ InScope /\ [Next]_vars => InScope'
  <2> SUFFICES ASSUME TypeOK, InScope, [Next]_vars
               PROVE  InScope'
    OBVIOUS
  <2> USE DEF TypeOK, Call, InScope
  <2>1. ASSUME NEW p \in Path, Edit(p)
        PROVE  InScope'
    BY <2>1 DEF Edit
  <2>2. ASSUME NEW s \in Session, Lookup(s)
        PROVE  InScope'
    BY <2>2 DEF Lookup
  <2>3. ASSUME NEW s \in Session, Answer(s)
        PROVE  InScope'
    BY <2>3 DEF Answer, MarkSeen
  <2>4. ASSUME NEW s \in Session, SaveRaises(s)
        PROVE  InScope'
    BY <2>4 DEF SaveRaises
  <2>5. ASSUME NEW s \in Session, LogRaises(s)
        PROVE  InScope'
    BY <2>5 DEF LogRaises, MarkSeen
  <2>6. ASSUME NEW s \in Session, Restart(s)
        PROVE  InScope'
    BY <2>6 DEF Restart
  <2>7. ASSUME NEW s \in Session, NEW p \in Scope[s], ReadText(s, p, "tool")
        PROVE  InScope'
    BY <2>7 DEF ReadText
  <2>8. ASSUME NEW s \in Session, NEW p \in Scope[s], Forget(s, p)
        PROVE  InScope'
    BY <2>8 DEF Forget
  <2>9. ASSUME NEW s \in Session, NEW p \in Scope[s], ForgetRaises(s, p)
        PROVE  InScope'
    BY <2>9 DEF ForgetRaises
  <2>10. CASE UNCHANGED vars
    BY <2>10 DEF vars
  <2>11. QED
    BY <2>1, <2>2, <2>3, <2>4, <2>5, <2>6, <2>7, <2>8, <2>9, <2>10
       DEF Next, Step
<1>3. QED
  BY <1>1, <1>2, TypeCorrect, PTL DEF Spec

\* However many sessions share the table and its files, none has a path marked
\* as seen before its agent was told the file's text or got an error for it.
THEOREM SeenFilesWereTold == Spec => []SeenMeansTold
<1>1. Init => SeenMeansTold
  BY DEF Init, SeenMeansTold
<1>2. TypeOK /\ InScope /\ SeenMeansTold /\ [Next]_vars => SeenMeansTold'
  <2> SUFFICES ASSUME TypeOK, InScope, SeenMeansTold, [Next]_vars
               PROVE  SeenMeansTold'
    OBVIOUS
  <2> USE DEF TypeOK, Call, SeenMeansTold
  <2>1. ASSUME NEW p \in Path, Edit(p)
        PROVE  SeenMeansTold'
    BY <2>1 DEF Edit
  <2>2. ASSUME NEW s \in Session, Lookup(s)
        PROVE  SeenMeansTold'
    BY <2>2 DEF Lookup
  <2>3. ASSUME NEW s \in Session, Answer(s)
        PROVE  SeenMeansTold'
    <3> DEFINE p == call[s].path
    <3>1. p \in Path /\ call[s].content \in Content
      BY <2>3 DEF Answer
    <3>2. \/ p \in erred[s] /\ p \in erred'[s]
          \/ Understood(s) # Nothing
      <4>1. CASE AnswersInFull(s)
        BY <3>1, <4>1 DEF Understood
      <4>2. CASE ~AnswersInFull(s) /\ p \notin erred[s]
        BY <3>1, <4>2 DEF Understood, AnswersInFull
      <4>3. CASE ~AnswersInFull(s) /\ p \in erred[s]
        BY <2>3, <4>3 DEF Answer
      <4>4. QED
        BY <4>1, <4>2, <4>3
    <3>3. view' = [view EXCEPT ![s][p] = Understood(s)]
      BY <2>3 DEF Answer, InScope
    <3>4. \A t \in Session : \A q \in Path :
            t # s \/ q # p => (q \in erred'[t] <=> q \in erred[t])
      BY <2>3 DEF Answer
    <3>5. session_seen' = [session_seen EXCEPT ![s] = @ \cup {p}]
      BY <2>3 DEF Answer, MarkSeen
    <3>6. SUFFICES ASSUME NEW t \in Session, NEW q \in session_seen'[t] \ erred'[t]
                   PROVE  view'[t][q] # Nothing
      OBVIOUS
    <3>7. CASE t = s /\ q = p
      BY <3>1, <3>2, <3>3, <3>7
    <3>8. CASE ~(t = s /\ q = p)
      <4>1. q \in session_seen[t] /\ q \in Path
        BY <3>5, <3>8
      <4>2. q \notin erred[t]
        BY <3>4, <3>8, <4>1
      <4>3. view'[t][q] = view[t][q]
        BY <3>1, <3>3, <3>8, <4>1
      <4>4. QED
        BY <4>1, <4>2, <4>3
    <3>9. QED
      BY <3>7, <3>8
  <2>4. ASSUME NEW s \in Session, SaveRaises(s) \/ LogRaises(s)
        PROVE  SeenMeansTold'
    <3> DEFINE p == call[s].path
    <3>1. /\ view' = view
          /\ erred' = [erred EXCEPT ![s] = @ \cup {p}]
          /\ session_seen' \in {session_seen, [session_seen EXCEPT ![s] = @ \cup {p}]}
      BY <2>4 DEF SaveRaises, LogRaises, MarkSeen
    <3>2. QED
      BY <3>1
  <2>5. ASSUME NEW s \in Session, Restart(s)
        PROVE  SeenMeansTold'
    BY <2>5 DEF Restart
  <2>6. ASSUME NEW s \in Session, NEW p \in Scope[s], ReadText(s, p, "tool")
        PROVE  SeenMeansTold'
    BY <2>6 DEF ReadText
  <2>7. ASSUME NEW s \in Session, NEW p \in Scope[s], Forget(s, p)
        PROVE  SeenMeansTold'
    BY <2>7 DEF Forget
  <2>8. ASSUME NEW s \in Session, NEW p \in Scope[s], ForgetRaises(s, p)
        PROVE  SeenMeansTold'
    BY <2>8 DEF ForgetRaises
  <2>9. CASE UNCHANGED vars
    BY <2>9 DEF vars
  <2>10. QED
    BY <2>1, <2>2, <2>3, <2>4, <2>5, <2>6, <2>7, <2>8, <2>9
       DEF Next, Step
<1>3. QED
  BY <1>1, <1>2, TypeCorrect, StaysInScope, PTL DEF Spec

\* When no file is shared, the row a process looked up is still there when the
\* process acts on it, whatever the others do in between.
THEOREM NobodyElseWritesTheRow ==
  ASSUME ScopesAreDisjoint
  PROVE  Spec => []LookupStaysTrue
<1>1. Init => LookupStaysTrue
  BY DEF Init, LookupStaysTrue
<1>2. TypeOK /\ InScope /\ LookupStaysTrue /\ [Next]_vars => LookupStaysTrue'
  <2> SUFFICES ASSUME TypeOK, InScope, LookupStaysTrue, [Next]_vars
               PROVE  LookupStaysTrue'
    OBVIOUS
  <2> USE DEF TypeOK, Call, LookupStaysTrue
  <2>0. ASSUME NEW s \in Session,
               \A q \in Path \ Scope[s] : row'[q] = row[q],
               call'[s] = NoCall,
               \A t \in Session : t # s => call'[t] = call[t]
        PROVE  LookupStaysTrue'
    BY <2>0 DEF InScope, ScopesAreDisjoint
  <2>1. ASSUME NEW p \in Path, Edit(p)
        PROVE  LookupStaysTrue'
    BY <2>1 DEF Edit
  <2>2. ASSUME NEW s \in Session, Lookup(s)
        PROVE  LookupStaysTrue'
    BY <2>2 DEF Lookup
  <2>3. ASSUME NEW s \in Session, Answer(s) \/ LogRaises(s) \/ SaveRaises(s)
        PROVE  LookupStaysTrue'
    <3>1. \A q \in Path \ Scope[s] : row'[q] = row[q]
      BY <2>3 DEF Answer, LogRaises, SaveRaises, Save, InScope
    <3>2. call'[s] = NoCall /\ \A t \in Session : t # s => call'[t] = call[t]
      BY <2>3 DEF Answer, LogRaises, SaveRaises
    <3>3. QED
      BY <3>1, <3>2, <2>0
  <2>4. ASSUME NEW s \in Session, Restart(s)
        PROVE  LookupStaysTrue'
    <3>1. \A q \in Path \ Scope[s] : row'[q] = row[q]
      BY <2>4 DEF Restart, Save, InScope
    <3>2. call'[s] = NoCall /\ \A t \in Session : t # s => call'[t] = call[t]
      BY <2>4 DEF Restart
    <3>3. QED
      BY <3>1, <3>2, <2>0
  <2>5. ASSUME NEW s \in Session, NEW p \in Scope[s], ReadText(s, p, "tool")
        PROVE  LookupStaysTrue'
    BY <2>5 DEF ReadText
  <2>6. ASSUME NEW s \in Session, NEW p \in Scope[s], Forget(s, p)
        PROVE  LookupStaysTrue'
    BY <2>6, <2>0 DEF Forget
  <2>7. ASSUME NEW s \in Session, NEW p \in Scope[s], ForgetRaises(s, p)
        PROVE  LookupStaysTrue'
    BY <2>7 DEF ForgetRaises, InScope, ScopesAreDisjoint
  <2>8. CASE UNCHANGED vars
    BY <2>8 DEF vars
  <2>9. QED
    BY <2>1, <2>2, <2>3, <2>4, <2>5, <2>6, <2>7, <2>8
       DEF Next, Step
<1>3. QED
  BY <1>1, <1>2, TypeCorrect, StaysInScope, PTL DEF Spec

\* When no file is shared, the row of a seen file is the text its agent has,
\* but for the files whose last call failed: "No changes" is true and a delta
\* has the right base.
THEOREM RowAndAgentAgree ==
  ASSUME ScopesAreDisjoint
  PROVE  Spec => []RowIsWhatAgentHas
<1>1. Init => RowIsWhatAgentHas
  BY DEF Init, RowIsWhatAgentHas
<1>2. TypeOK /\ InScope /\ LookupStaysTrue /\ RowIsWhatAgentHas /\ [Next]_vars
        => RowIsWhatAgentHas'
  <2> SUFFICES ASSUME TypeOK, InScope, LookupStaysTrue, RowIsWhatAgentHas,
                      [Next]_vars
               PROVE  RowIsWhatAgentHas'
    OBVIOUS
  <2> USE DEF TypeOK, Call, RowIsWhatAgentHas
  <2>1. ASSUME NEW p \in Path, Edit(p)
        PROVE  RowIsWhatAgentHas'
    BY <2>1 DEF Edit
  <2>2. ASSUME NEW s \in Session, Lookup(s)
        PROVE  RowIsWhatAgentHas'
    BY <2>2 DEF Lookup
  <2>3. ASSUME NEW s \in Session, Answer(s)
        PROVE  RowIsWhatAgentHas'
    <3> DEFINE p == call[s].path
    <3>1. p \in Scope[s] /\ p \in Path /\ call[s].content \in Content
      BY <2>3 DEF Answer, InScope
    <3>2. \/ p \notin session_seen[s]
          \/ p \in erred[s] /\ p \in erred'[s]
          \/ Understood(s) = call[s].content
      <4>1. CASE AnswersInFull(s)
        BY <4>1 DEF Understood
      <4>2. CASE ~AnswersInFull(s) /\ p \notin erred[s]
        BY <2>3, <3>1, <4>2
           DEF Answer, Understood, AnswersInFull, LookupStaysTrue
      <4>3. CASE ~AnswersInFull(s) /\ p \in erred[s]
        BY <2>3, <4>3 DEF Answer
      <4>4. QED
        BY <4>1, <4>2, <4>3
    <3>3. view' = [view EXCEPT ![s][p] = Understood(s)]
      BY <2>3 DEF Answer, InScope
    <3>4. row' = [row EXCEPT ![p] = call[s].content]
      BY <2>3 DEF Answer, Save
    <3>5. \A t \in Session : t # s => p \notin session_seen[t]
      BY <3>1 DEF InScope, ScopesAreDisjoint
    <3>6. p \notin session_seen[s] => Understood(s) = call[s].content
      BY DEF Understood, AnswersInFull
    <3>7. \A t \in Session : \A q \in Path :
            t # s \/ q # p => (q \in erred'[t] <=> q \in erred[t])
      BY <2>3 DEF Answer
    <3>8. session_seen' = [session_seen EXCEPT ![s] = @ \cup {p}]
      BY <2>3 DEF Answer, MarkSeen
    <3>9. QED
      BY <3>1, <3>2, <3>3, <3>4, <3>5, <3>6, <3>7, <3>8
  <2>4. ASSUME NEW s \in Session, SaveRaises(s) \/ LogRaises(s)
        PROVE  RowIsWhatAgentHas'
    <3> DEFINE p == call[s].path
    <3>1. p \in Scope[s] /\ p \in Path
      BY <2>4 DEF SaveRaises, LogRaises, InScope
    <3>2. \A q \in Path : q # p => row'[q] = row[q]
      BY <2>4 DEF SaveRaises, LogRaises, Save
    <3>3. \A t \in Session : t # s => p \notin session_seen[t]
      BY <3>1 DEF InScope, ScopesAreDisjoint
    <3>4. /\ view' = view
          /\ erred' = [erred EXCEPT ![s] = @ \cup {p}]
          /\ session_seen' \in {session_seen, [session_seen EXCEPT ![s] = @ \cup {p}]}
      BY <2>4 DEF SaveRaises, LogRaises, MarkSeen
    <3>5. QED
      BY <3>1, <3>2, <3>3, <3>4
  <2>5. ASSUME NEW s \in Session, Restart(s)
        PROVE  RowIsWhatAgentHas'
    <3>1. \A t \in Session : t # s =>
            \A p \in session_seen[t] : row'[p] = row[p]
      BY <2>5 DEF Restart, Save, InScope, ScopesAreDisjoint
    <3>2. QED
      BY <2>5, <3>1 DEF Restart
  <2>6. ASSUME NEW s \in Session, NEW p \in Scope[s], ReadText(s, p, "tool")
        PROVE  RowIsWhatAgentHas'
    BY <2>6 DEF ReadText
  <2>7. ASSUME NEW s \in Session, NEW p \in Scope[s], Forget(s, p)
        PROVE  RowIsWhatAgentHas'
    <3>1. \A t \in Session : t # s => p \notin session_seen[t]
      BY DEF InScope, ScopesAreDisjoint
    <3>2. QED
      BY <2>7, <3>1 DEF Forget
  <2>8. ASSUME NEW s \in Session, NEW p \in Scope[s], ForgetRaises(s, p)
        PROVE  RowIsWhatAgentHas'
    <3>1. \A t \in Session : t # s => p \notin session_seen[t]
      BY DEF InScope, ScopesAreDisjoint
    <3>2. QED
      BY <2>8, <3>1 DEF ForgetRaises
  <2>9. CASE UNCHANGED vars
    BY <2>9 DEF vars
  <2>10. QED
    BY <2>1, <2>2, <2>3, <2>4, <2>5, <2>6, <2>7, <2>8, <2>9
       DEF Next, Step
<1>3. QED
  BY <1>1, <1>2, TypeCorrect, StaysInScope, NobodyElseWritesTheRow, PTL DEF Spec

\* The invariants a step's refinement rests on.
Settled == TypeOK /\ InScope /\ LookupStaysTrue /\ RowIsWhatAgentHas

LEMMA StaysSettled ==
  ASSUME ScopesAreDisjoint
  PROVE  Spec => []Settled
BY TypeCorrect, StaysInScope, NobodyElseWritesTheRow, RowAndAgentAgree,
   PTL DEF Settled

\* An answer leaves the agent with the text the file had when it was read, or
\* with a file it may not rely on.
LEMMA AnswersAreCurrent ==
  ASSUME Settled, NEW s \in Session, Answer(s)
  PROVE  /\ view' = [view EXCEPT ![s][call[s].path] = Understood(s)]
         /\ call[s].path \notin erred'[s] => Understood(s) = call[s].content
<1> USE DEF Settled, TypeOK, Call
<1>1. view' = [view EXCEPT ![s][call[s].path] = Understood(s)]
  BY DEF Answer, InScope
<1>2. CASE AnswersInFull(s)
  BY <1>1, <1>2 DEF Understood
<1>3. CASE ~AnswersInFull(s)
  <2>1. erred' = erred
    BY <1>3 DEF Answer
  <2>2. /\ call[s].path \in session_seen[s]
        /\ call[s].cached = row[call[s].path]
    BY <1>3 DEF Answer, AnswersInFull, LookupStaysTrue
  <2>3. QED
    BY <1>1, <2>1, <2>2 DEF Understood, RowIsWhatAgentHas
<1>4. QED
  BY <1>2, <1>3

\* The answers of smart_read are right: the action property of the runs, for
\* sessions that do not share files.
THEOREM EveryAnswerIsCurrent ==
  ASSUME ScopesAreDisjoint
  PROVE  Spec => AnswerIsCurrent
<1>1. Settled /\ [Next]_vars =>
        [\A s \in Session :
           Answer(s) /\ call[s].path \notin erred'[s]
             => view'[s][call[s].path] = call[s].content]_vars
  <2> SUFFICES ASSUME Settled, NEW s \in Session, Answer(s),
                      call[s].path \notin erred'[s]
               PROVE  view'[s][call[s].path] = call[s].content
    OBVIOUS
  <2>1. view' = [view EXCEPT ![s][call[s].path] = call[s].content]
    BY AnswersAreCurrent
  <2>2. QED
    BY <2>1 DEF Answer, Settled, TypeOK, Call
<1>2. QED
  BY <1>1, StaysSettled, PTL DEF Spec, AnswerIsCurrent

\* A function of functions that changes at one argument.
LEMMA OneChanges ==
  ASSUME NEW S, NEW s \in S, NEW f, NEW g, NEW p, NEW x,
         f = [t \in S |-> f[t]], g = [t \in S |-> g[t]],
         \A t \in S : t # s => g[t] = f[t],
         g[s] = [f[s] EXCEPT ![p] = x]
  PROVE  g = [f EXCEPT ![s][p] = x]
OBVIOUS

\* The cache is transparent: with its files to itself, a session cannot tell
\* FileCache from a server that always returns the whole file, on any file it
\* may rely on.
THEOREM CacheIsTransparent ==
  ASSUME ScopesAreDisjoint
  PROVE  Spec => Transparent
<1> DEFINE asked == [s \in Session |->
                      IF call[s] = NoCall THEN NoCall
                      ELSE [path |-> call[s].path, content |-> call[s].content]]
<1>1. Init => Uncached!Init
  BY DEF Init, Uncached!Init, Claimed
<1>2. Settled /\ [Next]_vars => [Uncached!Next]_(Uncached!vars)
  <2> SUFFICES ASSUME Settled, [Next]_vars
               PROVE  Uncached!Next \/ UNCHANGED Uncached!vars
    OBVIOUS
  <2> USE DEF TypeOK, Call, Settled
  <2>1. ASSUME NEW p \in Path, Edit(p)
        PROVE  Uncached!Edit(p)
    BY <2>1, ZenonT(60) DEF Edit, Uncached!Edit, Claimed
  <2>2. ASSUME NEW s \in Session, Lookup(s)
        PROVE  UNCHANGED Uncached!vars
    <3> DEFINE c == call[s]
    <3>1. \A t \in Session : asked'[t] = asked[t]
      <4>1. /\ c \in [path : Path, by : {"tool", "ingest"}, st : {"read", "looked"},
                     content : Content, cached : Content \cup {NoRow}]
            /\ row[c.path] \in Content \cup {NoRow}
        BY <2>2 DEF Lookup
      <4>2. /\ call'[s] = [c EXCEPT !.st = "looked", !.cached = row[c.path]]
            /\ \A t \in Session : t # s => call'[t] = call[t]
        BY <2>2 DEF Lookup
      <4>3. call'[s] # NoCall /\ call'[s].path = c.path /\ call'[s].content = c.content
        BY <4>1, <4>2
      <4>4. c # NoCall
        BY <4>1
      <4>5. QED
        BY <4>2, <4>3, <4>4
    <3>2. asked' = asked
      BY <3>1
    <3>3. QED
      BY <2>2, <3>2 DEF Lookup, Uncached!vars, Claimed
  <2>3. ASSUME NEW s \in Session, Answer(s) \/ SaveRaises(s) \/ LogRaises(s)
        PROVE  Uncached!Tell(s) \/ Uncached!Fail(s)
    <3> DEFINE p == call[s].path
    <3>1. call[s] # NoCall /\ p \in Path /\ call[s].content \in Content
      BY <2>3 DEF Answer, SaveRaises, LogRaises
    <3>2. asked[s] = [path |-> p, content |-> call[s].content]
      BY <3>1
    <3>3. asked[s] # NoCall /\ asked[s].path = p /\ asked[s].content = call[s].content
      BY <3>1, <3>2
    <3>4. asked' = [asked EXCEPT ![s] = NoCall]
      BY <2>3 DEF Answer, SaveRaises, LogRaises
    <3>5. disk' = disk
      BY <2>3 DEF Answer, SaveRaises, LogRaises
    <3>6. \A t \in Session : \A q \in Path :
            (t # s \/ q # p) => /\ q \in erred'[t] <=> q \in erred[t]
                              /\ view'[t][q] = view[t][q]
      <4>1. CASE Answer(s)
        BY <4>1, <3>1, AnswersAreCurrent DEF Answer
      <4>2. CASE SaveRaises(s) \/ LogRaises(s)
        BY <4>2 DEF SaveRaises, LogRaises
      <4>3. QED
        BY <2>3, <4>1, <4>2
    <3>7. \A t \in Session : \A q \in Path :
            (t # s \/ q # p) => Claimed'[t][q] = Claimed[t][q]
      BY <3>6 DEF Claimed
    <3>8. Claimed' = [Claimed EXCEPT ![s][p] = Claimed'[s][p]]
      <4>1. \A t \in Session : t # s => Claimed'[t] = Claimed[t]
        <5> SUFFICES ASSUME NEW t \in Session, t # s
                     PROVE  Claimed'[t] = Claimed[t]
          OBVIOUS
        <5>1. \A q \in Path : Claimed'[t][q] = Claimed[t][q]
          BY <3>7
        <5>2. QED
          BY <5>1 DEF Claimed
      <4>2. Claimed'[s] = [Claimed[s] EXCEPT ![p] = Claimed'[s][p]]
        <5>1. \A q \in Path : q # p => Claimed'[s][q] = Claimed[s][q]
          BY <3>7
        <5>2. QED
          BY <5>1, ZenonT(60) DEF Claimed
      <4>3. /\ Claimed = [t \in Session |-> Claimed[t]]
            /\ Claimed' = [t \in Session |-> Claimed'[t]]
        BY DEF Claimed
      <4>4. QED
        BY <4>1, <4>2, <4>3, OneChanges
    <3>9. CASE p \in erred'[s]
      <4>1. Claimed'[s][p] = Nothing
        BY <3>1, <3>9 DEF Claimed
      <4>2. Uncached!Fail(s)
        BY <3>3, <3>4, <3>5, <3>8, <4>1 DEF Uncached!Fail
      <4>3. QED
        BY <4>2
    <3>10. CASE p \notin erred'[s]
      <4>1. Answer(s)
        BY <2>3, <3>1, <3>10 DEF SaveRaises, LogRaises
      <4>2. view'[s][p] = call[s].content
        BY <3>1, <3>10, <4>1, AnswersAreCurrent
      <4>3. Claimed'[s][p] = call[s].content
        BY <3>1, <3>10, <4>2 DEF Claimed
      <4>4. Uncached!Tell(s)
        BY <3>3, <3>4, <3>5, <3>8, <4>3 DEF Uncached!Tell
      <4>5. QED
        BY <4>4
    <3>11. QED
      BY <3>9, <3>10
  <2>4. ASSUME NEW s \in Session, NEW p \in Scope[s], ForgetRaises(s, p)
        PROVE  Uncached!Drop(s, p)
    <3>1. p \in Path /\ view' = view /\ erred' = [erred EXCEPT ![s] = @ \cup {p}]
      BY <2>4 DEF ForgetRaises
    <3>2. Claimed' = [Claimed EXCEPT ![s][p] = Nothing]
      BY <3>1 DEF Claimed
    <3>3. asked' = asked /\ disk' = disk
      BY <2>4 DEF ForgetRaises
    <3>4. QED
      BY <3>2, <3>3 DEF Uncached!Drop
  <2>5. ASSUME NEW s \in Session, Restart(s)
        PROVE  Uncached!Lose(s)
    BY <2>5 DEF Restart, Uncached!Lose, Claimed
  <2>6. ASSUME NEW s \in Session, NEW p \in Scope[s], ReadText(s, p, "tool")
        PROVE  Uncached!Ask(s, p)
    <3>1. call[s] = NoCall /\ p \in Path /\ disk[p] \in Content
      BY <2>6 DEF ReadText
    <3>2. call' = [call EXCEPT ![s] =
                    [path |-> p, by |-> "tool", st |-> "read",
                     content |-> disk[p], cached |-> NoRow]]
      BY <2>6 DEF ReadText
    <3>3. call'[s] # NoCall /\ call'[s].path = p /\ call'[s].content = disk[p]
      BY <3>1, <3>2
    <3>4. asked' = [asked EXCEPT ![s] = [path |-> p, content |-> disk[p]]]
      BY <3>2, <3>3
    <3>5. asked[s] = NoCall
      BY <3>1
    <3>6. QED
      BY <2>6, <3>4, <3>5 DEF ReadText, Uncached!Ask, Claimed
  <2>7. ASSUME NEW s \in Session, NEW p \in Scope[s], Forget(s, p)
        PROVE  Uncached!Drop(s, p)
    <3>1. /\ p \in Path
          /\ view' = [view EXCEPT ![s][p] = Nothing]
          /\ erred' = [erred EXCEPT ![s] = @ \ {p}]
      BY <2>7 DEF Forget
    <3>2. Claimed' = [Claimed EXCEPT ![s][p] = Nothing]
      BY <3>1 DEF Claimed
    <3>3. asked' = asked /\ disk' = disk
      BY <2>7 DEF Forget
    <3>4. QED
      BY <3>2, <3>3 DEF Uncached!Drop
  <2>8. CASE UNCHANGED vars
    BY <2>8 DEF vars, Uncached!vars, Claimed
  <2>9. QED
    BY <2>1, <2>2, <2>3, <2>4, <2>5, <2>6, <2>7, <2>8
       DEF Next, Step, Uncached!Next
<1>3. QED
  BY <1>1, <1>2, StaysSettled, PTL DEF Spec, Transparent, Uncached!Spec

-----------------------------------------------------------------------------
(***************************************************************************)
(* With passive ingest.  That it disturbs nothing it does not touch is     *)
(* proved for one session: an entry makes a session write rows of any      *)
(* other's files, so disjoint scopes would not help.                       *)
(***************************************************************************)
\* The steps of FileCache, with a read for ingest, keep its variables' types.
LEMMA CacheStaysTyped ==
  ASSUME TypeOK, NEW s \in Session, NEW p \in Path,
         \/ Edit(p) \/ Lookup(s) \/ Answer(s) \/ SaveRaises(s) \/ LogRaises(s)
         \/ Restart(s) \/ ReadText(s, p, "tool") \/ ReadText(s, p, "ingest")
         \/ Forget(s, p) \/ ForgetRaises(s, p) \/ UNCHANGED vars
  PROVE  TypeOK'
<1> USE DEF TypeOK, Call
<1>1. CASE Answer(s)
  BY <1>1 DEF Answer, Save, MarkSeen, Understood, AnswersInFull
<1>2. CASE SaveRaises(s)
  BY <1>2 DEF SaveRaises, Save
<1>3. CASE LogRaises(s)
  BY <1>3 DEF LogRaises, Save, MarkSeen
<1>4. CASE Restart(s)
  BY <1>4 DEF Restart, Save
<1>5. CASE Lookup(s)
  BY <1>5, ZenonT(60) DEF Lookup
<1>6. CASE ReadText(s, p, "tool") \/ ReadText(s, p, "ingest")
  BY <1>6 DEF ReadText
<1>7. CASE Forget(s, p)
  BY <1>7 DEF Forget
<1>8. CASE ForgetRaises(s, p)
  <2>1. /\ row' \in {row, [row EXCEPT ![p] = NoRow]}
        /\ session_seen' \in
             {session_seen, [session_seen EXCEPT ![s] = @ \ {p}]}
        /\ erred' = [erred EXCEPT ![s] = @ \cup {p}]
        /\ UNCHANGED <<disk, call, view>>
    BY <1>8 DEF ForgetRaises
  <2>2. row' \in [Path -> Content \cup {NoRow}]
    BY <2>1
  <2>3. session_seen' \in [Session -> SUBSET Path]
    BY <2>1
  <2>4. QED
    BY <2>1, <2>2, <2>3
<1>9. CASE Edit(p) \/ UNCHANGED vars
  BY <1>9 DEF Edit, vars
<1>10. QED
  BY <1>1, <1>2, <1>3, <1>4, <1>5, <1>6, <1>7, <1>8, <1>9

\* Every variable keeps its type, whatever is ingested, fails or restarts.
THEOREM IngestTypeCorrect == IngestSpec => []IngestTypeOK
<1>1. IngestInit => IngestTypeOK
  BY DEF IngestInit, Init, IngestTypeOK, TypeOK, Call
<1>2. IngestTypeOK /\ [IngestNext]_allVars => IngestTypeOK'
  <2> SUFFICES ASSUME IngestTypeOK, [IngestNext]_allVars
               PROVE  IngestTypeOK'
    OBVIOUS
  <2> USE DEF IngestTypeOK
  <2>1. ASSUME NEW p \in Path, IngestEdit(p)
        PROVE  IngestTypeOK'
    <3>1. TypeOK'
      BY <2>1 DEF IngestEdit, Edit, TypeOK
    <3>2. QED
      BY <2>1, <3>1 DEF IngestEdit, ingestVars
  <2>2. ASSUME NEW s \in Session, Drain(s) \/ OtherTool(s) \/ EntryRaises(s)
        PROVE  IngestTypeOK'
    <3>1. TypeOK'
      BY <2>2 DEF Drain, OtherTool, EntryRaises, vars, TypeOK
    <3>2. QED
      BY <2>2, <3>1 DEF Drain, OtherTool, EntryRaises, CallEnds, queueVars
  <2>3. ASSUME NEW s \in Session, IngestLookup(s)
        PROVE  IngestTypeOK'
    <3>1. call[s].path \in Path /\ Lookup(s)
      BY <2>3 DEF IngestLookup, Lookup, TypeOK, Call
    <3>2. TypeOK'
      BY <3>1, CacheStaysTyped
    <3>3. QED
      BY <2>3, <3>2 DEF IngestLookup, ingestVars
  <2>4. ASSUME NEW s \in Session, ToolAnswers(s) \/ IngestAnswers(s)
        PROVE  IngestTypeOK'
    <3>1. call[s].path \in Path /\ Answer(s)
      BY <2>4 DEF ToolAnswers, IngestAnswers, TypeOK, Call
    <3>2. TypeOK'
      BY <3>1, CacheStaysTyped
    <3>3. CASE ToolAnswers(s)
      BY <3>1, <3>2, <3>3 DEF ToolAnswers, queueVars
    <3>4. CASE IngestAnswers(s)
      BY <3>1, <3>2, <3>4 DEF IngestAnswers
    <3>5. QED
      BY <2>4, <3>3, <3>4
  <2>5. ASSUME NEW s \in Session, ReadRaises(s)
        PROVE  IngestTypeOK'
    <3>1. call[s].path \in Path
      BY <2>5 DEF ReadRaises, SaveRaises, LogRaises, TypeOK, Call
    <3>2. TypeOK'
      BY <2>5, <3>1, CacheStaysTyped DEF ReadRaises
    <3>3. QED
      BY <2>5, <3>2 DEF ReadRaises, CallEnds
  <2>6. ASSUME NEW s \in Session, ServerRestarts(s)
        PROVE  IngestTypeOK'
    <3>1. TypeOK'
      BY <2>6 DEF ServerRestarts, Restart, Save, TypeOK, Call
    <3>2. QED
      BY <2>6, <3>1 DEF ServerRestarts
  <2>7. ASSUME NEW s \in Session, NEW p \in Path, IngestEntry(s, p)
        PROVE  IngestTypeOK'
    <3>1. TypeOK'
      BY <2>7, CacheStaysTyped DEF IngestEntry
    <3>2. QED
      BY <2>7, <3>1 DEF IngestEntry
  <2>8. ASSUME NEW s \in Session, NEW p \in Scope[s],
               \/ BuiltinRead(s, p) \/ ToolReads(s, p) \/ ToolForgets(s, p)
               \/ ToolForgetRaises(s, p)
        PROVE  IngestTypeOK'
    <3>1. p \in Path
      OBVIOUS
    <3>2. CASE BuiltinRead(s, p)
      <4>1. TypeOK'
        BY <3>1, <3>2 DEF BuiltinRead, TypeOK
      <4>2. QED
        BY <3>1, <3>2, <4>1 DEF BuiltinRead
    <3>3. CASE ~BuiltinRead(s, p)
      <4>1. TypeOK'
        BY <2>8, <3>1, <3>3, CacheStaysTyped
           DEF ToolReads, ToolForgets, ToolForgetRaises
      <4>2. QED
        BY <2>8, <3>3, <4>1, ZenonT(60)
           DEF ToolReads, ToolForgets, ToolForgetRaises, CallEnds, ingestVars,
               queueVars
    <3>4. QED
      BY <3>2, <3>3
  <2>9. CASE UNCHANGED allVars
    BY <2>9 DEF allVars, TypeOK
  <2>10. QED
    BY <2>1, <2>2, <2>3, <2>4, <2>5, <2>6, <2>7, <2>8, <2>9 DEF IngestNext
<1>3. QED
  BY <1>1, <1>2, PTL DEF IngestSpec

OneSession == \A s, t \in Session : s = t

\* On its own, a process acts on the row it has looked up.
LEMMA RowStays ==
  ASSUME OneSession
  PROVE  IngestSpec => []LookupStaysTrue
<1>1. IngestInit => LookupStaysTrue
  BY DEF IngestInit, Init, LookupStaysTrue
<1>2. IngestTypeOK /\ LookupStaysTrue /\ [IngestNext]_allVars
        => LookupStaysTrue'
  <2> SUFFICES ASSUME IngestTypeOK, LookupStaysTrue, [IngestNext]_allVars
               PROVE  LookupStaysTrue'
    OBVIOUS
  <2> USE DEF IngestTypeOK, TypeOK, Call, LookupStaysTrue
  <2>1. CASE row' = row /\ call' = call
    BY <2>1
  <2>2. ASSUME NEW s \in Session, call'[s] = NoCall
        PROVE  LookupStaysTrue'
    BY <2>2 DEF OneSession
  <2>3. ASSUME NEW s \in Session, IngestLookup(s)
        PROVE  LookupStaysTrue'
    BY <2>3 DEF IngestLookup, Lookup
  <2>4. ASSUME NEW s \in Session, NEW p \in Path,
               IngestEntry(s, p) \/ ToolReads(s, p)
        PROVE  LookupStaysTrue'
    BY <2>4 DEF IngestEntry, ToolReads, ReadText, vars
  <2>5. ASSUME NEW s \in Session,
               \/ ToolAnswers(s) \/ IngestAnswers(s) \/ ReadRaises(s)
               \/ ServerRestarts(s)
        PROVE  call'[s] = NoCall
    BY <2>5 DEF ToolAnswers, IngestAnswers, ReadRaises, ServerRestarts,
                Answer, SaveRaises, LogRaises, Restart
  <2>6. ASSUME NEW s \in Session, NEW p \in Scope[s],
               ToolForgets(s, p) \/ ToolForgetRaises(s, p)
        PROVE  call'[s] = NoCall
    BY <2>6 DEF ToolForgets, ToolForgetRaises, Forget, ForgetRaises
  <2>7. ASSUME \/ \E p \in Path : IngestEdit(p)
               \/ \E s \in Session : Drain(s) \/ OtherTool(s) \/ EntryRaises(s)
               \/ \E s \in Session : \E p \in Scope[s] : BuiltinRead(s, p)
               \/ UNCHANGED allVars
        PROVE  row' = row /\ call' = call
    BY <2>7 DEF IngestEdit, Edit, Drain, OtherTool, EntryRaises, BuiltinRead,
                vars, allVars
  <2>8. QED
    BY <2>1, <2>2, <2>3, <2>4, <2>5, <2>6, <2>7 DEF IngestNext
<1>3. QED
  BY <1>1, <1>2, IngestTypeCorrect, PTL DEF IngestSpec

\* Ingest, built-in reads and failed calls are all that parts the row of a seen
\* file from what the agent has.
THEOREM OnlyIngestStrays ==
  ASSUME OneSession
  PROVE  IngestSpec => []StrayedOnlyByIngest
<1>1. IngestInit => StrayedOnlyByIngest
  BY DEF IngestInit, Init, StrayedOnlyByIngest
<1>2. IngestTypeOK /\ LookupStaysTrue /\ StrayedOnlyByIngest
        /\ [IngestNext]_allVars => StrayedOnlyByIngest'
  <2> SUFFICES ASSUME IngestTypeOK, LookupStaysTrue, StrayedOnlyByIngest,
                      [IngestNext]_allVars
               PROVE  StrayedOnlyByIngest'
    OBVIOUS
  <2> USE DEF IngestTypeOK, TypeOK, Call, StrayedOnlyByIngest
  <2>1. CASE UNCHANGED <<row, view, session_seen, strayed, erred>>
    BY <2>1
  <2>2. ASSUME NEW s \in Session, ToolAnswers(s)
        PROVE  StrayedOnlyByIngest'
    <3> DEFINE p == call[s].path
    <3>0. p \in Path /\ call[s].content \in Content
      BY <2>2 DEF ToolAnswers
    <3>1. /\ p \in Path /\ call[s].content \in Content
          /\ row' = [row EXCEPT ![p] = call[s].content]
          /\ view' = [view EXCEPT ![s][p] = Understood(s)]
          /\ session_seen' = [session_seen EXCEPT ![s] = @ \cup {p}]
      BY <2>2, <3>0 DEF ToolAnswers, Answer, Save, MarkSeen
    <3>2. CASE AnswersInFull(s)
      <4>1. Understood(s) = call[s].content
        BY <3>2 DEF Understood
      <4>2. /\ erred' = [erred EXCEPT ![s] = @ \ {p}]
            /\ strayed' = [strayed EXCEPT ![s] = @ \ {p}]
        BY <2>2, <3>2 DEF ToolAnswers, Answer
      <4>3. QED
        BY <3>1, <4>1, <4>2 DEF OneSession
    <3>3. CASE ~AnswersInFull(s)
      <4>1. erred' = erred /\ strayed' = strayed
        BY <2>2, <3>3 DEF ToolAnswers, Answer
      <4>2. p \in session_seen[s] /\ call[s].cached = row[p]
        BY <2>2, <3>3 DEF ToolAnswers, Answer, AnswersInFull, LookupStaysTrue
      <4>3. p \notin strayed[s] \cup erred[s] => Understood(s) = call[s].content
        BY <3>3, <4>2 DEF Understood
      <4>4. QED
        BY <3>1, <4>1, <4>2, <4>3 DEF OneSession
    <3>4. QED
      BY <3>2, <3>3
  <2>3. ASSUME NEW s \in Session, IngestAnswers(s)
        PROVE  StrayedOnlyByIngest'
    BY <2>3 DEF IngestAnswers, Answer, Save, MarkSeen, OneSession
  <2>4. ASSUME NEW s \in Session, ReadRaises(s)
        PROVE  StrayedOnlyByIngest'
    BY <2>4 DEF ReadRaises, CallEnds, SaveRaises, LogRaises, Save, MarkSeen,
                OneSession
  <2>5. ASSUME NEW s \in Session, ServerRestarts(s)
        PROVE  StrayedOnlyByIngest'
    BY <2>5 DEF ServerRestarts, Restart, OneSession
  <2>6. ASSUME NEW s \in Session, NEW p \in Scope[s], BuiltinRead(s, p)
        PROVE  StrayedOnlyByIngest'
    BY <2>6 DEF BuiltinRead, OneSession
  <2>7. ASSUME NEW s \in Session, NEW p \in Scope[s], ToolForgets(s, p)
        PROVE  StrayedOnlyByIngest'
    BY <2>7 DEF ToolForgets, Forget, OneSession
  <2>8. ASSUME NEW s \in Session, NEW p \in Scope[s], ToolForgetRaises(s, p)
        PROVE  StrayedOnlyByIngest'
    BY <2>8 DEF ToolForgetRaises, ForgetRaises, CallEnds, OneSession
  <2>9. ASSUME \/ \E p \in Path : IngestEdit(p)
               \/ \E s \in Session :
                    \/ Drain(s) \/ OtherTool(s) \/ EntryRaises(s)
                    \/ IngestLookup(s)
               \/ \E s \in Session, p \in Path : IngestEntry(s, p)
               \/ \E s \in Session : \E p \in Scope[s] : ToolReads(s, p)
               \/ UNCHANGED allVars
        PROVE  UNCHANGED <<row, view, session_seen, strayed, erred>>
    BY <2>9 DEF IngestEdit, Edit, Drain, OtherTool, EntryRaises, CallEnds,
                IngestLookup, Lookup, IngestEntry, ReadText, ToolReads,
                vars, ingestVars, queueVars, allVars
  <2>10. QED
    BY <2>1, <2>2, <2>3, <2>4, <2>5, <2>6, <2>7, <2>8, <2>9 DEF IngestNext
<1>3. QED
  BY <1>1, <1>2, IngestTypeCorrect, RowStays, PTL DEF IngestSpec

\* What oracle_read owes an agent that also reads by other means: an answer about
\* a file that neither a built-in read, an ingested entry nor a failed call has
\* come between leaves it with the text the file had when it was read.
ToolAnswersAreCurrent ==
  [][\A s \in Session :
       ToolAnswers(s) /\ call[s].path \notin strayed'[s] \cup erred'[s]
         => view'[s][call[s].path] = call[s].content]_allVars

\* With one process, passive ingest makes no answer wrong but about the files it
\* ingested since their last full answer.
THEOREM IngestSparesOtherAnswers ==
  ASSUME OneSession
  PROVE  IngestSpec => ToolAnswersAreCurrent
<1>1. IngestTypeOK /\ LookupStaysTrue /\ StrayedOnlyByIngest /\ [IngestNext]_allVars =>
        [\A s \in Session :
           ToolAnswers(s) /\ call[s].path \notin strayed'[s] \cup erred'[s]
             => view'[s][call[s].path] = call[s].content]_allVars
  <2> SUFFICES ASSUME IngestTypeOK, LookupStaysTrue, StrayedOnlyByIngest,
                      NEW s \in Session, ToolAnswers(s),
                      call[s].path \notin strayed'[s] \cup erred'[s]
               PROVE  view'[s][call[s].path] = call[s].content
    OBVIOUS
  <2>1. call[s].path \in Path
    BY DEF ToolAnswers, IngestTypeOK, TypeOK, Call
  <2>2. view'[s][call[s].path] = Understood(s)
    BY <2>1 DEF ToolAnswers, Answer, IngestTypeOK, TypeOK
  <2>3. CASE AnswersInFull(s)
    BY <2>2, <2>3 DEF Understood
  <2>4. CASE ~AnswersInFull(s)
    <3>1. call[s].path \in session_seen[s] \ (strayed[s] \cup erred[s])
      BY <2>4 DEF ToolAnswers, Answer, AnswersInFull
    <3>2. call[s].cached = view[s][call[s].path]
      BY <3>1 DEF ToolAnswers, Answer, LookupStaysTrue, StrayedOnlyByIngest
    <3>3. QED
      BY <2>2, <2>4, <3>2 DEF Understood
  <2>5. QED
    BY <2>3, <2>4
<1>2. QED
  BY <1>1, IngestTypeCorrect, RowStays, OnlyIngestStrays,
     PTL DEF IngestSpec, ToolAnswersAreCurrent

\* A path is marked as seen for an answer the agent had, for an entry, or by a call
\* that failed.
SeenHasReasons ==
  \A s \in Session : session_seen[s] \subseteq told[s] \cup strayed[s] \cup erred[s]

LEMMA SeenKeepsReasons == IngestSpec => []SeenHasReasons
<1> USE DEF SeenHasReasons
<1>1. IngestInit => SeenHasReasons
  BY DEF IngestInit, Init
<1>2. IngestTypeOK /\ SeenHasReasons /\ [IngestNext]_allVars => SeenHasReasons'
  <2> SUFFICES ASSUME IngestTypeOK, SeenHasReasons, [IngestNext]_allVars
               PROVE  SeenHasReasons'
    OBVIOUS
  <2>0. /\ session_seen \in [Session -> SUBSET Path] /\ told \in [Session -> SUBSET Path]
        /\ strayed \in [Session -> SUBSET Path] /\ erred \in [Session -> SUBSET Path]
    BY DEF IngestTypeOK, TypeOK
  <2>1. CASE UNCHANGED <<session_seen, told, strayed, erred>>
    BY <2>1
  <2>2. ASSUME NEW s \in Session, ToolAnswers(s)
        PROVE  SeenHasReasons'
    <3>1. /\ session_seen' = [session_seen EXCEPT ![s] = @ \cup {call[s].path}]
          /\ told' = [told EXCEPT ![s] = @ \cup {call[s].path}]
          /\ strayed' \in {strayed, [strayed EXCEPT ![s] = @ \ {call[s].path}]}
          /\ erred' \in {erred, [erred EXCEPT ![s] = @ \ {call[s].path}]}
      BY <2>2 DEF ToolAnswers, Answer, MarkSeen
    <3>2. QED
      BY <2>0, <3>1
  <2>3. ASSUME NEW s \in Session, IngestAnswers(s)
        PROVE  SeenHasReasons'
    BY <2>0, <2>3 DEF IngestAnswers, Answer, MarkSeen
  <2>4. ASSUME NEW s \in Session, ReadRaises(s)
        PROVE  SeenHasReasons'
    BY <2>0, <2>4 DEF ReadRaises, CallEnds, SaveRaises, LogRaises, MarkSeen
  <2>5. ASSUME NEW s \in Session, ServerRestarts(s)
        PROVE  SeenHasReasons'
    BY <2>0, <2>5 DEF ServerRestarts, Restart
  <2>6. ASSUME NEW s \in Session, NEW p \in Scope[s], BuiltinRead(s, p)
        PROVE  SeenHasReasons'
    BY <2>0, <2>6 DEF BuiltinRead
  <2>7. ASSUME NEW s \in Session, NEW p \in Scope[s], ToolForgets(s, p)
        PROVE  SeenHasReasons'
    BY <2>0, <2>7 DEF ToolForgets, Forget
  <2>8. ASSUME NEW s \in Session, NEW p \in Scope[s], ToolForgetRaises(s, p)
        PROVE  SeenHasReasons'
    BY <2>0, <2>8 DEF ToolForgetRaises, ForgetRaises, CallEnds
  <2>9. ASSUME \/ \E p \in Path : IngestEdit(p)
               \/ \E s \in Session :
                    \/ Drain(s) \/ OtherTool(s) \/ EntryRaises(s)
                    \/ IngestLookup(s)
               \/ \E s \in Session, p \in Path : IngestEntry(s, p)
               \/ \E s \in Session : \E p \in Scope[s] : ToolReads(s, p)
               \/ UNCHANGED allVars
        PROVE  UNCHANGED <<session_seen, told, strayed, erred>>
    BY <2>9 DEF IngestEdit, Edit, Drain, OtherTool, EntryRaises, CallEnds,
                IngestLookup, Lookup, IngestEntry, ReadText, ToolReads,
                vars, ingestVars, queueVars, allVars
  <2>10. QED
    BY <2>1, <2>2, <2>3, <2>4, <2>5, <2>6, <2>7, <2>8, <2>9 DEF IngestNext
<1>3. QED
  BY <1>1, <1>2, IngestTypeCorrect, PTL DEF IngestSpec

\* What is left of FirstReadIsFull: a first answer is not in full only about a file
\* that was ingested, or for which a call has failed.
FirstReadIsFullUnlessStrayed ==
  [][\A s \in Session :
       ToolAnswers(s) /\ call[s].path \notin told[s] \cup strayed[s] \cup erred[s]
         => AnswersInFull(s)]_allVars

\* README.md:65 and :123 of the oracle package hold but for ingest and failed calls,
\* for any number of processes over one table.
THEOREM OnlyIngestHidesFirstRead == IngestSpec => FirstReadIsFullUnlessStrayed
<1>1. SeenHasReasons /\ [IngestNext]_allVars =>
        [\A s \in Session :
           ToolAnswers(s) /\ call[s].path \notin told[s] \cup strayed[s] \cup erred[s]
             => AnswersInFull(s)]_allVars
  BY DEF SeenHasReasons, AnswersInFull
<1>2. QED
  BY <1>1, SeenKeepsReasons, PTL DEF IngestSpec, FirstReadIsFullUnlessStrayed
=============================================================================
