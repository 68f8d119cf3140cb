------------------------------ MODULE FileCache ------------------------------
(***************************************************************************)
(* The file cache of the oracle server (cache/file_cache.py) over its      *)
(* SQLite table (storage/store.py).                                        *)
(*                                                                         *)
(* Every agent session has a server process of its own.  The processes of  *)
(* one project share the table, the set _session_seen is private to each,  *)
(* and the files belong to everybody.  A process handles one tool call at  *)
(* a time, but smart_read reads the file, reads the table and writes the   *)
(* table in three separate steps, between which files change and the other *)
(* processes take theirs.                                                  *)
(*                                                                         *)
(* A file's text is a model value; a hash is equal when the text is.  A    *)
(* file that is missing, too large, not UTF-8 or not permitted is          *)
(* Unreadable: each of these returns an error before any state changes.    *)
(***************************************************************************)
EXTENDS FiniteSets

CONSTANTS Session, Path, Content,
          Scope,       \* Scope[s]: the files session s works with
          StoreFails,  \* whether SQLite may refuse a write (busy, disk full)
          Unreadable, NoRow, Nothing, Garbled, NoCall

ASSUME NoneAssumption ==
  /\ Unreadable \notin Content
  /\ NoRow \notin Content
  /\ Nothing \notin Content
  /\ Garbled \notin Content
  /\ Garbled # Nothing
ASSUME ScopeAssumption == Scope \in [Session -> SUBSET Path]
ASSUME StoreAssumption == StoreFails \in BOOLEAN

VARIABLES
  disk,          \* the files
  row,           \* file_cache: the text stored for a path, or NoRow
  session_seen,  \* _session_seen, per session
  call,          \* the smart_read in progress in a session's process
  view,          \* ghost: what a session's agent takes a file's text to be
  erred          \* ghost: files for which a call of the session has failed
                 \* since its last full answer

vars == <<disk, row, session_seen, call, view, erred>>

\* A smart_read between its steps: who asked for it, the text read from the
\* file, and the row found, once looked up.
Call == [path : Path, by : {"tool", "ingest"}, st : {"read", "looked"},
         content : Content, cached : Content \cup {NoRow}] \cup {NoCall}
ASSUME CallAssumption ==
  /\ NoCall \notin [path : Path, by : {"tool", "ingest"}, st : {"read", "looked"},
                    content : Content, cached : Content \cup {NoRow}]
  /\ NoCall \notin [path : Path, content : Content]

\* The table survives from earlier sessions; _session_seen does not.
Init ==
  /\ disk \in [Path -> Content \cup {Unreadable}]
  /\ row \in [Path -> Content \cup {NoRow}]
  /\ session_seen = [s \in Session |-> {}]
  /\ call = [s \in Session |-> NoCall]
  /\ view = [s \in Session |-> [p \in Path |-> Nothing]]
  /\ erred = [s \in Session |-> {}]

\* Agents, editors and tools change files at any time.
Edit(p) ==
  /\ \E new \in Content \cup {Unreadable} : disk' = [disk EXCEPT ![p] = new]
  /\ UNCHANGED <<row, session_seen, call, view, erred>>

\* Mutant of ReadText: the error of an unreadable file is cached as its text.
ReadTextOrError(s, p, by) ==
  /\ call[s] = NoCall
  /\ call' = [call EXCEPT ![s] = [path |-> p, by |-> by, st |-> "read",
                                  content |-> disk[p], cached |-> NoRow]]
  /\ UNCHANGED <<disk, row, session_seen, view, erred>>

\* smart_read up to read_text: an unreadable file ends it with an error.
ReadText(s, p, by) ==
  /\ call[s] = NoCall
  /\ disk[p] # Unreadable
  /\ call' = [call EXCEPT ![s] = [path |-> p, by |-> by, st |-> "read",
                                  content |-> disk[p], cached |-> NoRow]]
  /\ UNCHANGED <<disk, row, session_seen, view, erred>>

\* get_file_cache
Lookup(s) ==
  /\ call[s] # NoCall
  /\ call[s].st = "read"
  /\ call' = [call EXCEPT ![s] = [@ EXCEPT !.st = "looked",
                                           !.cached = row[call[s].path]]]
  /\ UNCHANGED <<disk, row, session_seen, view, erred>>

\* Mutant of AnswersInFull: the session's first read is not told apart.
AnswersInFullOnMiss(s) == call[s].cached = NoRow

\* Full content goes out on a miss and on the first read of the session.
AnswersInFull(s) ==
  \/ call[s].cached = NoRow
  \/ call[s].path \notin session_seen[s]

\* What an answer leaves the agent with: the full text; what it had, if the
\* answer is "No changes"; what it had with a delta from the cached text to
\* the new one applied, which is only sound on top of the cached text.
Understood(s) ==
  LET c == call[s]
      had == view[s][c.path]
  IN IF AnswersInFull(s) THEN c.content
     ELSE IF c.cached = c.content THEN had
     ELSE IF had = c.cached THEN c.content ELSE Garbled

\* upsert_file_cache with the text read, whatever branch was taken.
Save(s) == row' = [row EXCEPT ![call[s].path] = call[s].content]

\* Mutant of MarkSeen: keeps the set per project instead of per session.
MarkSeenForAll(s) ==
  session_seen' = [t \in Session |-> session_seen[t] \cup {call[s].path}]

MarkSeen(s) ==
  session_seen' = [session_seen EXCEPT ![s] = @ \cup {call[s].path}]

\* The row is written, the path marked, and the caller gets the response.  A
\* tool call hands it to the agent; ingest drops it.
Answer(s) ==
  /\ call[s] # NoCall
  /\ call[s].st = "looked"
  /\ Save(s)
  /\ MarkSeen(s)
  /\ view' = IF call[s].by = "tool"
               THEN [view EXCEPT ![s][call[s].path] = Understood(s)]
               ELSE view
  /\ erred' = IF call[s].by = "tool" /\ AnswersInFull(s)
                THEN [erred EXCEPT ![s] = @ \ {call[s].path}]
                ELSE erred
  /\ call' = [call EXCEPT ![s] = NoCall]
  /\ UNCHANGED disk

\* upsert_file_cache raises, on its INSERT or on its commit, which leaves the
\* row for the connection's next commit: the agent gets an error.
SaveRaises(s) ==
  /\ StoreFails
  /\ call[s] # NoCall
  /\ call[s].st = "looked"
  /\ UNCHANGED row \/ Save(s)
  /\ erred' = [erred EXCEPT ![s] = @ \cup {call[s].path}]
  /\ call' = [call EXCEPT ![s] = NoCall]
  /\ UNCHANGED <<disk, session_seen, view>>

\* log_interaction raises after smart_read has returned (server.py:103): the
\* agent gets an error in place of the response.
LogRaises(s) ==
  /\ StoreFails
  /\ call[s] # NoCall
  /\ call[s].st = "looked"
  /\ call[s].by = "tool"
  /\ Save(s)
  /\ MarkSeen(s)
  /\ erred' = [erred EXCEPT ![s] = @ \cup {call[s].path}]
  /\ call' = [call EXCEPT ![s] = NoCall]
  /\ UNCHANGED <<disk, view>>

\* Mutant of Forget: tool calls of one process overlap, as they would if they
\* ran in threads.
ForgetDuringCall(s, p) ==
  /\ row' = [row EXCEPT ![p] = NoRow]
  /\ session_seen' = [session_seen EXCEPT ![s] = @ \ {p}]
  /\ view' = [view EXCEPT ![s][p] = Nothing]
  /\ erred' = [erred EXCEPT ![s] = @ \ {p}]
  /\ UNCHANGED <<disk, call>>

\* oracle_forget: the agent wants the whole text again.
Forget(s, p) ==
  /\ call[s] = NoCall
  /\ row' = [row EXCEPT ![p] = NoRow]
  /\ session_seen' = [session_seen EXCEPT ![s] = @ \ {p}]
  /\ view' = [view EXCEPT ![s][p] = Nothing]
  /\ erred' = [erred EXCEPT ![s] = @ \ {p}]
  /\ UNCHANGED <<disk, call>>

\* delete_file_cache raises, and _session_seen keeps the path; or the write of
\* the log row does (server.py:212), when both have been changed.
ForgetRaises(s, p) ==
  /\ StoreFails
  /\ call[s] = NoCall
  /\ \/ row' \in {row, [row EXCEPT ![p] = NoRow]} /\ UNCHANGED session_seen
     \/ /\ row' = [row EXCEPT ![p] = NoRow]
        /\ session_seen' = [session_seen EXCEPT ![s] = @ \ {p}]
  /\ erred' = [erred EXCEPT ![s] = @ \cup {p}]
  /\ UNCHANGED <<disk, call, view>>

\* Mutant of Restart: _session_seen is restored from the table.
RestartFromTable(s) ==
  /\ session_seen' = [session_seen EXCEPT ![s] = {p \in Path : row[p] # NoRow}]
  /\ call' = [call EXCEPT ![s] = NoCall]
  /\ \/ UNCHANGED row
     \/ call[s] # NoCall /\ call[s].st = "looked" /\ Save(s)
  /\ UNCHANGED <<disk, view, erred>>

\* A session's process ends, at any step, after the row was written or before,
\* and is started again for the same agent.
Restart(s) ==
  /\ session_seen' = [session_seen EXCEPT ![s] = {}]
  /\ call' = [call EXCEPT ![s] = NoCall]
  /\ \/ UNCHANGED row
     \/ call[s] # NoCall /\ call[s].st = "looked" /\ Save(s)
  /\ UNCHANGED <<disk, view, erred>>

\* The steps of a smart_read in progress.
Step(s) == Lookup(s) \/ Answer(s) \/ SaveRaises(s) \/ LogRaises(s)

Next ==
  \/ \E p \in Path : Edit(p)
  \/ \E s \in Session : Step(s) \/ Restart(s)
  \/ \E s \in Session : \E p \in Scope[s] :
       ReadText(s, p, "tool") \/ Forget(s, p) \/ ForgetRaises(s, p)

Spec == Init /\ [][Next]_vars

-----------------------------------------------------------------------------
TypeOK ==
  /\ disk \in [Path -> Content \cup {Unreadable}]
  /\ row \in [Path -> Content \cup {NoRow}]
  /\ session_seen \in [Session -> SUBSET Path]
  /\ call \in [Session -> Call]
  /\ view \in [Session -> [Path -> Content \cup {Nothing, Garbled}]]
  /\ erred \in [Session -> SUBSET Path]

\* No two sessions work on the same file: one session, or one per project.
ScopesAreDisjoint == \A s, t \in Session : s # t => Scope[s] \cap Scope[t] = {}

\* A path is in _session_seen only once its text, or a delta, has reached the
\* agent, or a call for it has failed: also with the table, the files and the
\* path shared by any sessions.
SeenMeansTold ==
  \A s \in Session : \A p \in session_seen[s] \ erred[s] : view[s][p] # Nothing

\* For a file in _session_seen the row is the text the agent has: what makes
\* "No changes" true and a delta applicable.  A call that fails spoils this for
\* its own file only, and no longer than until the next full answer.
RowIsWhatAgentHas ==
  \A s \in Session : \A p \in session_seen[s] \ erred[s] : row[p] = view[s][p]

\* What a session looked up is still in the table when it acts on it.
LookupStaysTrue ==
  \A s \in Session :
    (call[s] # NoCall /\ call[s].st = "looked")
      => call[s].cached = row[call[s].path]

\* What an agent may rely on: nothing about a file for which a call has failed,
\* until a full answer.
Claimed ==
  [s \in Session |-> [p \in Path |-> IF p \in erred[s] THEN Nothing ELSE view[s][p]]]

\* A session with its files to itself is answered as if there were no cache:
\* whatever writes fail, its agent goes wrong on no file it may rely on.
Uncached == INSTANCE UncachedRead WITH
  view <- Claimed,
  asked <- [s \in Session |->
              IF call[s] = NoCall THEN NoCall
              ELSE [path |-> call[s].path, content |-> call[s].content]]

Transparent == Uncached!Spec

\* file_cache.py:89, "Agent already has content in context", and :102, "Agent
\* has old content": after an answer the agent has the text the file had, unless
\* an earlier call for the file has failed and this answer is not in full.
AnswerIsCurrent ==
  [][\A s \in Session :
       Answer(s) /\ call[s].path \notin erred'[s]
         => view'[s][call[s].path] = call[s].content]_vars
=============================================================================
