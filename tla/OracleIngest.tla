----------------------------- MODULE OracleIngest -----------------------------
(***************************************************************************)
(* The file cache fed by passive ingest (ingest.py, ingest_bridge.py).     *)
(*                                                                         *)
(* A hook writes a queue file for every built-in Read of any session; the  *)
(* first tool call of any server process takes the whole queue and runs    *)
(* smart_read on every path in it before the tool itself.  The response of *)
(* that smart_read reaches no agent, but its other effects are those of    *)
(* FileCache: the row is written and the path marked as seen.              *)
(*                                                                         *)
(* The queue is a set of paths, since a second entry for a path that is    *)
(* being ingested adds nothing to the cache.  Whose entry it is, what it   *)
(* logs, and how several processes share the directory, is the matter of   *)
(* OracleServer; what can become of an entry there, loss included, is a    *)
(* step here.                                                              *)
(***************************************************************************)
EXTENDS FileCache

VARIABLES
  queue,   \* entries the hooks have written, or are about to write, in the
           \* background, to a directory all processes share
  batch,   \* per session: entries taken from the queue, not yet processed
  busy,    \* per session: inside a tool call
  told,    \* ghost: files oracle_read has answered since start or forget
  strayed  \* ghost: files the agent's own reads or ingest may have moved away
           \* from the row since oracle_read last returned them in full

queueVars == <<queue, batch>>
ingestVars == <<queue, batch, busy, told, strayed>>
allVars == <<disk, row, session_seen, call, view, erred,
             queue, batch, busy, told, strayed>>

IngestInit ==
  /\ Init
  /\ queue = {}
  /\ batch = [s \in Session |-> {}]
  /\ busy = [s \in Session |-> FALSE]
  /\ told = [s \in Session |-> {}]
  /\ strayed = [s \in Session |-> {}]

IngestEdit(p) == Edit(p) /\ UNCHANGED ingestVars

\* The agent reads a file with the built-in tool; the hook, started after it,
\* writes its entry in the background.
BuiltinRead(s, p) ==
  /\ ~busy[s]
  /\ disk[p] # Unreadable
  /\ view' = [view EXCEPT ![s][p] = disk[p]]
  /\ queue' = queue \cup {p}
  /\ strayed' = [strayed EXCEPT ![s] = @ \cup {p}]
  /\ UNCHANGED <<disk, row, session_seen, call, erred, batch, busy, told>>

\* _before_tool: every tool call starts by taking the whole queue.  A file that is
\* not there yet, or whose unlink fails, stays for a later call; one that is not
\* whole, that cannot be read, or that another process takes, is lost to this one.
Drain(s) ==
  /\ ~busy[s]
  /\ busy' = [busy EXCEPT ![s] = TRUE]
  /\ \E stays \in SUBSET queue, whole \in SUBSET queue :
       /\ queue' = stays
       /\ batch' = [batch EXCEPT ![s] = whole]
  /\ UNCHANGED <<vars, told, strayed>>

\* process_ingest takes up an entry: a readable file goes through smart_read,
\* for any other there is nothing to do.
IngestEntry(s, p) ==
  /\ busy[s]
  /\ p \in batch[s]
  /\ \/ ReadText(s, p, "ingest")
     \/ call[s] = NoCall /\ disk[p] = Unreadable /\ UNCHANGED vars
  /\ batch' = [batch EXCEPT ![s] = @ \ {p}]
  /\ UNCHANGED <<queue, busy, told, strayed>>

\* What an exception in process_ingest, or in the tool, leaves: the rest of the
\* batch is lost, its files being deleted, and the agent gets the error.
CallEnds(s) ==
  /\ busy' = [busy EXCEPT ![s] = FALSE]
  /\ batch' = [batch EXCEPT ![s] = {}]
  /\ UNCHANGED <<queue, told, strayed>>

\* The write of an entry's log row raises, before its smart_read.
EntryRaises(s) ==
  /\ StoreFails
  /\ batch[s] # {}
  /\ call[s] = NoCall
  /\ CallEnds(s)
  /\ UNCHANGED vars

\* smart_read raises, for an entry or for the tool.
ReadRaises(s) ==
  /\ SaveRaises(s) \/ LogRaises(s)
  /\ CallEnds(s)

\* The tool itself runs once the batch is done.
ToolMayRun(s) == busy[s] /\ batch[s] = {} /\ call[s] = NoCall

ToolReads(s, p) ==
  /\ ToolMayRun(s)
  /\ ReadText(s, p, "tool")
  /\ UNCHANGED ingestVars

ToolForgets(s, p) ==
  /\ ToolMayRun(s)
  /\ Forget(s, p)
  /\ busy' = [busy EXCEPT ![s] = FALSE]
  /\ told' = [told EXCEPT ![s] = @ \ {p}]
  /\ strayed' = [strayed EXCEPT ![s] = @ \ {p}]
  /\ UNCHANGED queueVars

ToolForgetRaises(s, p) ==
  /\ ToolMayRun(s)
  /\ ForgetRaises(s, p)
  /\ CallEnds(s)

\* Any other tool, and a read of an unreadable file.
OtherTool(s) ==
  /\ ToolMayRun(s)
  /\ busy' = [busy EXCEPT ![s] = FALSE]
  /\ UNCHANGED <<vars, queueVars, told, strayed>>

IngestLookup(s) == Lookup(s) /\ UNCHANGED ingestVars

ToolAnswers(s) ==
  /\ call[s] # NoCall /\ call[s].by = "tool"
  /\ Answer(s)
  /\ busy' = [busy EXCEPT ![s] = FALSE]
  /\ told' = [told EXCEPT ![s] = @ \cup {call[s].path}]
  /\ strayed' = IF AnswersInFull(s)
                  THEN [strayed EXCEPT ![s] = @ \ {call[s].path}]
                  ELSE strayed
  /\ UNCHANGED queueVars

IngestAnswers(s) ==
  /\ call[s] # NoCall /\ call[s].by = "ingest"
  /\ Answer(s)
  /\ strayed' = [strayed EXCEPT ![s] = @ \cup {call[s].path}]
  /\ UNCHANGED <<queue, batch, busy, told>>

\* A server that ends takes the entries of its batch with it.
ServerRestarts(s) ==
  /\ Restart(s)
  /\ batch' = [batch EXCEPT ![s] = {}]
  /\ busy' = [busy EXCEPT ![s] = FALSE]
  /\ told' = [told EXCEPT ![s] = {}]
  /\ strayed' = [strayed EXCEPT ![s] = {}]
  /\ UNCHANGED queue

IngestNext ==
  \/ \E p \in Path : IngestEdit(p)
  \/ \E s \in Session :
       \/ Drain(s)
       \/ OtherTool(s)
       \/ IngestLookup(s)
       \/ ToolAnswers(s)
       \/ IngestAnswers(s)
       \/ EntryRaises(s)
       \/ ReadRaises(s)
       \/ ServerRestarts(s)
  \/ \E s \in Session, p \in Path : IngestEntry(s, p)
  \/ \E s \in Session : \E p \in Scope[s] :
       BuiltinRead(s, p) \/ ToolReads(s, p) \/ ToolForgets(s, p)
         \/ ToolForgetRaises(s, p)

IngestSpec == IngestInit /\ [][IngestNext]_allVars

-----------------------------------------------------------------------------
IngestTypeOK ==
  /\ TypeOK
  /\ queue \subseteq Path
  /\ batch \in [Session -> SUBSET Path]
  /\ busy \in [Session -> BOOLEAN]
  /\ told \in [Session -> SUBSET Path]
  /\ strayed \in [Session -> SUBSET Path]

\* Ingest interferes with nothing else: a seen file for which the agent used
\* neither the built-in Read, nor had an entry ingested, since oracle_read last
\* returned it in full still has the agent's text in its row, unless a call for
\* it has failed.
StrayedOnlyByIngest ==
  \A s \in Session : \A p \in session_seen[s] \ (strayed[s] \cup erred[s]) :
    row[p] = view[s][p]

\* README.md:65 of the oracle package, "First read of a file in a session:
\* Always returns full content", and :123, "The next oracle_read returns full
\* content": a file this server has not answered since it started or was told
\* to forget it is answered in full.
FirstReadIsFull ==
  [][\A s \in Session :
       (ToolAnswers(s) /\ call[s].path \notin told[s]) => AnswersInFull(s)]_allVars
=============================================================================
