---------------------------- MODULE CommandCache ----------------------------
(***************************************************************************)
(* The command cache of the oracle server (cache/command_cache.py): one    *)
(* row per command, valid as long as a hash over the modification times of *)
(* the source files stays what it was when the command was started.        *)
(*                                                                         *)
(* The processes of several sessions share the table and the files.  Both  *)
(* the hash and the command take the files one after the other while they  *)
(* change.  An output is the versions it was computed from, a hash the     *)
(* modification times it was taken from, which two equal hashes have in    *)
(* common.  Versions are numbered in the order of the edits that make      *)
(* them, and a modification time is the number of the version that was     *)
(* made at that time.                                                      *)
(*                                                                         *)
(* A command that is not allowed, or that shlex cannot split, changes      *)
(* nothing.                                                                *)
(***************************************************************************)
EXTENDS Integers, FiniteSets

CONSTANTS Session, Command,
          File,          \* the files commands depend on
          Hashed,        \* those _hash_source_files includes
          MaxVersion,    \* bound: versions of a file
          MaySetBack,    \* whether an edit may leave the file an older mtime
          NoRow, NoCall

ASSUME HashedAssumption == Hashed \subseteq File
ASSUME VersionAssumption == MaxVersion \in Nat /\ MaySetBack \in BOOLEAN

Version == 0..MaxVersion

VARIABLES
  version, \* what each file is now
  mtime,   \* its modification time
  rows,    \* command_results: the hash and the output of a command, or NoRow
  call,    \* per session: the run_summarized in progress
  during,  \* ghost: versions each file has had since the call began
  setBack  \* ghost: files that have been edited without getting a new mtime

vars == <<version, mtime, rows, call, during, setBack>>
files == <<version, mtime, setBack>>

\* A file that has not been taken yet has no version.
Taken == Version \cup {-1}
Row == [hash : [Hashed -> Version], output : [File -> Version]]
CallRecord == [command : Command, at : {"hash", "run"},
               hash : [Hashed -> Taken], output : [File -> Taken]]
ASSUME NoneAssumption ==
  /\ NoRow \notin [hash : [Hashed -> Version], output : [File -> Version]]
  /\ NoCall \notin [command : Command, at : {"hash", "run"},
                    hash : [Hashed -> Taken], output : [File -> Taken]]

Init ==
  /\ version = [f \in File |-> 0]
  /\ mtime = [f \in File |-> 0]
  /\ setBack = {}
  /\ rows = [c \in Command |-> NoRow]
  /\ call = [s \in Session |-> NoCall]
  /\ during = [s \in Session |-> [f \in File |-> {}]]

EditTo(f, v, t) ==
  /\ version' = [version EXCEPT ![f] = v]
  /\ mtime' = [mtime EXCEPT ![f] = t]
  /\ during' = [s \in Session |-> [during[s] EXCEPT ![f] = @ \cup {v}]]
  /\ setBack' = IF t = v THEN setBack ELSE setBack \cup {f}
  /\ UNCHANGED <<rows, call>>

\* A file is written and has the time of that as its mtime; or it is written
\* with an older mtime set, as by cp -p, or within the clock's resolution.
Edit(f) ==
  /\ version[f] < MaxVersion
  /\ \/ EditTo(f, version[f] + 1, version[f] + 1)
     \/ MaySetBack /\ \E t \in 0..version[f] : EditTo(f, version[f] + 1, t)

\* run_summarized_with_stats gets an allowed command.
Begin(s, c) ==
  /\ call[s] = NoCall
  /\ call' = [call EXCEPT ![s] =
                [command |-> c, at |-> "hash",
                 hash |-> [f \in Hashed |-> -1], output |-> [f \in File |-> -1]]]
  /\ during' = [during EXCEPT ![s] = [f \in File |-> {version[f]}]]
  /\ UNCHANGED <<files, rows>>

At(s, where) == call[s] # NoCall /\ call[s].at = where

\* _hash_source_files stats the next file.
HashFile(s, f) ==
  /\ At(s, "hash")
  /\ f \in Hashed /\ call[s].hash[f] = -1
  /\ call' = [call EXCEPT ![s].hash[f] = mtime[f]]
  /\ UNCHANGED <<files, rows, during>>

IsHashed(s) == At(s, "hash") /\ \A f \in Hashed : call[s].hash[f] # -1

\* Mutant of Matches: the stored hash is not compared.
MatchesByCommand(s) == rows[call[s].command] # NoRow

Matches(s) ==
  LET row == rows[call[s].command] IN row # NoRow /\ row.hash = call[s].hash

\* A hit: the stored output is returned.
Hit(s) ==
  /\ IsHashed(s)
  /\ Matches(s)
  /\ call' = [call EXCEPT ![s] = NoCall]
  /\ UNCHANGED <<files, rows, during>>

\* A miss: the command is started.
Miss(s) ==
  /\ IsHashed(s)
  /\ ~Matches(s)
  /\ call' = [call EXCEPT ![s].at = "run"]
  /\ UNCHANGED <<files, rows, during>>

\* The command reads a file.
RunFile(s, f) ==
  /\ At(s, "run")
  /\ call[s].output[f] = -1
  /\ call' = [call EXCEPT ![s].output[f] = version[f]]
  /\ UNCHANGED <<files, rows, during>>

HasRun(s) == At(s, "run") /\ \A f \in File : call[s].output[f] # -1

\* Mutant of Save: the output of a command that timed out is stored too.
SavePartial(s) ==
  /\ At(s, "run")
  /\ rows' = [rows EXCEPT ![call[s].command] =
                [hash |-> call[s].hash, output |-> call[s].output]]
  /\ call' = [call EXCEPT ![s] = NoCall]
  /\ UNCHANGED <<files, during>>

\* Mutant of Save: the hash is taken once the command has run.
SaveHashedAfter(s) ==
  /\ HasRun(s)
  /\ rows' = [rows EXCEPT ![call[s].command] =
                [hash |-> [f \in Hashed |-> mtime[f]], output |-> call[s].output]]
  /\ call' = [call EXCEPT ![s] = NoCall]
  /\ UNCHANGED <<files, during>>

\* upsert_command_result, whatever the exit code, with the hash from before
\* the run; the output is returned.
Save(s) ==
  /\ HasRun(s)
  /\ rows' = [rows EXCEPT ![call[s].command] =
                [hash |-> call[s].hash, output |-> call[s].output]]
  /\ call' = [call EXCEPT ![s] = NoCall]
  /\ UNCHANGED <<files, during>>

\* The command times out or cannot be executed, a write is refused, or the
\* process ends: nothing is stored.
Abort(s) ==
  /\ call[s] # NoCall
  /\ call' = [call EXCEPT ![s] = NoCall]
  /\ UNCHANGED <<files, rows, during>>

Next ==
  \/ \E f \in File : Edit(f)
  \/ \E s \in Session :
       \/ \E c \in Command : Begin(s, c)
       \/ \E f \in File : HashFile(s, f) \/ RunFile(s, f)
       \/ Hit(s) \/ Miss(s) \/ Save(s) \/ Abort(s)

Spec == Init /\ [][Next]_vars

-----------------------------------------------------------------------------
TypeOK ==
  /\ version \in [File -> Version]
  /\ mtime \in [File -> Version]
  /\ rows \in [Command -> Row \cup {NoRow}]
  /\ call \in [Session -> CallRecord \cup {NoCall}]
  /\ during \in [Session -> [File -> SUBSET Version]]
  /\ setBack \subseteq File

\* No output is older than the hash it is filed under, in any file: what the
\* order "hash, then run" is for.
OutputNotBeforeHash ==
  \A c \in Command : rows[c] # NoRow =>
    \A f \in Hashed : rows[c].hash[f] <= rows[c].output[f]

FreshIn(s, f) == rows[call[s].command].output[f] \in during[s][f]

\* What the hash is good for: in each file that it includes and whose edits have
\* all given it a new mtime, the output of a hit is of a version the file has
\* had during the call, whoever ran the command, and whatever was edited during
\* that run, during the walk over the files and in between.
HashTellsEdits ==
  [][\A s \in Session : Hit(s) => \A f \in Hashed \ setBack : FreshIn(s, f)]_vars

\* oracle design.md:114, "Cached if inputs unchanged": the output of a hit is
\* what running the command during the call could have given, in every file that
\* the command reads.
HitIsFresh ==
  [][\A s \in Session : Hit(s) => \A f \in File : FreshIn(s, f)]_vars
=============================================================================
