---------------------------- MODULE UncachedRead ----------------------------
(***************************************************************************)
(* What oracle_read promises: reading a file through it leaves the agent   *)
(* with the same text as reading the file itself, at some moment of the    *)
(* call.  There is no cache here; FileCache is to be indistinguishable     *)
(* from this, however short its answers are.                               *)
(***************************************************************************)
CONSTANTS Session, Path, Content, Unreadable, Nothing, NoCall

VARIABLES disk,                 \* the text of each file, if it can be read
          view,                 \* the text each agent takes each file to have
          asked                 \* per agent: the file it asked for, as it was

vars == <<disk, view, asked>>

Init ==
  /\ disk \in [Path -> Content \cup {Unreadable}]
  /\ view = [s \in Session |-> [p \in Path |-> Nothing]]
  /\ asked = [s \in Session |-> NoCall]

Edit(p) ==
  /\ \E new \in Content \cup {Unreadable} : disk' = [disk EXCEPT ![p] = new]
  /\ UNCHANGED <<view, asked>>

Ask(s, p) ==
  /\ asked[s] = NoCall
  /\ disk[p] # Unreadable
  /\ asked' = [asked EXCEPT ![s] = [path |-> p, content |-> disk[p]]]
  /\ UNCHANGED <<disk, view>>

\* The answer leaves the agent with the text the file had.
Tell(s) ==
  /\ asked[s] # NoCall
  /\ view' = [view EXCEPT ![s][asked[s].path] = asked[s].content]
  /\ asked' = [asked EXCEPT ![s] = NoCall]
  /\ UNCHANGED disk

\* The call fails: the agent makes no claim about the file any more.
Fail(s) ==
  /\ asked[s] # NoCall
  /\ view' = [view EXCEPT ![s][asked[s].path] = Nothing]
  /\ asked' = [asked EXCEPT ![s] = NoCall]
  /\ UNCHANGED disk

\* The server goes away with the question.
Lose(s) ==
  /\ asked' = [asked EXCEPT ![s] = NoCall]
  /\ UNCHANGED <<disk, view>>

\* The agent no longer has the text, and says so.
Drop(s, p) ==
  /\ view' = [view EXCEPT ![s][p] = Nothing]
  /\ UNCHANGED <<disk, asked>>

Next ==
  \/ \E p \in Path : Edit(p)
  \/ \E s \in Session : Tell(s) \/ Fail(s) \/ Lose(s)
  \/ \E s \in Session, p \in Path : Ask(s, p) \/ Drop(s, p)

Spec == Init /\ [][Next]_vars
=============================================================================
