----------------------------- MODULE EditTimeline -----------------------------
(***************************************************************************)
(* What undo and redo promise the person who edits: a line of earlier      *)
(* texts, each with the carets it was left with, and a line of undone      *)
(* ones.  An edit ends the undone ones; it may join the newest step of the *)
(* past, and the oldest steps may be forgotten.  EditorDocument implements *)
(* it without keeping a single earlier text.                               *)
(***************************************************************************)
EXTENDS SequencesExt

CONSTANT Chars

VARIABLES
  text, carets,  \* what is shown
  past,          \* earlier texts and their carets, newest last
  future         \* undone texts, the next one last, each with the carets to return to

vars == <<text, carets, past, future>>

Init ==
  /\ text \in Seq(Chars)
  /\ past = <<>>
  /\ future = <<>>

Move == UNCHANGED <<text, past, future>>

\* The newest step of the past is the text before the edit, or the edit joins the one that
\* is; the oldest steps may be gone.
Edit ==
  /\ text' \in Seq(Chars)
  /\ future' = <<>>
  /\ past' # <<>>
  /\ \/ IsSuffix(past', Append(past, [text |-> text, carets |-> carets]))
     \/ IsSuffix(past', past)

Undo ==
  /\ past = Append(past', [text |-> text', carets |-> carets'])
  /\ future' = Append(future, [text |-> text, before |-> carets'])

Redo ==
  /\ future # <<>>
  /\ LET next == Last(future)
     IN /\ text' = next.text
        /\ past' = Append(past, [text |-> text, carets |-> next.before])
  /\ future' = Front(future)

Next == Move \/ Edit \/ Undo \/ Redo

Spec == Init /\ [][Next]_vars
=============================================================================
