------------------------------ MODULE LineQueue ------------------------------
(***************************************************************************)
(* What an asynchronous log promises its callers: the lines it accepts    *)
(* form a queue, and the lines handed to the files are that queue, read    *)
(* from the front, each once; a line accepted is eventually handed on.    *)
(***************************************************************************)
EXTENDS Naturals, Sequences, SequencesExt

VARIABLES
  lines,   \* every line accepted, oldest first
  handed   \* the lines handed to their files so far, in order

(* One line joins the end of the queue; nothing accepted before changes. *)
Accept ==
  /\ Len(lines') = Len(lines) + 1
  /\ IsPrefix(lines, lines')
  /\ UNCHANGED handed

(* The oldest line not yet handed on is handed on.                       *)
Hand ==
  /\ Len(handed) < Len(lines)
  /\ handed' = Append(handed, lines[Len(handed) + 1])
  /\ UNCHANGED lines

Init == lines = <<>> /\ handed = <<>>

Spec == Init /\ [][Accept \/ Hand]_<<lines, handed>>
             /\ WF_<<lines, handed>>(Hand)
====
