------------------------------ MODULE ByteStream ------------------------------
(***************************************************************************)
(* What a send or receive Buffer promises (spec 4.3): an ordered stream of *)
(* pending bytes.  Writers add bytes at the end; a reader takes a prefix,  *)
(* which leaves the stream in the same order it entered ("out").          *)
(***************************************************************************)
EXTENDS Naturals, Sequences, SequencesExt

VARIABLES
  stream,  \* the pending bytes, oldest first
  out      \* every byte taken so far, in the order it was taken

(* Bytes are added at the end; nothing already pending changes.          *)
Put ==
  /\ Len(stream') > Len(stream)
  /\ IsPrefix(stream, stream')
  /\ UNCHANGED out

(* A prefix of n bytes leaves the stream and is appended to out.         *)
Take ==
  \E n \in 1..Len(stream) :
    /\ out' = out \o SubSeq(stream, 1, n)
    /\ stream' = SubSeq(stream, n + 1, Len(stream))

Init == stream = <<>> /\ out = <<>>

Next == Put \/ Take

Spec == Init /\ [][Next]_<<stream, out>>
====
