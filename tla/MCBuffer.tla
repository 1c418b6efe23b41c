------------------------------- MODULE MCBuffer -------------------------------
(* Model-checking instance of Buffer: chunks of 2 bytes, two byte values, *)
(* up to 4 bytes written, so that data spans three chunks, a partial send *)
(* splits a chunk and a message can straddle a chunk boundary.           *)
EXTENDS Buffer

MCBytes == {0, 1}
MCCap == 2
MCChunkMax == 2
MCMaxIn == 4
MCMaxAppend == 3
MCFramerLens == {1, 2, 3}
====
