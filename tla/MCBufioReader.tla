--------------------------- MODULE MCBufioReader ---------------------------
(* A file whose bytes are all different: the reader never looks at one. *)
EXTENDS BufioReader

MCFile == [i \in 1 .. 14 |-> i]
=============================================================================
