--------------------------- MODULE MCStreamBuffer ---------------------------
(* A stream buffer of three bytes: pieces of up to four bytes over two values. *)
EXTENDS StreamBuffer

MCChunks == UNION {[1 .. n -> Bytes] : n \in {0, 1, 2, 4}}
MCFittingChunks == UNION {[1 .. n -> Bytes] : n \in {1, 2}}
=============================================================================
