----------------------------- MODULE MCChunker -----------------------------
(***************************************************************************)
(* Instances of Chunker and FixedChunker for TLC.                          *)
(***************************************************************************)
EXTENDS Chunking

CONSTANTS
    FileSizes,      \* bound: all files of these sizes
    LongSize        \* bound: and files of one byte repeated so often

(* 2 << 30 as an int, scaled.                                              *)
NegativeMax == -16

SmallFiles == UNION {[1 .. n -> Byte] : n \in FileSizes}
                \cup {[i \in 1 .. LongSize |-> b] : b \in Byte}

SmallLengths == FileSizes \cup {LongSize}
=============================================================================
