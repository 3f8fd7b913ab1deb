----------------------------- MODULE MCManager -----------------------------
(***************************************************************************)
(* An instance of Manager for TLC: c1 is the base of c2 and c3.  Two       *)
(* chunks fill a container, and a container with a delta is below the      *)
(* limit of rewriteContainer.  The chunk stands for the byte by which it   *)
(* and its delta differ from the others, so that the two chunks that are   *)
(* deltas of c1 can be exchanged.                                          *)
(***************************************************************************)
EXTENDS Manager, TLC

CONSTANTS c1, c2, c3

MCChunk == {c1, c2, c3}
MCByte == MCChunk \cup {NUL, X80}
MCContent == [c \in MCChunk |-> <<c1, c1, c>>]
MCBase == [c \in MCChunk |-> IF c = c1 THEN NoBase ELSE c1]
MCDelta == [c \in MCChunk |-> IF c = c1 THEN <<>> ELSE <<X80, c>>]
DeltaSymmetry == Permutations({c2, c3})
=============================================================================
