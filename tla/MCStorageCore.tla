--------------------------- MODULE MCStorageCore ---------------------------
(***************************************************************************)
(* An instance of StorageCore for TLC.  Three chunks of two or three       *)
(* bytes, of which only zero is in more than one place, and containers of  *)
(* at most four bytes: two chunks may share a container, the third always  *)
(* causes a rotation.  c3 has a zero byte that saveChunk replaces and one  *)
(* that it keeps; c4 is a chunk of a single byte, which kills the process. *)
(* Nothing tells c1 and c2 apart.                                          *)
(***************************************************************************)
EXTENDS StorageCore, TLC

CONSTANTS c1, c2, c3, c4

MCChunk == {c1, c2, c3, c4}
MCByte == (MCChunk \X {1, 2}) \cup {NUL, X80}
MCContent ==
    [c \in {c1, c2} |-> <<<<c, 1>>, <<c, 2>>>>]
        @@ (c3 :> <<NUL, <<c3, 1>>, NUL>>) @@ (c4 :> <<<<c4, 1>>>>)
PairSymmetry == Permutations({c1, c2})
=============================================================================
