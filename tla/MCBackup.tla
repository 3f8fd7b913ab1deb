------------------------------ MODULE MCBackup ------------------------------
(***************************************************************************)
(* Instances of Backup for TLC: files of one or two chunks, containers     *)
(* that hold two chunks at most.                                           *)
(***************************************************************************)
EXTENDS Backup, TLC

CONSTANTS c1, c2, c3

TwoChunks == {c1, c2}
ThreeChunks == {c1, c2, c3}
MCByte == {0, 128} \cup 1 .. 7
MCContent2 == (c1 :> <<1, 2>>) @@ (c2 :> <<3, 4, 5>>)
MCContent3 == (c1 :> <<1, 2>>) @@ (c2 :> <<3, 4>>) @@ (c3 :> <<5, 6, 7>>)

(* Chunks that fill a container of four bytes each, of bytes that no other *)
(* chunk has: nothing tells them apart.                                    *)
OwnByte == (TwoChunks \X {1, 2}) \cup {NUL, X80}
OwnContent == [c \in TwoChunks |-> <<<<c, 1>>, <<c, 2>>>>]
ChunkSymmetry == Permutations(TwoChunks)

(* With a chunk that has a zero byte, and with one of a single byte.       *)
ZeroContent == (c1 :> <<1, 2>>) @@ (c2 :> <<0, 3, 4>>)
ShortContent == (c1 :> <<1, 2>>) @@ (c2 :> <<3>>)
ShortContent3 == MCContent2 @@ (c3 :> <<6>>)
=============================================================================
