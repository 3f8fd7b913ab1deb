---------------------------- MODULE MCCompressor ----------------------------
(***************************************************************************)
(* Instances of Dector and Compressor for TLC.                             *)
(***************************************************************************)
EXTENDS Compressor, TLC

CONSTANTS
    N,          \* bound: chunks of a version
    Garbage     \* a fingerprint that no chunk has

Cut(v, a, b) == SubSeq(v, 1, a - 1) \o SubSeq(v, b + 1, Len(v))

(* Fingerprints 1 .. N are those of a first version, which may have lost   *)
(* chunks, N + 1 .. 2N those of chunks changed since.  The new version has *)
(* any of its chunks changed, and may have lost some.                      *)
MCFingerprint == 1 .. (2 * N)
MCKnown == {N}
First == [i \in 1 .. N |-> i]
Changed(M) == [i \in 1 .. N |-> IF i \in M THEN N + i ELSE i]
(* Chunks that the search goes back to in the first version.               *)
Returning == <<4, 8>> \o [i \in 1 .. 4 |-> N + i] \o <<7, 9, 10>>

MCOld == {First, Cut(First, 3, 5), <<1, 2, 1, 2>>, <<>>}
MCNew == UNION {{Changed(M), Cut(Changed(M), 2, 4)} : M \in SUBSET (1 .. N)}
            \cup UNION {[1 .. n -> {1, 2, 3, N + 1}] : n \in 0 .. 4}
            \cup {Returning}

MCOldBeyond == {1, Garbage}
MCNewBeyond == {[j \in 1 .. MaxWin |-> Garbage], [j \in 1 .. MaxWin |-> IF j = 2 THEN N ELSE j]}

MCF == [f \in MCFingerprint |-> (f * f) % 7]
MCS == [f \in MCFingerprint |-> f % 5]
MCSimilar == {p \in MCFingerprint \X MCFingerprint : p[1] # 3}
MCEarlier == {<<[hash |-> N, group |-> -1]>>}
=============================================================================
