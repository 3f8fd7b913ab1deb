----------------------------- MODULE ChunkStore -----------------------------
(***************************************************************************)
(* What the container store promises about chunks whose session was        *)
(* closed: on disk it is a map from chunks to bytes that is written once   *)
(* per chunk.  A close adds the chunks of its session, with the bytes that *)
(* were handed in; the death of the process inside a write of a container  *)
(* file or of .StorageConfig may lose some; nothing ever changes the bytes *)
(* of a chunk that is there.                                               *)
(***************************************************************************)
CONSTANTS
    Chunk,
    Image(_)        \* the bytes that stand for a chunk

VARIABLE durable    \* the bytes on disk of each chunk that is safe

(* A session with the chunks S is closed. *)
Commit(S) ==
    durable' = [c \in (DOMAIN durable) \cup S |->
                  IF c \in DOMAIN durable THEN durable[c] ELSE Image(c)]

(* A write that was torn took the chunks S with it. *)
Lose(S) == durable' = [c \in (DOMAIN durable) \ S |-> durable[c]]

ChunkStoreInit == durable = [c \in {} |-> c]

ChunkStoreNext == \E S \in SUBSET Chunk : Commit(S) \/ Lose(S)

ChunkStoreSpec == ChunkStoreInit /\ [][ChunkStoreNext]_durable

=============================================================================
