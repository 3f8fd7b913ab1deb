------------------------------ MODULE Chunking ------------------------------
(***************************************************************************)
(* Chunker::chunking: varSizeChunking (Chunker) or fixSizeChunking         *)
(* (FixedChunker), as ChunkerType says, of one file.                       *)
(***************************************************************************)
EXTENDS Chunker, FixedChunker

VARIABLE ChunkerType    \* "var" or "fix"

(* ChunkerInit takes the sizes of one kind or of the other.                *)
ChunkingInit ==
    /\ ChunkerInit
    /\ FixedInit
    /\ ChunkerType \in {"var", "fix"}
    /\ fileLength = Len(file)
    /\ ChunkerType = "var" => avgChunkSize = AvgSize

ChunkingNext ==
    /\ \/ ChunkerType = "var" /\ ChunkerNext /\ UNCHANGED fvars
       \/ ChunkerType = "fix" /\ FixedNext /\ UNCHANGED cvars
    /\ UNCHANGED ChunkerType

ChunkingSpec == ChunkingInit /\ [][ChunkingNext]_<<cvars, fvars, ChunkerType>>
=============================================================================
