---------------------------- MODULE FixedChunker ----------------------------
(***************************************************************************)
(* fixSizeChunking reads the file in blocks and cuts each into chunks of   *)
(* avgChunkSize bytes, which it counts and does not store: only sizes and  *)
(* places matter.                                                          *)
(*                                                                         *)
(* ChunkerInit ends the program in this mode unless the minimum, average   *)
(* and maximum size are one; it only warns if they do not divide ReadSize. *)
(***************************************************************************)
EXTENDS Naturals, Sequences

CONSTANTS
    FixedSizes,         \* the chunk sizes that may be configured
    FixedReadSize,      \* ReadSize
    FixedLengths        \* bound: the sizes of the files considered

ASSUME FixedAssumption ==
    /\ FixedSizes \subseteq Nat \ {0}
    /\ FixedReadSize \in Nat \ {0}
    /\ FixedLengths \subseteq Nat

VARIABLES
    avgChunkSize,       \* minChunkSize and maxChunkSize too
    fileLength,         \* bytes of chunkingFile
    bytesRead,          \* fileSize of fixSizeChunking
    totalReadSize,      \* bytes of the block in waitingForChunkingBuffer
    chunkedSize,        \* bytes of the block that are dealt with
    retSize,            \* bytes left in the last block, as of the chunk before
    fixedChunks,        \* place in the block and logicDataSize of each tempChunk
    fixedStep           \* where fixSizeChunking is

fixedConfig == <<avgChunkSize, fileLength>>
fvars == <<fixedConfig, bytesRead, totalReadSize, chunkedSize, retSize, fixedChunks, fixedStep>>

FixedInit ==
    /\ avgChunkSize \in FixedSizes /\ fileLength \in FixedLengths
    /\ bytesRead = 0 /\ totalReadSize = 0 /\ chunkedSize = 0 /\ retSize = 0
    /\ fixedChunks = <<>>
    /\ fixedStep = "read"

FixedRead ==
    /\ fixedStep = "read"
    /\ totalReadSize' = IF bytesRead + FixedReadSize <= fileLength THEN FixedReadSize
                        ELSE fileLength - bytesRead
    /\ bytesRead' = bytesRead + totalReadSize'
    /\ chunkedSize' = 0
    /\ retSize' = 0
    /\ fixedStep' = IF totalReadSize' = FixedReadSize THEN "full" ELSE "partial"
    /\ UNCHANGED <<fixedConfig, fixedChunks>>

PushFixed(size) ==
    /\ chunkedSize < totalReadSize
    /\ fixedChunks' = Append(fixedChunks, [at |-> chunkedSize, size |-> size])
    /\ UNCHANGED <<fixedConfig, bytesRead, totalReadSize, fixedStep>>

FullBlockChunk ==
    /\ fixedStep = "full"
    /\ PushFixed(avgChunkSize)
    /\ chunkedSize' = chunkedSize + avgChunkSize
    /\ UNCHANGED retSize

(* Mutant: only what was copied counts as dealt with.                      *)
PartialBlockStuck ==
    /\ fixedStep = "partial"
    /\ PushFixed(IF retSize > avgChunkSize THEN avgChunkSize ELSE retSize)
    /\ retSize' = totalReadSize - chunkedSize
    /\ chunkedSize' = chunkedSize + (IF retSize > avgChunkSize THEN avgChunkSize ELSE retSize)

(* Mutant: retSize is not compared with avgChunkSize.                      *)
PartialBlockWhole ==
    /\ fixedStep = "partial"
    /\ PushFixed(retSize)
    /\ retSize' = totalReadSize - chunkedSize
    /\ chunkedSize' = chunkedSize + avgChunkSize

(* retSize is 0 for the first chunk of the block and is set after its use: *)
(* in the last block the first chunk has no bytes, and each other one as   *)
(* many as were left before the chunk in front of it, up to avgChunkSize.  *)
PartialBlockChunk ==
    /\ fixedStep = "partial"
    /\ PushFixed(IF retSize > avgChunkSize THEN avgChunkSize ELSE retSize)
    /\ retSize' = totalReadSize - chunkedSize
    /\ chunkedSize' = chunkedSize + avgChunkSize

(* fin.eof() holds after a block that was not full.                        *)
FixedBlockDone ==
    /\ fixedStep \in {"full", "partial"} /\ chunkedSize >= totalReadSize
    /\ fixedStep' = IF fixedStep = "full" THEN "read" ELSE "done"
    /\ UNCHANGED <<fixedConfig, bytesRead, totalReadSize, chunkedSize, retSize, fixedChunks>>

FixedTerminated == fixedStep = "done" /\ UNCHANGED fvars

FixedNext ==
    FixedRead \/ FullBlockChunk \/ PartialBlockChunk \/ FixedBlockDone \/ FixedTerminated

FixedSpec == FixedInit /\ [][FixedNext]_fvars

-----------------------------------------------------------------------------
(* How many chunks n bytes need. *)
ChunksOf(n) == (n + avgChunkSize - 1) \div avgChunkSize

(* bytesRead is the length of the file, and totalChunkNumber the number of *)
(* chunks that its blocks need, each for itself; that is what the file     *)
(* needs if the blocks are whole numbers of chunks.  It is so though       *)
(* retSize is used before it is set, and the sizes of the chunks of the    *)
(* last block are wrong.                                                   *)
FixedCount ==
    fixedStep = "done" =>
        /\ bytesRead = fileLength
        /\ Len(fixedChunks) = (fileLength \div FixedReadSize) * ChunksOf(FixedReadSize)
                                 + ChunksOf(fileLength % FixedReadSize)
        /\ FixedReadSize % avgChunkSize = 0 => Len(fixedChunks) = ChunksOf(fileLength)

(* No copy has more bytes than chunkBuffer can hold, and none leaves       *)
(* waitingForChunkingBuffer if the blocks are whole numbers of chunks.     *)
(* What ChunkerInit warns of is a copy that begins in the block and ends   *)
(* less than a chunk behind it.                                            *)
FixedCopies ==
    \A k \in 1 .. Len(fixedChunks) :
        /\ fixedChunks[k].size <= avgChunkSize
        /\ fixedChunks[k].at + fixedChunks[k].size < FixedReadSize + avgChunkSize
        /\ FixedReadSize % avgChunkSize = 0 =>
              fixedChunks[k].at + fixedChunks[k].size <= FixedReadSize
=============================================================================
