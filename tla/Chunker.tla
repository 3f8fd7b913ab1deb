------------------------------ MODULE Chunker ------------------------------
(***************************************************************************)
(* varSizeChunking: the file is read in blocks of ReadSize bytes and cut   *)
(* where the rolling fingerprint of the last WinSize bytes shows the       *)
(* anchor, or after MaxSize bytes.  Each chunk is stored unless fp2ChunkDB *)
(* has it, and entered into the recipe and into the index (FileIndex).     *)
(*                                                                         *)
(* winFp is 16 bits wide and is not initialised: its first value is any.   *)
(* What the stores do with a chunk, and how often the program may die, is  *)
(* the matter of StorageCore and Backup; here saveChunk succeeds or fails. *)
(***************************************************************************)
EXTENDS FileIndex

CONSTANTS
    Byte,           \* values of a byte
    Files,          \* the files considered: sequences of bytes
    MinSize,        \* minChunkSize
    AvgSize,        \* avgChunkSize
    MaxSize,        \* maxChunkSize
    WinSize,        \* slidingWinSize
    ReadSize,       \* bytes of a block
    Base,           \* polyBase
    PolyRange,      \* polyMOD + 1
    FpRange         \* 2^16, the values of winFp

(* The first line is what ChunkerInit verifies.  It does not verify that   *)
(* the window is shorter than a chunk.                                     *)
ASSUME ChunkerAssumption ==
    /\ MinSize < AvgSize /\ AvgSize < MaxSize
    /\ MinSize \in Nat /\ AvgSize \in Nat /\ MaxSize \in Nat /\ AvgSize > 1
    /\ WinSize \in Nat \ {0} /\ WinSize < MaxSize
    /\ ReadSize \in Nat \ {0}
    /\ Byte \subseteq Nat
    /\ Files \subseteq Seq(Byte)
    /\ Base \in Nat /\ PolyRange \in Nat \ {0} /\ FpRange \in Nat \ {0}
    /\ ChunkSize = 1 .. MaxSize

VARIABLES
    file,           \* the bytes of chunkingFile
    fileSize,       \* bytes read
    eof,            \* fin.eof()
    pos,            \* bytes taken out of the blocks read
    chunkBuffer,    \* the bytes of the chunk, chunkBufferCnt of them in use
    chunkBufferCnt,
    winFp,
    recipeList,     \* the chunks, each with its bytes
    stored,         \* the chunks fp2ChunkDB has
    step,           \* where varSizeChunking is
    head,           \* totalChunkNumber and fileSize of the recipe
    garbage,        \* history: the first value of winFp
    start           \* history: where in the file the chunk begins

scanVars == <<file, garbage>>
cvars == <<scanVars, fileSize, eof, pos, chunkBuffer, chunkBufferCnt, winFp,
           recipeList, stored, step, head, start, indexVars>>

-----------------------------------------------------------------------------
(* powerLUT[i] is Base to the power i.                                     *)
powerLUT[i \in 0 .. (WinSize - 1)] ==
    IF i = 0 THEN 1 ELSE (powerLUT[i - 1] * Base) % PolyRange

(* What takes the byte v out of the fingerprint of a window it begins.     *)
removeLUT[v \in Byte] ==
    LET r == (v * powerLUT[WinSize - 1]) % PolyRange
    IN IF r # 0 THEN PolyRange - r ELSE 0

(* The powers of b, as a function on the exponents.                        *)
Power(b) == LET p[n \in Nat] == IF n = 0 THEN 1 ELSE p[n - 1] * b IN p

(* anchorMask + 1: the power of two that numOfMaskBits is found by.        *)
AnchorRange == CHOOSE p \in {Power(2)[n] : n \in 1 .. AvgSize} : p <= AvgSize /\ AvgSize < 2 * p

(* The masks keep the bits of the anchor: all three are powers of two in   *)
(* the code, and 2^16 is not below anchorMask + 1 for AvgSize < 2^17.      *)
ASSUME MaskAssumption == PolyRange % AnchorRange = 0 /\ FpRange % AnchorRange = 0

(* The values are masked by polyMOD and then stored in 16 bits.            *)
FillFp(fp, b, cnt) == ((fp + b * powerLUT[WinSize - cnt - 1]) % PolyRange) % FpRange
SlideFp(fp, old, b) == (((fp + removeLUT[old]) * Base + b) % PolyRange) % FpRange

-----------------------------------------------------------------------------
ChunkerInit ==
    /\ file \in Files
    /\ garbage \in 0 .. (FpRange - 1)
    /\ fileSize = 0 /\ eof = FALSE /\ pos = 0
    /\ chunkBuffer = [i \in 0 .. (MaxSize - 1) |-> 0]
    /\ chunkBufferCnt = 0
    /\ winFp = garbage
    /\ recipeList = <<>>
    /\ stored = {}
    /\ step = "read"
    /\ head = <<>>
    /\ start = 0
    /\ IndexInit

(* fin.read: the end of the file is noticed by a read that gets less than  *)
(* it asked for.                                                           *)
ReadBlock ==
    /\ step = "read"
    /\ fileSize' = IF fileSize + ReadSize <= Len(file) THEN fileSize + ReadSize
                   ELSE Len(file)
    /\ eof' = (fileSize + ReadSize > Len(file))
    /\ step' = "block"
    /\ UNCHANGED <<scanVars, pos, chunkBuffer, chunkBufferCnt, winFp,
                   recipeList, stored, head, start, indexVars>>

(* The next byte goes into chunkBuffer.                                    *)
NextByte == file[pos + 1]
TakeByte ==
    /\ step = "block" /\ pos < fileSize
    /\ chunkBuffer' = [chunkBuffer EXCEPT ![chunkBufferCnt] = NextByte]
    /\ pos' = pos + 1
    /\ UNCHANGED <<scanVars, fileSize, eof, head>>

FillWindow ==
    /\ TakeByte
    /\ chunkBufferCnt < WinSize
    /\ winFp' = FillFp(winFp, NextByte, chunkBufferCnt)
    /\ chunkBufferCnt' = chunkBufferCnt + 1
    /\ UNCHANGED <<recipeList, stored, step, start, indexVars>>

(* Mutant: a chunk may grow beyond maxChunkSize.                           *)
IsCutLate(cnt, fp) == (cnt >= MinSize /\ fp % AnchorRange = 0) \/ cnt > MaxSize

(* Mutant: the anchor is looked for before minChunkSize.                   *)
IsCutEarly(cnt, fp) == fp % AnchorRange = 0 \/ cnt >= MaxSize

(* A chunk of cnt bytes with this fingerprint of its last bytes ends here. *)
IsCut(cnt, fp) == cnt >= MinSize /\ (fp % AnchorRange = 0 \/ cnt >= MaxSize)

Outgoing == chunkBuffer[chunkBufferCnt - WinSize]

SlideWindow ==
    /\ TakeByte
    /\ chunkBufferCnt >= WinSize
    /\ LET fp == SlideFp(winFp, Outgoing, NextByte)
       IN ~IsCut(chunkBufferCnt + 1, fp) /\ winFp' = fp
    /\ chunkBufferCnt' = chunkBufferCnt + 1
    /\ UNCHANGED <<recipeList, stored, step, start, indexVars>>

-----------------------------------------------------------------------------
(* What becomes of a chunk of these bytes.                                 *)

PushRecipe(data) ==
    recipeList' = Append(recipeList, [at |-> start, data |-> data,
                                      unique |-> data \notin stored])

(* Mutant: the fingerprint is not cleared for the next chunk.              *)
RestartKeepingFp == chunkBufferCnt' = 0 /\ UNCHANGED winFp

Restart == chunkBufferCnt' = 0 /\ winFp' = 0

(* The chunk is new and saveChunk stores it, or it is counted once more.   *)
Store(data) == PushRecipe(data) /\ stored' = stored \cup {data}

(* saveChunk fails: varSizeChunking returns without saving the recipe.     *)
StoreFails(data) ==
    /\ data \notin stored
    /\ PushRecipe(data)
    /\ step' = "returned"
    /\ UNCHANGED <<stored, start, indexVars>>

(* The bytes of the chunk that the byte taken in this step completes.      *)
Completed == [i \in 1 .. (chunkBufferCnt + 1) |-> chunkBuffer'[i - 1]]

CutHere ==
    /\ TakeByte
    /\ chunkBufferCnt >= WinSize
    /\ IsCut(chunkBufferCnt + 1, SlideFp(winFp, Outgoing, NextByte))

Cut ==
    /\ CutHere
    /\ Store(Completed)
    /\ AddChunk(chunkBufferCnt + 1)
    /\ Restart
    /\ start' = pos + 1
    /\ UNCHANGED step

CutFails ==
    /\ CutHere
    /\ StoreFails(Completed)
    /\ winFp' = SlideFp(winFp, Outgoing, NextByte)
    /\ chunkBufferCnt' = chunkBufferCnt + 1

-----------------------------------------------------------------------------
(* Mutant: the chunk is given up at the end of a block.                    *)
BlockDoneRestart ==
    /\ step = "block" /\ pos = fileSize
    /\ step' = IF eof THEN "tail" ELSE "read"
    /\ chunkBufferCnt' = IF eof THEN chunkBufferCnt ELSE 0
    /\ UNCHANGED <<scanVars, fileSize, eof, pos, chunkBuffer, winFp,
                   recipeList, stored, head, start, indexVars>>

BlockDone ==
    /\ step = "block" /\ pos = fileSize
    /\ step' = IF eof THEN "tail" ELSE "read"
    /\ UNCHANGED <<scanVars, fileSize, eof, pos, chunkBuffer, chunkBufferCnt, winFp,
                   recipeList, stored, head, start, indexVars>>

(* The bytes behind the last cut.                                          *)
Rest == [i \in 1 .. chunkBufferCnt |-> chunkBuffer[i - 1]]

FinalChunk ==
    /\ step = "tail" /\ chunkBufferCnt # 0
    /\ Store(Rest)
    /\ AddFinal(chunkBufferCnt)
    /\ Restart
    /\ start' = pos
    /\ step' = "head"
    /\ UNCHANGED <<scanVars, fileSize, eof, pos, chunkBuffer, head>>

FinalFails ==
    /\ step = "tail" /\ chunkBufferCnt # 0
    /\ StoreFails(Rest)
    /\ UNCHANGED <<scanVars, fileSize, eof, pos, chunkBuffer, chunkBufferCnt, winFp, head>>

NoFinalChunk ==
    /\ step = "tail" /\ chunkBufferCnt = 0
    /\ NothingLeft
    /\ step' = "head"
    /\ UNCHANGED <<scanVars, fileSize, eof, pos, chunkBuffer, chunkBufferCnt, winFp,
                   recipeList, stored, head, start>>

(* chunkIDCnt is the number of chunks pushed.  The recipe is then saved by *)
(* checkRecipeStatus (see Backup).                                         *)
RecipeHead ==
    /\ step = "head"
    /\ head' = <<Len(recipeList), fileSize>>
    /\ step' = "done"
    /\ UNCHANGED <<scanVars, fileSize, eof, pos, chunkBuffer, chunkBufferCnt, winFp,
                   recipeList, stored, start, indexVars>>

ChunkerTerminated == step \in {"done", "returned"} /\ UNCHANGED cvars

ChunkerNext ==
    \/ ReadBlock \/ FillWindow \/ SlideWindow
    \/ Cut \/ CutFails \/ BlockDone
    \/ FinalChunk \/ FinalFails \/ NoFinalChunk
    \/ RecipeHead \/ ChunkerTerminated

ChunkerSpec == ChunkerInit /\ [][ChunkerNext]_cvars

-----------------------------------------------------------------------------
RecipeEntry == [at : Nat, data : Seq(Nat), unique : BOOLEAN]

(* The types of the chunker's variables; chunkBuffer has room for the next *)
(* byte whenever one is taken.                                             *)
ChunkerTypeOK ==
    /\ file \in Files
    /\ garbage \in 0 .. (FpRange - 1)
    /\ fileSize \in 0 .. Len(file) /\ pos \in 0 .. fileSize
    /\ eof \in BOOLEAN
    /\ chunkBuffer \in [0 .. (MaxSize - 1) -> Nat]
    /\ chunkBufferCnt \in 0 .. MaxSize
    /\ (step # "returned" => chunkBufferCnt < MaxSize)
    /\ recipeList \in Seq(RecipeEntry)
    /\ step \in {"read", "block", "tail", "head", "done", "returned"}
    /\ start \in 0 .. pos

End(k) == recipeList[k].at + Len(recipeList[k].data)

(* The chunks are the file, cut where blocks, windows and buffers meet:    *)
(* each begins where the one before ended and has the bytes of the file    *)
(* there, and together they are all that was taken of it.                  *)
ChunksTileFile ==
    /\ \A k \in 1 .. Len(recipeList) :
          /\ recipeList[k].at = IF k = 1 THEN 0 ELSE End(k - 1)
          /\ \A i \in 1 .. Len(recipeList[k].data) :
                recipeList[k].data[i] = file[recipeList[k].at + i]
    /\ step # "returned" =>
          /\ start = IF recipeList = <<>> THEN 0 ELSE End(Len(recipeList))
          /\ start + chunkBufferCnt = pos
    /\ step = "done" => start = Len(file) /\ head = <<Len(recipeList), Len(file)>>

(* Every chunk but the rest of the file has a size between the minimum     *)
(* (and the window) and the maximum.                                       *)
ChunkSizes ==
    \A k \in 1 .. Len(recipeList) :
        LET size == Len(recipeList[k].data)
        IN /\ size \in 1 .. MaxSize
           /\ End(k) < Len(file) => size >= MinSize /\ size > WinSize

-----------------------------------------------------------------------------
(* Where the chunks of a file f must end, without tables, without rolling  *)
(* and without blocks.                                                     *)

(* The polynomial of the first k bytes of f behind s, for every k.         *)
Poly(f, s) ==
    LET h[k \in 0 .. (Len(f) - s)] ==
            IF k = 0 THEN 0 ELSE (h[k - 1] * Base + f[s + k]) % AnchorRange
    IN h

(* The fingerprint of the last WinSize bytes before end.                   *)
WindowHash(f, end) == Poly(f, end - WinSize)[WinSize]

(* Where a chunk that begins at s must end, if the fingerprint of its      *)
(* first window is seed too large.                                         *)
IsAnchor(f, s, seed, end) ==
    (WindowHash(f, end) + seed * Power(Base)[end - s - WinSize]) % AnchorRange = 0

MustEnd(f, s, seed, end) ==
    /\ end - s >= MinSize /\ end - s > WinSize
    /\ IsAnchor(f, s, seed, end) \/ end - s >= MaxSize

CutAt(f, s, seed, end) ==
    /\ end <= Len(f)
    /\ MustEnd(f, s, seed, end) \/ end = Len(f)
    /\ \A e \in (s + 1) .. (end - 1) : ~MustEnd(f, s, seed, e)

(* Every chunk ends at the first byte where its bytes, the garbage in      *)
(* winFp for the first chunk, and the sizes say it must: the rolling       *)
(* fingerprint in 16 bits finds the anchors of the window's polynomial,    *)
(* whatever blocks the file is read in.                                    *)
CutsAtAnchors ==
    \A k \in 1 .. Len(recipeList) :
        CutAt(file, recipeList[k].at, IF k = 1 THEN garbage ELSE 0, End(k))

(* The content decides: a chunk behind the first that begins with the      *)
(* bytes of another chunk (not of the rest of the file) is that chunk, so  *)
(* that fp2ChunkDB finds repeated content wherever in the blocks it lies.  *)
RepeatsCutAlike ==
    \A j, k \in 2 .. Len(recipeList) :
        LET content == recipeList[j].data
            at == recipeList[k].at
        IN /\ End(j) < Len(file)
           /\ at + Len(content) <= Len(file)
           /\ \A i \in 1 .. Len(content) : file[at + i] = content[i]
           => recipeList[k].data = content
=============================================================================
