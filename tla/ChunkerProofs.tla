--------------------------- MODULE ChunkerProofs ---------------------------
(***************************************************************************)
(* Proofs about varSizeChunking: the chunks are the file, chunkBuffer is   *)
(* never overrun, and the index is built as FileIndex says, for every      *)
(* file, block size, window and limits, whatever the fingerprint is.  Then *)
(* that the fingerprint is right: the chunks end where the polynomial of   *)
(* the window says.  That needs induction over the window and the tables;  *)
(* it is had from the well-foundedness of < (LeastNat, SetInduction).      *)
(***************************************************************************)
EXTENDS Chunker, FileIndexProofs, SequenceTheorems, WellFoundedInduction

(* chunkBuffer has the bytes of the file since the last cut. *)
BufferHolds ==
    step # "returned" =>
        \A i \in 0 .. (chunkBufferCnt - 1) : chunkBuffer[i] = file[start + i + 1]

(* How far the file has been read at each step. *)
Progress ==
    /\ eof => fileSize = Len(file)
    /\ step = "read" => pos = fileSize /\ ~eof
    /\ step \in {"tail", "head", "done"} => pos = Len(file)
    /\ step \in {"head", "done"} => chunkBufferCnt = 0
    /\ step = "done" => head = <<Len(recipeList), Len(file)>>

ChunkerInv ==
    /\ ChunkerTypeOK
    /\ Progress
    /\ BufferHolds
    /\ ChunksTileFile
    /\ ChunkSizes

(* A function on 1 .. n is a sequence of n elements.                       *)
LEMMA SeqOfLength ==
    ASSUME NEW S, NEW n \in Nat, NEW f \in [1 .. n -> S]
    PROVE  f \in Seq(S) /\ Len(f) = n
  <1>1. f \in Seq(S)
    BY SeqDef
  <1>2. Len(f) \in Nat /\ DOMAIN f = 1 .. Len(f)
    BY <1>1, LenProperties
  <1>3. 1 .. Len(f) = 1 .. n
    BY <1>2
  <1> QED
    BY <1>1, <1>2, <1>3

(* The bytes of a file are numbers.                                        *)
LEMMA FileBytes ==
    ASSUME NEW f \in Files
    PROVE  f \in Seq(Nat) /\ Len(f) \in Nat /\ \A i \in 1 .. Len(f) : f[i] \in Nat
  <1>1. f \in Seq(Byte) /\ Byte \subseteq Nat
    BY ChunkerAssumption
  <1>2. Len(f) \in Nat /\ f \in [1 .. Len(f) -> Byte]
    BY <1>1, LenProperties
  <1>3. f \in [1 .. Len(f) -> Nat]
    BY <1>1, <1>2
  <1>4. f \in Seq(Nat)
    BY <1>2, <1>3, SeqOfLength
  <1> QED
    BY <1>2, <1>3, <1>4

(* The initial state satisfies the invariant.                              *)
LEMMA ChunkerInitInv == ChunkerInit => ChunkerInv
  <1> SUFFICES ASSUME ChunkerInit PROVE ChunkerInv
    OBVIOUS
  <1>a. MaxSize \in Nat /\ 0 < MaxSize
    BY ChunkerAssumption
  <1>b. Len(file) \in Nat
    BY FileBytes DEF ChunkerInit
  <1>c. recipeList = <<>> /\ Len(recipeList) = 0
    BY DEF ChunkerInit
  <1>1. ChunkerTypeOK
    <2>1. chunkBuffer \in [0 .. (MaxSize - 1) -> Nat]
      BY DEF ChunkerInit
    <2>2. recipeList \in Seq(RecipeEntry)
      BY <1>c
    <2>3. eof \in BOOLEAN
      BY DEF ChunkerInit
    <2> QED
      BY <1>a, <1>b, <2>1, <2>2, <2>3 DEF ChunkerInit, ChunkerTypeOK
  <1>2. Progress /\ BufferHolds
    BY DEF ChunkerInit, Progress, BufferHolds
  <1>3. ChunksTileFile /\ ChunkSizes
    BY <1>c DEF ChunkerInit, ChunksTileFile, ChunkSizes
  <1> QED
    BY <1>1, <1>2, <1>3 DEF ChunkerInv

-----------------------------------------------------------------------------
(* Steps that push no chunk and take no byte.                              *)
LEMMA QuietInv ==
    ASSUME ChunkerInv, ReadBlock \/ BlockDone \/ NoFinalChunk \/ RecipeHead \/ UNCHANGED cvars
    PROVE  ChunkerInv'
  <1>t. /\ ChunkerTypeOK /\ Progress /\ BufferHolds /\ ChunksTileFile /\ ChunkSizes
    BY DEF ChunkerInv
  <1>f. Len(file) \in Nat /\ ReadSize \in Nat \ {0} /\ MaxSize \in Nat
    BY <1>t, FileBytes, ChunkerAssumption DEF ChunkerTypeOK
  <1>u. UNCHANGED <<file, garbage, pos, chunkBuffer, chunkBufferCnt, recipeList, start>>
    BY DEF ReadBlock, BlockDone, NoFinalChunk, RecipeHead, cvars, scanVars
  <1>1. CASE ReadBlock
    <2>0. fileSize \in 0 .. Len(file)
      BY <1>t DEF ChunkerTypeOK
    <2>a. /\ fileSize' \in 0 .. Len(file) /\ fileSize <= fileSize'
          /\ fileSize + ReadSize > Len(file) => fileSize' = Len(file)
      BY <1>1, <1>f, <2>0 DEF ReadBlock
    <2>b. eof' = (fileSize + ReadSize > Len(file)) /\ step' = "block" /\ step = "read"
      BY <1>1 DEF ReadBlock
    <2>c. eof' \in BOOLEAN
      BY <2>b
    <2>1. /\ fileSize' \in 0 .. Len(file) /\ fileSize <= fileSize' /\ step' = "block" /\ step = "read"
          /\ eof' \in BOOLEAN /\ (eof' => fileSize' = Len(file))
      BY <2>a, <2>b, <2>c
    <2>2. ChunkerTypeOK'
      BY <1>t, <1>f, <1>u, <2>1 DEF ChunkerTypeOK
    <2> QED
      BY <1>t, <1>u, <2>1, <2>2 DEF ChunkerInv, Progress, BufferHolds, ChunksTileFile, ChunkSizes, End
  <1>2. CASE BlockDone
    <2>1. /\ fileSize' = fileSize /\ eof' = eof /\ pos = fileSize /\ step = "block"
          /\ step' = IF eof THEN "tail" ELSE "read"
      BY <1>2 DEF BlockDone
    <2>2. ChunkerTypeOK'
      BY <1>t, <1>u, <2>1 DEF ChunkerTypeOK
    <2> QED
      BY <1>t, <1>u, <2>1, <2>2 DEF ChunkerInv, Progress, BufferHolds, ChunksTileFile, ChunkSizes, End
  <1>3. CASE NoFinalChunk
    <2>1. fileSize' = fileSize /\ eof' = eof /\ chunkBufferCnt = 0 /\ step = "tail" /\ step' = "head"
      BY <1>3 DEF NoFinalChunk
    <2>2. ChunkerTypeOK'
      BY <1>t, <1>u, <2>1 DEF ChunkerTypeOK
    <2> QED
      BY <1>t, <1>u, <2>1, <2>2 DEF ChunkerInv, Progress, BufferHolds, ChunksTileFile, ChunkSizes, End
  <1>4. CASE RecipeHead
    <2>1. /\ fileSize' = fileSize /\ eof' = eof /\ step = "head" /\ step' = "done"
          /\ head' = <<Len(recipeList), fileSize>>
      BY <1>4 DEF RecipeHead
    <2>2. ChunkerTypeOK'
      BY <1>t, <1>u, <2>1 DEF ChunkerTypeOK
    <2>3. fileSize = Len(file) /\ chunkBufferCnt = 0 /\ pos = Len(file)
      BY <1>t, <1>f, <2>1 DEF Progress, ChunkerTypeOK
    <2>4. start = Len(file)
      BY <1>t, <1>f, <2>1, <2>3 DEF ChunksTileFile, ChunkerTypeOK
    <2> QED
      BY <1>t, <1>u, <2>1, <2>2, <2>3, <2>4 DEF ChunkerInv, Progress, BufferHolds, ChunksTileFile, ChunkSizes, End
  <1>5. CASE UNCHANGED cvars
    <2>1. fileSize' = fileSize /\ eof' = eof /\ step' = step /\ head' = head
      BY <1>5 DEF cvars
    <2> QED
      BY <1>t, <1>u, <2>1 DEF ChunkerInv, ChunkerTypeOK, Progress, BufferHolds, ChunksTileFile, ChunkSizes, End
  <1> QED
    BY <1>1, <1>2, <1>3, <1>4, <1>5

-----------------------------------------------------------------------------
(* After a byte is taken, chunkBuffer holds one byte more of the file.     *)
Taken ==
    /\ UNCHANGED <<file, garbage, fileSize, eof, head>>
    /\ step = "block"
    /\ pos \in Nat /\ start \in Nat /\ chunkBufferCnt \in Nat /\ chunkBufferCnt < MaxSize
    /\ pos' = pos + 1 /\ pos' \in 0 .. fileSize
    /\ start + chunkBufferCnt = pos
    /\ chunkBuffer' \in [0 .. (MaxSize - 1) -> Nat]
    /\ \A i \in 0 .. chunkBufferCnt : chunkBuffer'[i] = file[start + i + 1]

(* A byte taken out of a block goes behind the bytes of the chunk.         *)
LEMMA TakenFacts ==
    ASSUME ChunkerInv, TakeByte
    PROVE  Taken
  <1>1. /\ UNCHANGED <<file, garbage, fileSize, eof, head>>
        /\ step = "block" /\ pos < fileSize /\ pos' = pos + 1
        /\ chunkBuffer' = [chunkBuffer EXCEPT ![chunkBufferCnt] = file[pos + 1]]
    BY DEF TakeByte, NextByte, scanVars
  <1>2. /\ fileSize \in 0 .. Len(file) /\ pos \in 0 .. fileSize /\ start \in 0 .. pos
        /\ chunkBufferCnt \in 0 .. MaxSize /\ chunkBufferCnt < MaxSize
        /\ chunkBuffer \in [0 .. (MaxSize - 1) -> Nat]
        /\ file \in Files
    BY <1>1 DEF ChunkerInv, ChunkerTypeOK
  <1>3. MaxSize \in Nat /\ Len(file) \in Nat /\ \A i \in 1 .. Len(file) : file[i] \in Nat
    BY <1>2, FileBytes, ChunkerAssumption
  <1>4. start + chunkBufferCnt = pos
    BY <1>1 DEF ChunkerInv, ChunksTileFile
  <1>5. pos' \in 0 .. fileSize /\ pos + 1 \in 1 .. Len(file) /\ chunkBufferCnt \in 0 .. (MaxSize - 1)
        /\ pos \in Nat /\ start \in Nat /\ chunkBufferCnt \in Nat
    BY <1>1, <1>2, <1>3
  <1>6. chunkBuffer' \in [0 .. (MaxSize - 1) -> Nat]
    BY <1>1, <1>2, <1>3, <1>5
  <1>7. ASSUME NEW i \in 0 .. chunkBufferCnt
        PROVE  chunkBuffer'[i] = file[start + i + 1]
    <2>1. CASE i = chunkBufferCnt
      BY <1>1, <1>2, <1>4, <1>5, <2>1
    <2>2. CASE i # chunkBufferCnt
      <3>1. i \in 0 .. (chunkBufferCnt - 1) /\ i \in 0 .. (MaxSize - 1)
        BY <1>3, <1>5, <2>2
      <3>2. chunkBuffer'[i] = chunkBuffer[i]
        BY <1>1, <1>2, <3>1, <2>2
      <3> QED
        BY <1>1, <3>1, <3>2 DEF ChunkerInv, BufferHolds
    <2> QED
      BY <2>1, <2>2
  <1> QED
    BY <1>1, <1>2, <1>4, <1>5, <1>6, <1>7 DEF Taken

(* A byte that completes no chunk.                                         *)
LEMMA NoCutInv ==
    ASSUME ChunkerInv, FillWindow \/ SlideWindow
    PROVE  ChunkerInv'
  <1>1. /\ TakeByte /\ chunkBufferCnt' = chunkBufferCnt + 1
        /\ UNCHANGED <<recipeList, step, start>>
    BY DEF FillWindow, SlideWindow
  <1>2. Taken
    BY <1>1, TakenFacts
  <1>a. MaxSize \in Nat /\ WinSize \in Nat /\ WinSize < MaxSize /\ MinSize \in Nat /\ MinSize < MaxSize
    <2>1. MinSize \in Nat /\ AvgSize \in Nat /\ MaxSize \in Nat /\ MinSize < AvgSize /\ AvgSize < MaxSize
      BY ChunkerAssumption
    <2>2. WinSize \in Nat /\ WinSize < MaxSize
      BY ChunkerAssumption
    <2> QED
      BY <2>1, <2>2
  <1>3. chunkBufferCnt + 1 < MaxSize
    <2>n. chunkBufferCnt \in Nat
      BY <1>2 DEF Taken
    <2>1. CASE FillWindow
      <3>1. chunkBufferCnt < WinSize
        BY <2>1 DEF FillWindow
      <3> QED
        BY <1>a, <2>n, <3>1
    <2>2. CASE SlideWindow
      <3>1. ~IsCut(chunkBufferCnt + 1, SlideFp(winFp, Outgoing, NextByte))
        BY <2>2 DEF SlideWindow
      <3>2. ~(chunkBufferCnt + 1 >= MinSize /\ chunkBufferCnt + 1 >= MaxSize)
        BY <3>1 DEF IsCut
      <3> QED
        BY <1>a, <2>n, <3>2
    <2> QED
      BY <2>1, <2>2
  <1>4. ChunkerTypeOK'
    <2>1. /\ chunkBufferCnt' \in 0 .. MaxSize /\ chunkBufferCnt' < MaxSize /\ start' \in 0 .. pos'
      BY <1>1, <1>2, <1>3, <1>a DEF Taken
    <2> QED
      BY <1>1, <1>2, <2>1 DEF ChunkerInv, ChunkerTypeOK, Taken
  <1>5. Progress'
    BY <1>1, <1>2 DEF ChunkerInv, Progress, Taken
  <1>6. BufferHolds'
    <2>1. \A i \in 0 .. (chunkBufferCnt' - 1) : i \in 0 .. chunkBufferCnt
      BY <1>1, <1>2 DEF Taken
    <2> QED
      BY <1>1, <1>2, <2>1 DEF BufferHolds, Taken
  <1>7. ChunksTileFile'
    <2>1. start' + chunkBufferCnt' = pos'
      BY <1>1, <1>2 DEF Taken
    <2>2. step' = "block"
      BY <1>1, <1>2 DEF Taken
    <2> QED
      BY <1>1, <1>2, <2>1, <2>2 DEF ChunkerInv, ChunksTileFile, Taken, End
  <1>8. ChunkSizes'
    BY <1>1, <1>2 DEF ChunkerInv, ChunkSizes, Taken, End
  <1> QED
    BY <1>4, <1>5, <1>6, <1>7, <1>8 DEF ChunkerInv

-----------------------------------------------------------------------------
(* A chunk of n bytes that is pushed at start continues the tiling.        *)
RecipePushed(n) ==
    /\ recipeList' \in Seq(RecipeEntry)
    /\ recipeList' # <<>>
    /\ End(Len(recipeList))' = start + n
    /\ \A k \in 1 .. Len(recipeList') :
          /\ recipeList'[k].at = IF k = 1 THEN 0 ELSE End(k - 1)'
          /\ \A i \in 1 .. Len(recipeList'[k].data) :
                recipeList'[k].data[i] = file[recipeList'[k].at + i]
    /\ ChunkSizes'

(* A chunk with the bytes of the file at start continues the tiling.       *)
LEMMA PushRecipeFacts ==
    ASSUME ChunkerInv, step # "returned", file' = file,
           NEW n \in 1 .. MaxSize, NEW data \in [1 .. n -> Nat], PushRecipe(data),
           \A i \in 1 .. n : data[i] = file[start + i],
           start + n < Len(file) => n >= MinSize /\ n > WinSize
    PROVE  RecipePushed(n)
  <1>m. MaxSize \in Nat /\ n \in Nat
    BY ChunkerAssumption
  <1>d. data \in Seq(Nat) /\ Len(data) = n
    BY <1>m, SeqOfLength
  <1> DEFINE e == [at |-> start, data |-> data, unique |-> data \notin stored]
  <1>t. start \in Nat /\ recipeList \in Seq(RecipeEntry) /\ Len(recipeList) \in Nat
    BY DEF ChunkerInv, ChunkerTypeOK
  <1>e. e \in RecipeEntry /\ e.at = start /\ e.data = data
    <2>1. (data \notin stored) \in BOOLEAN
      OBVIOUS
    <2> QED
      BY <1>d, <1>t, <2>1 DEF RecipeEntry
  <1>r. recipeList' = Append(recipeList, e)
    BY DEF PushRecipe
  <1> HIDE DEF e
  <1>1. /\ recipeList' \in Seq(RecipeEntry) /\ Len(recipeList') = Len(recipeList) + 1
        /\ \A k \in 1 .. Len(recipeList) : recipeList'[k] = recipeList[k]
        /\ recipeList'[Len(recipeList) + 1] = e
        /\ recipeList' # <<>>
    BY <1>t, <1>e, <1>r, AppendFacts
  <1>2. \A k \in 1 .. Len(recipeList) : End(k)' = End(k)
    BY <1>1 DEF End
  <1>3. recipeList'[Len(recipeList')].at + Len(recipeList'[Len(recipeList')].data) = start + n
    BY <1>1, <1>e, <1>d
  <1>4. End(Len(recipeList))' = start + n
    BY <1>3 DEF End
  <1>5. start = IF recipeList = <<>> THEN 0 ELSE End(Len(recipeList))
    BY DEF ChunkerInv, ChunksTileFile
  <1>6. recipeList = <<>> <=> Len(recipeList) = 0
    BY <1>t
  <1>7. ASSUME NEW k \in 1 .. Len(recipeList')
        PROVE  /\ recipeList'[k].at = IF k = 1 THEN 0 ELSE End(k - 1)'
               /\ \A i \in 1 .. Len(recipeList'[k].data) :
                     recipeList'[k].data[i] = file[recipeList'[k].at + i]
    <2>1. CASE k \in 1 .. Len(recipeList)
      <3>1. k # 1 => k - 1 \in 1 .. Len(recipeList)
        BY <1>t, <2>1
      <3> QED
        BY <1>1, <1>2, <2>1, <3>1 DEF ChunkerInv, ChunksTileFile
    <2>2. CASE k = Len(recipeList) + 1
      <3>1. recipeList'[k] = e
        BY <1>1, <2>2
      <3>2. k # 1 => k - 1 = Len(recipeList) /\ Len(recipeList) \in 1 .. Len(recipeList)
        BY <1>t, <2>2
      <3>3. k = 1 <=> recipeList = <<>>
        BY <1>t, <1>6, <2>2
      <3>4. start = IF k = 1 THEN 0 ELSE End(k - 1)'
        BY <1>2, <1>5, <3>2, <3>3
      <3> QED
        BY <1>d, <1>e, <3>1, <3>4
    <2> QED
      BY <1>t, <1>1, <2>1, <2>2
  <1>8. ASSUME NEW k \in 1 .. Len(recipeList')
        PROVE  /\ Len(recipeList'[k].data) \in 1 .. MaxSize
               /\ recipeList'[k].at + Len(recipeList'[k].data) < Len(file)
                    => Len(recipeList'[k].data) >= MinSize /\ Len(recipeList'[k].data) > WinSize
    <2>1. CASE k \in 1 .. Len(recipeList)
      BY <1>1, <2>1 DEF ChunkerInv, ChunkSizes, End
    <2>2. CASE k = Len(recipeList) + 1
      BY <1>1, <1>d, <1>e, <2>2
    <2> QED
      BY <1>t, <1>1, <2>1, <2>2
  <1>9. ChunkSizes'
    BY <1>8 DEF ChunkSizes, End
  <1> QED
    BY <1>1, <1>4, <1>7, <1>9 DEF RecipePushed

(* The chunk that a byte completes: its bytes are those of the file.       *)
LEMMA CompletedFacts ==
    ASSUME ChunkerInv, CutHere, PushRecipe(Completed)
    PROVE  /\ Taken
           /\ chunkBufferCnt + 1 \in 1 .. MaxSize
           /\ RecipePushed(chunkBufferCnt + 1)
  <1>1. TakeByte /\ chunkBufferCnt >= WinSize
        /\ IsCut(chunkBufferCnt + 1, SlideFp(winFp, Outgoing, NextByte))
    BY DEF CutHere
  <1>2. Taken
    BY <1>1, TakenFacts
  <1>3. MaxSize \in Nat /\ WinSize \in Nat
    BY ChunkerAssumption
  <1> DEFINE n == chunkBufferCnt + 1
  <1>4. n \in 1 .. MaxSize
    BY <1>2, <1>3 DEF Taken
  <1>5. n >= MinSize /\ n > WinSize
    BY <1>1, <1>2, <1>3 DEF IsCut, Taken
  <1>6. ASSUME NEW i \in 1 .. n
        PROVE  /\ chunkBuffer'[i - 1] \in Nat
               /\ chunkBuffer'[i - 1] = file[start + i]
    <2>1. i - 1 \in 0 .. chunkBufferCnt /\ i - 1 \in 0 .. (MaxSize - 1) /\ start + (i - 1) + 1 = start + i
      BY <1>2, <1>3 DEF Taken
    <2>2. chunkBuffer'[i - 1] = file[start + (i - 1) + 1]
      BY <1>2, <2>1 DEF Taken
    <2> QED
      BY <1>2, <2>1, <2>2 DEF Taken
  <1>7. /\ Completed \in [1 .. n -> Nat]
        /\ \A i \in 1 .. n : Completed[i] = file[start + i]
    BY <1>6 DEF Completed
  <1>8. step # "returned" /\ file' = file
    BY <1>2 DEF Taken
  <1> HIDE DEF n
  <1>9. RecipePushed(n)
    BY <1>4, <1>5, <1>7, <1>8, PushRecipeFacts
  <1> QED
    BY <1>2, <1>4, <1>9 DEF n

(* A cut, whether the chunk is stored or saveChunk fails.                  *)
LEMMA CutInv ==
    ASSUME ChunkerInv, Cut
    PROVE  ChunkerInv' /\ chunkBufferCnt + 1 \in ChunkSize
  <1>1. /\ CutHere /\ PushRecipe(Completed) /\ chunkBufferCnt' = 0
        /\ start' = pos + 1 /\ step' = step
    BY DEF Cut, Store, Restart
  <1>2. /\ Taken
        /\ chunkBufferCnt + 1 \in 1 .. MaxSize
        /\ RecipePushed(chunkBufferCnt + 1)
    BY <1>1, CompletedFacts
  <1>3. MaxSize \in Nat /\ 0 < MaxSize
    BY ChunkerAssumption
  <1>4. ChunkerTypeOK'
    <2>1. chunkBufferCnt' \in 0 .. MaxSize /\ chunkBufferCnt' < MaxSize /\ start' \in 0 .. pos'
      BY <1>1, <1>2, <1>3 DEF Taken
    <2> QED
      BY <1>1, <1>2, <2>1 DEF ChunkerInv, ChunkerTypeOK, Taken, RecipePushed
  <1>5. Progress' /\ BufferHolds'
    BY <1>1, <1>2 DEF ChunkerInv, Progress, BufferHolds, Taken
  <1>6. ChunksTileFile'
    <2>1. start' = End(Len(recipeList))' /\ start' + chunkBufferCnt' = pos' /\ step' = "block"
      BY <1>1, <1>2 DEF Taken, RecipePushed
    <2> QED
      BY <1>1, <1>2, <2>1 DEF ChunksTileFile, RecipePushed, Taken
  <1> QED
    BY <1>2, <1>4, <1>5, <1>6, ChunkerAssumption DEF ChunkerInv, RecipePushed

(* A cut whose chunk saveChunk does not store: varSizeChunking returns.    *)
LEMMA CutFailsInv ==
    ASSUME ChunkerInv, CutFails
    PROVE  ChunkerInv'
  <1>1. /\ CutHere /\ PushRecipe(Completed) /\ chunkBufferCnt' = chunkBufferCnt + 1
        /\ start' = start /\ step' = "returned"
    BY DEF CutFails, StoreFails
  <1>2. /\ Taken
        /\ chunkBufferCnt + 1 \in 1 .. MaxSize
        /\ RecipePushed(chunkBufferCnt + 1)
    BY <1>1, CompletedFacts
  <1>4. ChunkerTypeOK'
    <2>1. chunkBufferCnt' \in 0 .. MaxSize /\ start' \in 0 .. pos'
      BY <1>1, <1>2, ChunkerAssumption DEF Taken
    <2> QED
      BY <1>1, <1>2, <2>1 DEF ChunkerInv, ChunkerTypeOK, Taken, RecipePushed
  <1>5. Progress' /\ BufferHolds'
    BY <1>1, <1>2 DEF ChunkerInv, Progress, BufferHolds, Taken
  <1>6. ChunksTileFile'
    BY <1>1, <1>2 DEF ChunksTileFile, RecipePushed, Taken
  <1> QED
    BY <1>2, <1>4, <1>5, <1>6 DEF ChunkerInv, RecipePushed

(* The rest of the file, stored or not.                                    *)
LEMMA RestFacts ==
    ASSUME ChunkerInv, step = "tail", chunkBufferCnt # 0, file' = file, PushRecipe(Rest)
    PROVE  /\ chunkBufferCnt \in 1 .. MaxSize
           /\ RecipePushed(chunkBufferCnt)
           /\ start + chunkBufferCnt = pos /\ pos = Len(file)
  <1>1. MaxSize \in Nat /\ WinSize \in Nat
    BY ChunkerAssumption
  <1>2. /\ chunkBufferCnt \in 0 .. MaxSize /\ chunkBufferCnt < MaxSize
        /\ chunkBuffer \in [0 .. (MaxSize - 1) -> Nat] /\ start \in Nat
    BY DEF ChunkerInv, ChunkerTypeOK
  <1>3. start + chunkBufferCnt = pos /\ pos = Len(file)
    BY DEF ChunkerInv, ChunksTileFile, Progress
  <1>4. chunkBufferCnt \in 1 .. MaxSize
    BY <1>1, <1>2
  <1>5. ASSUME NEW i \in 1 .. chunkBufferCnt
        PROVE  /\ chunkBuffer[i - 1] \in Nat
               /\ chunkBuffer[i - 1] = file[start + i]
    <2>1. i - 1 \in 0 .. (chunkBufferCnt - 1) /\ i - 1 \in 0 .. (MaxSize - 1) /\ start + (i - 1) + 1 = start + i
      BY <1>1, <1>2
    <2>2. chunkBuffer[i - 1] = file[start + (i - 1) + 1]
      BY <2>1 DEF ChunkerInv, BufferHolds
    <2> QED
      BY <1>2, <2>1, <2>2
  <1>6. /\ Rest \in [1 .. chunkBufferCnt -> Nat]
        /\ \A i \in 1 .. chunkBufferCnt : Rest[i] = file[start + i]
    BY <1>5 DEF Rest
  <1>7. ~(start + chunkBufferCnt < Len(file))
    BY <1>2, <1>3
  <1> QED
    BY <1>3, <1>4, <1>6, <1>7, PushRecipeFacts

(* The rest of the file becomes its last chunk.                            *)
LEMMA FinalChunkInv ==
    ASSUME ChunkerInv, FinalChunk
    PROVE  ChunkerInv' /\ chunkBufferCnt \in ChunkSize
  <1>1. /\ step = "tail" /\ chunkBufferCnt # 0 /\ PushRecipe(Rest) /\ chunkBufferCnt' = 0
        /\ start' = pos /\ step' = "head"
        /\ UNCHANGED <<file, garbage, fileSize, eof, pos, chunkBuffer, head>>
    BY DEF FinalChunk, Store, Restart, scanVars
  <1>2. /\ chunkBufferCnt \in 1 .. MaxSize
        /\ RecipePushed(chunkBufferCnt)
        /\ start + chunkBufferCnt = pos /\ pos = Len(file)
    BY <1>1, RestFacts
  <1>3. MaxSize \in Nat /\ 0 < MaxSize
    BY ChunkerAssumption
  <1>4. pos \in Nat
    BY DEF ChunkerInv, ChunkerTypeOK
  <1>5. ChunkerTypeOK'
    <2>1. chunkBufferCnt' \in 0 .. MaxSize /\ chunkBufferCnt' < MaxSize /\ start' \in 0 .. pos'
      BY <1>1, <1>3, <1>4
    <2> QED
      BY <1>1, <1>2, <2>1 DEF ChunkerInv, ChunkerTypeOK, RecipePushed
  <1>6. Progress' /\ BufferHolds'
    BY <1>1, <1>2 DEF ChunkerInv, Progress, BufferHolds
  <1>7. ChunksTileFile'
    <2>1. start' = End(Len(recipeList))' /\ start' + chunkBufferCnt' = pos'
      BY <1>1, <1>2, <1>4 DEF RecipePushed
    <2> QED
      BY <1>1, <1>2, <2>1 DEF ChunksTileFile, RecipePushed
  <1> QED
    BY <1>2, <1>5, <1>6, <1>7, ChunkerAssumption DEF ChunkerInv, RecipePushed

(* A rest that saveChunk does not store: varSizeChunking returns.          *)
LEMMA FinalFailsInv ==
    ASSUME ChunkerInv, FinalFails
    PROVE  ChunkerInv'
  <1>1. /\ step = "tail" /\ chunkBufferCnt # 0 /\ PushRecipe(Rest) /\ step' = "returned"
        /\ UNCHANGED <<file, garbage, fileSize, eof, pos, chunkBuffer, chunkBufferCnt, start, head>>
    BY DEF FinalFails, StoreFails, scanVars
  <1>2. RecipePushed(chunkBufferCnt)
    BY <1>1, RestFacts
  <1>3. ChunkerTypeOK'
    BY <1>1, <1>2 DEF ChunkerInv, ChunkerTypeOK, RecipePushed
  <1>4. Progress' /\ BufferHolds'
    BY <1>1 DEF ChunkerInv, Progress, BufferHolds
  <1>5. ChunksTileFile'
    BY <1>1, <1>2 DEF ChunksTileFile, RecipePushed
  <1> QED
    BY <1>2, <1>3, <1>4, <1>5 DEF ChunkerInv, RecipePushed

-----------------------------------------------------------------------------
(* Every step of varSizeChunking keeps the invariant and is a step of its  *)
(* index or leaves the index alone.                                        *)
LEMMA ChunkerStep ==
    ASSUME ChunkerInv, [ChunkerNext]_cvars
    PROVE  ChunkerInv' /\ [IndexStep]_indexVars
  <1>1. CASE ReadBlock \/ BlockDone \/ RecipeHead \/ ChunkerTerminated \/ UNCHANGED cvars
    <2>1. UNCHANGED indexVars
      BY <1>1 DEF ReadBlock, BlockDone, RecipeHead, ChunkerTerminated, cvars
    <2> QED
      BY <1>1, <2>1, QuietInv DEF ChunkerTerminated
  <1>2. CASE NoFinalChunk
    BY <1>2, QuietInv DEF NoFinalChunk, IndexStep
  <1>3. CASE FillWindow \/ SlideWindow
    BY <1>3, NoCutInv DEF FillWindow, SlideWindow
  <1>4. CASE Cut
    BY <1>4, CutInv DEF Cut, IndexStep
  <1>5. CASE CutFails
    BY <1>5, CutFailsInv DEF CutFails, StoreFails
  <1>6. CASE FinalChunk
    BY <1>6, FinalChunkInv DEF FinalChunk, IndexStep
  <1>7. CASE FinalFails
    BY <1>7, FinalFailsInv DEF FinalFails, StoreFails
  <1> QED
    BY <1>1, <1>2, <1>3, <1>4, <1>5, <1>6, <1>7 DEF ChunkerNext

(* The invariant holds throughout, and the index changes by its own steps. *)
LEMMA ChunkerAlways == ChunkerSpec => []ChunkerInv /\ [][IndexStep]_indexVars
  <1>1. ChunkerInit => ChunkerInv
    BY ChunkerInitInv
  <1>2. ChunkerInv /\ [ChunkerNext]_cvars => ChunkerInv' /\ [IndexStep]_indexVars
    BY ChunkerStep
  <1> QED
    BY <1>1, <1>2, PTL DEF ChunkerSpec

(* The variables keep their types; no byte is written behind chunkBuffer.  *)
THEOREM ChunkerTypeCorrect == ChunkerSpec => []ChunkerTypeOK
  <1>1. ChunkerInv => ChunkerTypeOK
    BY DEF ChunkerInv
  <1> QED
    BY <1>1, ChunkerAlways, PTL

(* The chunks are the file.                                                *)
THEOREM ChunksAreFile == ChunkerSpec => []ChunksTileFile
  <1>1. ChunkerInv => ChunksTileFile
    BY DEF ChunkerInv
  <1> QED
    BY <1>1, ChunkerAlways, PTL

(* Every chunk but the rest of the file is within the limits.              *)
THEOREM ChunksWithinLimits == ChunkerSpec => []ChunkSizes
  <1>1. ChunkerInv => ChunkSizes
    BY DEF ChunkerInv
  <1> QED
    BY <1>1, ChunkerAlways, PTL

(* The index that the chunker builds is one that FileIndex describes, and  *)
(* has its properties.                                                     *)
THEOREM ChunkerBuildsIndex ==
    ChunkerSpec => /\ IndexInit /\ [][IndexStep]_indexVars
                   /\ [](SegmentsTile /\ ContainersTile /\ SegmentSizes /\ ContainerSizes)
  <1>1. ChunkerInit => IndexInit
    BY DEF ChunkerInit
  <1>2. IndexInv => SegmentsTile /\ ContainersTile /\ SegmentSizes /\ ContainerSizes
    BY DEF IndexInv
  <1> QED
    BY <1>1, <1>2, ChunkerAlways, IndexCorrect, PTL DEF ChunkerSpec
-----------------------------------------------------------------------------
(* Every nonempty set of numbers has a least one.                          *)
LEMMA LeastNat ==
    ASSUME NEW T, T \subseteq Nat, T # {}
    PROVE  \E x \in T : \A y \in T : x <= y
  <1> DEFINE R == OpToRel(<, Nat)
  <1>1. IsWellFoundedOn(R, Nat)
    BY NatLessThanWellFounded
  <1>2. \A x, y \in Nat : y < x => <<y, x>> \in R
    BY DEF OpToRel
  <1> HIDE DEF R
  <1>3. PICK x \in T : \A y \in T : ~ (<<y, x>> \in R)
    BY <1>1, WFMin
  <1>4. x \in Nat
    OBVIOUS
  <1>5. ASSUME NEW y \in T PROVE x <= y
    <2>1. y \in Nat /\ ~ (y < x)
      BY <1>2, <1>3, <1>4
    <2> QED
      BY <1>4, <2>1
  <1> QED
    BY <1>5

(* Induction, for the set of the numbers that have the property.           *)
LEMMA SetInduction ==
    ASSUME NEW T, 0 \in T, \A n \in Nat : n \in T => n + 1 \in T
    PROVE  \A n \in Nat : n \in T
  <1> SUFFICES ASSUME Nat \ T # {} PROVE FALSE
    OBVIOUS
  <1>1. PICK x \in Nat \ T : \A y \in Nat \ T : x <= y
    BY LeastNat
  <1>2. x # 0 /\ x - 1 \in Nat /\ x - 1 \in T
    BY <1>1
  <1>3. (x - 1) + 1 \in T
    BY <1>2
  <1> QED
    BY <1>1, <1>3

(* There is a function that takes each value from the one before.          *)
LEMMA Recursion ==
    ASSUME NEW x \in Nat, NEW F \in [Nat -> [Nat -> Nat]]
    PROVE  \E g \in [Nat -> Nat] : g[0] = x /\ \A i \in Nat : g[i + 1] = F[i + 1][g[i]]
  <1> DEFINE Good(g, n) == /\ g \in [0 .. n -> Nat]
                           /\ g[0] = x
                           /\ \A i \in 0 .. (n - 1) : g[i + 1] = F[i + 1][g[i]]
             T == {n \in Nat : \E g : Good(g, n)}
  <1>1. 0 \in T
    <2> DEFINE g == [i \in 0 .. 0 |-> x]
    <2>1. Good(g, 0)
      OBVIOUS
    <2> QED
      BY <2>1
  <1>2. ASSUME NEW n \in Nat, n \in T PROVE n + 1 \in T
    <2>1. PICK g : Good(g, n)
      BY <1>2
    <2> DEFINE h == [i \in 0 .. (n + 1) |-> IF i <= n THEN g[i] ELSE F[n + 1][g[n]]]
    <2>0. g[n] \in Nat /\ F[n + 1][g[n]] \in Nat
      <3>0. n \in 0 .. n /\ n + 1 \in Nat
        OBVIOUS
      <3>1. g \in [0 .. n -> Nat]
        BY <2>1
      <3>2. g[n] \in Nat /\ F[n + 1] \in [Nat -> Nat]
        BY <3>0, <3>1
      <3> QED
        BY <3>2
    <2>2. h \in [0 .. (n + 1) -> Nat] /\ h[0] = x
      <3>1. g \in [0 .. n -> Nat] /\ g[0] = x
        BY <2>1
      <3>2. ASSUME NEW i \in 0 .. (n + 1) PROVE (IF i <= n THEN g[i] ELSE F[n + 1][g[n]]) \in Nat
        <4>1. CASE i <= n
          <5>1. i \in 0 .. n
            BY <4>1
          <5> QED
            BY <3>1, <4>1, <5>1
        <4>2. CASE ~(i <= n)
          BY <2>0, <4>2
        <4> QED
          BY <4>1, <4>2
      <3>3. h[0] = g[0]
        OBVIOUS
      <3> QED
        BY <3>1, <3>2, <3>3
    <2>3. ASSUME NEW i \in 0 .. n PROVE h[i + 1] = F[i + 1][h[i]]
      <3>1. CASE i < n
        <4>1. i \in 0 .. (n - 1) /\ i <= n /\ i + 1 <= n /\ i + 1 \in 0 .. (n + 1) /\ i \in 0 .. (n + 1)
          BY <3>1
        <4>2. g[i + 1] = F[i + 1][g[i]]
          BY <2>1, <4>1
        <4>3. h[i + 1] = g[i + 1] /\ h[i] = g[i]
          BY <4>1
        <4> QED
          BY <4>2, <4>3
      <3>2. CASE i = n
        BY <2>1, <3>2
      <3> QED
        BY <3>1, <3>2
    <2>4. (n + 1) - 1 = n
      OBVIOUS
    <2>5. Good(h, n + 1)
      BY <2>2, <2>3, <2>4
    <2>6. n + 1 \in Nat /\ \E q : Good(q, n + 1)
      <3> HIDE DEF Good, h
      <3> QED
        BY <2>5
    <2> QED
      BY <2>6
  <1>3. \A n \in Nat : \E g : Good(g, n)
    <2>1. \A n \in Nat : n \in T
      <3> HIDE DEF T
      <3> QED
        BY <1>1, <1>2, SetInduction
    <2> QED
      BY <2>1
  <1>4. ASSUME NEW n \in Nat, NEW m \in Nat, NEW g, NEW h, Good(g, n), Good(h, m)
        PROVE  \A k \in Nat : k <= n /\ k <= m => g[k] = h[k]
    <2> DEFINE U == {k \in Nat : k <= n /\ k <= m => g[k] = h[k]}
    <2>1. 0 \in U
      BY <1>4
    <2>2. ASSUME NEW k \in Nat, k \in U PROVE k + 1 \in U
      <3>1. CASE k + 1 <= n /\ k + 1 <= m
        <4>1. k \in 0 .. (n - 1) /\ k \in 0 .. (m - 1) /\ g[k] = h[k]
          BY <2>2, <3>1
        <4>2. g[k + 1] = F[k + 1][g[k]] /\ h[k + 1] = F[k + 1][h[k]]
          BY <1>4, <4>1
        <4> QED
          BY <4>1, <4>2
      <3>2. CASE ~(k + 1 <= n /\ k + 1 <= m)
        <4>1. k + 1 \in Nat
          OBVIOUS
        <4> QED
          BY <3>2, <4>1
      <3> QED
        BY <3>1, <3>2
    <2>3. \A k \in Nat : k \in U
      <3> HIDE DEF U
      <3> QED
        BY <2>1, <2>2, SetInduction
    <2> QED
      BY <2>3
  <1> DEFINE G(n) == CHOOSE g : Good(g, n)
             r == [n \in Nat |-> G(n)[n]]
  <1>5. ASSUME NEW n \in Nat PROVE Good(G(n), n)
    <2> HIDE DEF Good
    <2> QED
      BY <1>3
  <1> HIDE DEF G
  <1>6. ASSUME NEW n \in Nat PROVE r[n] = G(n)[n] /\ G(n)[n] \in Nat
    BY <1>5
  <1>7. r \in [Nat -> Nat] /\ r[0] = x
    BY <1>5, <1>6
  <1>8. ASSUME NEW i \in Nat PROVE r[i + 1] = F[i + 1][r[i]]
    <2>1. Good(G(i), i) /\ Good(G(i + 1), i + 1)
      <3> HIDE DEF Good
      <3>1. i + 1 \in Nat
        OBVIOUS
      <3> QED
        BY <1>5, <3>1
    <2>2. i <= i /\ i <= i + 1 /\ i + 1 \in Nat /\ i \in 0 .. ((i + 1) - 1)
      OBVIOUS
    <2>3. G(i + 1)[i] = G(i)[i]
      <3> HIDE DEF Good
      <3> QED
        BY <1>4, <2>1, <2>2
    <2>4. G(i + 1)[i + 1] = F[i + 1][G(i + 1)[i]]
      BY <2>1, <2>2
    <2> QED
      BY <1>6, <2>2, <2>3, <2>4
  <1> QED
    BY <1>7, <1>8

-----------------------------------------------------------------------------
(* powerLUT is what its loop computes.                                     *)
LEMMA PowerLUT ==
    /\ powerLUT[0] = 1
    /\ \A i \in Nat : i < WinSize => powerLUT[i] \in Nat
    /\ \A i \in Nat : i + 1 < WinSize => powerLUT[i + 1] = (powerLUT[i] * Base) % PolyRange
  <1> DEFINE F == [i \in Nat |-> [v \in Nat |-> (v * Base) % PolyRange]]
  <1>1. F \in [Nat -> [Nat -> Nat]]
    BY ChunkerAssumption
  <1>2. PICK g \in [Nat -> Nat] : g[0] = 1 /\ \A i \in Nat : g[i + 1] = F[i + 1][g[i]]
    <2> HIDE DEF F
    <2>1. 1 \in Nat
      OBVIOUS
    <2> QED
      BY <1>1, <2>1, Recursion
  <1>3. ASSUME NEW i \in Nat PROVE g[i + 1] = (g[i] * Base) % PolyRange
    <2>1. i + 1 \in Nat /\ g[i] \in Nat
      OBVIOUS
    <2>2. F[i + 1] = [v \in Nat |-> (v * Base) % PolyRange]
      BY <2>1
    <2> QED
      BY <1>2, <2>1, <2>2
  <1> DEFINE h == [i \in 0 .. (WinSize - 1) |-> g[i]]
             Rec(q) == q = [i \in 0 .. (WinSize - 1) |-> IF i = 0 THEN 1 ELSE (q[i - 1] * Base) % PolyRange]
  <1>4. ASSUME NEW i \in 0 .. (WinSize - 1)
        PROVE  h[i] = IF i = 0 THEN 1 ELSE (h[i - 1] * Base) % PolyRange
    <2>1. CASE i = 0
      BY <1>2, <2>1
    <2>2. CASE i # 0
      <3>1. i - 1 \in Nat /\ i - 1 \in 0 .. (WinSize - 1) /\ i \in Nat
        BY <2>2, ChunkerAssumption
      <3>2. g[(i - 1) + 1] = (g[i - 1] * Base) % PolyRange
        BY <1>3, <3>1
      <3>3. g[i] = (g[i - 1] * Base) % PolyRange
        BY <3>1, <3>2
      <3> QED
        BY <3>1, <3>3, <2>2
    <2> QED
      BY <2>1, <2>2
  <1>5. h = [i \in 0 .. (WinSize - 1) |-> h[i]]
    OBVIOUS
  <1> HIDE DEF h
  <1>6. Rec(h)
    BY <1>4, <1>5
  <1>7. Rec(powerLUT)
    BY <1>6 DEF powerLUT
  <1>8. \A i \in 0 .. (WinSize - 1) : powerLUT[i] = IF i = 0 THEN 1 ELSE (powerLUT[i - 1] * Base) % PolyRange
    BY <1>7
  <1>9. ASSUME NEW i \in Nat, i + 1 < WinSize PROVE powerLUT[i + 1] = (powerLUT[i] * Base) % PolyRange
    <2>1. i + 1 \in 0 .. (WinSize - 1) /\ i + 1 # 0 /\ (i + 1) - 1 = i
      BY <1>9, ChunkerAssumption
    <2> QED
      BY <1>8, <2>1
  <1>10. powerLUT[0] = 1 /\ 0 \in 0 .. (WinSize - 1)
    BY <1>8, ChunkerAssumption
  <1> DEFINE T == {i \in Nat : i < WinSize => powerLUT[i] \in Nat}
  <1>11. 0 \in T
    BY <1>10
  <1>12. ASSUME NEW i \in Nat, i \in T PROVE i + 1 \in T
    <2>1. CASE i + 1 < WinSize
      <3>1. powerLUT[i] \in Nat /\ powerLUT[i + 1] = (powerLUT[i] * Base) % PolyRange
        BY <1>9, <1>12, <2>1, ChunkerAssumption
      <3>2. (powerLUT[i] * Base) % PolyRange \in Nat
        <4>1. Base \in Nat /\ PolyRange \in Nat \ {0}
          BY ChunkerAssumption
        <4>2. powerLUT[i] \in Nat
          BY <3>1
        <4>3. powerLUT[i] * Base \in Nat
          BY <4>1, <4>2
        <4> QED
          BY <4>1, <4>3
      <3>3. powerLUT[i + 1] \in Nat /\ i + 1 \in Nat
        BY <3>1, <3>2
      <3> QED
        BY <3>3
    <2>2. CASE ~(i + 1 < WinSize)
      BY <2>2
    <2> QED
      BY <2>1, <2>2
  <1>13. \A i \in Nat : i \in T
    <2> HIDE DEF T
    <2> QED
      BY <1>11, <1>12, SetInduction
  <1> QED
    BY <1>9, <1>10, <1>13, ChunkerAssumption

(* Power(b) obeys its recursion.                                           *)
LEMMA PowerSteps ==
    ASSUME NEW b \in Nat
    PROVE  Power(b)[0] = 1 /\ \A n \in Nat : Power(b)[n] \in Nat /\ Power(b)[n + 1] = Power(b)[n] * b
  <1> DEFINE F == [i \in Nat |-> [v \in Nat |-> v * b]]
             Rec(q) == q = [i \in Nat |-> IF i = 0 THEN 1 ELSE q[i - 1] * b]
  <1>1. F \in [Nat -> [Nat -> Nat]]
    OBVIOUS
  <1>2. PICK g \in [Nat -> Nat] : g[0] = 1 /\ \A i \in Nat : g[i + 1] = F[i + 1][g[i]]
    <2> HIDE DEF F
    <2>1. 1 \in Nat
      OBVIOUS
    <2> QED
      BY <1>1, <2>1, Recursion
  <1>3. ASSUME NEW i \in Nat PROVE g[i + 1] = g[i] * b
    <2>1. i + 1 \in Nat /\ g[i] \in Nat
      OBVIOUS
    <2>2. F[i + 1] = [v \in Nat |-> v * b]
      BY <2>1
    <2> QED
      BY <1>2, <2>1, <2>2
  <1>4. ASSUME NEW i \in Nat PROVE g[i] = IF i = 0 THEN 1 ELSE g[i - 1] * b
    <2>1. CASE i = 0
      BY <1>2, <2>1
    <2>2. CASE i # 0
      <3>1. i - 1 \in Nat /\ (i - 1) + 1 = i
        BY <2>2
      <3>2. g[(i - 1) + 1] = g[i - 1] * b
        BY <1>3, <3>1
      <3> QED
        BY <2>2, <3>1, <3>2
    <2> QED
      BY <2>1, <2>2
  <1>5. g = [i \in Nat |-> g[i]]
    OBVIOUS
  <1>6. Rec(g)
    BY <1>4, <1>5
  <1>7. Rec(Power(b))
    BY <1>6 DEF Power
  <1>8. \A i \in Nat : Power(b)[i] = IF i = 0 THEN 1 ELSE Power(b)[i - 1] * b
    BY <1>7
  <1>9. Power(b)[0] = 1
    BY <1>8
  <1>10. ASSUME NEW i \in Nat PROVE Power(b)[i + 1] = Power(b)[i] * b
    <2>1. i + 1 \in Nat /\ i + 1 # 0 /\ (i + 1) - 1 = i
      OBVIOUS
    <2> QED
      BY <1>8, <2>1
  <1> DEFINE T == {i \in Nat : Power(b)[i] \in Nat}
  <1>11. 0 \in T
    BY <1>9
  <1>12. ASSUME NEW i \in Nat, i \in T PROVE i + 1 \in T
    <2>1. Power(b)[i] \in Nat /\ Power(b)[i + 1] = Power(b)[i] * b
      BY <1>10, <1>12
    <2>2. Power(b)[i] * b \in Nat
      BY <2>1
    <2> QED
      BY <2>1, <2>2
  <1>13. \A i \in Nat : i \in T
    <2> HIDE DEF T
    <2> QED
      BY <1>11, <1>12, SetInduction
  <1> QED
    BY <1>9, <1>10, <1>13

(* There is a power of two that numOfMaskBits is found by: the loop ends.  *)
LEMMA AnchorRangeType == AnchorRange \in Nat \ {0}
  <1> DEFINE E == Power(2)
             S == {E[n] : n \in 1 .. AvgSize}
             Fits(p) == p <= AvgSize /\ AvgSize < 2 * p
  <1>1. E[0] = 1 /\ \A n \in Nat : E[n] \in Nat /\ E[n + 1] = E[n] * 2
    BY PowerSteps
  <1>2. AvgSize \in Nat /\ AvgSize > 1
    BY ChunkerAssumption
  <1> HIDE DEF E
  <1> DEFINE T == {n \in Nat : n < E[n]}
  <1>3. 0 \in T
    BY <1>1
  <1>4. ASSUME NEW n \in Nat, n \in T PROVE n + 1 \in T
    <2>1. n < E[n] /\ E[n] \in Nat /\ E[n + 1] = E[n] * 2 /\ n + 1 \in Nat
      BY <1>1, <1>4
    <2>2. n + 1 < E[n] * 2
      BY <2>1
    <2> QED
      BY <2>1, <2>2
  <1>5. \A n \in Nat : n \in T
    <2> HIDE DEF T
    <2> QED
      BY <1>3, <1>4, SetInduction
  <1> DEFINE U == {n \in Nat : AvgSize < E[n]}
  <1>6. PICK m \in U : \A n \in U : m <= n
    <2>1. AvgSize \in U
      BY <1>2, <1>5
    <2> QED
      BY <2>1, LeastNat
  <1>7. m \in Nat /\ AvgSize < E[m] /\ \A n \in Nat : AvgSize < E[n] => m <= n
    BY <1>6
  <1>8. m > 1
    <2>1. E[0 + 1] = E[0] * 2
      BY <1>1
    <2>2. E[0] = 1 /\ E[1] = 2
      BY <1>1, <2>1
    <2>3. m # 0 /\ m # 1
      BY <1>2, <1>7, <2>2
    <2> QED
      BY <1>7, <2>3
  <1>9. PICK k \in Nat : k = m - 1 /\ k >= 1
    BY <1>7, <1>8
  <1>10. E[k] \in Nat /\ E[m] = E[k] * 2 /\ ~(AvgSize < E[k]) /\ k < E[k]
    <2>1. k + 1 = m /\ ~(m <= k)
      BY <1>7, <1>9
    <2>2. E[k] \in Nat /\ E[k + 1] = E[k] * 2
      BY <1>1
    <2> QED
      BY <1>5, <1>7, <2>1, <2>2
  <1>11. k \in 1 .. AvgSize /\ Fits(E[k])
    BY <1>2, <1>7, <1>9, <1>10
  <1>12. E[k] \in S
    BY <1>11
  <1>13. AnchorRange \in S /\ Fits(AnchorRange)
    <2>1. AnchorRange = CHOOSE p \in S : Fits(p)
      BY DEF AnchorRange, E
    <2> HIDE DEF S, Fits
    <2> QED
      BY <1>11, <1>12, <2>1
  <1>14. PICK n \in 1 .. AvgSize : AnchorRange = E[n]
    BY <1>13
  <1>15. AnchorRange \in Nat
    BY <1>1, <1>2, <1>14
  <1> QED
    BY <1>2, <1>13, <1>15

(* Poly(f, s) obeys its recursion (Horner's scheme).                       *)
LEMMA PolySteps ==
    ASSUME NEW f, NEW s \in Nat, Len(f) \in Nat, s <= Len(f), \A i \in 1 .. Len(f) : f[i] \in Nat
    PROVE  /\ Poly(f, s)[0] = 0
           /\ \A k \in Nat : k <= Len(f) - s => Poly(f, s)[k] \in Nat
           /\ \A k \in Nat : k + 1 <= Len(f) - s =>
                 Poly(f, s)[k + 1] = (Poly(f, s)[k] * Base + f[s + (k + 1)]) % AnchorRange
  <1>0. PICK L \in Nat : L = Len(f) - s /\ \A k \in 1 .. L : f[s + k] \in Nat
    <2>1. Len(f) - s \in Nat
      OBVIOUS
    <2>2. ASSUME NEW k \in 1 .. (Len(f) - s) PROVE f[s + k] \in Nat
      <3>1. s + k \in 1 .. Len(f)
        OBVIOUS
      <3> QED
        BY <3>1
    <2> QED
      BY <2>1, <2>2
  <1> DEFINE F == [i \in Nat |-> [v \in Nat |-> IF i \in 1 .. L THEN (v * Base + f[s + i]) % AnchorRange ELSE 0]]
             Rec(q) == q = [k \in 0 .. L |-> IF k = 0 THEN 0 ELSE (q[k - 1] * Base + f[s + k]) % AnchorRange]
  <1>a. ASSUME NEW v \in Nat, NEW k \in 1 .. L PROVE (v * Base + f[s + k]) % AnchorRange \in Nat
    <2>1. v * Base \in Nat /\ f[s + k] \in Nat
      BY <1>0, ChunkerAssumption, AnchorRangeType
    <2> QED
      BY <2>1, ChunkerAssumption, AnchorRangeType
  <1>1. F \in [Nat -> [Nat -> Nat]]
    BY <1>a
  <1>2. PICK g \in [Nat -> Nat] : g[0] = 0 /\ \A i \in Nat : g[i + 1] = F[i + 1][g[i]]
    <2> HIDE DEF F
    <2>1. 0 \in Nat
      OBVIOUS
    <2> QED
      BY <1>1, <2>1, Recursion
  <1>3. ASSUME NEW i \in Nat, i + 1 \in 1 .. L PROVE g[i + 1] = (g[i] * Base + f[s + (i + 1)]) % AnchorRange
    <2>1. i + 1 \in Nat /\ g[i] \in Nat
      OBVIOUS
    <2>2. F[i + 1] = [v \in Nat |-> (v * Base + f[s + (i + 1)]) % AnchorRange]
      BY <1>3, <2>1
    <2> QED
      BY <1>2, <2>1, <2>2
  <1> DEFINE h == [i \in 0 .. L |-> g[i]]
  <1>4. ASSUME NEW i \in 0 .. L PROVE h[i] = IF i = 0 THEN 0 ELSE (h[i - 1] * Base + f[s + i]) % AnchorRange
    <2>1. CASE i = 0
      BY <1>2, <2>1
    <2>2. CASE i # 0
      <3>1. i - 1 \in Nat /\ (i - 1) + 1 = i /\ i \in 1 .. L /\ i - 1 \in 0 .. L
        BY <2>2
      <3>2. g[i] = (g[i - 1] * Base + f[s + i]) % AnchorRange
        BY <1>3, <3>1
      <3> QED
        BY <2>2, <3>1, <3>2
    <2> QED
      BY <2>1, <2>2
  <1>5. h = [i \in 0 .. L |-> h[i]]
    OBVIOUS
  <1> HIDE DEF h
  <1>6. Rec(h)
    BY <1>4, <1>5
  <1>7. Rec(Poly(f, s))
    BY <1>0, <1>6 DEF Poly
  <1>8. \A k \in 0 .. L : Poly(f, s)[k] = IF k = 0 THEN 0 ELSE (Poly(f, s)[k - 1] * Base + f[s + k]) % AnchorRange
    BY <1>7
  <1>9. Poly(f, s)[0] = 0
    BY <1>8
  <1>10. ASSUME NEW i \in Nat, i + 1 <= L
         PROVE  Poly(f, s)[i + 1] = (Poly(f, s)[i] * Base + f[s + (i + 1)]) % AnchorRange
    <2>1. i + 1 \in 0 .. L /\ i + 1 # 0 /\ (i + 1) - 1 = i
      BY <1>10
    <2> QED
      BY <1>8, <2>1
  <1> DEFINE T == {i \in Nat : i <= L => Poly(f, s)[i] \in Nat}
  <1>11. 0 \in T
    BY <1>9
  <1>12. ASSUME NEW i \in Nat, i \in T PROVE i + 1 \in T
    <2>1. CASE i + 1 <= L
      <3>1. Poly(f, s)[i] \in Nat /\ Poly(f, s)[i + 1] = (Poly(f, s)[i] * Base + f[s + (i + 1)]) % AnchorRange
        BY <1>10, <1>12, <2>1
      <3>2. i + 1 \in 1 .. L
        BY <2>1
      <3>3. Poly(f, s)[i + 1] \in Nat
        BY <1>a, <3>1, <3>2
      <3> QED
        BY <3>3
    <2>2. CASE ~(i + 1 <= L)
      BY <2>2
    <2> QED
      BY <2>1, <2>2
  <1>13. \A i \in Nat : i \in T
    <2> HIDE DEF T
    <2> QED
      BY <1>11, <1>12, SetInduction
  <1> QED
    BY <1>0, <1>9, <1>10, <1>13
-----------------------------------------------------------------------------
(* x and y agree in the bits that the anchor is in.                        *)
Cong(x, y) == \E q \in Int : x = y + q * AnchorRange

(* Cong is an equivalence that sums and products respect.                  *)
LEMMA CongRefl ==
    ASSUME NEW x \in Int
    PROVE  Cong(x, x)
  <1> AnchorRange \in Nat \ {0}
    BY AnchorRangeType
  <1>1. 0 \in Int /\ x = x + 0 * AnchorRange
    OBVIOUS
  <1> QED
    BY <1>1 DEF Cong

(* The same, read from the right.                                          *)
LEMMA CongSym ==
    ASSUME NEW x \in Int, NEW y \in Int, Cong(x, y)
    PROVE  Cong(y, x)
  <1> AnchorRange \in Nat \ {0}
    BY AnchorRangeType
  <1>1. PICK q \in Int : x = y + q * AnchorRange
    BY DEF Cong
  <1>2. -q \in Int /\ y = x + (-q) * AnchorRange
    BY <1>1
  <1> QED
    BY <1>2 DEF Cong

(* Congruences are chained.                                                *)
LEMMA CongTrans ==
    ASSUME NEW x \in Int, NEW y \in Int, NEW z \in Int, Cong(x, y), Cong(y, z)
    PROVE  Cong(x, z)
  <1> AnchorRange \in Nat \ {0}
    BY AnchorRangeType
  <1>1. PICK q \in Int : x = y + q * AnchorRange
    BY DEF Cong
  <1>2. PICK r \in Int : y = z + r * AnchorRange
    BY DEF Cong
  <1>3. q + r \in Int /\ x = z + (q + r) * AnchorRange
    BY <1>1, <1>2
  <1> QED
    BY <1>3 DEF Cong

(* Sums of congruent numbers are congruent.                                *)
LEMMA CongAdd ==
    ASSUME NEW x \in Int, NEW y \in Int, NEW u \in Int, NEW v \in Int, Cong(x, y), Cong(u, v)
    PROVE  Cong(x + u, y + v)
  <1> AnchorRange \in Nat \ {0}
    BY AnchorRangeType
  <1>1. PICK q \in Int : x = y + q * AnchorRange
    BY DEF Cong
  <1>2. PICK r \in Int : u = v + r * AnchorRange
    BY DEF Cong
  <1>3. q + r \in Int /\ x + u = (y + v) + (q + r) * AnchorRange
    BY <1>1, <1>2
  <1> QED
    BY <1>3 DEF Cong

(* Multiples of congruent numbers are congruent.                           *)
LEMMA CongMul ==
    ASSUME NEW x \in Int, NEW y \in Int, NEW k \in Int, Cong(x, y)
    PROVE  Cong(x * k, y * k)
  <1> AnchorRange \in Nat \ {0}
    BY AnchorRangeType
  <1>1. PICK q \in Int : x = y + q * AnchorRange
    BY DEF Cong
  <1>2. q * k \in Int /\ x * k = y * k + (q * k) * AnchorRange
    <2>1. (q * AnchorRange) * k = (q * k) * AnchorRange
      OBVIOUS
    <2>2. (y + q * AnchorRange) * k = y * k + (q * AnchorRange) * k
      OBVIOUS
    <2>3. q * k \in Int
      OBVIOUS
    <2> QED
      BY <1>1, <2>1, <2>2, <2>3
  <1> QED
    BY <1>2 DEF Cong

(* Division with remainder.                                                *)
LEMMA DivMod ==
    ASSUME NEW x \in Int, NEW m \in Nat \ {0}
    PROVE  \E d \in Int, r \in 0 .. (m - 1) : r = x % m /\ x = d * m + r
  <1>0. m \in Int /\ m > 0
    OBVIOUS
  <1>1. x \div m \in Int /\ x % m \in 0 .. (m - 1)
    BY <1>0
  <1>2. x % m = x - (x \div m) * m
    BY <1>0
  <1>3. PICK d \in Int : x % m = x - d * m
    BY <1>1, <1>2
  <1>4. PICK r \in 0 .. (m - 1) : r = x % m
    BY <1>1
  <1>5. d * m \in Int /\ r = x - d * m
    BY <1>3, <1>4
  <1>6. x = d * m + r
    BY <1>5
  <1> QED
    BY <1>4, <1>6

(* A remainder modulo a multiple of AnchorRange.                           *)
LEMMA CongMod ==
    ASSUME NEW x \in Int, NEW m \in Nat \ {0}, m % AnchorRange = 0
    PROVE  Cong(x % m, x)
  <1> AnchorRange \in Nat \ {0}
    BY AnchorRangeType
  <1>1. PICK a \in Int, o \in 0 .. (AnchorRange - 1) : o = m % AnchorRange /\ m = a * AnchorRange + o
    BY DivMod
  <1>2. PICK b \in Int, r \in 0 .. (m - 1) : r = x % m /\ x = b * m + r
    BY DivMod
  <1>4. m = a * AnchorRange /\ x = b * m + r /\ AnchorRange \in Int /\ m \in Int
    <2>1. o = 0
      BY <1>1
    <2> QED
      BY <1>1, <1>2, <2>1
  <1>5. b * m = (b * a) * AnchorRange
    BY <1>4
  <1>6. -(b * a) \in Int /\ r = x + (-(b * a)) * AnchorRange
    BY <1>4, <1>5
  <1>7. Cong(r, x)
    BY <1>6 DEF Cong
  <1> QED
    BY <1>2, <1>7

(* The only multiple of m that is a remainder is zero.                     *)
LEMMA SmallMultiple ==
    ASSUME NEW m \in Nat \ {0}, NEW k \in Int, k * m \in 0 .. (m - 1)
    PROVE  k * m = 0
  <1>1. m \in Int /\ m > 0 /\ k * m >= 0 /\ k * m < m
    OBVIOUS
  <1>2. CASE k >= 1
    <2>1. k * m >= 1 * m
      BY <1>1, <1>2
    <2> QED
      BY <1>1, <2>1
  <1>3. CASE k <= -1
    <2>1. k * m <= (-1) * m
      BY <1>1, <1>3
    <2> QED
      BY <1>1, <2>1
  <1>4. CASE k = 0
    BY <1>4, <1>1
  <1> QED
    BY <1>2, <1>3, <1>4

(* Congruent numbers show the anchor together.                             *)
LEMMA CongZero ==
    ASSUME NEW x \in Int, NEW y \in Int, Cong(x, y), x % AnchorRange = 0
    PROVE  y % AnchorRange = 0
  <1> AnchorRange \in Nat \ {0}
    BY AnchorRangeType
  <1>0. AnchorRange \in Int
    OBVIOUS
  <1>1. PICK q \in Int : x = y + q * AnchorRange
    BY DEF Cong
  <1>2. PICK d \in Int, o \in 0 .. (AnchorRange - 1) : o = x % AnchorRange /\ x = d * AnchorRange + o
    BY DivMod
  <1>3. PICK e \in Int, r \in 0 .. (AnchorRange - 1) : r = y % AnchorRange /\ y = e * AnchorRange + r
    BY DivMod
  <1>5. r = (d - q - e) * AnchorRange
    <2>1. o = 0
      BY <1>2
    <2>a. x = d * AnchorRange + o /\ y = e * AnchorRange + r
      BY <1>2, <1>3
    <2>b. d * AnchorRange \in Int /\ q * AnchorRange \in Int /\ e * AnchorRange \in Int
      BY <1>0
    <2>2. r = d * AnchorRange - q * AnchorRange - e * AnchorRange
      BY <1>1, <2>1, <2>a, <2>b
    <2> QED
      BY <2>2, <1>0
  <1>6. d - q - e \in Int
    OBVIOUS
  <1>7. (d - q - e) * AnchorRange = 0
    BY <1>5, <1>6, SmallMultiple
  <1> QED
    BY <1>3, <1>5, <1>7

(* What is added on both sides can be left out.                            *)
LEMMA CongCancel ==
    ASSUME NEW x \in Int, NEW y \in Int, NEW z \in Int, Cong(x + z, y + z)
    PROVE  Cong(x, y)
  <1> AnchorRange \in Nat \ {0}
    BY AnchorRangeType
  <1>1. PICK q \in Int : x + z = (y + z) + q * AnchorRange
    BY DEF Cong
  <1>2. q * AnchorRange \in Int
    OBVIOUS
  <1>3. x = y + q * AnchorRange
    BY <1>1, <1>2
  <1> QED
    BY <1>3 DEF Cong

(* A multiple of the range is congruent to zero.                           *)
LEMMA CongMultiple ==
    ASSUME NEW m \in Nat \ {0}, m % AnchorRange = 0
    PROVE  Cong(m, 0)
  <1> AnchorRange \in Nat \ {0}
    BY AnchorRangeType
  <1>1. PICK a \in Int, o \in 0 .. (AnchorRange - 1) : o = m % AnchorRange /\ m = a * AnchorRange + o
    BY DivMod
  <1>2. o = 0 /\ a * AnchorRange \in Int
    BY <1>1
  <1>3. m = 0 + a * AnchorRange
    BY <1>1, <1>2
  <1> QED
    BY <1>3 DEF Cong

(* What the two masks of the code leave of a value.                        *)
LEMMA MasksKeep ==
    ASSUME NEW x \in Nat
    PROVE  /\ x % PolyRange \in Nat /\ Cong(x % PolyRange, x)
           /\ (x % PolyRange) % FpRange \in Nat /\ Cong((x % PolyRange) % FpRange, x)
  <1>1. PolyRange \in Nat \ {0} /\ FpRange \in Nat \ {0}
    BY ChunkerAssumption
  <1>2. PICK r \in Nat : r = x % PolyRange
    <2>1. x % PolyRange \in Nat
      BY <1>1
    <2> QED
      BY <2>1
  <1>3. PICK t \in Nat : t = r % FpRange
    <2>1. r % FpRange \in Nat
      BY <1>1
    <2> QED
      BY <2>1
  <1>4. x \in Int /\ r \in Int /\ t \in Int
    OBVIOUS
  <1>5. Cong(r, x)
    BY <1>1, <1>2, <1>4, MaskAssumption, CongMod
  <1>6. Cong(t, r)
    BY <1>1, <1>3, <1>4, MaskAssumption, CongMod
  <1>7. Cong(t, x)
    BY <1>4, <1>5, <1>6, CongTrans
  <1> QED
    BY <1>2, <1>3, <1>5, <1>7

(* powerLUT holds the powers of the base.                                  *)
LEMMA TableIsPower ==
    \A i \in Nat : i < WinSize => Cong(powerLUT[i], Power(Base)[i])
  <1>b. Base \in Nat /\ WinSize \in Nat
    BY ChunkerAssumption
  <1> DEFINE E == Power(Base)
             T == {i \in Nat : i < WinSize => Cong(powerLUT[i], E[i])}
  <1>e. E[0] = 1 /\ \A n \in Nat : E[n] \in Nat /\ E[n + 1] = E[n] * Base
    BY <1>b, PowerSteps
  <1> HIDE DEF E
  <1>1. 0 \in T
    <2>1. powerLUT[0] = 1 /\ E[0] = 1
      BY <1>e, PowerLUT
    <2>2. Cong(1, 1)
      BY CongRefl
    <2> QED
      BY <2>1, <2>2
  <1>2. ASSUME NEW i \in Nat, i \in T PROVE i + 1 \in T
    <2>1. CASE i + 1 < WinSize
      <3>1. powerLUT[i] \in Nat /\ powerLUT[i + 1] = (powerLUT[i] * Base) % PolyRange /\ Cong(powerLUT[i], E[i])
        BY <1>b, <1>2, <2>1, PowerLUT
      <3>2. PICK x \in Nat, p \in Nat : x = powerLUT[i] /\ p = E[i]
        BY <1>e, <3>1
      <3>3. x * Base \in Nat /\ p * Base \in Nat /\ x \in Int /\ p \in Int /\ Base \in Int
        BY <1>b
      <3>4. Cong(x * Base, p * Base)
        BY <3>1, <3>2, <3>3, CongMul
      <3>5. (x * Base) % PolyRange \in Nat /\ Cong((x * Base) % PolyRange, x * Base)
        BY <3>3, MasksKeep
      <3>6. Cong((x * Base) % PolyRange, p * Base)
        BY <3>3, <3>4, <3>5, CongTrans
      <3>7. powerLUT[i + 1] = (x * Base) % PolyRange /\ E[i + 1] = p * Base
        BY <1>e, <3>1, <3>2
      <3>8. Cong(powerLUT[i + 1], E[i + 1]) /\ i + 1 \in Nat
        BY <3>6, <3>7
      <3> QED
        BY <3>8
    <2>2. CASE ~(i + 1 < WinSize)
      <3>1. i + 1 \in Nat
        OBVIOUS
      <3> QED
        BY <2>2, <3>1
    <2> QED
      BY <2>1, <2>2
  <1>3. \A i \in Nat : i \in T
    <2> HIDE DEF T
    <2> QED
      BY <1>1, <1>2, SetInduction
  <1> QED
    BY <1>3 DEF E

(* removeLUT[v] takes v times the highest power out of a fingerprint.      *)
LEMMA RemoveTakesOut ==
    ASSUME NEW v \in Byte
    PROVE  removeLUT[v] \in Nat /\ Cong(removeLUT[v] + v * Power(Base)[WinSize - 1], 0)
  <1>b. /\ Base \in Nat /\ WinSize \in Nat \ {0} /\ v \in Nat /\ PolyRange \in Nat \ {0}
        /\ WinSize - 1 \in Nat /\ WinSize - 1 < WinSize
    BY ChunkerAssumption
  <1>1. PICK p \in Nat, w \in Nat : p = Power(Base)[WinSize - 1] /\ w = powerLUT[WinSize - 1]
    <2>1. Power(Base)[WinSize - 1] \in Nat /\ powerLUT[WinSize - 1] \in Nat
      BY <1>b, PowerSteps, PowerLUT
    <2> QED
      BY <2>1
  <1>2. Cong(w, p)
    BY <1>b, <1>1, TableIsPower
  <1>3. w * v \in Nat /\ p * v \in Nat /\ v * w \in Nat /\ v * w = w * v /\ v * p = p * v
    BY <1>b
  <1>4. Cong(w * v, p * v)
    <2>1. w \in Int /\ p \in Int /\ v \in Int
      BY <1>b
    <2> QED
      BY <1>2, <2>1, CongMul
  <1>5. PICK r \in 0 .. (PolyRange - 1) : r = (v * w) % PolyRange
    BY <1>b, <1>3
  <1>6. Cong(r, p * v)
    <2>1. Cong((v * w) % PolyRange, v * w)
      BY <1>3, MasksKeep
    <2>2. Cong(r, w * v)
      BY <1>3, <1>5, <2>1
    <2> QED
      BY <1>3, <1>4, <2>2, CongTrans
  <1>7. removeLUT[v] = IF r # 0 THEN PolyRange - r ELSE 0
    BY <1>1, <1>5 DEF removeLUT
  <1>8. CASE r = 0
    <2>1. removeLUT[v] = 0 /\ Cong(p * v, 0)
      BY <1>3, <1>6, <1>7, <1>8, CongSym
    <2>2. 0 + v * p = p * v
      BY <1>3
    <2> QED
      BY <1>1, <2>1, <2>2
  <1>9. CASE r # 0
    <2>1. PICK d \in Nat : d = PolyRange - r
      BY <1>b
    <2>2. removeLUT[v] = d
      BY <1>7, <1>9, <2>1
    <2>3. Cong(p * v, r) /\ Cong(d, d) /\ Cong(PolyRange, 0)
      BY <1>b, <1>3, <1>6, CongSym, CongRefl, CongMultiple, MaskAssumption
    <2>4. Cong(d + p * v, d + r)
      BY <1>3, <2>3, CongAdd
    <2>5. d + r = PolyRange /\ d + p * v = d + v * p /\ d + p * v \in Int
      BY <1>b, <1>3, <2>1
    <2>6. Cong(d + v * p, 0)
      BY <1>b, <2>3, <2>4, <2>5, CongTrans
    <2> QED
      BY <1>1, <2>2, <2>6
  <1> QED
    BY <1>8, <1>9

(* Horner's scheme from the other end: the first byte of n + 1 counts with *)
(* the highest power.                                                      *)
LEMMA PolyShift ==
    ASSUME NEW f, NEW s \in Nat, Len(f) \in Nat, s + 1 <= Len(f), \A i \in 1 .. Len(f) : f[i] \in Nat
    PROVE  \A n \in Nat : n + 1 <= Len(f) - s =>
              Cong(Poly(f, s)[n + 1], f[s + 1] * Power(Base)[n] + Poly(f, s + 1)[n])
  <1>b. Base \in Nat /\ AnchorRange \in Nat \ {0}
    BY ChunkerAssumption, AnchorRangeType
  <1>m. \A x \in Nat : x % AnchorRange \in Nat /\ Cong(x % AnchorRange, x)
    <2>1. AnchorRange % AnchorRange = 0
      BY <1>b
    <2>2. ASSUME NEW x \in Nat PROVE x % AnchorRange \in Nat
      BY <1>b
    <2>3. ASSUME NEW x \in Nat PROVE Cong(x % AnchorRange, x)
      <3>1. x \in Int
        OBVIOUS
      <3> QED
        BY <1>b, <2>1, <3>1, CongMod
    <2> QED
      BY <2>2, <2>3
  <1> DEFINE E == Power(Base)
             H == Poly(f, s)
             G == Poly(f, s + 1)
             T == {n \in Nat : n + 1 <= Len(f) - s => Cong(H[n + 1], f[s + 1] * E[n] + G[n])}
  <1>e. E[0] = 1 /\ \A n \in Nat : E[n] \in Nat /\ E[n + 1] = E[n] * Base
    BY <1>b, PowerSteps
  <1>h. /\ H[0] = 0
        /\ \A k \in Nat : k <= Len(f) - s => H[k] \in Nat
        /\ \A k \in Nat : k + 1 <= Len(f) - s => H[k + 1] = (H[k] * Base + f[s + (k + 1)]) % AnchorRange
    <2>1. s <= Len(f)
      OBVIOUS
    <2> QED
      BY <2>1, PolySteps
  <1>g. /\ G[0] = 0
        /\ \A k \in Nat : k <= Len(f) - (s + 1) => G[k] \in Nat
        /\ \A k \in Nat : k + 1 <= Len(f) - (s + 1) =>
              G[k + 1] = (G[k] * Base + f[(s + 1) + (k + 1)]) % AnchorRange
    <2>1. s + 1 \in Nat
      OBVIOUS
    <2> QED
      BY <2>1, PolySteps
  <1> HIDE DEF E, H, G
  <1>1. 0 \in T
    <2>1. PICK a \in Nat : a = f[s + 1]
      OBVIOUS
    <2>2. H[0 + 1] = (H[0] * Base + f[s + (0 + 1)]) % AnchorRange
      BY <1>h
    <2>3. H[0 + 1] = a % AnchorRange
      BY <1>b, <1>h, <2>1, <2>2
    <2>4. f[s + 1] * E[0] + G[0] = a
      <3>1. f[s + 1] = a /\ E[0] = 1 /\ G[0] = 0
        BY <1>e, <1>g, <2>1
      <3>2. a * 1 + 0 = a
        OBVIOUS
      <3> QED
        BY <3>1, <3>2
    <2>5. Cong(H[0 + 1], f[s + 1] * E[0] + G[0])
      BY <1>m, <2>3, <2>4
    <2> QED
      BY <2>5
  <1>2. ASSUME NEW n \in Nat, n \in T PROVE n + 1 \in T
    <2>n. n + 1 \in Nat
      OBVIOUS
    <2>1. CASE (n + 1) + 1 <= Len(f) - s
      <3>0. /\ n + 1 <= Len(f) - s /\ n <= Len(f) - (s + 1) /\ n + 1 <= Len(f) - (s + 1)
            /\ s + ((n + 1) + 1) \in 1 .. Len(f) /\ s + 1 \in 1 .. Len(f)
            /\ s + ((n + 1) + 1) = (s + 1) + (n + 1)
        BY <2>1
      <3>1. PICK a \in Nat, b \in Nat : a = f[s + 1] /\ b = f[s + ((n + 1) + 1)]
        BY <3>0
      <3>2. PICK x \in Nat, y \in Nat, p \in Nat : x = H[n + 1] /\ y = G[n] /\ p = E[n]
        BY <1>e, <1>g, <1>h, <2>n, <3>0
      <3>3. Cong(x, a * p + y)
        BY <1>2, <3>0, <3>1, <3>2
      <3>4. /\ H[(n + 1) + 1] = (x * Base + b) % AnchorRange
            /\ G[n + 1] = (y * Base + b) % AnchorRange
            /\ E[n + 1] = p * Base
        <4>1. H[(n + 1) + 1] = (H[n + 1] * Base + f[s + ((n + 1) + 1)]) % AnchorRange
          BY <1>h, <2>n, <2>1
        <4>2. G[n + 1] = (G[n] * Base + f[(s + 1) + (n + 1)]) % AnchorRange
          BY <1>g, <3>0
        <4>3. E[n + 1] = E[n] * Base
          BY <1>e
        <4> QED
          BY <3>0, <3>1, <3>2, <4>1, <4>2, <4>3
      <3>5. /\ x * Base + b \in Nat /\ y * Base + b \in Nat /\ a * p + y \in Nat
            /\ (a * p + y) * Base + b \in Nat /\ a * (p * Base) \in Nat
            /\ (a * p + y) * Base \in Nat /\ x * Base \in Nat /\ b \in Int
        BY <1>b
      <3>6. (a * p + y) * Base + b = a * (p * Base) + (y * Base + b)
        BY <1>b
      <3>7. Cong(x * Base + b, (a * p + y) * Base + b)
        <4>1. Cong(x * Base, (a * p + y) * Base)
          <5>1. x \in Int /\ Base \in Int /\ a * p + y \in Int
            BY <1>b, <3>5
          <5> QED
            BY <3>3, <5>1, CongMul
        <4>2. Cong(b, b)
          BY <3>5, CongRefl
        <4> QED
          BY <3>5, <4>1, <4>2, CongAdd
      <3>8. PICK h \in Nat, g \in Nat : h = (x * Base + b) % AnchorRange /\ g = (y * Base + b) % AnchorRange
        BY <1>m, <3>5
      <3>9. Cong(h, x * Base + b) /\ Cong(g, y * Base + b)
        BY <1>m, <3>5, <3>8
      <3>10. PICK u \in Nat, z \in Nat, t \in Nat : u = x * Base + b /\ z = y * Base + b /\ t = a * (p * Base)
        BY <3>5
      <3>11. Cong(h, u) /\ Cong(u, t + z) /\ Cong(z, g) /\ Cong(t, t)
        BY <3>6, <3>7, <3>9, <3>10, CongSym, CongRefl
      <3>12. Cong(t + z, t + g)
        BY <3>11, CongAdd
      <3>13. Cong(h, t + g)
        <4>1. t + z \in Int /\ t + g \in Int /\ h \in Int /\ u \in Int
          OBVIOUS
        <4>2. Cong(h, t + z)
          BY <3>11, <4>1, CongTrans
        <4> QED
          BY <3>12, <4>1, <4>2, CongTrans
      <3>14. Cong(H[(n + 1) + 1], f[s + 1] * E[n + 1] + G[n + 1])
        BY <3>1, <3>4, <3>8, <3>10, <3>13
      <3> QED
        BY <2>n, <3>14
    <2>2. CASE ~((n + 1) + 1 <= Len(f) - s)
      BY <2>n, <2>2
    <2> QED
      BY <2>1, <2>2
  <1>3. \A n \in Nat : n \in T
    <2> HIDE DEF T
    <2> QED
      BY <1>1, <1>2, SetInduction
  <1> QED
    BY <1>3 DEF E, H, G

(* A byte put into a window that is not full.                              *)
LEMMA FillKeeps ==
    ASSUME NEW fp \in Nat, NEW b \in Nat, NEW cnt \in Nat, cnt < WinSize, NEW seed \in Nat, NEW h \in Nat,
           Cong(fp, seed + h * Power(Base)[WinSize - cnt])
    PROVE  /\ FillFp(fp, b, cnt) \in Nat
           /\ Cong(FillFp(fp, b, cnt),
                   seed + ((h * Base + b) % AnchorRange) * Power(Base)[WinSize - (cnt + 1)])
  <1>b. Base \in Nat /\ AnchorRange \in Nat \ {0} /\ WinSize \in Nat
    BY ChunkerAssumption, AnchorRangeType
  <1>0. PICK j \in Nat : /\ j = WinSize - (cnt + 1) /\ j + 1 = WinSize - cnt /\ j = WinSize - cnt - 1
                         /\ j < WinSize
    BY <1>b
  <1>1. PICK p \in Nat : p = Power(Base)[j] /\ Power(Base)[j + 1] = p * Base
    BY <1>b, PowerSteps
  <1>2. PICK w \in Nat : w = powerLUT[j]
    BY <1>0, PowerLUT
  <1>3. Cong(w, p)
    BY <1>0, <1>1, <1>2, TableIsPower
  <1>4. PICK x \in Nat : x = fp + b * w
    <2>1. fp + b * w \in Nat
      OBVIOUS
    <2> QED
      BY <2>1
  <1>5. FillFp(fp, b, cnt) = (x % PolyRange) % FpRange
    BY <1>0, <1>2, <1>4 DEF FillFp
  <1>6. FillFp(fp, b, cnt) \in Nat /\ Cong(FillFp(fp, b, cnt), x)
    BY <1>5, MasksKeep
  <1>7. PICK g \in Nat : g = (h * Base + b) % AnchorRange /\ Cong(g, h * Base + b)
    <2>0. PICK y \in Nat : y = h * Base + b
      <3>1. h * Base + b \in Nat
        BY <1>b
      <3> QED
        BY <3>1
    <2>1. y % AnchorRange \in Nat /\ AnchorRange % AnchorRange = 0 /\ y \in Int
      BY <1>b
    <2>2. Cong(y % AnchorRange, y)
      BY <1>b, <2>1, CongMod
    <2> QED
      BY <2>0, <2>1, <2>2
  <1>8. PICK z \in Nat, t \in Nat, v \in Nat : z = seed + h * (p * Base) /\ t = b * p /\ v = g * p
    <2>1. seed + h * (p * Base) \in Nat /\ b * p \in Nat /\ g * p \in Nat
      BY <1>b
    <2> QED
      BY <2>1
  <1>9. Cong(fp, z)
    BY <1>0, <1>1, <1>8
  <1>10. Cong(b * w, t)
    <2>1. Cong(w * b, p * b)
      BY <1>3, CongMul
    <2>2. w * b = b * w /\ p * b = b * p
      OBVIOUS
    <2> QED
      BY <1>8, <2>1, <2>2
  <1>11. Cong(x, z + t)
    <2>1. b * w \in Int
      OBVIOUS
    <2> QED
      BY <1>4, <1>9, <1>10, <2>1, CongAdd
  <1>12. Cong((h * Base + b) * p, v)
    <2>1. h * Base + b \in Int
      BY <1>b
    <2>2. Cong(h * Base + b, g)
      BY <1>7, <2>1, CongSym
    <2> QED
      BY <1>8, <2>1, <2>2, CongMul
  <1>13. z + t = seed + (h * Base + b) * p
    <2>1. (h * Base + b) * p = h * (p * Base) + b * p
      BY <1>b
    <2>2. h * (p * Base) \in Int /\ b * p \in Int
      BY <1>b
    <2> QED
      BY <1>8, <2>1, <2>2
  <1>14. Cong(z + t, seed + v)
    <2>1. (h * Base + b) * p \in Int
      BY <1>b
    <2>2. Cong(seed, seed)
      BY CongRefl
    <2> QED
      BY <1>12, <1>13, <2>1, <2>2, CongAdd
  <1>15. Cong(FillFp(fp, b, cnt), seed + v)
    <2>1. PICK r \in Nat : r = FillFp(fp, b, cnt)
      BY <1>6
    <2>2. Cong(r, x) /\ z + t \in Int /\ seed + v \in Int
      BY <1>6, <2>1
    <2>3. Cong(r, z + t)
      BY <1>11, <2>2, CongTrans
    <2>4. Cong(r, seed + v)
      BY <1>14, <2>2, <2>3, CongTrans
    <2> QED
      BY <2>1, <2>4
  <1> QED
    BY <1>0, <1>1, <1>6, <1>7, <1>8, <1>15

(* The first byte of a full window goes and b comes: h was the polynomial  *)
(* of the window, g is that of the next one, and u that of both.           *)
LEMMA SlideKeeps ==
    ASSUME NEW fp \in Nat, NEW old \in Byte, NEW b \in Nat, NEW seed \in Nat, NEW j \in Nat,
           NEW h \in Nat, NEW g \in Nat, NEW u \in Nat,
           Cong(fp, h + seed * Power(Base)[j]),
           Cong(u, h * Base + b),
           Cong(u, old * Power(Base)[WinSize] + g)
    PROVE  /\ SlideFp(fp, old, b) \in Nat
           /\ Cong(SlideFp(fp, old, b), g + seed * Power(Base)[j + 1])
  <1>b. Base \in Nat /\ WinSize - 1 \in Nat /\ (WinSize - 1) + 1 = WinSize /\ old \in Nat
    BY ChunkerAssumption
  <1>1. PICK p \in Nat, w \in Nat :
              /\ p = Power(Base)[j] /\ Power(Base)[j + 1] = p * Base
              /\ w = Power(Base)[WinSize - 1] /\ Power(Base)[WinSize] = w * Base
    <2>1. Power(Base)[j] \in Nat /\ Power(Base)[j + 1] = Power(Base)[j] * Base
      BY <1>b, PowerSteps
    <2>2. Power(Base)[WinSize - 1] \in Nat /\ Power(Base)[(WinSize - 1) + 1] = Power(Base)[WinSize - 1] * Base
      BY <1>b, PowerSteps
    <2> QED
      BY <1>b, <2>1, <2>2
  <1>2. PICK m \in Nat : m = removeLUT[old] /\ Cong(m + old * w, 0)
    BY <1>1, RemoveTakesOut
  <1>3. PICK a \in Nat, c \in Nat, d \in Nat, x \in Nat :
              a = old * w /\ c = seed * p /\ d = h * Base + b /\ x = (fp + m) * Base + b
    <2>1. old * w \in Nat /\ seed * p \in Nat /\ h * Base + b \in Nat /\ (fp + m) * Base + b \in Nat
      BY <1>b
    <2> QED
      BY <2>1
  <1>4. SlideFp(fp, old, b) = (x % PolyRange) % FpRange
    BY <1>2, <1>3 DEF SlideFp
  <1>5. PICK r \in Nat : r = SlideFp(fp, old, b) /\ Cong(r, x)
    BY <1>4, MasksKeep
  <1>6. Cong(fp + (m + a), h + c)
    <2>1. Cong(fp, h + c) /\ Cong(m + a, 0)
      BY <1>1, <1>2, <1>3
    <2>2. fp \in Int /\ m + a \in Int /\ h + c \in Int /\ 0 \in Int
      OBVIOUS
    <2>3. Cong(fp + (m + a), (h + c) + 0)
      BY <2>1, <2>2, CongAdd
    <2>4. (h + c) + 0 = h + c
      OBVIOUS
    <2> QED
      BY <2>3, <2>4
  <1>7. PICK e \in Nat, k \in Nat : e = a * Base /\ k = c * Base
    <2>1. a * Base \in Nat /\ c * Base \in Nat
      BY <1>b
    <2> QED
      BY <2>1
  <1>8. Cong(x + e, d + k)
    <2>1. fp + (m + a) \in Int /\ h + c \in Int /\ Base \in Int
      BY <1>b
    <2>2. Cong((fp + (m + a)) * Base, (h + c) * Base)
      BY <1>6, <2>1, CongMul
    <2>3. (fp + (m + a)) * Base \in Int /\ (h + c) * Base \in Int /\ b \in Int
      BY <1>b
    <2>4. Cong((fp + (m + a)) * Base + b, (h + c) * Base + b)
      BY <2>2, <2>3, CongAdd, CongRefl
    <2>5. (fp + (m + a)) * Base + b = x + e
      BY <1>b, <1>3, <1>7
    <2>6. (h + c) * Base + b = d + k
      BY <1>b, <1>3, <1>7
    <2> QED
      BY <2>4, <2>5, <2>6
  <1>9. Cong(d + k, (e + g) + k)
    <2>1. old * Power(Base)[WinSize] = e
      <3>1. old * (w * Base) = (old * w) * Base
        BY <1>b
      <3> QED
        BY <1>1, <1>3, <1>7, <3>1
    <2>2. Cong(u, d) /\ Cong(u, e + g)
      BY <1>3, <2>1
    <2>3. Cong(d, u)
      BY <2>2, CongSym
    <2>4. e + g \in Int
      OBVIOUS
    <2>5. Cong(d, e + g)
      BY <2>2, <2>3, <2>4, CongTrans
    <2>6. k \in Int /\ d \in Int /\ Cong(k, k)
      BY CongRefl
    <2> QED
      BY <2>4, <2>5, <2>6, CongAdd
  <1>10. Cong(x, g + k)
    <2>1. x + e \in Int /\ d + k \in Int /\ (e + g) + k \in Int /\ (e + g) + k = (g + k) + e /\ g + k \in Int
      OBVIOUS
    <2>2. Cong(x + e, (g + k) + e)
      BY <1>8, <1>9, <2>1, CongTrans
    <2>3. x \in Int /\ e \in Int
      OBVIOUS
    <2> QED
      BY <2>1, <2>2, <2>3, CongCancel
  <1>11. Cong(r, g + k)
    <2>1. g + k \in Int
      OBVIOUS
    <2> QED
      BY <1>5, <1>10, <2>1, CongTrans
  <1>12. seed * Power(Base)[j + 1] = k
    <2>1. seed * (p * Base) = (seed * p) * Base
      BY <1>b
    <2> QED
      BY <1>1, <1>3, <1>7, <2>1
  <1> QED
    BY <1>5, <1>11, <1>12

-----------------------------------------------------------------------------
(* What the fingerprint of the first window is too large by.               *)
Seed == IF recipeList = <<>> THEN garbage ELSE 0

(* winFp is the polynomial of the window, as far as it is filled, and of   *)
(* the garbage that it began with.                                         *)
FingerprintOK ==
    /\ winFp \in Nat
    /\ step # "returned" =>
          /\ chunkBufferCnt <= WinSize =>
                Cong(winFp, Seed + Poly(file, start)[chunkBufferCnt] * Power(Base)[WinSize - chunkBufferCnt])
          /\ chunkBufferCnt >= WinSize =>
                Cong(winFp, WindowHash(file, pos) + Seed * Power(Base)[chunkBufferCnt - WinSize])

(* The chunk goes on: none of its bytes so far was one where it must end.  *)
NoEarlierEnd ==
    step # "returned" => \A e \in (start + 1) .. pos : ~MustEnd(file, start, Seed, e)

AnchorInv == FingerprintOK /\ NoEarlierEnd /\ CutsAtAnchors

(* The types that the proofs about the fingerprint need.                   *)
LEMMA ScanFacts ==
    ASSUME ChunkerInv
    PROVE  /\ Len(file) \in Nat /\ (\A i \in 1 .. Len(file) : file[i] \in Nat /\ file[i] \in Byte)
           /\ start \in Nat /\ pos \in Nat /\ start <= pos /\ pos <= Len(file)
           /\ chunkBufferCnt \in Nat /\ Seed \in Nat
           /\ recipeList \in Seq(RecipeEntry) /\ Len(recipeList) \in Nat
           /\ WinSize \in Nat \ {0} /\ MinSize \in Nat /\ MaxSize \in Nat
           /\ step # "returned" => start + chunkBufferCnt = pos
  <1>1. /\ file \in Files /\ fileSize \in 0 .. Len(file) /\ pos \in 0 .. fileSize /\ start \in 0 .. pos
        /\ chunkBufferCnt \in Nat /\ garbage \in 0 .. (FpRange - 1)
        /\ recipeList \in Seq(RecipeEntry) /\ Len(recipeList) \in Nat
    BY DEF ChunkerInv, ChunkerTypeOK
  <1>2. Len(file) \in Nat /\ \A i \in 1 .. Len(file) : file[i] \in Nat /\ file[i] \in Byte
    <2>1. file \in Seq(Byte)
      BY <1>1, ChunkerAssumption
    <2> QED
      BY <1>1, <2>1, FileBytes
  <1>3. start \in Nat /\ pos \in Nat /\ start <= pos /\ pos <= Len(file)
    BY <1>1, <1>2
  <1>4. Seed \in Nat
    <2>1. garbage \in Nat
      BY <1>1, ChunkerAssumption
    <2> QED
      BY <2>1 DEF Seed
  <1>5. WinSize \in Nat \ {0} /\ MinSize \in Nat /\ MaxSize \in Nat
    BY ChunkerAssumption
  <1>6. step # "returned" => start + chunkBufferCnt = pos
    BY DEF ChunkerInv, ChunksTileFile
  <1> QED
    BY <1>1, <1>2, <1>3, <1>4, <1>5, <1>6

(* Before the first byte of a chunk the fingerprint is its seed.           *)
LEMMA FreshFingerprint ==
    ASSUME NEW fp \in Nat, NEW f, NEW s \in Nat, s <= Len(f), Len(f) \in Nat,
           \A i \in 1 .. Len(f) : f[i] \in Nat
    PROVE  Cong(fp, fp + Poly(f, s)[0] * Power(Base)[WinSize - 0])
  <1>1. Poly(f, s)[0] = 0
    BY PolySteps
  <1>2. PICK p \in Nat : p = Power(Base)[WinSize]
    BY PowerSteps, ChunkerAssumption
  <1>3. fp + 0 * p = fp /\ WinSize - 0 = WinSize
    BY ChunkerAssumption
  <1>4. Cong(fp, fp)
    BY CongRefl
  <1> QED
    BY <1>1, <1>2, <1>3, <1>4

(* At first winFp is the garbage and nothing has been cut.                 *)
LEMMA AnchorInitInv == ChunkerInit => AnchorInv
  <1> SUFFICES ASSUME ChunkerInit PROVE AnchorInv
    OBVIOUS
  <1>1. /\ recipeList = <<>> /\ start = 0 /\ pos = 0 /\ chunkBufferCnt = 0 /\ winFp = garbage
        /\ garbage \in 0 .. (FpRange - 1)
    BY DEF ChunkerInit
  <1>2. ChunkerInv
    BY ChunkerInitInv
  <1>3. Len(file) \in Nat /\ (\A i \in 1 .. Len(file) : file[i] \in Nat) /\ Seed \in Nat /\ WinSize \in Nat \ {0}
    BY <1>2, ScanFacts
  <1>4. Seed = winFp
    BY <1>1 DEF Seed
  <1>5. FingerprintOK
    <2>1. 0 \in Nat /\ 0 <= Len(file) /\ ~(0 >= WinSize) /\ winFp \in Nat
      BY <1>3, <1>4
    <2>2. Cong(winFp, winFp + Poly(file, 0)[0] * Power(Base)[WinSize - 0])
      BY <1>3, <2>1, FreshFingerprint
    <2> QED
      BY <1>1, <1>4, <2>1, <2>2 DEF FingerprintOK
  <1>6. NoEarlierEnd
    BY <1>1 DEF NoEarlierEnd
  <1>7. CutsAtAnchors
    <2>1. Len(recipeList) = 0
      BY <1>1
    <2> QED
      BY <2>1 DEF CutsAtAnchors
  <1> QED
    BY <1>5, <1>6, <1>7 DEF AnchorInv

(* Steps that take no byte and push no chunk.                              *)
LEMMA QuietAnchors ==
    ASSUME AnchorInv, ReadBlock \/ BlockDone \/ NoFinalChunk \/ RecipeHead \/ UNCHANGED cvars
    PROVE  AnchorInv'
  <1>1. UNCHANGED <<file, garbage, pos, chunkBufferCnt, winFp, recipeList, start>>
    BY DEF ReadBlock, BlockDone, NoFinalChunk, RecipeHead, cvars, scanVars
  <1>2. step' # "returned" => step # "returned"
    BY DEF ReadBlock, BlockDone, NoFinalChunk, RecipeHead, cvars
  <1>3. FingerprintOK'
    BY <1>1, <1>2 DEF AnchorInv, FingerprintOK, Seed
  <1>4. NoEarlierEnd'
    BY <1>1, <1>2 DEF AnchorInv, NoEarlierEnd, Seed
  <1>5. CutsAtAnchors'
    BY <1>1 DEF AnchorInv, CutsAtAnchors, End
  <1> QED
    BY <1>3, <1>4, <1>5 DEF AnchorInv

(* A byte that fills the window.                                           *)
LEMMA FillAnchors ==
    ASSUME ChunkerInv, AnchorInv, FillWindow
    PROVE  AnchorInv'
  <1>1. /\ TakeByte /\ chunkBufferCnt < WinSize /\ chunkBufferCnt' = chunkBufferCnt + 1
        /\ winFp' = FillFp(winFp, file[pos + 1], chunkBufferCnt)
        /\ UNCHANGED <<recipeList, step, start>>
    BY DEF FillWindow, NextByte
  <1>2. Taken
    BY <1>1, TakenFacts
  <1>3. /\ file' = file /\ garbage' = garbage /\ pos' = pos + 1 /\ step # "returned"
        /\ start + chunkBufferCnt = pos
    BY <1>2 DEF Taken
  <1>4. ChunkerInv'
    BY NoCutInv
  <1>5. Len(file) \in Nat /\ (\A i \in 1 .. Len(file) : file[i] \in Nat) /\ start \in Nat /\ pos \in Nat
        /\ chunkBufferCnt \in Nat /\ Seed \in Nat /\ WinSize \in Nat \ {0}
    BY ScanFacts
  <1>6. pos + 1 <= Len(file)
    BY <1>1, <1>2, <1>3, <1>5 DEF TakeByte, ChunkerInv, ChunkerTypeOK
  <1>7. Seed' = Seed
    BY <1>1, <1>3 DEF Seed
  <1>p. PICK c \in Nat, b \in Nat, h \in Nat, g \in Nat :
              /\ c = chunkBufferCnt /\ b = file[pos + 1]
              /\ h = Poly(file, start)[c] /\ g = Poly(file, start)[c + 1]
              /\ g = (h * Base + b) % AnchorRange
    <2>1. /\ chunkBufferCnt <= Len(file) - start /\ chunkBufferCnt + 1 <= Len(file) - start
          /\ start + (chunkBufferCnt + 1) = pos + 1 /\ pos + 1 \in 1 .. Len(file)
          /\ start <= Len(file) /\ chunkBufferCnt + 1 \in Nat
      BY <1>3, <1>5, <1>6
    <2>2. /\ Poly(file, start)[chunkBufferCnt] \in Nat /\ Poly(file, start)[chunkBufferCnt + 1] \in Nat
          /\ Poly(file, start)[chunkBufferCnt + 1]
               = (Poly(file, start)[chunkBufferCnt] * Base + file[start + (chunkBufferCnt + 1)]) % AnchorRange
      BY <1>5, <2>1, PolySteps
    <2>3. file[pos + 1] \in Nat
      BY <1>5, <2>1
    <2> QED
      BY <1>5, <2>1, <2>2, <2>3
  <1>8. c < WinSize /\ Cong(winFp, Seed + h * Power(Base)[WinSize - c]) /\ winFp \in Nat
    <2>1. chunkBufferCnt <= WinSize
      BY <1>1, <1>5
    <2> QED
      BY <1>1, <1>3, <1>p, <2>1 DEF AnchorInv, FingerprintOK
  <1>9. /\ winFp' \in Nat
        /\ Cong(winFp', Seed + g * Power(Base)[WinSize - (c + 1)])
    BY <1>1, <1>5, <1>8, <1>p, FillKeeps
  <1>10. ASSUME c + 1 >= WinSize
         PROVE  Cong(winFp', WindowHash(file, pos + 1) + Seed * Power(Base)[(c + 1) - WinSize])
    <2>1. c + 1 = WinSize /\ WinSize - (c + 1) = 0 /\ (c + 1) - WinSize = 0 /\ (pos + 1) - WinSize = start
      BY <1>3, <1>5, <1>8, <1>10, <1>p
    <2>2. Power(Base)[0] = 1
      BY PowerSteps, ChunkerAssumption
    <2>3. WindowHash(file, pos + 1) = g
      BY <1>p, <2>1 DEF WindowHash
    <2>4. Seed + g * 1 = g + Seed * 1
      BY <1>5
    <2> QED
      BY <1>9, <2>1, <2>2, <2>3, <2>4
  <1>11. FingerprintOK'
    <2>1. chunkBufferCnt' = c + 1
      BY <1>1, <1>p
    <2> QED
      BY <1>1, <1>3, <1>7, <1>9, <1>10, <1>p, <2>1 DEF FingerprintOK
  <1>12. NoEarlierEnd'
    <2>1. ASSUME NEW e \in (start + 1) .. (pos + 1) PROVE ~MustEnd(file, start, Seed, e)
      <3>1. CASE e \in (start + 1) .. pos
        BY <1>3, <3>1 DEF AnchorInv, NoEarlierEnd
      <3>2. CASE e = pos + 1
        <4>1. ~(e - start > WinSize)
          BY <1>1, <1>3, <1>5, <3>2
        <4> QED
          BY <4>1 DEF MustEnd
      <3> QED
        BY <1>5, <3>1, <3>2
    <2> QED
      BY <1>1, <1>3, <1>7, <2>1 DEF NoEarlierEnd
  <1>13. CutsAtAnchors'
    BY <1>1, <1>3 DEF AnchorInv, CutsAtAnchors, End
  <1> QED
    BY <1>11, <1>12, <1>13 DEF AnchorInv

(* A byte that moves a full window: the fingerprint follows the window, so *)
(* the code cuts where the chunk must end.                                 *)
LEMMA SlideFacts ==
    ASSUME ChunkerInv, AnchorInv, TakeByte, chunkBufferCnt >= WinSize
    PROVE  /\ SlideFp(winFp, Outgoing, NextByte) \in Nat
           /\ Cong(SlideFp(winFp, Outgoing, NextByte),
                   WindowHash(file, pos + 1) + Seed * Power(Base)[(chunkBufferCnt + 1) - WinSize])
           /\ IsCut(chunkBufferCnt + 1, SlideFp(winFp, Outgoing, NextByte))
                <=> MustEnd(file, start, Seed, pos + 1)
  <1>1. Taken
    BY TakenFacts
  <1>2. step # "returned" /\ start + chunkBufferCnt = pos
    BY <1>1 DEF Taken
  <1>3. /\ Len(file) \in Nat /\ (\A i \in 1 .. Len(file) : file[i] \in Nat /\ file[i] \in Byte)
        /\ start \in Nat /\ pos \in Nat /\ chunkBufferCnt \in Nat /\ Seed \in Nat
        /\ WinSize \in Nat \ {0} /\ MinSize \in Nat /\ MaxSize \in Nat
    BY ScanFacts
  <1>4. pos + 1 <= Len(file)
    BY <1>2, <1>3 DEF TakeByte, ChunkerInv, ChunkerTypeOK
  <1>5. PICK s \in Nat, j \in Nat :
              /\ s = pos - WinSize /\ j = chunkBufferCnt - WinSize /\ s = start + j
              /\ (pos + 1) - WinSize = s + 1 /\ (chunkBufferCnt + 1) - WinSize = j + 1
              /\ s + 1 \in 1 .. Len(file) /\ WinSize <= Len(file) - s /\ WinSize + 1 <= Len(file) - s
              /\ WinSize <= Len(file) - (s + 1) /\ s + (WinSize + 1) = pos + 1 /\ s + 1 \in Nat
              /\ s <= Len(file) /\ s + 1 <= Len(file)
    BY <1>2, <1>3, <1>4
  <1>6. Outgoing = file[s + 1] /\ file[s + 1] \in Byte /\ file[s + 1] \in Nat
    <2>1. j \in 0 .. (chunkBufferCnt - 1)
      BY <1>3, <1>5
    <2>2. chunkBuffer[j] = file[start + j + 1]
      BY <1>2, <2>1 DEF ChunkerInv, BufferHolds
    <2>3. start + j + 1 = s + 1
      BY <1>3, <1>5
    <2> QED
      BY <1>3, <1>5, <2>2, <2>3 DEF Outgoing
  <1>7. PICK b \in Nat : b = file[pos + 1] /\ b = NextByte
    <2>1. pos + 1 \in 1 .. Len(file)
      BY <1>3, <1>4
    <2> QED
      BY <1>3, <2>1 DEF NextByte
  <1>8. PICK h \in Nat, u \in Nat, g \in Nat :
              /\ h = Poly(file, s)[WinSize] /\ u = Poly(file, s)[WinSize + 1] /\ g = Poly(file, s + 1)[WinSize]
              /\ u = (h * Base + b) % AnchorRange
              /\ Cong(u, file[s + 1] * Power(Base)[WinSize] + g)
    <2>1. /\ Poly(file, s)[WinSize] \in Nat /\ Poly(file, s)[WinSize + 1] \in Nat
          /\ Poly(file, s)[WinSize + 1]
               = (Poly(file, s)[WinSize] * Base + file[s + (WinSize + 1)]) % AnchorRange
      BY <1>3, <1>5, PolySteps
    <2>2. Poly(file, s + 1)[WinSize] \in Nat
      BY <1>3, <1>5, PolySteps
    <2>3. Cong(Poly(file, s)[WinSize + 1], file[s + 1] * Power(Base)[WinSize] + Poly(file, s + 1)[WinSize])
      BY <1>3, <1>5, PolyShift
    <2> QED
      BY <1>5, <1>7, <2>1, <2>2, <2>3
  <1>9. Cong(u, h * Base + b)
    <2>1. AnchorRange \in Nat \ {0} /\ Base \in Nat
      BY AnchorRangeType, ChunkerAssumption
    <2>2. PICK y \in Nat : y = h * Base + b
      <3>1. h * Base + b \in Nat
        BY <2>1
      <3> QED
        BY <3>1
    <2>3. y \in Int /\ AnchorRange % AnchorRange = 0
      BY <2>1
    <2>4. Cong(y % AnchorRange, y)
      BY <2>1, <2>3, CongMod
    <2> QED
      BY <1>8, <2>2, <2>4
  <1>10. winFp \in Nat /\ Cong(winFp, h + Seed * Power(Base)[j])
    BY <1>2, <1>5, <1>8 DEF AnchorInv, FingerprintOK, WindowHash
  <1>11. /\ SlideFp(winFp, Outgoing, NextByte) \in Nat
         /\ Cong(SlideFp(winFp, Outgoing, NextByte), g + Seed * Power(Base)[j + 1])
    BY <1>3, <1>6, <1>7, <1>8, <1>9, <1>10, SlideKeeps
  <1>12. WindowHash(file, pos + 1) = g
    BY <1>5, <1>8 DEF WindowHash
  <1>13. PICK fp \in Nat, x \in Nat :
              /\ fp = SlideFp(winFp, Outgoing, NextByte)
              /\ x = WindowHash(file, pos + 1) + Seed * Power(Base)[j + 1]
              /\ Cong(fp, x)
    <2>1. Power(Base)[j + 1] \in Nat
      <3>1. j + 1 \in Nat /\ Base \in Nat
        BY ChunkerAssumption
      <3> QED
        BY <3>1, PowerSteps
    <2>2. g + Seed * Power(Base)[j + 1] \in Nat
      BY <1>3, <2>1
    <2> QED
      BY <1>11, <1>12, <2>2
  <1>14. fp % AnchorRange = 0 <=> x % AnchorRange = 0
    <2>1. fp \in Int /\ x \in Int /\ Cong(x, fp)
      BY <1>13, CongSym
    <2> QED
      BY <1>13, <2>1, CongZero
  <1>15. (pos + 1) - start = chunkBufferCnt + 1 /\ (pos + 1) - start - WinSize = j + 1 /\ (pos + 1) - start > WinSize
    BY <1>2, <1>3, <1>5
  <1>16. IsAnchor(file, start, Seed, pos + 1) <=> x % AnchorRange = 0
    BY <1>13, <1>15 DEF IsAnchor
  <1>17. IsCut(chunkBufferCnt + 1, fp) <=> MustEnd(file, start, Seed, pos + 1)
    BY <1>14, <1>15, <1>16 DEF IsCut, MustEnd
  <1> QED
    BY <1>5, <1>13, <1>17

(* A byte that moves the window and ends no chunk.                         *)
LEMMA SlideAnchors ==
    ASSUME ChunkerInv, AnchorInv, SlideWindow
    PROVE  AnchorInv'
  <1>1. /\ TakeByte /\ chunkBufferCnt >= WinSize /\ chunkBufferCnt' = chunkBufferCnt + 1
        /\ winFp' = SlideFp(winFp, Outgoing, NextByte)
        /\ ~IsCut(chunkBufferCnt + 1, SlideFp(winFp, Outgoing, NextByte))
        /\ UNCHANGED <<recipeList, step, start>>
    BY DEF SlideWindow
  <1>2. Taken
    BY <1>1, TakenFacts
  <1>3. file' = file /\ garbage' = garbage /\ pos' = pos + 1 /\ step # "returned"
    BY <1>2 DEF Taken
  <1>4. start \in Nat /\ pos \in Nat /\ chunkBufferCnt \in Nat /\ WinSize \in Nat \ {0}
    BY ScanFacts
  <1>5. Seed' = Seed
    BY <1>1, <1>3 DEF Seed
  <1>6. /\ winFp' \in Nat
        /\ Cong(winFp', WindowHash(file, pos + 1) + Seed * Power(Base)[(chunkBufferCnt + 1) - WinSize])
        /\ ~MustEnd(file, start, Seed, pos + 1)
    BY <1>1, SlideFacts
  <1>7. FingerprintOK'
    <2>1. ~(chunkBufferCnt + 1 <= WinSize)
      BY <1>1, <1>4
    <2> QED
      BY <1>1, <1>3, <1>5, <1>6, <2>1 DEF FingerprintOK
  <1>8. NoEarlierEnd'
    <2>1. ASSUME NEW e \in (start + 1) .. (pos + 1) PROVE ~MustEnd(file, start, Seed, e)
      <3>1. CASE e \in (start + 1) .. pos
        BY <1>3, <3>1 DEF AnchorInv, NoEarlierEnd
      <3>2. CASE e = pos + 1
        BY <1>6, <3>2
      <3> QED
        BY <1>4, <3>1, <3>2
    <2> QED
      BY <1>1, <1>3, <1>5, <2>1 DEF NoEarlierEnd
  <1>9. CutsAtAnchors'
    BY <1>1, <1>3 DEF AnchorInv, CutsAtAnchors, End
  <1> QED
    BY <1>7, <1>8, <1>9 DEF AnchorInv

(* A chunk pushed where it must end keeps the property.                    *)
LEMMA PushAtAnchor ==
    ASSUME ChunkerInv, CutsAtAnchors, UNCHANGED <<file, garbage>>,
           NEW n \in Nat, NEW data, PushRecipe(data), RecipePushed(n),
           CutAt(file, start, Seed, start + n)
    PROVE  CutsAtAnchors' /\ recipeList' # <<>>
  <1> DEFINE e == [at |-> start, data |-> data, unique |-> data \notin stored]
             S == RecipeEntry \cup {e}
  <1>1. recipeList \in Seq(RecipeEntry) /\ Len(recipeList) \in Nat
    BY ScanFacts
  <1>2. recipeList \in Seq(S) /\ e \in S
    BY <1>1
  <1>3. recipeList' = Append(recipeList, e) /\ e.at = start
    BY DEF PushRecipe
  <1> HIDE DEF e, S
  <1>4. /\ Len(recipeList') = Len(recipeList) + 1
        /\ \A k \in 1 .. Len(recipeList) : recipeList'[k] = recipeList[k]
        /\ recipeList'[Len(recipeList) + 1] = e
    BY <1>1, <1>2, <1>3, AppendFacts
  <1>5. recipeList = <<>> <=> Len(recipeList) = 0
    BY <1>1
  <1>6. recipeList'[Len(recipeList')].at + Len(recipeList'[Len(recipeList')].data) = start + n
    BY DEF RecipePushed, End
  <1>7. ASSUME NEW k \in 1 .. Len(recipeList')
        PROVE  CutAt(file, recipeList'[k].at, IF k = 1 THEN garbage ELSE 0,
                     recipeList'[k].at + Len(recipeList'[k].data))
    <2>1. CASE k \in 1 .. Len(recipeList)
      BY <1>4, <2>1 DEF CutsAtAnchors, End
    <2>2. CASE k = Len(recipeList) + 1
      <3>1. Seed = IF k = 1 THEN garbage ELSE 0
        BY <1>1, <1>5, <2>2 DEF Seed
      <3>2. recipeList'[k].at = start /\ recipeList'[k].at + Len(recipeList'[k].data) = start + n
        BY <1>3, <1>4, <1>6, <2>2
      <3> QED
        BY <3>1, <3>2
    <2> QED
      BY <1>1, <1>4, <2>1, <2>2
  <1>8. CutsAtAnchors'
    BY <1>7 DEF CutsAtAnchors, End
  <1> QED
    BY <1>8 DEF RecipePushed

(* The next chunk begins with a fingerprint of zero.                       *)
LEMMA RestartAnchors ==
    ASSUME ChunkerInv', Restart, start' = pos', recipeList' # <<>>
    PROVE  FingerprintOK' /\ NoEarlierEnd'
  <1>1. chunkBufferCnt' = 0 /\ winFp' = 0 /\ Seed' = 0
    BY DEF Restart, Seed
  <1>2. PICK s, f : s = start' /\ f = file'
    OBVIOUS
  <1>3. /\ Len(f) \in Nat /\ (\A i \in 1 .. Len(f) : f[i] \in Nat)
        /\ s \in Nat /\ s <= Len(f) /\ WinSize \in Nat \ {0}
    <2>1. PICK z, q : z = fileSize' /\ q = pos'
      OBVIOUS
    <2>2. f \in Files /\ z \in 0 .. Len(f) /\ q \in 0 .. z /\ s = q
      BY <1>2, <2>1 DEF ChunkerInv, ChunkerTypeOK
    <2>3. Len(f) \in Nat /\ \A i \in 1 .. Len(f) : f[i] \in Nat
      BY <2>2, FileBytes
    <2> QED
      BY <2>2, <2>3, ChunkerAssumption
  <1>5. Cong(0, 0 + Poly(f, s)[0] * Power(Base)[WinSize - 0])
    BY <1>3, FreshFingerprint
  <1>6. FingerprintOK'
    <2>1. ~(0 >= WinSize)
      BY <1>3
    <2> QED
      BY <1>1, <1>2, <1>5, <2>1 DEF FingerprintOK
  <1>7. NoEarlierEnd'
    <2>0. (s + 1) .. s = {}
      BY <1>3
    <2>1. (start' + 1) .. pos' = {}
      BY <1>2, <2>0
    <2> QED
      BY <2>1 DEF NoEarlierEnd
  <1> QED
    BY <1>6, <1>7

(* A cut is where the chunk must end.                                      *)
LEMMA CutAnchors ==
    ASSUME ChunkerInv, AnchorInv, Cut \/ CutFails
    PROVE  AnchorInv'
  <1>1. CutHere /\ PushRecipe(Completed)
    BY DEF Cut, CutFails, Store, StoreFails
  <1>2. /\ TakeByte /\ chunkBufferCnt >= WinSize
        /\ IsCut(chunkBufferCnt + 1, SlideFp(winFp, Outgoing, NextByte))
    BY <1>1 DEF CutHere
  <1>3. Taken /\ RecipePushed(chunkBufferCnt + 1)
    BY <1>1, CompletedFacts
  <1>4. /\ UNCHANGED <<file, garbage>> /\ pos' = pos + 1 /\ step # "returned"
        /\ start + chunkBufferCnt = pos /\ chunkBufferCnt \in Nat /\ start \in Nat /\ pos \in Nat
    BY <1>3 DEF Taken
  <1>5. MustEnd(file, start, Seed, pos + 1) /\ SlideFp(winFp, Outgoing, NextByte) \in Nat
    BY <1>2, SlideFacts
  <1>6. CutAt(file, start, Seed, start + (chunkBufferCnt + 1))
    <2>1. start + (chunkBufferCnt + 1) = pos + 1 /\ (pos + 1) - 1 = pos
      BY <1>4
    <2>2. pos + 1 <= Len(file)
      <3>1. Len(file) \in Nat
        BY ScanFacts
      <3> QED
        BY <1>2, <1>4, <3>1 DEF TakeByte, ChunkerInv, ChunkerTypeOK
    <2> QED
      BY <1>4, <1>5, <2>1, <2>2 DEF CutAt, AnchorInv, NoEarlierEnd
  <1>7. CutsAtAnchors' /\ recipeList' # <<>>
    <2>1. chunkBufferCnt + 1 \in Nat
      BY <1>4
    <2> QED
      BY <1>1, <1>3, <1>4, <1>6, <2>1, PushAtAnchor DEF AnchorInv
  <1>8. CASE Cut
    <2>1. ChunkerInv' /\ Restart /\ start' = pos'
      BY <1>4, <1>8, CutInv DEF Cut
    <2> QED
      BY <1>7, <2>1, RestartAnchors DEF AnchorInv
  <1>9. CASE CutFails
    <2>1. step' = "returned" /\ winFp' = SlideFp(winFp, Outgoing, NextByte)
      BY <1>9 DEF CutFails, StoreFails
    <2> QED
      BY <1>5, <1>7, <2>1 DEF AnchorInv, FingerprintOK, NoEarlierEnd
  <1> QED
    BY <1>8, <1>9

(* The rest of the file ends with the file.                                *)
LEMMA FinalAnchors ==
    ASSUME ChunkerInv, AnchorInv, FinalChunk \/ FinalFails
    PROVE  AnchorInv'
  <1>1. /\ step = "tail" /\ chunkBufferCnt # 0 /\ PushRecipe(Rest) /\ UNCHANGED <<file, garbage, pos>>
    BY DEF FinalChunk, FinalFails, Store, StoreFails, scanVars
  <1>2. /\ RecipePushed(chunkBufferCnt) /\ start + chunkBufferCnt = pos /\ pos = Len(file)
    BY <1>1, RestFacts
  <1>3. chunkBufferCnt \in Nat /\ start \in Nat /\ pos \in Nat
    BY ScanFacts
  <1>4. CutAt(file, start, Seed, start + chunkBufferCnt)
    <2>1. ASSUME NEW e \in (start + 1) .. (pos - 1) PROVE ~MustEnd(file, start, Seed, e)
      <3>1. e \in (start + 1) .. pos
        BY <1>3
      <3> QED
        BY <1>1, <3>1 DEF AnchorInv, NoEarlierEnd
    <2> QED
      BY <1>2, <1>3, <2>1 DEF CutAt
  <1>5. CutsAtAnchors' /\ recipeList' # <<>>
    BY <1>1, <1>2, <1>3, <1>4, PushAtAnchor DEF AnchorInv
  <1>6. CASE FinalChunk
    <2>1. ChunkerInv' /\ Restart /\ start' = pos'
      BY <1>1, <1>6, FinalChunkInv DEF FinalChunk
    <2> QED
      BY <1>5, <2>1, RestartAnchors DEF AnchorInv
  <1>7. CASE FinalFails
    <2>1. step' = "returned" /\ winFp' = winFp
      BY <1>7 DEF FinalFails, StoreFails
    <2> QED
      BY <1>5, <2>1 DEF AnchorInv, FingerprintOK, NoEarlierEnd
  <1> QED
    BY <1>6, <1>7

(* The n bytes of f behind s are those of g behind t.                      *)
SameBytes(f, s, g, t, n) == \A i \in 1 .. n : f[s + i] = g[t + i]

(* The polynomial depends on the bytes and not on where they are.          *)
LEMMA PolyLocal ==
    ASSUME NEW f \in Files, NEW g \in Files, NEW s \in Nat, NEW t \in Nat, NEW n \in Nat,
           s + n <= Len(f), t + n <= Len(g),
           SameBytes(f, s, g, t, n)
    PROVE  Poly(f, s)[n] = Poly(g, t)[n]
  <1> DEFINE H == Poly(f, s)
             G == Poly(g, t)
             T == {k \in Nat : k <= n => H[k] = G[k]}
  <1>0. /\ Len(f) \in Nat /\ \A i \in 1 .. Len(f) : f[i] \in Nat
        /\ Len(g) \in Nat /\ \A i \in 1 .. Len(g) : g[i] \in Nat
    BY FileBytes
  <1>1. s <= Len(f) /\ t <= Len(g)
    BY <1>0
  <1>2. /\ H[0] = 0
        /\ \A k \in Nat : k + 1 <= Len(f) - s => H[k + 1] = (H[k] * Base + f[s + (k + 1)]) % AnchorRange
    BY <1>0, <1>1, PolySteps
  <1>3. /\ G[0] = 0
        /\ \A k \in Nat : k + 1 <= Len(g) - t => G[k + 1] = (G[k] * Base + g[t + (k + 1)]) % AnchorRange
    BY <1>0, <1>1, PolySteps
  <1> HIDE DEF H, G
  <1>4. 0 \in T
    BY <1>2, <1>3
  <1>5. ASSUME NEW k \in Nat, k \in T PROVE k + 1 \in T
    <2>0. k + 1 \in Nat
      OBVIOUS
    <2>1. CASE k + 1 <= n
      <3>1. k + 1 <= Len(f) - s /\ k + 1 <= Len(g) - t /\ k + 1 \in 1 .. n /\ k <= n
        BY <1>0, <2>1
      <3>2. H[k] = G[k] /\ f[s + (k + 1)] = g[t + (k + 1)]
        BY <1>5, <3>1 DEF SameBytes
      <3>3. H[k + 1] = G[k + 1]
        BY <1>2, <1>3, <3>1, <3>2
      <3> QED
        BY <2>0, <3>3
    <2>2. CASE ~(k + 1 <= n)
      BY <2>0, <2>2
    <2> QED
      BY <2>1, <2>2
  <1>6. \A k \in Nat : k \in T
    <2> HIDE DEF T
    <2> QED
      BY <1>4, <1>5, SetInduction
  <1>7. n \in T /\ n <= n
    BY <1>6
  <1> QED
    BY <1>7 DEF H, G

(* So does the place where a chunk must end.                               *)
LEMMA MustEndLocal ==
    ASSUME NEW f \in Files, NEW g \in Files, NEW s \in Nat, NEW t \in Nat, NEW n \in Nat, NEW seed,
           s + n <= Len(f), t + n <= Len(g),
           SameBytes(f, s, g, t, n),
           MustEnd(f, s, seed, s + n)
    PROVE  MustEnd(g, t, seed, t + n)
  <1>0. Len(f) \in Nat /\ Len(g) \in Nat
    BY FileBytes
  <1>1. (s + n) - s = n /\ (t + n) - t = n /\ WinSize \in Nat
    BY ChunkerAssumption
  <1>2. n >= MinSize /\ n > WinSize /\ (IsAnchor(f, s, seed, s + n) \/ n >= MaxSize)
    BY <1>1 DEF MustEnd
  <1>3. PICK d \in Nat : d = n - WinSize
    BY <1>1, <1>2
  <1>4. PICK a \in Nat, b \in Nat :
              /\ a = s + d /\ a = (s + n) - WinSize /\ a + WinSize <= Len(f)
              /\ b = t + d /\ b = (t + n) - WinSize /\ b + WinSize <= Len(g)
    BY <1>0, <1>1, <1>3
  <1>5. ASSUME NEW i \in 1 .. WinSize PROVE f[a + i] = g[b + i]
    <2>1. d + i \in 1 .. n /\ s + (d + i) = a + i /\ t + (d + i) = b + i
      BY <1>1, <1>3, <1>4
    <2>2. f[s + (d + i)] = g[t + (d + i)]
      BY <2>1 DEF SameBytes
    <2> QED
      BY <2>1, <2>2
  <1>6. Poly(f, a)[WinSize] = Poly(g, b)[WinSize]
    <2>1. WinSize \in Nat /\ a \in Nat /\ b \in Nat /\ a + WinSize <= Len(f) /\ b + WinSize <= Len(g)
      BY <1>1, <1>4
    <2>2. SameBytes(f, a, g, b, WinSize)
      BY <1>5 DEF SameBytes
    <2> QED
      BY <2>1, <2>2, PolyLocal
  <1>7. WindowHash(f, s + n) = WindowHash(g, t + n)
    BY <1>4, <1>6 DEF WindowHash
  <1>8. IsAnchor(f, s, seed, s + n) <=> IsAnchor(g, t, seed, t + n)
    BY <1>1, <1>7 DEF IsAnchor
  <1> QED
    BY <1>1, <1>2, <1>8 DEF MustEnd

(* A chunk that begins with the bytes of a chunk, in the same file or in   *)
(* another, at the same place or not, ends with them: CutAt leaves one end *)
(* for each chunk, and content alone decides which.                        *)
THEOREM ContentDefinesChunk ==
    ASSUME NEW f \in Files, NEW g \in Files, NEW s \in Nat, NEW t \in Nat,
           NEW n \in Nat \ {0}, NEW m \in Nat \ {0}, NEW seed,
           s + n < Len(f), t + n <= Len(g),
           SameBytes(f, s, g, t, n),
           CutAt(f, s, seed, s + n), CutAt(g, t, seed, t + m)
    PROVE  m = n
  <1>0. Len(f) \in Nat /\ Len(g) \in Nat
    BY FileBytes
  <1>1. MustEnd(f, s, seed, s + n) /\ s + n <= Len(f) /\ t + m <= Len(g)
    BY <1>0 DEF CutAt
  <1>2. ~(m > n)
    <2> SUFFICES ASSUME m > n PROVE FALSE
      OBVIOUS
    <2>1. MustEnd(g, t, seed, t + n)
      BY <1>1, MustEndLocal
    <2>2. t + n \in (t + 1) .. ((t + m) - 1)
      OBVIOUS
    <2> QED
      BY <2>1, <2>2 DEF CutAt
  <1>3. ~(m < n)
    <2> SUFFICES ASSUME m < n PROVE FALSE
      OBVIOUS
    <2>1. MustEnd(g, t, seed, t + m)
      <3>1. t + m # Len(g)
        BY <1>0
      <3> QED
        BY <3>1 DEF CutAt
    <2>2. s + m <= Len(f)
      BY <1>0
    <2>3. SameBytes(g, t, f, s, m)
      <3>1. \A i \in 1 .. m : i \in 1 .. n
        OBVIOUS
      <3> QED
        BY <3>1 DEF SameBytes
    <2>4. MustEnd(f, s, seed, s + m)
      BY <1>1, <2>1, <2>2, <2>3, MustEndLocal
    <2>5. s + m \in (s + 1) .. ((s + n) - 1)
      OBVIOUS
    <2> QED
      BY <2>4, <2>5 DEF CutAt
  <1> QED
    BY <1>2, <1>3

(* What is cut at anchors is cut alike.                                    *)
LEMMA AnchorsCutAlike ==
    ASSUME ChunkerInv, CutsAtAnchors
    PROVE  RepeatsCutAlike
  <1>1. /\ Len(file) \in Nat /\ (\A i \in 1 .. Len(file) : file[i] \in Nat)
        /\ recipeList \in Seq(RecipeEntry) /\ Len(recipeList) \in Nat
    BY ScanFacts
  <1> SUFFICES ASSUME NEW j \in 2 .. Len(recipeList), NEW k \in 2 .. Len(recipeList),
                      End(j) < Len(file),
                      recipeList[k].at + Len(recipeList[j].data) <= Len(file),
                      \A i \in 1 .. Len(recipeList[j].data) :
                         file[recipeList[k].at + i] = recipeList[j].data[i]
               PROVE  recipeList[k].data = recipeList[j].data
    BY DEF RepeatsCutAlike
  <1>2. j \in 1 .. Len(recipeList) /\ k \in 1 .. Len(recipeList) /\ j # 1 /\ k # 1
    BY <1>1
  <1>3. PICK s \in Nat, t \in Nat, x \in Seq(Nat), y \in Seq(Nat) :
              s = recipeList[j].at /\ x = recipeList[j].data /\ t = recipeList[k].at /\ y = recipeList[k].data
    <2>1. recipeList[j] \in RecipeEntry /\ recipeList[k] \in RecipeEntry
      BY <1>1, <1>2, ElementOfSeq
    <2> QED
      BY <2>1 DEF RecipeEntry
  <1>4. Len(x) \in Nat /\ Len(y) \in Nat /\ Len(x) > 0 /\ Len(y) > 0
    <2>1. Len(x) \in 1 .. MaxSize /\ Len(y) \in 1 .. MaxSize
      BY <1>2, <1>3 DEF ChunkerInv, ChunkSizes
    <2> QED
      BY <2>1, ChunkerAssumption
  <1>5. /\ \A i \in 1 .. Len(x) : x[i] = file[s + i]
        /\ \A i \in 1 .. Len(y) : y[i] = file[t + i]
    BY <1>2, <1>3 DEF ChunkerInv, ChunksTileFile
  <1>6. CutAt(file, s, 0, s + Len(x)) /\ CutAt(file, t, 0, t + Len(y))
    BY <1>2, <1>3 DEF CutsAtAnchors, End
  <1>8. s + Len(x) < Len(file) /\ t + Len(x) <= Len(file) /\ SameBytes(file, s, file, t, Len(x))
    BY <1>3, <1>5 DEF End, SameBytes
  <1>9. Len(y) = Len(x)
    <2>1. file \in Files /\ Len(x) \in Nat \ {0} /\ Len(y) \in Nat \ {0}
      BY <1>4 DEF ChunkerInv, ChunkerTypeOK
    <2> QED
      BY <1>6, <1>8, <2>1, ContentDefinesChunk
  <1>10. \A i \in 1 .. Len(x) : x[i] = y[i]
    BY <1>5, <1>8, <1>9 DEF SameBytes
  <1>11. x = y
    BY <1>9, <1>10, SeqEqual
  <1> QED
    BY <1>3, <1>11

-----------------------------------------------------------------------------
(* The fingerprint follows the window in every step.                       *)
LEMMA AnchorAlways == ChunkerSpec => [](ChunkerInv /\ AnchorInv)
  <1>1. ChunkerInit => AnchorInv
    BY AnchorInitInv
  <1>2. ChunkerInv /\ AnchorInv /\ [ChunkerNext]_cvars => AnchorInv'
    <2> SUFFICES ASSUME ChunkerInv, AnchorInv, [ChunkerNext]_cvars PROVE AnchorInv'
      OBVIOUS
    <2>1. CASE ReadBlock \/ BlockDone \/ NoFinalChunk \/ RecipeHead \/ ChunkerTerminated \/ UNCHANGED cvars
      BY <2>1, QuietAnchors DEF ChunkerTerminated
    <2>2. CASE FillWindow
      BY <2>2, FillAnchors
    <2>3. CASE SlideWindow
      BY <2>3, SlideAnchors
    <2>4. CASE Cut \/ CutFails
      BY <2>4, CutAnchors
    <2>5. CASE FinalChunk \/ FinalFails
      BY <2>5, FinalAnchors
    <2> QED
      BY <2>1, <2>2, <2>3, <2>4, <2>5 DEF ChunkerNext
  <1> QED
    BY <1>1, <1>2, ChunkerAlways, PTL DEF ChunkerSpec

(* Every chunk ends at the first byte where its content says it must: the  *)
(* rolling fingerprint in 16 bits finds the anchors of the window.         *)
THEOREM CutsFollowContent == ChunkerSpec => []CutsAtAnchors
  <1>1. AnchorInv => CutsAtAnchors
    BY DEF AnchorInv
  <1> QED
    BY <1>1, AnchorAlways, PTL

(* Repeated content is cut into the same chunks, wherever in the blocks,   *)
(* in the windows and behind which chunks it lies.                         *)
THEOREM RepeatedContentRepeatsChunks == ChunkerSpec => []RepeatsCutAlike
  <1>1. ChunkerInv /\ AnchorInv => RepeatsCutAlike
    BY AnchorsCutAlike DEF AnchorInv
  <1> QED
    BY <1>1, AnchorAlways, PTL
=============================================================================
