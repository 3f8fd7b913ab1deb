------------------------- MODULE FixedChunkerProofs -------------------------
(***************************************************************************)
(* Proofs about fixSizeChunking: it counts chunks and bytes correctly and  *)
(* leaves its buffers at most as far as ChunkerInit warns of, for every    *)
(* file, chunk size and block, whether or not the size divides the block.  *)
(***************************************************************************)
EXTENDS FixedChunker, TLAPS

FixedEntry == [at : Nat, size : Nat]

FixedTypes ==
    /\ avgChunkSize \in Nat \ {0} /\ fileLength \in Nat
    /\ bytesRead \in Nat /\ bytesRead <= fileLength
    /\ totalReadSize \in Nat /\ chunkedSize \in Nat /\ retSize \in Nat
    /\ fixedChunks \in Seq(FixedEntry)
    /\ fixedStep \in {"read", "full", "partial", "done"}

(* After b full blocks and j chunks of the next.                           *)
Counted(b, j) == Len(fixedChunks) = b * ChunksOf(FixedReadSize) + j

(* The blocks before this one had the chunks they need, and those of this  *)
(* one reach at most less than a chunk behind it.                          *)
FixedProgress ==
    /\ fixedStep = "read" => \E b \in Nat : bytesRead = b * FixedReadSize /\ Counted(b, 0)
    /\ fixedStep \in {"full", "partial"} =>
          /\ \E b, j \in Nat : /\ bytesRead = b * FixedReadSize + totalReadSize
                               /\ Counted(b, j) /\ chunkedSize = j * avgChunkSize
          /\ chunkedSize < totalReadSize + avgChunkSize
    /\ fixedStep = "full" => totalReadSize = FixedReadSize
    /\ fixedStep = "partial" => totalReadSize < FixedReadSize /\ bytesRead = fileLength
    /\ fixedStep = "done" =>
          /\ bytesRead = fileLength
          /\ \E b, j, n \in Nat : /\ fileLength = b * FixedReadSize + n /\ n < FixedReadSize
                                  /\ Counted(b, j)
                                  /\ n <= j * avgChunkSize
                                  /\ j * avgChunkSize < n + avgChunkSize

FixedInv == FixedTypes /\ FixedProgress /\ FixedCopies

-----------------------------------------------------------------------------
(* Arithmetic.                                                             *)
LEMMA Sizes == FixedReadSize \in Nat /\ FixedReadSize > 0
  BY FixedAssumption

LEMMA OneMore ==
    ASSUME NEW n \in Nat, NEW a \in Nat
    PROVE  (n + 1) * a = n * a + a /\ n * a \in Nat /\ 0 * a = 0
  OBVIOUS

LEMMA NextMultiple ==
    ASSUME NEW m \in Nat, NEW n \in Nat, NEW a \in Nat, a > 0, m * a < n * a
    PROVE  m * a + a <= n * a
<1>1. m < n
  <2> SUFFICES ASSUME m >= n PROVE FALSE
    OBVIOUS
  <2>1. PICK d \in Nat : m = n + d
    <3>1. m - n \in Nat /\ m = n + (m - n)
      OBVIOUS
    <3> QED BY <3>1
  <2>2. m * a = n * a + d * a /\ d * a \in Nat /\ n * a \in Nat
    BY <2>1
  <2> QED BY <2>2
<1>2. PICK d \in Nat : n = m + 1 + d
  <2>1. n - m - 1 \in Nat /\ n = m + 1 + (n - m - 1)
    BY <1>1
  <2> QED BY <2>1
<1>3. n * a = m * a + a + d * a /\ d * a \in Nat /\ m * a \in Nat
  BY <1>2
<1> QED BY <1>3

LEMMA Quotient ==
    ASSUME NEW n \in Nat, NEW a \in Nat, a > 0, NEW x \in Nat, n * a <= x, x < n * a + a
    PROVE  x \div a = n /\ x % a = x - n * a
<1> DEFINE q == x \div a
<1>1. q \in Nat /\ q * a <= x /\ x < q * a + a /\ x % a = x - q * a
  BY Z3
<1> HIDE DEF q
<1>2. n * a \in Nat /\ q * a \in Nat
  BY <1>1
<1>3. ~(n * a < q * a) /\ ~(q * a < n * a)
  BY <1>1, <1>2, NextMultiple
<1>4. n * a = q * a
  BY <1>2, <1>3
<1>5. ~(n < q) /\ ~(q < n)
  <2>1. \A m, l \in Nat : m < l => m * a < l * a
    BY Z3
  <2> QED BY <1>1, <1>4, <2>1
<1> QED BY <1>1, <1>4, <1>5 DEF q

(* The chunks that n bytes need are those that reach their end.            *)
LEMMA Needed ==
    ASSUME avgChunkSize \in Nat \ {0}, NEW n \in Nat, NEW j \in Nat,
           n <= j * avgChunkSize, j * avgChunkSize < n + avgChunkSize
    PROVE  ChunksOf(n) = j
<1> DEFINE x == n + avgChunkSize - 1
<1>1. x \in Nat /\ j * avgChunkSize \in Nat
  OBVIOUS
<1>2. j * avgChunkSize <= x /\ x < j * avgChunkSize + avgChunkSize
  BY <1>1
<1> HIDE DEF x
<1>3. x \div avgChunkSize = j
  BY <1>1, <1>2, Quotient
<1> QED BY <1>3 DEF ChunksOf, x

LEMMA BlockIsMultiple ==
    ASSUME avgChunkSize \in Nat \ {0}, FixedReadSize % avgChunkSize = 0
    PROVE  \E r \in Nat : FixedReadSize = r * avgChunkSize /\ ChunksOf(FixedReadSize) = r
<1> DEFINE r == FixedReadSize \div avgChunkSize
<1>1. r \in Nat /\ FixedReadSize = r * avgChunkSize
  BY Sizes, Z3
<1> HIDE DEF r
<1>2. ChunksOf(FixedReadSize) = r
  BY <1>1, Sizes, Needed
<1> QED BY <1>1, <1>2

-----------------------------------------------------------------------------
LEMMA FixedInitInv == FixedInit => FixedInv
<1> SUFFICES ASSUME FixedInit PROVE FixedInv
  OBVIOUS
<1>1. /\ avgChunkSize \in Nat \ {0} /\ fileLength \in Nat
      /\ bytesRead = 0 /\ totalReadSize = 0 /\ chunkedSize = 0 /\ retSize = 0
      /\ fixedChunks = <<>> /\ fixedStep = "read"
  BY FixedAssumption DEF FixedInit
<1>2. Len(fixedChunks) = 0
  BY <1>1
<1>3. FixedTypes
  BY <1>1 DEF FixedTypes
<1>4. ChunksOf(FixedReadSize) \in Nat
  BY <1>1, Sizes DEF ChunksOf
<1>5. bytesRead = 0 * FixedReadSize /\ Counted(0, 0)
  BY <1>1, <1>2, <1>4, Sizes DEF Counted
<1>6. FixedProgress
  BY <1>1, <1>5 DEF FixedProgress
<1>7. FixedCopies
  BY <1>2 DEF FixedCopies
<1> QED BY <1>3, <1>6, <1>7 DEF FixedInv

(* A chunk of size bytes at the place reached.                             *)
LEMMA PushFixedFacts ==
    ASSUME FixedInv, NEW size \in Nat, size <= avgChunkSize, PushFixed(size),
           fixedStep \in {"full", "partial"}, chunkedSize' = chunkedSize + avgChunkSize,
           retSize' \in Nat
    PROVE  FixedInv'
<1>1. FixedTypes /\ FixedProgress /\ FixedCopies
  BY DEF FixedInv
<1>2. /\ chunkedSize < totalReadSize
      /\ UNCHANGED <<avgChunkSize, fileLength, bytesRead, totalReadSize, fixedStep>>
      /\ fixedChunks' = Append(fixedChunks, [at |-> chunkedSize, size |-> size])
  BY DEF PushFixed, fixedConfig
<1> DEFINE e == [at |-> chunkedSize, size |-> size]
<1>3. e \in FixedEntry /\ e.at = chunkedSize /\ e.size = size
  BY <1>1 DEF FixedTypes, FixedEntry
<1> HIDE DEF e
<1>4. /\ fixedChunks' \in Seq(FixedEntry) /\ Len(fixedChunks) \in Nat
      /\ Len(fixedChunks') = Len(fixedChunks) + 1
      /\ \A k \in 1 .. Len(fixedChunks) : fixedChunks'[k] = fixedChunks[k]
      /\ fixedChunks'[Len(fixedChunks) + 1] = e
  <2>1. fixedChunks' = Append(fixedChunks, e) /\ fixedChunks \in Seq(FixedEntry)
    BY <1>1, <1>2 DEF e, FixedTypes
  <2> QED BY <1>3, <2>1
<1>5. PICK b \in Nat, j \in Nat : /\ bytesRead = b * FixedReadSize + totalReadSize
                                  /\ Counted(b, j) /\ chunkedSize = j * avgChunkSize
  BY <1>1 DEF FixedProgress
<1>6. /\ totalReadSize \in Nat /\ chunkedSize \in Nat /\ avgChunkSize \in Nat /\ avgChunkSize > 0
      /\ totalReadSize <= FixedReadSize
  BY <1>1, Sizes DEF FixedProgress, FixedTypes
<1>7. FixedReadSize % avgChunkSize = 0 => chunkedSize + avgChunkSize <= FixedReadSize
  <2> SUFFICES ASSUME FixedReadSize % avgChunkSize = 0
               PROVE  chunkedSize + avgChunkSize <= FixedReadSize
    OBVIOUS
  <2>1. PICK r \in Nat : FixedReadSize = r * avgChunkSize
    BY <1>6, BlockIsMultiple
  <2>2. chunkedSize < FixedReadSize
    BY <1>2, <1>6, Sizes
  <2> QED BY <1>5, <1>6, <2>1, <2>2, NextMultiple
<1>8. FixedTypes'
  BY <1>1, <1>2, <1>4, <1>6 DEF FixedTypes
<1>9. FixedCopies'
  <2> SUFFICES ASSUME NEW k \in 1 .. Len(fixedChunks')
               PROVE  /\ fixedChunks'[k].size <= avgChunkSize
                      /\ fixedChunks'[k].at + fixedChunks'[k].size < FixedReadSize + avgChunkSize
                      /\ FixedReadSize % avgChunkSize = 0 =>
                            fixedChunks'[k].at + fixedChunks'[k].size <= FixedReadSize
    BY <1>2 DEF FixedCopies
  <2>1. CASE k \in 1 .. Len(fixedChunks)
    BY <1>1, <1>4, <2>1 DEF FixedCopies
  <2>2. CASE k = Len(fixedChunks) + 1
    <3>1. fixedChunks'[k].at = chunkedSize /\ fixedChunks'[k].size = size
      BY <1>3, <1>4, <2>2
    <3> HIDE DEF FixedCopies
    <3>2. /\ chunkedSize + size < FixedReadSize + avgChunkSize
          /\ FixedReadSize % avgChunkSize = 0 => chunkedSize + size <= FixedReadSize
      BY <1>2, <1>6, <1>7, Sizes
    <3> QED BY <3>1, <3>2
  <2> QED BY <1>4, <2>1, <2>2
<1>10. /\ Counted(b, j + 1)' /\ j + 1 \in Nat
       /\ chunkedSize' = (j + 1) * avgChunkSize'
       /\ bytesRead' = b * FixedReadSize + totalReadSize'
  <2>1. ChunksOf(FixedReadSize)' = ChunksOf(FixedReadSize) /\ ChunksOf(FixedReadSize) \in Nat
    BY <1>2, <1>6, Sizes DEF ChunksOf
  <2>2. b * ChunksOf(FixedReadSize) \in Nat
    BY <2>1
  <2>3. Counted(b, j + 1)'
    BY <1>4, <1>5, <2>1, <2>2 DEF Counted
  <2>4. (j + 1) * avgChunkSize = j * avgChunkSize + avgChunkSize
    BY <1>6, OneMore
  <2> QED BY <1>2, <1>5, <2>3, <2>4
<1>11. chunkedSize' < totalReadSize' + avgChunkSize'
  BY <1>2, <1>6
<1>12. FixedProgress'
  <2>1. \E b1, j1 \in Nat : /\ bytesRead' = b1 * FixedReadSize + totalReadSize'
                            /\ Counted(b1, j1)' /\ chunkedSize' = j1 * avgChunkSize'
    BY <1>10
  <2> QED BY <1>1, <1>2, <1>11, <2>1 DEF FixedProgress
<1> QED BY <1>8, <1>9, <1>12 DEF FixedInv

LEMMA FixedStepInv == FixedInv /\ [FixedNext]_fvars => FixedInv'
<1> SUFFICES ASSUME FixedInv, [FixedNext]_fvars PROVE FixedInv'
  OBVIOUS
<1>1. FixedTypes /\ FixedProgress /\ FixedCopies
  BY DEF FixedInv
<1>2. /\ bytesRead \in Nat /\ bytesRead <= fileLength /\ fileLength \in Nat
      /\ totalReadSize \in Nat /\ chunkedSize \in Nat /\ retSize \in Nat
      /\ avgChunkSize \in Nat /\ avgChunkSize > 0 /\ Len(fixedChunks) \in Nat
  BY <1>1 DEF FixedTypes
<1> DEFINE per == ChunksOf(FixedReadSize)
<1>3. per \in Nat /\ (UNCHANGED avgChunkSize => per' = per)
  BY <1>2, Sizes DEF ChunksOf
<1> HIDE DEF per
<1>4. CASE FixedRead
  <2>1. /\ fixedStep = "read" /\ chunkedSize' = 0 /\ retSize' = 0
        /\ UNCHANGED <<avgChunkSize, fileLength, fixedChunks>>
        /\ bytesRead' = bytesRead + totalReadSize'
    BY <1>4 DEF FixedRead, fixedConfig
  <2>2. PICK b \in Nat : bytesRead = b * FixedReadSize /\ Counted(b, 0)
    BY <1>1, <2>1 DEF FixedProgress
  <2>3. /\ totalReadSize' \in Nat /\ bytesRead' <= fileLength
        /\ fixedStep' \in {"full", "partial"}
        /\ fixedStep' = "full" => totalReadSize' = FixedReadSize
        /\ fixedStep' = "partial" => totalReadSize' < FixedReadSize /\ bytesRead' = fileLength
    BY <1>2, <1>4, Sizes DEF FixedRead
  <2>4. PICK t \in Nat : totalReadSize' = t
    BY <2>3
  <2>5. bytesRead' \in Nat
    BY <1>2, <2>1, <2>4
  <2>6. FixedTypes'
    BY <1>1, <2>1, <2>3, <2>5 DEF FixedTypes
  <2>7. /\ bytesRead' = b * FixedReadSize + totalReadSize'
        /\ Counted(b, 0)' /\ chunkedSize' = 0 * avgChunkSize'
    <3>1. Counted(b, 0)'
      BY <1>3, <2>1, <2>2 DEF Counted, per
    <3>2. 0 * avgChunkSize = 0
      BY <1>2
    <3> QED BY <2>1, <2>2, <3>1, <3>2
  <2>8. chunkedSize' < totalReadSize' + avgChunkSize'
    BY <1>2, <2>1, <2>4
  <2>9. FixedProgress'
    <3>1. \E b1, j1 \in Nat : /\ bytesRead' = b1 * FixedReadSize + totalReadSize'
                              /\ Counted(b1, j1)' /\ chunkedSize' = j1 * avgChunkSize'
      BY <2>7
    <3> QED BY <2>1, <2>3, <2>8, <3>1 DEF FixedProgress
  <2>10. FixedCopies'
    BY <1>1, <2>1 DEF FixedCopies
  <2> QED BY <2>6, <2>9, <2>10 DEF FixedInv
<1>5. CASE FullBlockChunk
  <2>1. PushFixed(avgChunkSize) /\ chunkedSize' = chunkedSize + avgChunkSize /\ retSize' \in Nat
        /\ fixedStep \in {"full", "partial"}
    BY <1>2, <1>5 DEF FullBlockChunk
  <2> QED BY <1>2, <2>1, PushFixedFacts
<1>6. CASE PartialBlockChunk
  <2> DEFINE size == IF retSize > avgChunkSize THEN avgChunkSize ELSE retSize
  <2>1. size \in Nat /\ size <= avgChunkSize
    BY <1>2
  <2>2. PushFixed(size) /\ chunkedSize' = chunkedSize + avgChunkSize
        /\ fixedStep \in {"full", "partial"} /\ retSize' = totalReadSize - chunkedSize
    BY <1>6 DEF PartialBlockChunk
  <2>3. retSize' \in Nat
    BY <1>2, <2>2 DEF PushFixed
  <2> HIDE DEF size
  <2> QED BY <2>1, <2>2, <2>3, PushFixedFacts
<1>7. CASE FixedBlockDone
  <2>1. /\ fixedStep \in {"full", "partial"} /\ chunkedSize >= totalReadSize
        /\ fixedStep' = IF fixedStep = "full" THEN "read" ELSE "done"
        /\ UNCHANGED <<avgChunkSize, fileLength, bytesRead, totalReadSize, chunkedSize, retSize,
                       fixedChunks>>
    BY <1>7 DEF FixedBlockDone, fixedConfig
  <2>2. FixedTypes'
    BY <1>1, <2>1 DEF FixedTypes
  <2>3. PICK b \in Nat, j \in Nat : /\ bytesRead = b * FixedReadSize + totalReadSize
                                    /\ Counted(b, j) /\ chunkedSize = j * avgChunkSize
    BY <1>1, <2>1 DEF FixedProgress
  <2>4. chunkedSize < totalReadSize + avgChunkSize
    BY <1>1, <2>1 DEF FixedProgress
  <2>5. fixedStep = "full" =>
           \E b1 \in Nat : bytesRead' = b1 * FixedReadSize /\ Counted(b1, 0)'
    <3> SUFFICES ASSUME fixedStep = "full"
                 PROVE  b + 1 \in Nat /\ bytesRead = (b + 1) * FixedReadSize /\ Counted(b + 1, 0)'
      BY <2>1
    <3>1. totalReadSize = FixedReadSize
      BY <1>1 DEF FixedProgress
    <3>2. per = j
      BY <1>2, <2>1, <2>3, <2>4, <3>1, Needed DEF per
    <3>3. (b + 1) * per = b * per + per /\ b * per \in Nat
      BY <1>3, OneMore
    <3>4. Counted(b + 1, 0)'
      <4>1. Len(fixedChunks) = b * per + j
        BY <2>3 DEF Counted, per
      <4>2. Len(fixedChunks') = (b + 1) * per' + 0
        BY <1>3, <2>1, <3>2, <3>3, <4>1
      <4> QED BY <4>2 DEF Counted, per
    <3> QED BY <2>3, <3>1, <3>4, Sizes, OneMore
  <2>6. fixedStep = "partial" =>
           /\ bytesRead = fileLength
           /\ fileLength = b * FixedReadSize + totalReadSize /\ totalReadSize < FixedReadSize
           /\ totalReadSize <= j * avgChunkSize /\ j * avgChunkSize < totalReadSize + avgChunkSize
    BY <1>1, <1>2, <2>1, <2>3, <2>4 DEF FixedProgress
  <2>7. Counted(b, j)'
    BY <1>3, <2>1, <2>3 DEF Counted, per
  <2>8. FixedProgress'
    <3>1. CASE fixedStep = "full"
      BY <2>1, <2>5, <3>1 DEF FixedProgress
    <3>2. CASE fixedStep = "partial"
      <4>1. /\ bytesRead' = fileLength'
            /\ \E b1, j1, n1 \in Nat : /\ fileLength' = b1 * FixedReadSize + n1
                                       /\ n1 < FixedReadSize /\ Counted(b1, j1)'
                                       /\ n1 <= j1 * avgChunkSize'
                                       /\ j1 * avgChunkSize' < n1 + avgChunkSize'
        BY <1>2, <2>1, <2>6, <2>7, <3>2
      <4> QED BY <2>1, <3>2, <4>1 DEF FixedProgress
    <3> QED BY <2>1, <3>1, <3>2
  <2>9. FixedCopies'
    BY <1>1, <2>1 DEF FixedCopies
  <2> QED BY <2>2, <2>8, <2>9 DEF FixedInv
<1>8. CASE FixedTerminated \/ UNCHANGED fvars
  BY <1>1, <1>8 DEF FixedTerminated, fvars, fixedConfig, FixedInv, FixedTypes, FixedProgress,
                    FixedCopies, Counted, ChunksOf
<1> QED BY <1>4, <1>5, <1>6, <1>7, <1>8 DEF FixedNext

LEMMA FixedInvCounts == FixedInv => FixedCount
<1> SUFFICES ASSUME FixedInv, fixedStep = "done" PROVE FixedCount
  BY DEF FixedCount
<1>1. /\ avgChunkSize \in Nat \ {0} /\ fileLength \in Nat /\ bytesRead = fileLength
  BY DEF FixedInv, FixedTypes, FixedProgress
<1>2. PICK b \in Nat, j \in Nat, n \in Nat :
         /\ fileLength = b * FixedReadSize + n /\ n < FixedReadSize /\ Counted(b, j)
         /\ n <= j * avgChunkSize /\ j * avgChunkSize < n + avgChunkSize
  BY DEF FixedInv, FixedProgress
<1>3. b * FixedReadSize \in Nat /\ j * avgChunkSize \in Nat
  BY <1>1, Sizes
<1>4. fileLength \div FixedReadSize = b /\ fileLength % FixedReadSize = n
  <2>1. b * FixedReadSize <= fileLength /\ fileLength < b * FixedReadSize + FixedReadSize
    BY <1>2, <1>3, Sizes
  <2>2. /\ fileLength \div FixedReadSize = b
        /\ fileLength % FixedReadSize = fileLength - b * FixedReadSize
    BY <1>1, <2>1, Sizes, Quotient
  <2> QED BY <1>2, <1>3, <2>2
<1>5. ChunksOf(n) = j
  BY <1>1, <1>2, Needed
<1>6. Len(fixedChunks) = (fileLength \div FixedReadSize) * ChunksOf(FixedReadSize)
                           + ChunksOf(fileLength % FixedReadSize)
  BY <1>2, <1>4, <1>5 DEF Counted
<1>7. ASSUME FixedReadSize % avgChunkSize = 0
      PROVE  Len(fixedChunks) = ChunksOf(fileLength)
  <2>1. PICK r \in Nat : FixedReadSize = r * avgChunkSize /\ ChunksOf(FixedReadSize) = r
    BY <1>1, <1>7, BlockIsMultiple
  <2>2. Len(fixedChunks) = b * r + j
    BY <1>2, <2>1 DEF Counted
  <2>3. b * r \in Nat /\ b * r + j \in Nat
    OBVIOUS
  <2>4. (b * r + j) * avgChunkSize = b * (r * avgChunkSize) + j * avgChunkSize
    BY <1>1
  <2>5. (b * r + j) * avgChunkSize = b * FixedReadSize + j * avgChunkSize
    BY <2>1, <2>4
  <2>6. /\ fileLength <= (b * r + j) * avgChunkSize
        /\ (b * r + j) * avgChunkSize < fileLength + avgChunkSize
    BY <1>1, <1>2, <1>3, <2>5
  <2> QED BY <1>1, <2>2, <2>3, <2>6, Needed
<1> QED BY <1>1, <1>6, <1>7 DEF FixedCount

LEMMA FixedInvAlways == FixedSpec => []FixedInv
  BY FixedInitInv, FixedStepInv, PTL DEF FixedSpec

-----------------------------------------------------------------------------
(* fixSizeChunking counts the chunks and the bytes of the file correctly,  *)
(* for every file, block and chunk size: the chunks that each block needs, *)
(* which are those of the file if the size divides the block.              *)
THEOREM FixedCounts == FixedSpec => []FixedCount
  BY FixedInvAlways, FixedInvCounts, PTL

(* Its copies stay in chunkBuffer, and in waitingForChunkingBuffer too if  *)
(* the size divides the block; if it does not, they pass its end by less   *)
(* than a chunk.                                                           *)
THEOREM FixedCopiesInside == FixedSpec => []FixedCopies
  BY FixedInvAlways, PTL DEF FixedInv
=============================================================================
