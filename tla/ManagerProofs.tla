--------------------------- MODULE ManagerProofs ---------------------------
(***************************************************************************)
(* Proofs about Manager, for every set of chunks, bases and deltas, every  *)
(* size of the containers and any number of processes.                     *)
(***************************************************************************)
EXTENDS Manager, StorageCoreProofs

(* DeltaCompressor may still save deltas.                                  *)
Collecting == mode = "compress" /\ job.step = "begin"

DeltaEnd(c) == deltaChunkDB[c].offset + Len(Delta[c])

(* The delta of a chunk is in its file, or in the compressor's body_.      *)
InDeltaFile(c) ==
    /\ deltaChunkDB[c].containerName \in DOMAIN deltaFiles
    /\ DeltaEnd(c) <= Len(deltaFiles[deltaChunkDB[c].containerName])
    /\ \A i \in 1 .. Len(Delta[c]) :
          deltaFiles[deltaChunkDB[c].containerName][deltaChunkDB[c].offset + i] = Delta[c][i]
InDeltaBody(c) ==
    /\ DeltaEnd(c) <= compressor.used
    /\ \A i \in 1 .. Len(Delta[c]) :
          compressor.body[deltaChunkDB[c].offset + i] = Delta[c][i]

(* While deltas are collected, those in the container being filled are in  *)
(* body_ and no other one is written again.                                *)
CollectedAt(c) ==
    /\ deltaChunkDB[c].containerName <= compressor.last
    /\ deltaChunkDB[c].containerName = compressor.last => InDeltaBody(c)
    /\ deltaChunkDB[c].containerName # compressor.last => InDeltaFile(c)

(* Otherwise they are in files, below the place .DeltaConfig names.        *)
LoggedAt(c) ==
    /\ InDeltaFile(c)
    /\ deltaConfig # NoConfig
    /\ deltaChunkDB[c].containerName <= deltaConfig.last
    /\ deltaChunkDB[c].containerName = deltaConfig.last => DeltaEnd(c) <= deltaConfig.used

KeptAt(c) == (Collecting => CollectedAt(c)) /\ (~Collecting => LoggedAt(c))
KeptOK == \A c \in DOMAIN deltaChunkDB : KeptAt(c)

DeltaLogTypes ==
    /\ deltaConfig \in [last : Nat, used : DeltaUsed] \cup {NoConfig}
    /\ IsStore(deltaFiles, Nat, Seq(Cell))
    /\ compressor \in [last : Nat, used : DeltaUsed, body : Buffer]
    /\ \A c \in DOMAIN deltaChunkDB :
          /\ c \in Chunk /\ Base[c] # NoBase
          /\ deltaChunkDB[c].containerName \in Nat
          /\ deltaChunkDB[c].offset \in Nat
          /\ deltaChunkDB[c].length = Len(Delta[c])

(* As long as updateContainer has put no delta off, the ones listed are    *)
(* those it has still to visit.                                            *)
JobOK ==
    /\ job = Job(job.step, job.chunk, job.todo, job.count, job.list)
    /\ job.count \in Nat
    /\ mode = "none" => job = NoJob
    /\ Collecting => phase \notin {"closing", "configured"}
    /\ mode = "update" /\ job.step \in {"begin", "next"} => job.chunk = NoChunk
    /\ mode = "update" /\ job.step # "begin" /\ job.count = 0 =>
          DOMAIN deltaChunkDB \subseteq job.todo \cup {job.chunk}

DeltaInv == DeltaLogTypes /\ JobOK /\ KeptOK

-----------------------------------------------------------------------------
(* A delta is a byte string that fits into a container.                    *)
LEMMA DeltaFacts ==
    ASSUME NEW c \in Chunk, Base[c] # NoBase
    PROVE  /\ Delta[c] \in Seq(Cell)
           /\ Len(Delta[c]) \in Nat /\ Len(Delta[c]) > 1
           /\ Len(Delta[c]) < MaxDeltaContainerSize
           /\ MaxDeltaContainerSize \in Nat /\ MaxDeltaContainerSize <= MaxContainerSize
           /\ MaxContainerSize \in Nat
<1>1. Delta[c] \in Seq(Byte) /\ Len(Delta[c]) > 1 /\ Len(Delta[c]) < MaxDeltaContainerSize
  BY DeltaAssumption
<1>2. Delta[c] \in Seq(Cell)
  BY <1>1 DEF Cell
<1>3. MaxDeltaContainerSize \in 1 .. MaxContainerSize /\ MaxContainerSize \in Nat
  BY LimitAssumption, SizeAssumption
<1> QED BY <1>1, <1>2, <1>3

(* Where a delta is kept decides that it can be read.                      *)
LEMMA KeptIsReadable == DeltaInv => NoDanglingDelta
<1> SUFFICES ASSUME DeltaInv, NEW c \in DOMAIN deltaChunkDB
             PROVE  DeltaKept(c)
  BY DEF NoDanglingDelta
<1> DEFINE key == deltaChunkDB[c]
<1>1. /\ c \in Chunk /\ Base[c] # NoBase
      /\ key.length = Len(Delta[c]) /\ key.offset \in Nat /\ key.containerName \in Nat
      /\ KeptAt(c)
  BY DEF DeltaInv, DeltaLogTypes, KeptOK
<1>2. Delta[c] \in Seq(Cell) /\ Len(Delta[c]) \in Nat
  BY <1>1, DeltaFacts
<1>3. CASE InDeltaFile(c)
  <2>1. deltaFiles[key.containerName] \in Seq(Cell)
    BY <1>3 DEF DeltaInv, DeltaLogTypes, IsStore, InDeltaFile
  <2>2. \A i \in 1 .. Len(Delta[c]) :
           /\ key.offset + i <= Len(deltaFiles[key.containerName])
           /\ deltaFiles[key.containerName][key.offset + i] = Delta[c][i]
    <3>1. key.offset + Len(Delta[c]) <= Len(deltaFiles[key.containerName])
      BY <1>3 DEF InDeltaFile, DeltaEnd
    <3>2. Len(deltaFiles[key.containerName]) \in Nat
      BY <2>1
    <3>3. \A i \in 1 .. Len(Delta[c]) : key.offset + i <= Len(deltaFiles[key.containerName])
      BY <1>1, <1>2, <3>1, <3>2
    <3> QED BY <1>3, <3>3 DEF InDeltaFile
  <2>3. readDeltaContainer(key) = [i \in 1 .. Len(Delta[c]) |-> Delta[c][i]]
    BY <1>1, <1>3, <2>2 DEF readDeltaContainer, InDeltaFile
  <2>4. readDeltaContainer(key) = Delta[c]
    BY <1>2, <2>3
  <2> QED BY <2>4 DEF DeltaKept
<1>4. CASE Collecting /\ key.containerName = compressor.last /\ InDeltaBody(c)
  <2>1. Bytes(compressor.body, key.offset, key.length)
          = [i \in 1 .. Len(Delta[c]) |-> Delta[c][i]]
    BY <1>1, <1>4 DEF Bytes, InDeltaBody
  <2>2. Bytes(compressor.body, key.offset, key.length) = Delta[c]
    BY <1>2, <2>1
  <2> QED BY <1>4, <2>2 DEF DeltaKept, Collecting
<1> QED BY <1>1, <1>3, <1>4 DEF KeptAt, CollectedAt, LoggedAt

(* What the files, .DeltaConfig and the list of deltas hold stays kept     *)
(* when no step of DeltaCompressor touches them.                           *)
LEMMA DeltaDiskFrame ==
    ASSUME DeltaInv, UNCHANGED <<deltaConfig, deltaFiles, deltaChunkDB>>,
           ~Collecting, ~Collecting'
    PROVE  KeptOK'
BY DEF DeltaInv, KeptOK, KeptAt, LoggedAt, InDeltaFile, DeltaEnd, Collecting

(* A step that leaves deltas, process and job alone.                       *)
LEMMA QuietStep ==
    ASSUME DeltaInv, UNCHANGED <<deltaDisk, mode, compressor, job>>,
           Collecting => phase' \notin {"closing", "configured"}
    PROVE  DeltaInv'
BY DEF DeltaInv, DeltaLogTypes, JobOK, KeptOK, KeptAt, LoggedAt, CollectedAt, InDeltaFile,
       InDeltaBody, DeltaEnd, Collecting, deltaDisk, IsStore

(* A step of a process that neither collects nor writes back deltas.       *)
LEMMA OtherStep ==
    ASSUME DeltaInv, UNCHANGED <<deltaDisk, mode, compressor>>,
           mode \notin {"none", "compress", "update"},
           job' = Job(job'.step, job'.chunk, job'.todo, job'.count, job'.list),
           job'.count \in Nat
    PROVE  DeltaInv'
<1>1. ~Collecting /\ ~Collecting'
  BY DEF Collecting
<1>2. KeptOK'
  BY <1>1, DeltaDiskFrame DEF deltaDisk
<1>3. DeltaLogTypes'
  BY DEF DeltaInv, DeltaLogTypes, deltaDisk, IsStore
<1>4. JobOK'
  BY <1>1 DEF JobOK, Job
<1> QED BY <1>2, <1>3, <1>4 DEF DeltaInv

(* An empty compressor has the type of the variable.                       *)
LEMMA NoCompressorType ==
    NoCompressor \in [last : Nat, used : DeltaUsed, body : Buffer]
<1>1. 0 \in DeltaUsed
  BY LimitAssumption, SizeAssumption DEF DeltaUsed
<1> QED BY <1>1, JunkBodyType DEF NoCompressor

(* A process that is not collecting deltas may end at any point.           *)
LEMMA SessionEnds ==
    ASSUME DeltaInv, Ends, ~Collecting
    PROVE  DeltaInv'
<1>1. ~Collecting'
  BY DEF Ends, Collecting
<1>2. UNCHANGED <<deltaConfig, deltaFiles, deltaChunkDB>>
  BY DEF Ends, deltaDisk
<1>3. KeptOK'
  BY <1>1, <1>2, DeltaDiskFrame
<1>4. DeltaLogTypes'
  BY <1>2, NoCompressorType DEF DeltaInv, DeltaLogTypes, Ends, IsStore
<1>5. JobOK'
  BY <1>1 DEF JobOK, Job, NoJob, Ends
<1> QED BY <1>3, <1>4, <1>5 DEF DeltaInv

(* The constructor of DeltaCompressor leaves a compressor.                 *)
LEMMA LoadType ==
    ASSUME DeltaLogTypes
    PROVE  LoadCompressor \in [last : Nat, used : DeltaUsed, body : Buffer]
<1>1. CASE deltaConfig = NoConfig
  BY <1>1, NoCompressorType DEF LoadCompressor
<1>2. CASE deltaConfig # NoConfig
  <2> DEFINE l == deltaConfig.last
             u == deltaConfig.used
             b == IF l \in DOMAIN deltaFiles THEN ReadFile(JunkBody, deltaFiles[l], u)
                  ELSE JunkBody
  <2>1. l \in Nat /\ u \in DeltaUsed /\ u \in Nat
    BY <1>2, LimitAssumption, SizeAssumption DEF DeltaLogTypes, DeltaUsed
  <2>2. LoadCompressor = [last |-> l, used |-> u, body |-> b]
    BY <1>2 DEF LoadCompressor
  <2>3. b \in Buffer
    BY <2>1, JunkBodyType, ReadFileFacts DEF DeltaLogTypes, IsStore
  <2> QED BY <2>1, <2>2, <2>3
<1> QED BY <1>1, <1>2

(* The constructor of DeltaCompressor reads back the container that is     *)
(* being filled, with every delta in it.                                   *)
LEMMA LoadFacts ==
    ASSUME DeltaInv, ~Collecting
    PROVE  \A c \in DOMAIN deltaChunkDB :
                 /\ deltaChunkDB[c].containerName <= LoadCompressor.last
                 /\ deltaChunkDB[c].containerName = LoadCompressor.last =>
                       /\ DeltaEnd(c) <= LoadCompressor.used
                       /\ \A i \in 1 .. Len(Delta[c]) :
                            LoadCompressor.body[deltaChunkDB[c].offset + i] = Delta[c][i]
<1>1. CASE deltaConfig = NoConfig
  <2>1. DOMAIN deltaChunkDB = {}
    BY <1>1 DEF DeltaInv, KeptOK, KeptAt, LoggedAt
  <2> QED BY <2>1
<1>2. CASE deltaConfig # NoConfig
  <2> DEFINE l == deltaConfig.last
             u == deltaConfig.used
             b == IF l \in DOMAIN deltaFiles THEN ReadFile(JunkBody, deltaFiles[l], u)
                  ELSE JunkBody
  <2>1. l \in Nat /\ u \in DeltaUsed /\ u \in Nat
    BY <1>2, LimitAssumption, SizeAssumption DEF DeltaInv, DeltaLogTypes, DeltaUsed
  <2>2. LoadCompressor = [last |-> l, used |-> u, body |-> b]
    BY <1>2 DEF LoadCompressor
  <2>3. ASSUME NEW c \in DOMAIN deltaChunkDB
        PROVE  /\ deltaChunkDB[c].containerName <= l
               /\ deltaChunkDB[c].containerName = l =>
                     /\ DeltaEnd(c) <= u
                     /\ \A i \in 1 .. Len(Delta[c]) :
                           b[deltaChunkDB[c].offset + i] = Delta[c][i]
    <3> DEFINE off == deltaChunkDB[c].offset
               n == Len(Delta[c])
    <3>1. LoggedAt(c)
      BY DEF DeltaInv, KeptOK, KeptAt
    <3>2. c \in Chunk /\ Base[c] # NoBase /\ off \in Nat
      BY DEF DeltaInv, DeltaLogTypes
    <3>3. n \in Nat
      BY <3>2, DeltaFacts
    <3>4. ASSUME deltaChunkDB[c].containerName = l, NEW i \in 1 .. n
          PROVE  b[off + i] = Delta[c][i]
      <4>1. /\ l \in DOMAIN deltaFiles /\ off + n <= Len(deltaFiles[l]) /\ off + n <= u
            /\ deltaFiles[l][off + i] = Delta[c][i]
        BY <3>1, <3>4 DEF LoggedAt, InDeltaFile, DeltaEnd
      <4>2. deltaFiles[l] \in Seq(Cell)
        BY <4>1 DEF DeltaInv, DeltaLogTypes, IsStore
      <4>3. Len(deltaFiles[l]) \in Nat
        BY <4>2
      <4>4. u <= MaxContainerSize /\ MaxContainerSize \in Nat
        BY <2>1, LimitAssumption, SizeAssumption DEF DeltaUsed
      <4>5. off + i <= u /\ off + i <= Len(deltaFiles[l]) /\ off + i \in Addr
        BY <2>1, <3>2, <3>3, <4>1, <4>3, <4>4 DEF Addr
      <4>6. ReadFile(JunkBody, deltaFiles[l], u)[off + i] = deltaFiles[l][off + i]
        BY <2>1, <4>2, <4>5, JunkBodyType, ReadFileFacts
      <4> QED BY <4>1, <4>6
    <3> QED BY <3>1, <3>4 DEF LoggedAt
  <2> QED BY <2>2, <2>3
<1> QED BY <1>1, <1>2

LEMMA StartKeeps ==
    ASSUME DeltaInv, NEW m \in Mode \ {"none"}, Start(m)
    PROVE  DeltaInv'
<1>1. mode = "none" /\ mode' = m /\ job' = job /\ job = NoJob /\ phase' = "ready"
  BY DEF Start, Open, DeltaInv, JobOK
<1>2. ~Collecting
  BY <1>1 DEF Collecting
<1>3. UNCHANGED <<deltaConfig, deltaFiles, deltaChunkDB>>
  BY DEF Start, deltaDisk
<1>4. DeltaLogTypes'
  BY <1>2, <1>3, LoadType, NoCompressorType DEF Start, DeltaInv, DeltaLogTypes, IsStore
<1>5. JobOK'
  BY <1>1 DEF JobOK, Job, NoJob, Collecting
<1>6. KeptOK'
  <2>1. CASE m # "compress"
    BY <1>1, <1>2, <1>3, <2>1, DeltaDiskFrame DEF Collecting
  <2>2. CASE m = "compress"
    <3>1. Collecting' /\ compressor' = LoadCompressor
      BY <1>1, <2>2 DEF Collecting, Start, Job, NoJob
    <3>2. SUFFICES ASSUME NEW c \in DOMAIN deltaChunkDB PROVE CollectedAt(c)'
      BY <1>3, <3>1 DEF KeptOK, KeptAt
    <3>3. InDeltaFile(c)'
      BY <1>2, <1>3 DEF DeltaInv, KeptOK, KeptAt, LoggedAt, InDeltaFile, DeltaEnd
    <3>4. deltaChunkDB[c].containerName = LoadCompressor.last => InDeltaBody(c)'
      BY <1>2, <1>3, <3>1, LoadFacts DEF InDeltaBody, DeltaEnd
    <3> QED BY <1>2, <1>3, <3>1, <3>3, <3>4, LoadFacts DEF CollectedAt
  <2> QED BY <2>1, <2>2
<1> QED BY <1>4, <1>5, <1>6 DEF DeltaInv

(* Saving the container being filled puts every delta that is in it into   *)
(* its file and leaves the other files alone.                              *)
LEMMA DeltaFileFacts ==
    ASSUME DeltaLogTypes
    PROVE  /\ IsStore(deltaSaveTOFile, Nat, Seq(Cell))
           /\ \A n \in DOMAIN deltaFiles : n # compressor.last =>
                 n \in DOMAIN deltaSaveTOFile /\ deltaSaveTOFile[n] = deltaFiles[n]
           /\ compressor.last \in DOMAIN deltaSaveTOFile
           /\ Len(deltaSaveTOFile[compressor.last]) = compressor.used
           /\ \A i \in 1 .. compressor.used :
                 deltaSaveTOFile[compressor.last][i] = compressor.body[i]
<1> DEFINE image == Bytes(compressor.body, 0, compressor.used)
<1>1. /\ compressor.last \in Nat /\ compressor.used \in Nat /\ compressor.body \in Buffer
      /\ compressor.used <= MaxContainerSize
  BY LimitAssumption, SizeAssumption DEF DeltaLogTypes, DeltaUsed
<1>2. /\ image \in Seq(Cell) /\ Len(image) = compressor.used
      /\ \A i \in 1 .. compressor.used : image[i] = compressor.body[i]
  BY <1>1, ImageFacts
<1>3. IsStore(deltaFiles, Nat, Seq(Cell))
  BY DEF DeltaLogTypes
<1>4. /\ DOMAIN deltaSaveTOFile = DOMAIN deltaFiles \cup {compressor.last}
      /\ deltaSaveTOFile[compressor.last] = image
      /\ \A n \in DOMAIN deltaFiles : n # compressor.last => deltaSaveTOFile[n] = deltaFiles[n]
  BY DEF deltaSaveTOFile, insert
<1>5. IsStore(deltaSaveTOFile, Nat, Seq(Cell))
  BY <1>1, <1>2, <1>3, InsertFacts DEF deltaSaveTOFile
<1> QED BY <1>2, <1>4, <1>5

LEMMA CloseCompressorKeeps ==
    ASSUME DeltaInv, CloseCompressor
    PROVE  DeltaInv'
<1>1. /\ Collecting /\ ~Collecting' /\ mode' = mode /\ mode = "compress"
      /\ deltaChunkDB' = deltaChunkDB /\ deltaFiles' = deltaSaveTOFile
      /\ deltaConfig' = [last |-> compressor.last, used |-> compressor.used]
      /\ compressor' = compressor
  BY DEF CloseCompressor, Collecting, DeltaInv, JobOK, Job
<1>2. DeltaLogTypes'
  BY <1>1, DeltaFileFacts DEF DeltaInv, DeltaLogTypes
<1>3. JobOK'
  BY <1>1 DEF CloseCompressor, DeltaInv, JobOK, Job
<1>4. ASSUME NEW c \in DOMAIN deltaChunkDB PROVE LoggedAt(c)'
  <2>1. CollectedAt(c)
    BY <1>1 DEF DeltaInv, KeptOK, KeptAt
  <2>2. c \in Chunk /\ Base[c] # NoBase /\ deltaChunkDB[c].offset \in Nat
    BY DEF DeltaInv, DeltaLogTypes
  <2>3. Len(Delta[c]) \in Nat /\ compressor.used \in Nat
    BY <2>2, DeltaFacts, LimitAssumption, SizeAssumption DEF DeltaInv, DeltaLogTypes, DeltaUsed
  <2>4. deltaConfig' # NoConfig
    BY <1>1, <2>3, SentinelAssumption DEF DeltaInv, DeltaLogTypes
  <2>5. CASE deltaChunkDB[c].containerName = compressor.last
    <3>1. \A i \in 1 .. Len(Delta[c]) :
             /\ deltaChunkDB[c].offset + i \in 1 .. compressor.used
             /\ compressor.body[deltaChunkDB[c].offset + i] = Delta[c][i]
      BY <2>1, <2>2, <2>3, <2>5 DEF CollectedAt, InDeltaBody, DeltaEnd
    <3>2. InDeltaFile(c)'
      BY <1>1, <2>1, <2>5, <3>1, DeltaFileFacts
      DEF DeltaInv, CollectedAt, InDeltaBody, InDeltaFile, DeltaEnd
    <3>3. DeltaEnd(c)' <= compressor.used
      BY <1>1, <2>1, <2>5 DEF CollectedAt, InDeltaBody, DeltaEnd
    <3> QED BY <1>1, <2>1, <2>5, <2>4, <3>2, <3>3 DEF LoggedAt, CollectedAt
  <2>6. CASE deltaChunkDB[c].containerName # compressor.last
    <3>1. InDeltaFile(c)'
      BY <1>1, <2>1, <2>6, DeltaFileFacts DEF DeltaInv, CollectedAt, InDeltaFile, DeltaEnd
    <3> QED BY <1>1, <2>1, <2>6, <2>4, <3>1 DEF LoggedAt, CollectedAt
  <2> QED BY <2>5, <2>6
<1> QED BY <1>1, <1>2, <1>3, <1>4 DEF DeltaInv, KeptOK, KeptAt

(* Where saveDeltaChunk puts a delta: behind the others of the container   *)
(* being filled, or at the start of a new one.                             *)
DeltaPlaced(d, l, u) ==
    /\ l \in Nat /\ u \in Nat /\ u + Len(Delta[d]) < MaxDeltaContainerSize
    /\ \/ l = compressor.last /\ u = compressor.used /\ deltaFiles' = deltaFiles
       \/ l = compressor.last + 1 /\ deltaFiles' = deltaSaveTOFile
    /\ deltaChunkDB' = insert(deltaChunkDB, d,
                    [containerName |-> l, offset |-> u, length |-> Len(Delta[d]),
                     count |-> fp2ChunkDB[d].count,
                     deltaCount |-> fp2ChunkDB[d].deltaCount + 1])
    /\ compressor' = [last |-> l, used |-> u + Len(Delta[d]),
                      body |-> memcpy(compressor.body, u, Delta[d])]

LEMMA DeltaIsPlaced ==
    ASSUME DeltaLogTypes, NEW d \in Chunk, saveDeltaChunk(d)
    PROVE  \E l, u : DeltaPlaced(d, l, u)
<1> DEFINE n == Len(Delta[d])
<1>1. Base[d] # NoBase
  BY DEF saveDeltaChunk
<1>2. /\ n \in Nat /\ n < MaxDeltaContainerSize /\ MaxDeltaContainerSize \in Nat
  BY <1>1, DeltaFacts
<1>3. /\ compressor \in [last : Nat, used : DeltaUsed, body : Buffer]
      /\ compressor.last \in Nat /\ compressor.used \in Nat
  BY <1>2 DEF DeltaLogTypes, DeltaUsed
<1>4. compressor = [last |-> compressor.last, used |-> compressor.used,
                    body |-> compressor.body]
  BY <1>3
<1>5. CASE DeltaFits(n)
  <2>1. n + compressor.used < MaxDeltaContainerSize
    BY <1>5 DEF DeltaFits
  <2>2. /\ deltaFiles' = deltaFiles
        /\ deltaChunkDB' = insert(deltaChunkDB, d,
              [containerName |-> compressor.last, offset |-> compressor.used,
               length |-> n, count |-> fp2ChunkDB[d].count,
               deltaCount |-> fp2ChunkDB[d].deltaCount + 1])
        /\ compressor' = [compressor EXCEPT !.used = @ + n,
                             !.body = memcpy(@, compressor.used, Delta[d])]
    BY <1>5 DEF saveDeltaChunk
  <2>3. compressor' = [last |-> compressor.last, used |-> compressor.used + n,
                       body |-> memcpy(compressor.body, compressor.used, Delta[d])]
    BY <1>4, <2>2
  <2>4. compressor.used + n < MaxDeltaContainerSize
    BY <1>2, <1>3, <2>1
  <2>5. DeltaPlaced(d, compressor.last, compressor.used)
    BY <1>3, <2>2, <2>3, <2>4 DEF DeltaPlaced
  <2> QED BY <2>5
<1>6. CASE ~DeltaFits(n)
  <2> DEFINE at == [last |-> compressor.last + 1, used |-> 0, body |-> compressor.body]
  <2>1. /\ deltaFiles' = (IF at = compressor THEN deltaFiles ELSE deltaSaveTOFile)
        /\ deltaChunkDB' = insert(deltaChunkDB, d,
              [containerName |-> at.last, offset |-> at.used,
               length |-> n, count |-> fp2ChunkDB[d].count,
               deltaCount |-> fp2ChunkDB[d].deltaCount + 1])
        /\ compressor' = [at EXCEPT !.used = @ + n, !.body = memcpy(@, at.used, Delta[d])]
    BY <1>6 DEF saveDeltaChunk
  <2>2. at.last = compressor.last + 1 /\ at.used = 0 /\ at.body = compressor.body
    OBVIOUS
  <2>3. at # compressor
    <3> HIDE DEF at
    <3>1. at.last # compressor.last
      BY <1>3, <2>2
    <3> QED BY <3>1
  <2>4. compressor' = [last |-> compressor.last + 1, used |-> 0 + n,
                       body |-> memcpy(compressor.body, 0, Delta[d])]
    BY <2>1, <2>2
  <2>5. DeltaPlaced(d, compressor.last + 1, 0)
    <3>1. 0 + n < MaxDeltaContainerSize /\ compressor.last + 1 \in Nat
      BY <1>2, <1>3
    <3>2. deltaFiles' = deltaSaveTOFile
      BY <2>1, <2>3
    <3>3. deltaChunkDB' = insert(deltaChunkDB, d,
             [containerName |-> compressor.last + 1, offset |-> 0, length |-> n,
              count |-> fp2ChunkDB[d].count,
              deltaCount |-> fp2ChunkDB[d].deltaCount + 1])
      BY <2>1, <2>2
    <3> QED BY <2>4, <3>1, <3>2, <3>3, Zenon DEF DeltaPlaced
  <2> QED BY <2>5
<1> QED BY <1>5, <1>6

(* A delta goes behind the others of its container, or into one that no    *)
(* listed delta is in.                                                     *)
LEMMA SaveDeltaKeeps ==
    ASSUME DeltaInv, NEW d \in Chunk, saveDeltaChunk(d)
    PROVE  DeltaInv'
<1> DEFINE n == Len(Delta[d])
<1>1. /\ Collecting /\ Collecting' /\ phase = "ready" /\ phase' = phase
      /\ Base[d] # NoBase
      /\ deltaConfig' = deltaConfig /\ mode' = mode /\ job' = job /\ mode = "compress"
  BY DEF saveDeltaChunk, Collecting, vars, objectVars
<1>2. /\ Delta[d] \in Seq(Cell) /\ n \in Nat /\ n < MaxDeltaContainerSize
      /\ MaxDeltaContainerSize \in Nat /\ MaxDeltaContainerSize <= MaxContainerSize
      /\ MaxContainerSize \in Nat
  BY <1>1, DeltaFacts
<1>3. compressor.last \in Nat /\ compressor.used \in Nat /\ compressor.body \in Buffer
  BY <1>2 DEF DeltaInv, DeltaLogTypes, DeltaUsed
<1>4. PICK l, u : DeltaPlaced(d, l, u)
  BY DeltaIsPlaced DEF DeltaInv
<1> DEFINE filled == memcpy(compressor.body, u, Delta[d])
<1>5. /\ l \in Nat /\ u \in Nat /\ u + n < MaxDeltaContainerSize
      /\ compressor'.last = l /\ compressor'.used = u + n /\ compressor'.body = filled
      /\ compressor' = [last |-> l, used |-> u + n, body |-> filled]
  BY <1>4 DEF DeltaPlaced
<1>6. u + n <= MaxContainerSize
  BY <1>2, <1>5
<1>7. /\ filled \in Buffer
      /\ \A i \in 1 .. n : filled[u + i] = Delta[d][i]
      /\ \A a \in 1 .. u : filled[a] = compressor.body[a]
  BY <1>2, <1>3, <1>5, <1>6, MemcpyFacts
<1> HIDE DEF filled
<1>8. compressor' \in [last : Nat, used : DeltaUsed, body : Buffer]
  <2>1. u + n \in DeltaUsed
    BY <1>2, <1>5 DEF DeltaUsed
  <2> QED BY <1>5, <1>7, <2>1
<1>9. /\ DOMAIN deltaChunkDB' = DOMAIN deltaChunkDB \cup {d}
      /\ deltaChunkDB'[d].containerName = l /\ deltaChunkDB'[d].offset = u
      /\ deltaChunkDB'[d].length = n
      /\ \A c \in DOMAIN deltaChunkDB : c # d => deltaChunkDB'[c] = deltaChunkDB[c]
  BY <1>4 DEF insert, DeltaPlaced
<1>10. DeltaLogTypes'
  <2>1. IsStore(deltaFiles', Nat, Seq(Cell))
    BY <1>4, DeltaFileFacts DEF DeltaInv, DeltaLogTypes, DeltaPlaced
  <2>2. ASSUME NEW c \in DOMAIN deltaChunkDB'
        PROVE  /\ c \in Chunk /\ Base[c] # NoBase
               /\ deltaChunkDB'[c].containerName \in Nat
               /\ deltaChunkDB'[c].offset \in Nat
               /\ deltaChunkDB'[c].length = Len(Delta[c])
    <3>1. CASE c = d
      BY <1>1, <1>5, <1>9, <3>1
    <3>2. CASE c # d
      BY <1>9, <3>2 DEF DeltaInv, DeltaLogTypes
    <3> QED BY <3>1, <3>2
  <2> QED BY <1>1, <1>8, <2>1, <2>2 DEF DeltaInv, DeltaLogTypes
<1>11. JobOK'
  BY <1>1 DEF DeltaInv, JobOK, Job
<1>12. CollectedAt(d)'
  <2>1. InDeltaBody(d)'
    BY <1>2, <1>5, <1>7, <1>9 DEF InDeltaBody, DeltaEnd
  <2> QED BY <1>5, <1>9, <2>1 DEF CollectedAt
<1>13. ASSUME NEW c \in DOMAIN deltaChunkDB, c # d PROVE CollectedAt(c)'
  <2> DEFINE name == deltaChunkDB[c].containerName
             off == deltaChunkDB[c].offset
             k == Len(Delta[c])
  <2>1. CollectedAt(c) /\ deltaChunkDB'[c] = deltaChunkDB[c]
    BY <1>1, <1>9, <1>13 DEF DeltaInv, KeptOK, KeptAt
  <2>2. c \in Chunk /\ Base[c] # NoBase /\ off \in Nat /\ name \in Nat
    BY DEF DeltaInv, DeltaLogTypes
  <2>3. k \in Nat
    BY <2>2, DeltaFacts
  <2>4. name <= compressor.last
    BY <2>1 DEF CollectedAt
  <2>5. name = compressor.last =>
           /\ off + k <= compressor.used
           /\ \A i \in 1 .. k : /\ off + i \in 1 .. compressor.used
                                /\ compressor.body[off + i] = Delta[c][i]
    BY <1>3, <2>1, <2>2, <2>3 DEF CollectedAt, InDeltaBody, DeltaEnd
  <2>6. CASE l = compressor.last /\ u = compressor.used /\ deltaFiles' = deltaFiles
    <3>1. CASE name = compressor.last
      <4>1. \A i \in 1 .. k : compressor'.body[off + i] = Delta[c][i]
        BY <1>5, <1>7, <2>5, <2>6, <3>1
      <4>2. off + k <= compressor'.used
        BY <1>2, <1>3, <1>5, <2>2, <2>3, <2>5, <2>6, <3>1
      <4>3. InDeltaBody(c)'
        BY <2>1, <4>1, <4>2 DEF InDeltaBody, DeltaEnd
      <4> QED BY <1>3, <1>5, <2>1, <2>6, <3>1, <4>3 DEF CollectedAt
    <3>2. CASE name # compressor.last
      <4>1. InDeltaFile(c)'
        BY <2>1, <2>6, <3>2 DEF CollectedAt, InDeltaFile, DeltaEnd
      <4> QED BY <1>5, <2>1, <2>4, <2>6, <3>2, <4>1 DEF CollectedAt
    <3> QED BY <3>1, <3>2
  <2>7. CASE l = compressor.last + 1 /\ deltaFiles' = deltaSaveTOFile
    <3>1. InDeltaFile(c)'
      <4>1. CASE name = compressor.last
        <5>1. name \in DOMAIN deltaFiles' /\ Len(deltaFiles'[name]) = compressor.used
          BY <2>7, <4>1, DeltaFileFacts DEF DeltaInv
        <5>2. \A i \in 1 .. k : deltaFiles'[name][off + i] = Delta[c][i]
          BY <2>5, <2>7, <4>1, DeltaFileFacts DEF DeltaInv
        <5>3. off + k <= Len(deltaFiles'[name])
          BY <2>5, <4>1, <5>1
        <5> QED BY <2>1, <5>1, <5>2, <5>3 DEF InDeltaFile, DeltaEnd
      <4>2. CASE name # compressor.last
        <5>1. InDeltaFile(c)
          BY <2>1, <4>2 DEF CollectedAt
        <5>2. name \in DOMAIN deltaFiles' /\ deltaFiles'[name] = deltaFiles[name]
          BY <2>7, <4>2, <5>1, DeltaFileFacts DEF DeltaInv, InDeltaFile
        <5> QED BY <2>1, <5>1, <5>2 DEF InDeltaFile, DeltaEnd
      <4> QED BY <4>1, <4>2
    <3>2. name < compressor'.last
      BY <1>3, <1>5, <2>2, <2>4, <2>7
    <3>3. name <= compressor'.last /\ name # compressor'.last
      BY <1>5, <2>2, <3>2
    <3> QED BY <2>1, <3>1, <3>3 DEF CollectedAt
  <2> QED BY <1>4, <2>6, <2>7 DEF DeltaPlaced
<1>14. KeptOK'
  BY <1>1, <1>9, <1>12, <1>13 DEF KeptOK, KeptAt
<1> QED BY <1>10, <1>11, <1>14 DEF DeltaInv

-----------------------------------------------------------------------------
(* A step of updateContainer forgets deltas at most.                       *)
LEMMA UpdateStep ==
    ASSUME DeltaInv, mode = "update", JobOK',
           UNCHANGED <<deltaConfig, deltaFiles, mode, compressor>>,
           DOMAIN deltaChunkDB' \subseteq DOMAIN deltaChunkDB,
           \A c \in DOMAIN deltaChunkDB' : deltaChunkDB'[c] = deltaChunkDB[c]
    PROVE  DeltaInv'
<1>1. ~Collecting /\ ~Collecting'
  BY DEF Collecting
<1>2. KeptOK'
  BY <1>1 DEF DeltaInv, KeptOK, KeptAt, LoggedAt, InDeltaFile, DeltaEnd
<1>3. DeltaLogTypes'
  BY DEF DeltaInv, DeltaLogTypes, IsStore
<1> QED BY <1>2, <1>3 DEF DeltaInv

LEMMA UpdateKeeps ==
    ASSUME DeltaInv,
           \/ UpdateBegin
           \/ \E c \in Chunk : UpdateSkip(c) \/ UpdateSize(c)
           \/ UpdateIndex \/ UpdateIndexFails \/ UpdateFile \/ UpdateForget
    PROVE  DeltaInv'
<1> USE DEF Updating, Stays, deltaDisk
<1>1. JobOK /\ job.count \in Nat
  BY DEF DeltaInv, JobOK
<1>2. CASE UpdateBegin
  <2>1. job' = Job("next", job.chunk, DOMAIN deltaChunkDB, job.count, job.list)
    BY <1>1, <1>2 DEF UpdateBegin, JobOK, Job
  <2>2. job.chunk = NoChunk
    BY <1>1, <1>2 DEF UpdateBegin, JobOK
  <2>3. JobOK'
    BY <1>1, <1>2, <2>1, <2>2 DEF UpdateBegin, JobOK, Job, Collecting
  <2> QED BY <1>2, <2>3, UpdateStep DEF UpdateBegin
<1>3. ASSUME NEW c \in Chunk, UpdateSkip(c) PROVE DeltaInv'
  <2>1. job' = Job(job.step, job.chunk, job.todo \ {c}, job.count + 1, job.list)
    BY <1>1, <1>3 DEF UpdateSkip, JobOK, Job
  <2>2. job.count + 1 \in Nat /\ job.count + 1 # 0
    BY <1>1
  <2>3. JobOK'
    BY <1>1, <1>3, <2>1, <2>2 DEF UpdateSkip, JobOK, Job, Collecting
  <2> QED BY <1>3, <2>3, UpdateStep DEF UpdateSkip
<1>4. ASSUME NEW c \in Chunk, UpdateSize(c) PROVE DeltaInv'
  <2>1. job' = Job("sized", c, job.todo \ {c}, job.count, job.list)
    BY <1>1, <1>4 DEF UpdateSize, JobOK, Job
  <2>2. DOMAIN deltaChunkDB \subseteq Chunk /\ NoChunk \notin Chunk
    BY LimitAssumption DEF DeltaInv, DeltaLogTypes
  <2>3. JobOK'
    BY <1>1, <1>4, <2>1, <2>2 DEF UpdateSize, JobOK, Job, Collecting
  <2> QED BY <1>4, <2>3, UpdateStep DEF UpdateSize
<1>5. CASE UpdateIndex \/ UpdateIndexFails
  <2>1. JobOK'
    BY <1>1, <1>5 DEF UpdateIndex, UpdateIndexFails, JobOK, Job, Collecting
  <2> QED BY <1>5, <2>1, UpdateStep DEF UpdateIndex, UpdateIndexFails
<1>6. CASE UpdateFile
  <2>1. JobOK'
    BY <1>1, <1>6 DEF UpdateFile, JobOK, Job, Collecting
  <2> QED BY <1>6, <2>1, UpdateStep DEF UpdateFile
<1>7. CASE UpdateForget
  <2>1. /\ DOMAIN deltaChunkDB' = DOMAIN deltaChunkDB \ {job.chunk}
        /\ \A c \in DOMAIN deltaChunkDB' : deltaChunkDB'[c] = deltaChunkDB[c]
    BY <1>7 DEF UpdateForget, delete_
  <2>2. JobOK'
    BY <1>1, <1>7, <2>1 DEF UpdateForget, JobOK, Job, Collecting
  <2> QED BY <1>7, <2>1, <2>2, UpdateStep DEF UpdateForget
<1> QED BY <1>2, <1>3, <1>4, <1>5, <1>6, <1>7

(* Delta/ is emptied only when no delta is listed any more.                *)
LEMMA UpdateEndKeeps ==
    ASSUME DeltaInv, UpdateEnd
    PROVE  DeltaInv'
<1>1. /\ mode = "update" /\ job.step = "next" /\ job.todo = {} /\ job.chunk = NoChunk
      /\ ~Collecting /\ ~Collecting'
      /\ mode' = "none" /\ job' = NoJob
      /\ UNCHANGED <<deltaConfig, deltaChunkDB, compressor>>
  BY DEF UpdateEnd, Updating, DeltaInv, JobOK, Collecting
<1>2. JobOK'
  BY <1>1 DEF JobOK, Job, NoJob
<1>3. CASE job.count = 0
  <2>1. DOMAIN deltaChunkDB = {}
    BY <1>1, <1>3, LimitAssumption DEF DeltaInv, DeltaLogTypes, JobOK
  <2>2. IsStore(EmptyStore, Nat, Seq(Cell))
    BY DEF IsStore, EmptyStore
  <2>3. DeltaLogTypes'
    BY <1>1, <1>3, <2>1, <2>2 DEF UpdateEnd, DeltaInv, DeltaLogTypes
  <2>4. KeptOK'
    BY <1>1, <2>1 DEF KeptOK
  <2> QED BY <1>2, <2>3, <2>4 DEF DeltaInv
<1>4. CASE job.count # 0
  <2>1. deltaFiles' = deltaFiles
    BY <1>4 DEF UpdateEnd
  <2>2. DeltaLogTypes'
    BY <1>1, <2>1 DEF DeltaInv, DeltaLogTypes, IsStore
  <2>3. KeptOK'
    BY <1>1, <2>1, DeltaDiskFrame
  <2> QED BY <1>2, <2>2, <2>3 DEF DeltaInv
<1> QED BY <1>3, <1>4

(* rewriteContainer, and the saveChunk in it, leave the deltas alone.      *)
LEMMA RewriteKeeps ==
    ASSUME DeltaInv,
           \/ ListContainers
           \/ \E c \in Chunk : RewriteSkip(c) \/ RewriteRead(c)
           \/ RewriteSave \/ RemoveContainers
    PROVE  DeltaInv'
<1>1. /\ mode = "rewrite" /\ Stays
      /\ job' = Job(job'.step, job'.chunk, job'.todo, job'.count, job'.list)
      /\ job'.count \in Nat
  <2>1. job = Job(job.step, job.chunk, job.todo, job.count, job.list) /\ job.count \in Nat
    BY DEF DeltaInv, JobOK
  <2>2. CASE ListContainers
    BY <2>1, <2>2 DEF ListContainers, Rewriting, Job
  <2>3. CASE \E c \in Chunk : RewriteSkip(c)
    BY <2>1, <2>3 DEF RewriteSkip, Rewriting, Job
  <2>4. ASSUME NEW c \in Chunk, RewriteRead(c)
        PROVE  mode = "rewrite" /\ Stays
               /\ job' = Job("read", c, job.todo \ {c}, job.count, job.list)
    BY <2>1, <2>4 DEF RewriteRead, Rewriting, Job
  <2>5. CASE RewriteSave
    BY <2>1, <2>5 DEF RewriteSave, Rewriting, Job
  <2>6. CASE RemoveContainers
    BY <2>6 DEF RemoveContainers, Rewriting, Job, NoJob
  <2>7. CASE \E c \in Chunk : RewriteRead(c)
    BY <2>1, <2>4, <2>7 DEF Job
  <2> QED BY <2>2, <2>3, <2>5, <2>6, <2>7
<1> QED BY <1>1, OtherStep DEF Stays

LEMMA StoreKeeps ==
    ASSUME DeltaInv,
           \/ BackupStep \/ SaveChunkStep \/ SaveChunkFails \/ CloseStep
           \/ \E c \in Chunk : DeleteBeforeGC(c)
    PROVE  DeltaInv'
<1> USE DEF Stays
<1>1. CASE BackupStep
  <2>1. mode = "backup"
    BY <1>1 DEF BackupStep
  <2> QED BY <1>1, <2>1, QuietStep DEF BackupStep, Collecting
<1>2. CASE WriteRotated /\ Stays /\ UNCHANGED job
  BY <1>2, QuietStep DEF WriteRotated
<1>3. CASE IndexChunk /\ UNCHANGED <<deltaDisk, mode, compressor, job>>
  BY <1>3, QuietStep DEF IndexChunk
<1>4. CASE /\ AdvanceUsed /\ Stays
           /\ job' = [job EXCEPT !.step = IF mode = "rewrite" THEN "next" ELSE @]
  <2>1. CASE mode = "rewrite"
    <3>1. /\ job' = Job(job'.step, job'.chunk, job'.todo, job'.count, job'.list)
          /\ job'.count \in Nat
      BY <1>4 DEF DeltaInv, JobOK, Job
    <3> QED BY <1>4, <2>1, <3>1, OtherStep
  <2>2. CASE mode # "rewrite"
    <3>1. job' = job
      BY <1>4, <2>2 DEF DeltaInv, JobOK, Job
    <3> QED BY <1>4, <3>1, QuietStep DEF AdvanceUsed
  <2> QED BY <2>1, <2>2
<1>5. CASE CloseStep
  <2>1. CASE SaveLastStep /\ Ends
    BY <2>1, SessionEnds DEF SaveLastStep, SaveLast, SaveLastUnopened, DeltaInv, JobOK
  <2>2. CASE ConfigStep /\ Stays /\ UNCHANGED job
    BY <2>2, QuietStep DEF ConfigStep, WriteConfig, WriteConfigUnopened, DeltaInv, JobOK
  <2>3. CASE ~Collecting /\ Stays /\ UNCHANGED job
    BY <2>3, QuietStep
  <2> QED BY <1>5, <2>1, <2>2, <2>3 DEF CloseStep, Collecting
<1>6. CASE \E c \in Chunk : DeleteBeforeGC(c)
  BY <1>6, QuietStep DEF DeleteBeforeGC, Collecting
<1>7. CASE SaveChunkFails
  <2>1. /\ job' = Job(job'.step, job'.chunk, job'.todo, job'.count, job'.list)
        /\ job'.count \in Nat
    BY <1>7 DEF SaveChunkFails, DeltaInv, JobOK, Job
  <2>2. mode \in {"backup", "rewrite"} /\ UNCHANGED <<deltaDisk, mode, compressor>>
    BY <1>7 DEF SaveChunkFails
  <2> QED BY <2>1, <2>2, OtherStep
<1> QED BY <1>1, <1>2, <1>3, <1>4, <1>5, <1>6, <1>7 DEF SaveChunkStep

-----------------------------------------------------------------------------
LEMMA DeltaInvInit == MInit => DeltaInv
<1> SUFFICES ASSUME MInit PROVE DeltaInv
  OBVIOUS
<1>1. DOMAIN deltaChunkDB = {} /\ IsStore(deltaFiles, Nat, Seq(Cell))
  BY DEF MInit, EmptyStore, IsStore
<1>2. DeltaLogTypes
  BY <1>1, NoCompressorType DEF MInit, DeltaLogTypes
<1>3. JobOK
  BY DEF MInit, JobOK, Job, NoJob, Collecting
<1> QED BY <1>1, <1>2, <1>3 DEF DeltaInv, KeptOK

(* DeltaCompressor dies only between runs.                                 *)
LEMMA DeltaInvStep ==
    ASSUME DeltaInv, [MNext]_mvars, "compress" \notin Faults
    PROVE  DeltaInv'
<1>1. CASE \E m \in Mode \ {"none"} : Start(m)
  BY <1>1, StartKeeps
<1>2. CASE \/ BackupStep \/ SaveChunkStep \/ SaveChunkFails \/ CloseStep
           \/ \E c \in Chunk : DeleteBeforeGC(c)
  BY <1>2, StoreKeeps
<1>3. CASE \E c \in Chunk : saveDeltaChunk(c)
  BY <1>3, SaveDeltaKeeps
<1>4. CASE CloseCompressor
  BY <1>4, CloseCompressorKeeps
<1>5. CASE \/ UpdateBegin
           \/ \E c \in Chunk : UpdateSkip(c) \/ UpdateSize(c)
           \/ UpdateIndex \/ UpdateIndexFails \/ UpdateFile \/ UpdateForget
  BY <1>5, UpdateKeeps
<1>6. CASE UpdateEnd
  BY <1>6, UpdateEndKeeps
<1>7. CASE \E c \in Chunk : UpdateThrows(c)
  BY <1>7, SessionEnds DEF UpdateThrows, Updating, Collecting
<1>8. CASE \/ ListContainers
           \/ \E c \in Chunk : RewriteSkip(c) \/ RewriteRead(c)
           \/ RewriteSave \/ RemoveContainers
  BY <1>8, RewriteKeeps
<1>9. CASE GC
  BY <1>9, SessionEnds DEF GC, Collecting
<1>10. CASE Die
  BY <1>10, SessionEnds DEF Die, DeathPoint, Collecting
<1>11. CASE UNCHANGED mvars
  BY <1>11, QuietStep DEF mvars, vars, objectVars, DeltaInv, JobOK
<1> QED BY <1>1, <1>2, <1>3, <1>4, <1>5, <1>6, <1>7, <1>8, <1>9, <1>10, <1>11 DEF MNext

(* Every delta that deltaChunkDB lists can be read, from Delta/ or from    *)
(* the compressor that is collecting it, whatever processes run and        *)
(* wherever they die, as long as it is not DeltaCompressor that dies.      *)
THEOREM DeltasAreKept ==
    ASSUME "compress" \notin Faults
    PROVE  MSpec => []NoDanglingDelta
<1>1. MInit => DeltaInv
  BY DeltaInvInit
<1>2. DeltaInv /\ [MNext]_mvars => DeltaInv'
  BY DeltaInvStep
<1>3. DeltaInv => NoDanglingDelta
  BY KeptIsReadable
<1> QED BY <1>1, <1>2, <1>3, PTL DEF MSpec

-----------------------------------------------------------------------------
(* The bytes of a chunk that has become a delta n times.                   *)
Form(c, n) == IF n = 0 THEN Stored(c) ELSE Delta[c]

(* The types of the store, in which a delta may take the place of a chunk. *)
StoreTypes ==
    /\ config \in [last : Nat, used : 0 .. MaxContainerSize] \cup {NoConfig}
    /\ IsStore(files, Nat, Seq(Cell))
    /\ DOMAIN containerDB \subseteq Nat
    /\ last \in Nat /\ used \in 0 .. MaxContainerSize /\ body \in Buffer
    /\ readName \in Nat \cup {NoName} /\ readBody \in Buffer

(* An entry of the index has the length of the chunk or of its delta.      *)
EntryAt(c) ==
    /\ c \in Chunk
    /\ fp2ChunkDB[c] \in DeltaKey /\ fp2ChunkDB[c].count \in Count
    /\ fp2ChunkDB[c].length = Len(Form(c, fp2ChunkDB[c].deltaCount))
    /\ End(c) <= MaxContainerSize
    /\ fp2ChunkDB[c].deltaCount > 0 => Base[c] # NoBase
EntriesOK == \A c \in DOMAIN fp2ChunkDB : EntryAt(c)

(* So do the arguments of a saveChunk, which moves chunks and deltas.      *)
SaveTypes ==
    Saving =>
        /\ saving.chunk \in Chunk /\ saving.data \in Seq(Cell)
        /\ saving.count \in Count /\ saving.deltaCount \in Nat
        /\ saving.deltaCount > 0 => Base[saving.chunk] # NoBase
        /\ Len(saving.data) = Len(Form(saving.chunk, saving.deltaCount))
        /\ phase \in {"written", "indexed"} => used + Len(saving.data) <= MaxContainerSize

LogTypes ==
    \A c \in DOMAIN deltaChunkDB :
        deltaChunkDB[c].length = Len(Delta[c]) /\ deltaChunkDB[c].deltaCount > 0

(* The entry at hand is one of both stores.                                *)
HandOK ==
    /\ mode = "none" => job = NoJob
    /\ mode = "update" =>
          /\ job.todo \subseteq DOMAIN deltaChunkDB
          /\ job.step \in {"sized", "indexed", "written"} =>
                job.chunk \in (DOMAIN deltaChunkDB \cap DOMAIN fp2ChunkDB) \ job.todo
    /\ mode = "rewrite" /\ job.step = "read" => job.chunk \in DOMAIN fp2ChunkDB

TypesInv == DeltaTypeOK /\ StoreTypes /\ EntriesOK /\ SaveTypes /\ LogTypes /\ HandOK

-----------------------------------------------------------------------------
(* updateContainer will write the delta of the chunk, now or again.        *)
Pending(c) == c \in DOMAIN deltaChunkDB /\ fp2ChunkDB[c].deltaCount > 0

(* A buffer or file has the bytes of an entry, or will have.  Nothing is   *)
(* said of the bytes of a chunk at risk.                                   *)
Has(buf, c) ==
    \/ c \in AtRisk
    \/ Pending(c)
    \/ \A i \in 1 .. fp2ChunkDB[c].length :
          buf[fp2ChunkDB[c].offset + i] = Form(c, fp2ChunkDB[c].deltaCount)[i]

InFile(c) ==
    c \notin AtRisk =>
        /\ In_(c) \in DOMAIN files
        /\ End(c) <= Len(files[In_(c)])
        /\ Has(files[In_(c)], c)

(* Where the open object has the bytes of an entry.                        *)
OpenAt(c) ==
    /\ In_(c) <= last
    /\ In_(c) = last => /\ Has(body, c)
                        /\ End(c) <= used \/ (phase = "indexed" /\ c = saving.chunk)
    /\ In_(c) # last => InFile(c)
    /\ In_(c) = readName => Has(readBody, c)

(* Where the next object will find them.                                   *)
ClosedAt(c) ==
    /\ InFile(c)
    /\ config # NoConfig
    /\ In_(c) <= config.last
    /\ In_(c) = config.last => End(c) <= config.used

(* Nothing was saved that only a close would make durable.                 *)
Settled == ~IsOpen \/ (mode # "backup" /\ fresh = {} /\ phase # "indexed")

PlacesOK == \A c \in DOMAIN fp2ChunkDB :
    (IsOpen => OpenAt(c)) /\ (Settled => ClosedAt(c))

(* No two entries share a byte.                                            *)
Apart == \A c, d \in DOMAIN fp2ChunkDB :
    c # d /\ In_(c) = In_(d) => \/ End(c) <= fp2ChunkDB[d].offset
                                \/ End(d) <= fp2ChunkDB[c].offset

(* The containers that have a size are not beyond the last one.            *)
SizesOK ==
    \A n \in DOMAIN containerDB :
        /\ IsOpen => n <= last
        /\ Settled => config # NoConfig /\ n <= config.last

ConfigsOK ==
    /\ IsOpen /\ config # NoConfig => config.last <= last
    /\ phase = "configured" => config = [last |-> last, used |-> used]
    /\ fresh = {} /\ phase \in {"ready", "written", "closing", "configured"}
          /\ config # NoConfig =>
          used = 0 \/ (last = config.last /\ used = config.used)

(* What the object may be doing in each process.                           *)
ModeOK ==
    /\ phase \in Phase
    /\ mode = "none" <=> phase = "closed"
    /\ mode \in {"none", "update", "gc", "compress"} => fresh = {} /\ ~Saving
    /\ mode \in {"update", "gc"} => phase = "ready"
    /\ mode # "rewrite" => readName = NoName
    /\ readName # NoName => readName < last
    /\ mode = "rewrite" => /\ Saving => job.step = "save"
                           /\ phase \in {"closing", "configured"} => job.step = "removed"
    /\ mode = "rewrite" /\ job.step = "begin" => fresh = {}
    /\ job.step \in {"begin", "removed"} => job.list = {}

(* A base is in the index as long as there may be a delta of it.           *)
BasesOK ==
    /\ \A c \in DOMAIN fp2ChunkDB :
          /\ (\E d \in Chunk : Base[d] = c) => fp2ChunkDB[c].count # 0
          /\ fp2ChunkDB[c].deltaCount > 0 => Base[c] \in DOMAIN fp2ChunkDB
          /\ c \in DOMAIN lastByte
    /\ \A c \in DOMAIN deltaChunkDB : Base[c] \in DOMAIN fp2ChunkDB

(* The saveChunk in progress stores the bytes of its entry.                *)
MovingOK ==
    /\ phase \in {"rotated", "written"} =>
         LET c == saving.chunk
         IN  /\ \/ saving.data = Form(c, saving.deltaCount)
                \/ saving.deltaCount > 0 /\ c \in DOMAIN deltaChunkDB
                \/ c \in failed
             /\ saving.deltaCount > 0 => Base[c] \in DOMAIN fp2ChunkDB
             /\ (\E d \in Chunk : Base[d] = c) => saving.count # 0
    /\ phase = "rotated" => \A c \in DOMAIN fp2ChunkDB : In_(c) # last
    /\ phase = "written" => \A i \in 1 .. Len(saving.data) : body[used + i] = saving.data[i]
    /\ phase = "indexed" => /\ saving.chunk \in DOMAIN fp2ChunkDB
                            /\ fp2ChunkDB[saving.chunk] = SavingKey

(* rewriteContainer has still to move what is in a listed container.       *)
ListOK ==
    mode = "rewrite" =>
        /\ \A n \in job.list : n < last
        /\ job.step = "read" => lastByte[job.chunk] = NUL
        /\ \A c \in DOMAIN fp2ChunkDB : In_(c) \in job.list =>
              \/ c \in AtRisk
              \/ c \in job.todo
              \/ job.step = "read" /\ c = job.chunk
              \/ phase \in {"rotated", "written"} /\ c = saving.chunk

(* updateContainer writes over no chunk of the container being filled.     *)
UpdateOK ==
    mode = "update" =>
        /\ job.step \in {"sized", "indexed", "written"} => In_(job.chunk) # last
        /\ job.step \in {"indexed", "written"} =>
              job.chunk \in failed \/ fp2ChunkDB[job.chunk].deltaCount > 0
        /\ job.step = "written" /\ job.chunk \notin AtRisk =>
              \A i \in 1 .. Len(Delta[job.chunk]) :
                 files[In_(job.chunk)][fp2ChunkDB[job.chunk].offset + i] = Delta[job.chunk][i]

RecoverInv ==
    /\ PlacesOK /\ Apart /\ SizesOK /\ ConfigsOK /\ ModeOK
    /\ BasesOK /\ MovingOK /\ ListOK /\ UpdateOK

-----------------------------------------------------------------------------
(* A chunk or its delta is a byte string that fits into a container, and   *)
(* storing it again changes nothing.                                       *)
LEMMA FormFacts ==
    ASSUME NEW c \in Chunk, NEW n \in Nat, n > 0 => Base[c] # NoBase
    PROVE  /\ Form(c, n) \in Seq(Cell)
           /\ Len(Form(c, n)) \in Nat /\ Len(Form(c, n)) < MaxContainerSize
           /\ MaxContainerSize \in Nat
           /\ Sanitise(Form(c, n)) = Form(c, n)
           /\ n > 0 => Form(c, n) = Delta[c] /\ Len(Delta[c]) < Len(Stored(c))
           /\ n > 0 => Len(Delta[c]) <= Len(Form(c, n))
<1>1. MaxContainerSize \in Nat
  BY SizeAssumption
<1>2. CASE n = 0
  <2>1. Form(c, n) = Stored(c)
    BY <1>2 DEF Form
  <2>2. Content[c] \in Seq(Byte)
    BY ContentAssumption
  <2>3. Sanitise(Sanitise(Content[c])) = Sanitise(Content[c])
    <3>1. CASE NUL # X80
      BY <2>2, <3>1, BytesAssumption, SanitiseFacts
    <3>2. CASE NUL = X80
      <4>1. \A d \in Seq(Byte) : Sanitise(d) = d
        <5> TAKE d \in Seq(Byte)
        <5>1. Sanitise(d) = [i \in 1 .. Len(d) |-> d[i]]
          BY <3>2 DEF Sanitise
        <5> QED BY <5>1
      <4> QED BY <2>2, <4>1
    <3> QED BY <3>1, <3>2
  <2> QED BY <1>1, <1>2, <2>1, <2>3, StoredFacts DEF Stored
<1>3. CASE n > 0
  <2>1. Form(c, n) = Delta[c] /\ Base[c] # NoBase
    BY <1>3 DEF Form
  <2>2. Delta[c] \in Seq(Cell) /\ Len(Delta[c]) \in Nat /\ Len(Delta[c]) < MaxContainerSize
    <3>1. Len(Delta[c]) < MaxDeltaContainerSize /\ MaxDeltaContainerSize <= MaxContainerSize
          /\ Delta[c] \in Seq(Cell) /\ Len(Delta[c]) \in Nat /\ MaxDeltaContainerSize \in Nat
      BY <2>1, DeltaFacts
    <3> QED BY <1>1, <3>1
  <2>3. Sanitise(Delta[c]) = Delta[c] /\ Len(Delta[c]) < Len(Content[c])
    BY <2>1, DeltaAssumption
  <2> QED BY <1>1, <2>1, <2>2, <2>3, StoredFacts
<1> QED BY <1>2, <1>3

(* What an entry of the index is, in the words of the facts above.         *)
LEMMA EntryForm ==
    ASSUME EntriesOK, NEW c \in DOMAIN fp2ChunkDB
    PROVE  /\ EntryAt(c) /\ c \in Chunk /\ In_(c) \in Nat /\ In_(c) # NoName
           /\ fp2ChunkDB[c].offset \in Nat /\ fp2ChunkDB[c].deltaCount \in Nat
           /\ Form(c, fp2ChunkDB[c].deltaCount) \in Seq(Cell)
           /\ fp2ChunkDB[c].length = Len(Form(c, fp2ChunkDB[c].deltaCount))
           /\ fp2ChunkDB[c].length \in Nat
           /\ End(c) \in Nat /\ End(c) <= MaxContainerSize
           /\ \A i \in 1 .. fp2ChunkDB[c].length :
                 /\ fp2ChunkDB[c].offset + i \in Addr
                 /\ fp2ChunkDB[c].offset + i <= End(c)
<1>1. EntryAt(c)
  BY DEF EntriesOK
<1>2. /\ c \in Chunk /\ In_(c) \in Nat /\ fp2ChunkDB[c].offset \in Nat
      /\ fp2ChunkDB[c].deltaCount \in Nat
      /\ fp2ChunkDB[c].length = Len(Form(c, fp2ChunkDB[c].deltaCount))
      /\ fp2ChunkDB[c].deltaCount > 0 => Base[c] # NoBase
      /\ End(c) <= MaxContainerSize
  BY <1>1 DEF EntryAt, DeltaKey, In_
<1>3. /\ Form(c, fp2ChunkDB[c].deltaCount) \in Seq(Cell) /\ MaxContainerSize \in Nat
      /\ fp2ChunkDB[c].length \in Nat
  BY <1>2, FormFacts
<1>4. \A i \in 1 .. fp2ChunkDB[c].length :
         /\ fp2ChunkDB[c].offset + i \in Addr
         /\ fp2ChunkDB[c].offset + i <= End(c)
  BY <1>2, <1>3 DEF End, Addr
<1>5. End(c) \in Nat
  BY <1>2, <1>3 DEF End
<1> QED BY <1>1, <1>2, <1>3, <1>4, <1>5, SentinelAssumption

(* What is read for an entry, or not read, has the entry's length.         *)
LEMMA RetrievedFacts ==
    ASSUME StoreTypes, EntriesOK, NEW c \in DOMAIN fp2ChunkDB
    PROVE  /\ Retrieved(c) \in Seq(Cell)
           /\ Len(Retrieved(c)) = fp2ChunkDB[c].length
<1>1. fp2ChunkDB[c].length \in Nat /\ fp2ChunkDB[c].offset \in Nat
  BY EntryForm
<1>2. CASE CanRead(In_(c))
  <2>1. Source(In_(c)) \in Buffer
    <3>1. CASE In_(c) \in {readName, last}
      BY <3>1 DEF Source, StoreTypes
    <3>2. CASE In_(c) \notin {readName, last}
      <4>1. In_(c) \in DOMAIN files
        BY <1>2, <3>2 DEF CanRead
      <4>2. files[In_(c)] \in Seq(Cell) /\ Len(files[In_(c)]) \in Nat
        BY <4>1 DEF StoreTypes, IsStore
      <4> QED BY <3>2, <4>2, ReadFileFacts DEF Source, StoreTypes
    <3> QED BY <3>1, <3>2
  <2>2. Bytes(Source(In_(c)), fp2ChunkDB[c].offset, fp2ChunkDB[c].length)
          \in [1 .. fp2ChunkDB[c].length -> Cell]
    BY <2>1, EntryForm DEF Bytes, Buffer
  <2>3. Retrieved(c) \in [1 .. fp2ChunkDB[c].length -> Cell]
    BY <1>2, <2>2 DEF Retrieved, readContainer, In_
  <2> QED BY <1>1, <2>3
<1>3. CASE ~CanRead(In_(c))
  <2>1. Retrieved(c) \in [1 .. fp2ChunkDB[c].length -> Cell]
    BY <1>3 DEF Retrieved, In_, Cell
  <2> QED BY <1>1, <2>1
<1> QED BY <1>2, <1>3

(* Storing what has the length of an entry's form, or a new chunk.         *)
StoreOK == StoreTypes /\ EntriesOK /\ SaveTypes

(* The arguments of a saveChunk of data as long as the chunk's form.       *)
Arg(c) == IF query(fp2ChunkDB, c) THEN fp2ChunkDB[c].deltaCount ELSE 0
LEMMA ArgumentTypes ==
    ASSUME StoreOK, NEW c \in Chunk, NEW data \in Seq(Cell), Len(data) = Len(Form(c, Arg(c)))
    PROVE  /\ Arguments(c, data).chunk = c
           /\ Arguments(c, data).data = Sanitise(data)
           /\ Arguments(c, data).deltaCount = Arg(c)
           /\ Arguments(c, data).count
                 = IF query(fp2ChunkDB, c) THEN fp2ChunkDB[c].count ELSE 1 % Wrap
           /\ Arguments(c, data).count \in Count
           /\ Arg(c) \in Nat /\ (Arg(c) > 0 => Base[c] # NoBase)
           /\ Sanitise(data) \in Seq(Cell) /\ Len(Sanitise(data)) = Len(data)
           /\ Len(data) \in Nat /\ Len(data) < MaxContainerSize
<1>1. 1 % Wrap \in Count
  BY SizeAssumption DEF Count
<1>2. query(fp2ChunkDB, c) => /\ fp2ChunkDB[c].count \in Count /\ fp2ChunkDB[c].deltaCount \in Nat
                              /\ fp2ChunkDB[c].deltaCount > 0 => Base[c] # NoBase
  BY DEF StoreOK, EntriesOK, EntryAt, DeltaKey, query
<1>3. Arg(c) \in Nat /\ (Arg(c) > 0 => Base[c] # NoBase)
  BY <1>2 DEF Arg
<1>4. Sanitise(data) \in Seq(Cell) /\ Len(Sanitise(data)) = Len(data)
  BY BytesAssumption, SanitiseFacts DEF Cell
<1>5. Len(data) \in Nat /\ Len(data) < MaxContainerSize
  BY <1>3, FormFacts
<1> QED BY <1>1, <1>2, <1>3, <1>4, <1>5 DEF Arguments, Arg

(* saveTOFile leaves well-typed stores.                                    *)
LEMMA SaveFileTypes ==
    ASSUME StoreTypes, NEW n \in 0 .. used
    PROVE  /\ IsStore(insert(files, last, Bytes(body, 0, n)), Nat, Seq(Cell))
           /\ \A v : DOMAIN insert(containerDB, last, v) \subseteq Nat
<1>1. n \in Nat /\ n <= MaxContainerSize
  BY SizeAssumption DEF StoreTypes
<1>2. Bytes(body, 0, n) \in Seq(Cell)
  BY <1>1, ImageFacts DEF StoreTypes
<1>3. IsStore(insert(files, last, Bytes(body, 0, n)), Nat, Seq(Cell))
  BY <1>2, InsertFacts DEF StoreTypes
<1>4. \A v : DOMAIN insert(containerDB, last, v) \subseteq Nat
  BY DEF insert, StoreTypes
<1> QED BY <1>3, <1>4

LEMMA SaveBegins ==
    ASSUME StoreOK, NEW c \in Chunk, NEW data \in Seq(Cell), Len(data) = Len(Form(c, Arg(c))),
           WriteFits(c, data) \/ Rotate(c, data) \/ RotateUnopened(c, data)
    PROVE  StoreOK'
<1> DEFINE args == Arguments(c, data)
<1>1. /\ args.chunk = c /\ args.data = Sanitise(data) /\ args.deltaCount = Arg(c)
      /\ args.count \in Count /\ Arg(c) \in Nat /\ (Arg(c) > 0 => Base[c] # NoBase)
      /\ Sanitise(data) \in Seq(Cell) /\ Len(Sanitise(data)) = Len(data)
      /\ Len(data) \in Nat /\ Len(data) < MaxContainerSize
  BY ArgumentTypes
<1>2. fp2ChunkDB' = fp2ChunkDB /\ saving' = args /\ config' = config /\ used' = used
      /\ readName' = readName /\ readBody' = readBody
  BY DEF WriteFits, Rotate, RotateUnopened, diskVars, cacheVars
<1>3. EntriesOK'
  BY <1>2 DEF StoreOK, EntriesOK, EntryAt, In_, End
<1>4. used \in Nat /\ MaxContainerSize \in Nat /\ last + 1 \in Nat
  BY SizeAssumption DEF StoreOK, StoreTypes
<1>5. CASE WriteFits(c, data)
  <2>1. /\ UNCHANGED <<files, containerDB, last>> /\ phase' = "written"
        /\ body' = memcpy(body, used, Sanitise(data)) /\ Len(data) + used < MaxContainerSize
    BY <1>5 DEF WriteFits, diskVars, Fits
  <2>2. used + Len(data) <= MaxContainerSize
    BY <1>1, <1>4, <2>1
  <2>3. body' \in Buffer
    BY <1>1, <1>4, <2>1, <2>2, MemcpyFacts DEF StoreOK, StoreTypes
  <2>4. StoreTypes'
    BY <1>2, <2>1, <2>3 DEF StoreOK, StoreTypes
  <2>5. SaveTypes'
    BY <1>1, <1>2, <2>1, <2>2 DEF SaveTypes, Saving
  <2> QED BY <1>3, <2>4, <2>5 DEF StoreOK
<1>6. CASE Rotate(c, data) \/ RotateUnopened(c, data)
  <2>1. used \in 0 .. used
    BY <1>4
  <2>2. IsStore(files', Nat, Seq(Cell)) /\ DOMAIN containerDB' \subseteq Nat
    BY <1>6, <2>1, SaveFileTypes DEF Rotate, RotateUnopened, saveTOFile, diskVars, StoreOK, StoreTypes
  <2>3. last' = last + 1 /\ body' = body /\ phase' = "rotated"
    BY <1>6 DEF Rotate, RotateUnopened
  <2>4. StoreTypes'
    BY <1>2, <1>4, <2>2, <2>3 DEF StoreOK, StoreTypes
  <2>5. SaveTypes'
    BY <1>1, <1>2, <2>3 DEF SaveTypes, Saving
  <2> QED BY <1>3, <2>4, <2>5 DEF StoreOK
<1> QED BY <1>5, <1>6

(* The object is gone; the index is as it was, or has lost entries.        *)
LEMMA GoneTypes ==
    ASSUME StoreOK, Gone, IsStore(files', Nat, Seq(Cell)), DOMAIN containerDB' \subseteq Nat,
           config' = config,
           DOMAIN fp2ChunkDB' \subseteq DOMAIN fp2ChunkDB,
           \A c \in DOMAIN fp2ChunkDB' : fp2ChunkDB'[c] = fp2ChunkDB[c]
    PROVE  StoreOK'
<1>1. StoreTypes'
  BY JunkBodyType, SizeAssumption DEF Gone, StoreOK, StoreTypes
<1>2. EntriesOK'
  BY DEF StoreOK, EntriesOK, EntryAt, In_, End
<1>3. SaveTypes'
  BY DEF Gone, SaveTypes, Saving
<1> QED BY <1>1, <1>2, <1>3 DEF StoreOK

(* The steps of the store that begin, continue and end a session.          *)
LEMMA SessionTypes ==
    ASSUME StoreOK,
           \/ Open \/ WriteRotated \/ IndexChunk \/ IndexFails \/ AdvanceUsed
           \/ BeginClose \/ ConfigStep \/ SaveLastStep \/ Exit
           \/ \E c \in Chunk : RestoreChunk(c)
    PROVE  StoreOK'
<1>0. used \in Nat /\ MaxContainerSize \in Nat /\ used <= MaxContainerSize /\ used \in 0 .. used
  BY SizeAssumption DEF StoreOK, StoreTypes
<1>1. CASE Open
  <2>1. UNCHANGED <<config, files, containerDB, fp2ChunkDB, readName, readBody>> /\ phase' = "ready"
    BY <1>1 DEF Open, diskVars, cacheVars
  <2>2. config # NoConfig /\ config.last \in DOMAIN files =>
           ReadFile(body, files[config.last], config.used) \in Buffer
    BY SizeAssumption, ReadFileFacts DEF StoreOK, StoreTypes, IsStore
  <2>3. StoreTypes'
    <3>1. CASE config = NoConfig
      BY <1>1, <2>1, <3>1 DEF Open, StoreOK, StoreTypes
    <3>2. CASE config # NoConfig
      <4>1. /\ last' = config.last /\ used' = config.used
            /\ body' = IF config.last \in DOMAIN files
                       THEN ReadFile(body, files[config.last], config.used) ELSE body
        BY <1>1, <3>2 DEF Open
      <4>2. body' \in Buffer
        BY <2>2, <3>2, <4>1 DEF StoreOK, StoreTypes
      <4> QED BY <2>1, <3>2, <4>1, <4>2 DEF StoreOK, StoreTypes
    <3> QED BY <3>1, <3>2
  <2>4. EntriesOK'
    BY <2>1 DEF StoreOK, EntriesOK, EntryAt, In_, End
  <2>5. SaveTypes'
    BY <2>1 DEF SaveTypes, Saving
  <2> QED BY <2>3, <2>4, <2>5 DEF StoreOK
<1>2. CASE WriteRotated
  <2>1. /\ UNCHANGED <<config, files, containerDB, fp2ChunkDB, last, readName, readBody, saving>>
        /\ phase = "rotated" /\ phase' = "written" /\ used' = 0
        /\ body' = memcpy(body, 0, saving.data)
    BY <1>2 DEF WriteRotated, diskVars, cacheVars
  <2>2. /\ saving.chunk \in Chunk /\ saving.data \in Seq(Cell)
        /\ saving.count \in Count /\ saving.deltaCount \in Nat
        /\ saving.deltaCount > 0 => Base[saving.chunk] # NoBase
        /\ Len(saving.data) = Len(Form(saving.chunk, saving.deltaCount))
    BY <2>1 DEF StoreOK, SaveTypes, Saving
  <2>3. Len(saving.data) \in Nat /\ 0 + Len(saving.data) <= MaxContainerSize
    BY <1>0, <2>2, FormFacts
  <2>4. body' \in Buffer
    BY <2>1, <2>2, <2>3, MemcpyFacts DEF StoreOK, StoreTypes
  <2>5. StoreTypes'
    BY <1>0, <2>1, <2>4 DEF StoreOK, StoreTypes
  <2>6. EntriesOK'
    BY <2>1 DEF StoreOK, EntriesOK, EntryAt, In_, End
  <2>7. SaveTypes'
    BY <2>1, <2>2, <2>3 DEF SaveTypes
  <2> QED BY <2>5, <2>6, <2>7 DEF StoreOK
<1>3. CASE IndexChunk
  <2>1. /\ UNCHANGED <<config, files, containerDB, last, used, body, readName, readBody, saving>>
        /\ phase = "written" /\ phase' = "indexed"
    BY <1>3 DEF IndexChunk, cacheVars
  <2>2. /\ saving.chunk \in Chunk /\ saving.data \in Seq(Cell)
        /\ saving.count \in Count /\ saving.deltaCount \in Nat
        /\ saving.deltaCount > 0 => Base[saving.chunk] # NoBase
        /\ Len(saving.data) = Len(Form(saving.chunk, saving.deltaCount))
        /\ used + Len(saving.data) <= MaxContainerSize
    BY <2>1 DEF StoreOK, SaveTypes, Saving
  <2>3. EntryAt(saving.chunk)'
    <3>1. fp2ChunkDB'[saving.chunk] = SavingKey
      BY <1>3, IndexChunkDB
    <3>2. last \in Nat
      BY DEF StoreOK, StoreTypes
    <3>3. Len(saving.data) \in Nat /\ saving.count \in Nat
      BY <2>2, SizeAssumption DEF Count
    <3> QED BY <1>0, <2>1, <2>2, <3>1, <3>2, <3>3 DEF EntryAt, DeltaKey, End, SavingKey
  <2>4. EntriesOK'
    <3> SUFFICES ASSUME NEW d \in DOMAIN fp2ChunkDB' PROVE EntryAt(d)'
      BY DEF EntriesOK
    <3>1. CASE d = saving.chunk
      BY <2>1, <2>3, <3>1
    <3>2. CASE d # saving.chunk
      BY <1>3, <3>2, IndexChunkDB DEF StoreOK, EntriesOK, EntryAt, In_, End
    <3> QED BY <3>1, <3>2
  <2>5. StoreTypes'
    BY <2>1 DEF StoreOK, StoreTypes
  <2>6. SaveTypes'
    BY <2>1, <2>2 DEF SaveTypes
  <2> QED BY <2>4, <2>5, <2>6 DEF StoreOK
<1>4. CASE AdvanceUsed
  <2>1. /\ UNCHANGED <<config, files, containerDB, fp2ChunkDB, last, body, readName, readBody>>
        /\ phase = "indexed" /\ phase' = "ready" /\ used' = used + Len(saving.data)
    BY <1>4 DEF AdvanceUsed, diskVars, cacheVars
  <2>2. saving.data \in Seq(Cell) /\ used + Len(saving.data) <= MaxContainerSize
    BY <2>1 DEF StoreOK, SaveTypes, Saving
  <2>3. used + Len(saving.data) \in 0 .. MaxContainerSize
    BY <1>0, <2>2
  <2>4. StoreTypes'
    BY <2>1, <2>3 DEF StoreOK, StoreTypes
  <2>5. EntriesOK'
    BY <2>1 DEF StoreOK, EntriesOK, EntryAt, In_, End
  <2>6. SaveTypes'
    BY <2>1 DEF SaveTypes, Saving
  <2> QED BY <2>4, <2>5, <2>6 DEF StoreOK
<1>5. CASE BeginClose \/ ConfigStep \/ IndexFails
  <2>1. /\ UNCHANGED <<files, containerDB, fp2ChunkDB, last, used, body, readName, readBody>>
        /\ phase' \in {"ready", "closing", "configured"}
        /\ config' \in {config, [last |-> last, used |-> used]}
    BY <1>5 DEF BeginClose, ConfigStep, WriteConfig, WriteConfigUnopened, IndexFails, diskVars,
                cacheVars
  <2>2. StoreTypes'
    BY <2>1 DEF StoreOK, StoreTypes
  <2>3. EntriesOK'
    BY <2>1 DEF StoreOK, EntriesOK, EntryAt, In_, End
  <2>4. SaveTypes'
    BY <2>1 DEF SaveTypes, Saving
  <2> QED BY <2>2, <2>3, <2>4 DEF StoreOK
<1>6. CASE SaveLastStep
  <2>1. /\ Gone /\ config' = config /\ fp2ChunkDB' = fp2ChunkDB
        /\ IsStore(files', Nat, Seq(Cell)) /\ DOMAIN containerDB' \subseteq Nat
    BY <1>0, <1>6, SaveFileTypes
    DEF SaveLastStep, SaveLast, SaveLastUnopened, saveTOFile, diskVars, StoreOK, StoreTypes
  <2> QED BY <2>1, GoneTypes
<1>7. CASE Exit
  BY <1>7, GoneTypes DEF Exit, diskVars, StoreOK, StoreTypes
<1>8. ASSUME NEW c \in Chunk, RestoreChunk(c) PROVE StoreOK'
  <2>1. /\ UNCHANGED <<config, files, containerDB, fp2ChunkDB, last, used, body, saving, phase>>
        /\ phase = "ready" /\ LoadCache(In_(c)) /\ c \in DOMAIN fp2ChunkDB
    BY <1>8 DEF RestoreChunk, diskVars, query, In_
  <2>2. In_(c) \in Nat
    BY <2>1, EntryForm DEF StoreOK
  <2>3. readName' \in Nat \cup {NoName} /\ readBody' \in Buffer
    <3>1. CASE In_(c) \in {readName, last} \/ In_(c) \notin DOMAIN files
      BY <2>1, <3>1 DEF LoadCache, cacheVars, StoreOK, StoreTypes
    <3>2. CASE ~(In_(c) \in {readName, last} \/ In_(c) \notin DOMAIN files)
      <4>1. /\ readName' = In_(c) 
            /\ readBody' = ReadFile(readBody, files[In_(c)], Len(files[In_(c)]))
        BY <2>1, <3>2 DEF LoadCache, Source
      <4>2. files[In_(c)] \in Seq(Cell) /\ Len(files[In_(c)]) \in Nat
        BY <3>2 DEF StoreOK, StoreTypes, IsStore
      <4> QED BY <2>2, <4>1, <4>2, ReadFileFacts DEF StoreOK, StoreTypes
    <3> QED BY <3>1, <3>2
  <2>4. StoreTypes'
    BY <2>1, <2>3 DEF StoreOK, StoreTypes
  <2>5. EntriesOK'
    BY <2>1 DEF StoreOK, EntriesOK, EntryAt, In_, End
  <2>6. SaveTypes'
    BY <2>1 DEF SaveTypes, Saving
  <2> QED BY <2>4, <2>5, <2>6 DEF StoreOK
<1> QED BY <1>1, <1>2, <1>3, <1>4, <1>5, <1>6, <1>7, <1>8

(* Writing over part of a file changes that part, and may make it longer.  *)
LEMMA OverwriteFacts ==
    ASSUME NEW file \in Seq(Cell), NEW off \in Nat, NEW data \in Seq(Cell)
    PROVE  /\ Overwrite(file, off, data) \in Seq(Cell)
           /\ Len(Overwrite(file, off, data)) >= Len(file)
           /\ Len(Overwrite(file, off, data)) >= off + Len(data)
           /\ \A i \in 1 .. Len(data) : Overwrite(file, off, data)[off + i] = data[i]
           /\ \A a \in 1 .. Len(file) : a <= off \/ a > off + Len(data) =>
                 Overwrite(file, off, data)[a] = file[a]
<1> DEFINE n == IF off + Len(data) > Len(file) THEN off + Len(data) ELSE Len(file)
           new == Overwrite(file, off, data)
<1>1. n \in Nat /\ n >= Len(file) /\ n >= off + Len(data) /\ Len(data) \in Nat /\ Len(file) \in Nat
  OBVIOUS
<1>2. new = [a \in 1 .. n |-> IF a - off \in 1 .. Len(data) THEN data[a - off]
                              ELSE IF a <= Len(file) THEN file[a] ELSE NUL]
  BY DEF Overwrite
<1>3. new \in [1 .. n -> Cell]
  <2>1. \A a \in 1 .. n : /\ a - off \in 1 .. Len(data) => data[a - off] \in Cell
                          /\ a <= Len(file) => file[a] \in Cell
    BY <1>1
  <2> QED BY <1>2, <2>1, BytesAssumption DEF Cell
<1>4. new \in Seq(Cell) /\ Len(new) = n
  BY <1>1, <1>3
<1>5. ASSUME NEW i \in 1 .. Len(data) PROVE new[off + i] = data[i]
  <2>1. off + i \in 1 .. n /\ (off + i) - off = i
    BY <1>1
  <2> QED BY <1>2, <2>1
<1>6. ASSUME NEW a \in 1 .. Len(file), a <= off \/ a > off + Len(data) PROVE new[a] = file[a]
  <2>1. a \in 1 .. n /\ a - off \notin 1 .. Len(data) /\ a <= Len(file)
    BY <1>1, <1>6
  <2> QED BY <1>2, <2>1
<1> QED BY <1>1, <1>4, <1>5, <1>6

(* The delta that is read is a byte string of the recorded length.         *)
LEMMA DeltaReadType ==
    ASSUME TypesInv, NEW c \in DOMAIN deltaChunkDB
    PROVE  /\ readDeltaContainer(deltaChunkDB[c]) \in Seq(Cell)
           /\ Len(readDeltaContainer(deltaChunkDB[c])) = Len(Delta[c])
<1> DEFINE key == deltaChunkDB[c]
<1>1. key \in DeltaKey /\ key.length \in Nat /\ key.offset \in Nat /\ key.length = Len(Delta[c])
  BY DEF TypesInv, DeltaTypeOK, IsStore, LogTypes, DeltaKey
<1>2. readDeltaContainer(key) \in [1 .. key.length -> Cell]
  <2>1. ASSUME NEW i \in 1 .. key.length, key.containerName \in DOMAIN deltaFiles,
               key.offset + i <= Len(deltaFiles[key.containerName])
        PROVE  deltaFiles[key.containerName][key.offset + i] \in Cell
    <3>1. deltaFiles[key.containerName] \in Seq(Cell)
      BY <2>1 DEF TypesInv, DeltaTypeOK, IsStore
    <3>2. key.offset + i \in 1 .. Len(deltaFiles[key.containerName])
      BY <1>1, <2>1, <3>1
    <3> QED BY <3>1, <3>2
  <2> QED BY <2>1, BytesAssumption DEF readDeltaContainer, Cell
<1> QED BY <1>1, <1>2

(* Changing the counts and shortening an entry leave an entry.             *)
LEMMA UpdateIndexTypes ==
    ASSUME TypesInv, UpdateIndex
    PROVE  /\ StoreOK'
           /\ DOMAIN fp2ChunkDB' = DOMAIN fp2ChunkDB
           /\ \A d \in DOMAIN fp2ChunkDB : d # job.chunk => fp2ChunkDB'[d] = fp2ChunkDB[d]
           /\ fp2ChunkDB'[job.chunk].containerName = In_(job.chunk)
           /\ fp2ChunkDB'[job.chunk].offset = fp2ChunkDB[job.chunk].offset
           /\ fp2ChunkDB'[job.chunk].count = fp2ChunkDB[job.chunk].count
           /\ fp2ChunkDB'[job.chunk].length = Len(Delta[job.chunk])
           /\ fp2ChunkDB'[job.chunk].length <= fp2ChunkDB[job.chunk].length
           /\ fp2ChunkDB'[job.chunk].deltaCount > 0
           /\ fp2ChunkDB'[job.chunk].offset + fp2ChunkDB'[job.chunk].length <= End(job.chunk)
<1> DEFINE c == job.chunk
           key == deltaChunkDB[c]
<1>1. c \in DOMAIN deltaChunkDB /\ c \in DOMAIN fp2ChunkDB
  BY DEF UpdateIndex, Updating, TypesInv, HandOK
<1>2. /\ Base[c] # NoBase /\ c \in Chunk
      /\ key.length = Len(Delta[c]) /\ key.deltaCount \in Nat /\ key.deltaCount > 0
  BY <1>1 DEF TypesInv, DeltaTypeOK, LogTypes, IsStore, DeltaKey
<1>3. PICK rec : /\ rec = fp2ChunkDB[c]
  OBVIOUS
<1>4. /\ rec.offset \in Nat /\ rec.deltaCount \in Nat /\ rec.count \in Count
      /\ rec.length = Len(Form(c, rec.deltaCount))
      /\ rec.offset + rec.length <= MaxContainerSize /\ rec.containerName \in Nat
  BY <1>1, <1>3 DEF TypesInv, EntriesOK, EntryAt, DeltaKey, End
<1>5. /\ Len(Delta[c]) <= rec.length /\ Len(Delta[c]) \in Nat /\ rec.length \in Nat
      /\ MaxContainerSize \in Nat
  <2>1. Len(Delta[c]) < Len(Stored(c)) /\ Len(Delta[c]) \in Nat /\ MaxContainerSize \in Nat
    BY <1>2, FormFacts DEF Form
  <2>2. Len(Stored(c)) \in Nat
    BY <1>2, StoredFacts
  <2> QED BY <1>4, <2>1, <2>2 DEF Form
<1>6. /\ DOMAIN fp2ChunkDB' = DOMAIN fp2ChunkDB
      /\ \A d \in DOMAIN fp2ChunkDB : d # c => fp2ChunkDB'[d] = fp2ChunkDB[d]
      /\ fp2ChunkDB'[c] = [rec EXCEPT !.length = key.length, !.deltaCount = key.deltaCount]
  BY <1>1, <1>3 DEF UpdateIndex, insert
<1>7. /\ fp2ChunkDB'[c].containerName = rec.containerName /\ fp2ChunkDB'[c].offset = rec.offset
      /\ fp2ChunkDB'[c].count = rec.count /\ fp2ChunkDB'[c].length = Len(Delta[c])
      /\ fp2ChunkDB'[c].deltaCount = key.deltaCount
  <2>1. rec \in DeltaKey
    BY <1>1, <1>3 DEF TypesInv, EntriesOK, EntryAt
  <2> QED BY <1>2, <1>6, <2>1 DEF DeltaKey
<1>8. fp2ChunkDB'[c] \in DeltaKey
  BY <1>1, <1>2, <1>3, <1>5, <1>6 DEF TypesInv, EntriesOK, EntryAt, DeltaKey
<1>9. fp2ChunkDB'[c].offset + fp2ChunkDB'[c].length <= End(c)
      /\ fp2ChunkDB'[c].offset + fp2ChunkDB'[c].length <= MaxContainerSize
  BY <1>3, <1>4, <1>5, <1>7 DEF End
<1>10. UNCHANGED <<config, files, containerDB, objectVars>> /\ job'.chunk = c
  BY DEF UpdateIndex, TypesInv, DeltaTypeOK
<1>11. EntriesOK'
  <2> SUFFICES ASSUME NEW d \in DOMAIN fp2ChunkDB' PROVE EntryAt(d)'
    BY DEF EntriesOK
  <2>1. CASE d = c
    <3>1. fp2ChunkDB'[c].length = Len(Form(c, fp2ChunkDB'[c].deltaCount))
      BY <1>2, <1>7 DEF Form
    <3> QED BY <1>2, <1>4, <1>7, <1>8, <1>9, <2>1, <3>1 DEF EntryAt, End
  <2>2. CASE d # c
    BY <1>6, <2>2 DEF TypesInv, EntriesOK, EntryAt, End
  <2> QED BY <2>1, <2>2
<1>12. StoreTypes' /\ SaveTypes'
  BY <1>10 DEF objectVars, cacheVars, TypesInv, StoreTypes, SaveTypes, Saving
<1> QED BY <1>2, <1>3, <1>5, <1>6, <1>7, <1>9, <1>11, <1>12 DEF StoreOK, In_

(* The index, the containers and the object keep their types.              *)
LEMMA StoreOKStep ==
    ASSUME TypesInv, [MNext]_mvars
    PROVE  StoreOK'
<1>0. StoreOK
  BY DEF StoreOK, TypesInv
<1> DEFINE quiet == UNCHANGED vars
<1>1. CASE quiet
  BY <1>0, <1>1 DEF vars, diskVars, objectVars, cacheVars, StoreOK, StoreTypes, EntriesOK,
     EntryAt, SaveTypes, Saving, End
<1>2. CASE Gone /\ UNCHANGED diskVars
  BY <1>0, <1>2, GoneTypes DEF diskVars, StoreOK, StoreTypes
<1>3. CASE \E m \in Mode \ {"none"} : Start(m)
  BY <1>0, <1>3, SessionTypes DEF Start
<1>4. CASE BackupStep
  <2>1. PICK c \in Chunk : SaveNew(c)
    BY <1>4 DEF BackupStep
  <2>2. Content[c] \in Seq(Cell) /\ Len(Content[c]) = Len(Form(c, Arg(c)))
    <3>1. Content[c] \in Seq(Byte)
      BY ContentAssumption
    <3>2. Arg(c) = 0
      BY <2>1 DEF SaveNew, Arg
    <3> QED BY <3>1, <3>2, StoredFacts DEF Form, Cell
  <2>3. CASE WriteFits(c, Content[c]) \/ Rotate(c, Content[c]) \/ RotateUnopened(c, Content[c])
    BY <1>0, <2>2, <2>3, SaveBegins
  <2>4. CASE TornRotate(Content[c])
    <3>1. PICK n \in 0 .. used : Torn(n)
      BY <2>4 DEF TornRotate
    <3>2. /\ Gone /\ config' = config /\ fp2ChunkDB' = fp2ChunkDB
          /\ IsStore(files', Nat, Seq(Cell)) /\ DOMAIN containerDB' \subseteq Nat
      BY <1>0, <3>1, SaveFileTypes DEF Torn, StoreOK, StoreTypes
    <3> QED BY <1>0, <3>2, GoneTypes
  <2>5. CASE Overrun(c, Content[c])
    BY <1>2, <2>5 DEF Overrun
  <2> QED BY <2>1, <2>3, <2>4, <2>5 DEF SaveNew, BeginSave
<1>5. CASE SaveChunkStep \/ SaveChunkFails \/ CloseStep \/ UpdateEnd
  BY <1>0, <1>5, SessionTypes DEF SaveChunkStep, SaveChunkFails, CloseStep, UpdateEnd
<1>6. CASE (\E c \in Chunk : saveDeltaChunk(c) \/ UpdateSkip(c) \/ RewriteSkip(c))
           \/ CloseCompressor \/ UpdateBegin \/ UpdateIndexFails \/ UpdateForget
  BY <1>1, <1>6 DEF saveDeltaChunk, UpdateSkip, RewriteSkip, CloseCompressor, UpdateBegin,
     UpdateIndexFails, UpdateForget
<1>7. CASE (\E c \in Chunk : UpdateThrows(c)) \/ Die
  BY <1>2, <1>7 DEF UpdateThrows, Die
<1>8. CASE (\E c \in Chunk : UpdateSize(c)) \/ ListContainers \/ UpdateFile \/ RemoveContainers
  <2>1. UNCHANGED <<config, fp2ChunkDB, objectVars>>
    BY <1>8 DEF UpdateSize, ListContainers, UpdateFile, RemoveContainers
  <2>2. DOMAIN containerDB' \subseteq Nat
    <3>1. ASSUME NEW c \in Chunk, UpdateSize(c) PROVE DOMAIN containerDB' \subseteq Nat
      <4>1. /\ fp2ChunkDB[c].containerName \in DOMAIN containerDB
            /\ DOMAIN containerDB' = DOMAIN containerDB \cup {fp2ChunkDB[c].containerName}
        BY <3>1 DEF UpdateSize, SizeKnown, insert
      <4> QED BY <4>1 DEF TypesInv, StoreTypes
    <3>2. CASE ListContainers
      BY <3>2 DEF ListContainers, Without, TypesInv, StoreTypes
    <3>3. CASE UpdateFile \/ RemoveContainers
      BY <3>3 DEF UpdateFile, RemoveContainers, TypesInv, StoreTypes
    <3> QED BY <1>8, <3>1, <3>2, <3>3
  <2>3. IsStore(files', Nat, Seq(Cell))
    <3>1. CASE (\E c \in Chunk : UpdateSize(c)) \/ ListContainers
      BY <3>1 DEF UpdateSize, ListContainers, TypesInv, StoreTypes, IsStore
    <3>2. CASE RemoveContainers
      BY <3>2 DEF RemoveContainers, Without, TypesInv, StoreTypes, IsStore
    <3>3. CASE UpdateFile
      <4> DEFINE c == job.chunk
                 name == fp2ChunkDB[c].containerName
                 new == Overwrite(files[name], fp2ChunkDB[c].offset,
                                  readDeltaContainer(deltaChunkDB[c]))
      <4>1. c \in DOMAIN deltaChunkDB /\ c \in DOMAIN fp2ChunkDB
        BY <3>3 DEF UpdateFile, Updating, TypesInv, HandOK
      <4>2. CASE name \in DOMAIN files
        <5>1. files' = insert(files, name, new)
          BY <3>3, <4>2 DEF UpdateFile
        <5>2. files[name] \in Seq(Cell) /\ fp2ChunkDB[c].offset \in Nat /\ name \in Nat
          BY <4>1, <4>2, EntryForm DEF TypesInv, StoreTypes, IsStore
        <5>3. new \in Seq(Cell)
          BY <4>1, <5>2, DeltaReadType, OverwriteFacts
        <5>4. IsStore(files, Nat, Seq(Cell))
          BY DEF TypesInv, StoreTypes
        <5> HIDE DEF new, name
        <5> QED BY <5>1, <5>2, <5>3, <5>4, InsertFacts
      <4>3. CASE name \notin DOMAIN files
        BY <3>3, <4>3 DEF UpdateFile, TypesInv, StoreTypes
      <4> QED BY <4>2, <4>3
    <3> QED BY <1>8, <3>1, <3>2, <3>3
  <2> QED BY <1>0, <2>1, <2>2, <2>3
      DEF objectVars, cacheVars, StoreOK, StoreTypes, EntriesOK, EntryAt, SaveTypes, Saving, End
<1>9. CASE UpdateIndex
  BY <1>9, UpdateIndexTypes
<1>10. ASSUME NEW c \in Chunk, RewriteRead(c) PROVE StoreOK'
  BY <1>0, <1>10, SessionTypes DEF RewriteRead
<1>11. CASE RewriteSave
  <2> DEFINE c == job.chunk
  <2>1. c \in DOMAIN fp2ChunkDB /\ c \in Chunk
    BY <1>0, <1>11, EntryForm DEF RewriteSave, Rewriting, TypesInv, HandOK
  <2>2. Retrieved(c) \in Seq(Cell) /\ Len(Retrieved(c)) = fp2ChunkDB[c].length
    BY <2>1, RetrievedFacts DEF TypesInv
  <2>3. fp2ChunkDB[c].length = Len(Form(c, Arg(c)))
    BY <2>1, EntryForm DEF TypesInv, Arg, query
  <2>4. WriteFits(c, Retrieved(c)) \/ Rotate(c, Retrieved(c)) \/ RotateUnopened(c, Retrieved(c))
    BY <1>11 DEF RewriteSave, BeginSave
  <2> HIDE DEF c
  <2> QED BY <1>0, <2>1, <2>2, <2>3, <2>4, SaveBegins
<1>12. ASSUME NEW c \in Chunk, DeleteBeforeGC(c) PROVE StoreOK'
  <2>1. /\ c \in DOMAIN fp2ChunkDB
        /\ fp2ChunkDB' = insert(fp2ChunkDB, c, [fp2ChunkDB[c] EXCEPT !.count = (fp2ChunkDB[c].count - 1) % Wrap])
        /\ UNCHANGED <<config, files, containerDB, objectVars>>
    BY <1>12 DEF DeleteBeforeGC, deleteChunk, SetCount, query
  <2>2. fp2ChunkDB[c] \in DeltaKey /\ EntryAt(c)
    BY <2>1, EntryForm DEF EntryAt, TypesInv
  <2>3. (fp2ChunkDB[c].count - 1) % Wrap \in Count /\ (fp2ChunkDB[c].count - 1) % Wrap \in Nat
    BY <2>2, SizeAssumption DEF Count, DeltaKey
  <2>4. PICK n : n = (fp2ChunkDB[c].count - 1) % Wrap
    OBVIOUS
  <2>5. ASSUME NEW d \in DOMAIN fp2ChunkDB' PROVE EntryAt(d)'
    <3>1. CASE d = c
      BY <2>1, <2>2, <2>3, <2>4, <3>1 DEF insert, EntryAt, DeltaKey, End
    <3>2. CASE d # c
      BY <2>1, <3>2 DEF insert, EntryAt, EntriesOK, TypesInv, End
    <3> QED BY <3>1, <3>2
  <2>6. EntriesOK'
    BY <2>5 DEF EntriesOK
  <2> QED BY <1>0, <2>1, <2>6
      DEF objectVars, cacheVars, StoreOK, StoreTypes, SaveTypes, Saving
<1>13. CASE GC
  BY <1>0, <1>13, GoneTypes DEF GC, Without, StoreOK, StoreTypes
<1>14. CASE UNCHANGED mvars
  BY <1>1, <1>14 DEF mvars
<1> QED BY <1>3, <1>4, <1>5, <1>6, <1>7, <1>8, <1>9, <1>10, <1>11, <1>12, <1>13, <1>14 DEF MNext

JobType ==
    [step : {"begin", "closed", "next", "sized", "indexed", "written",
             "read", "save", "removed"},
     chunk : Chunk \cup {NoChunk}, todo : SUBSET Chunk, count : Nat, list : SUBSET Nat]
LogOK == DeltaTypeOK /\ LogTypes /\ HandOK

(* The facts about deltas of the theorem above follow from the types.      *)
LEMMA TypesGiveLog == DeltaTypeOK /\ LogTypes => DeltaLogTypes
BY DEF DeltaTypeOK, LogTypes, DeltaLogTypes, IsStore, DeltaKey

(* A step that leaves the deltas alone.                                    *)
LEMMA LogFrame ==
    ASSUME TypesInv, UNCHANGED <<deltaDisk, compressor>>, mode' \in Mode,
           job' \in JobType, HandOK'
    PROVE  LogOK'
BY DEF TypesInv, DeltaTypeOK, LogTypes, LogOK, JobType, deltaDisk, IsStore

(* A process ends.                                                         *)
LEMMA EndTypes ==
    ASSUME TypesInv, Ends
    PROVE  LogOK'
<1>1. NoJob \in JobType
  BY LimitAssumption DEF NoJob, Job, JobType
<1>2. HandOK'
  BY DEF Ends, HandOK
<1> QED BY <1>1, <1>2, NoCompressorType
    DEF Ends, TypesInv, DeltaTypeOK, LogTypes, LogOK, JobType, deltaDisk, IsStore, Mode

(* What Manager and DeltaCompressor keep has its types.                    *)
LEMMA LogOKStep ==
    ASSUME TypesInv, [MNext]_mvars
    PROVE  LogOK'
<1>0. /\ job \in JobType /\ mode \in Mode /\ HandOK /\ DOMAIN fp2ChunkDB \subseteq Chunk
      /\ DOMAIN deltaChunkDB \subseteq Chunk /\ DeltaLogTypes
  BY TypesGiveLog DEF TypesInv, DeltaTypeOK, JobType, IsStore, EntriesOK, EntryAt
<1>1. CASE /\ UNCHANGED <<deltaDisk, mode, compressor, job>>
           /\ DOMAIN fp2ChunkDB \subseteq DOMAIN fp2ChunkDB'
  <2>1. HandOK'
    BY <1>0, <1>1 DEF HandOK, deltaDisk
  <2> QED BY <1>0, <1>1, <2>1, LogFrame
<1>2. ASSUME NEW m \in Mode \ {"none"}, Start(m) PROVE LogOK'
  <2>1. /\ mode' = m /\ job' = NoJob /\ job = NoJob /\ UNCHANGED deltaDisk
        /\ compressor' \in {LoadCompressor, NoCompressor}
    BY <1>0, <1>2 DEF Start, HandOK
  <2>2. compressor' \in [last : Nat, used : DeltaUsed, body : Buffer]
    BY <1>0, <2>1, LoadType, NoCompressorType
  <2>3. HandOK'
    BY <2>1 DEF HandOK, NoJob, Job
  <2> QED BY <1>0, <2>1, <2>2, <2>3
      DEF TypesInv, DeltaTypeOK, LogTypes, LogOK, JobType, deltaDisk, IsStore
<1>3. CASE BackupStep
  <2>1. UNCHANGED <<deltaDisk, mode, compressor, job, fp2ChunkDB>>
    BY <1>3 DEF BackupStep, Stays, SaveNew, BeginSave, WriteFits, Rotate, RotateUnopened,
       TornRotate, Torn, Overrun, diskVars
  <2> QED BY <1>1, <2>1
<1>4. CASE SaveChunkStep
  <2>1. CASE WriteRotated /\ Stays /\ UNCHANGED job
    BY <1>1, <2>1 DEF WriteRotated, Stays, diskVars
  <2>2. CASE IndexChunk /\ UNCHANGED <<deltaDisk, mode, compressor, job, processes>>
    BY <1>1, <2>2, IndexChunkDB
  <2>3. CASE /\ AdvanceUsed
             /\ job' = [job EXCEPT !.step = IF mode = "rewrite" THEN "next" ELSE @]
             /\ Stays
    <3>1. job' \in JobType /\ UNCHANGED <<deltaDisk, mode, compressor, fp2ChunkDB>>
      BY <1>0, <2>3 DEF JobType, Stays, AdvanceUsed, diskVars
    <3>2. HandOK'
      <4>1. CASE mode = "rewrite"
        BY <1>0, <2>3, <3>1, <4>1 DEF HandOK, JobType
      <4>2. CASE mode # "rewrite"
        <5>1. job' = job
          BY <1>0, <2>3, <4>2 DEF JobType
        <5> QED BY <1>0, <3>1, <4>2, <5>1 DEF HandOK, deltaDisk
      <4> QED BY <4>1, <4>2
    <3> QED BY <1>0, <3>1, <3>2, LogFrame
  <2> QED BY <1>4, <2>1, <2>2, <2>3 DEF SaveChunkStep
<1>5. CASE CloseStep
  <2>1. CASE (BeginClose \/ ConfigStep) /\ Stays /\ UNCHANGED job
    BY <1>1, <2>1 DEF BeginClose, ConfigStep, WriteConfig, WriteConfigUnopened, Stays, diskVars
  <2>2. CASE Ends
    BY <2>2, EndTypes
  <2> QED BY <1>5, <2>1, <2>2 DEF CloseStep
<1>6. ASSUME NEW d \in Chunk, saveDeltaChunk(d) PROVE LogOK'
  <2> DEFINE n == Len(Delta[d])
  <2>1. /\ mode = "compress" /\ Base[d] # NoBase /\ d \in DOMAIN fp2ChunkDB
        /\ UNCHANGED <<deltaConfig, mode, job>>
    BY <1>6 DEF saveDeltaChunk, query
  <2>2. PICK l, u : DeltaPlaced(d, l, u)
    BY <1>0, <1>6, DeltaIsPlaced
  <2>3. /\ Delta[d] \in Seq(Cell) /\ n \in Nat /\ MaxDeltaContainerSize \in Nat
        /\ MaxDeltaContainerSize <= MaxContainerSize /\ MaxContainerSize \in Nat
    BY <2>1, DeltaFacts
  <2>4. /\ l \in Nat /\ u \in Nat /\ u + n < MaxDeltaContainerSize
        /\ compressor' = [last |-> l, used |-> u + n, body |-> memcpy(compressor.body, u, Delta[d])]
        /\ deltaFiles' \in {deltaFiles, deltaSaveTOFile}
    BY <2>2 DEF DeltaPlaced
  <2>5. compressor.body \in Buffer
    BY DEF TypesInv, DeltaTypeOK
  <2>6. memcpy(compressor.body, u, Delta[d]) \in Buffer
    BY <2>3, <2>4, <2>5, MemcpyFacts
  <2>7. compressor' \in [last : Nat, used : DeltaUsed, body : Buffer]
    BY <2>3, <2>4, <2>6 DEF DeltaUsed
  <2>8. IsStore(deltaFiles', Nat, Seq(Cell))
    <3>1. IsStore(deltaFiles, Nat, Seq(Cell)) /\ IsStore(deltaSaveTOFile, Nat, Seq(Cell))
      BY <1>0, DeltaFileFacts DEF TypesInv, DeltaTypeOK
    <3> QED BY <2>4, <3>1
  <2> DEFINE key == [containerName |-> l, offset |-> u, length |-> n,
                     count |-> fp2ChunkDB[d].count,
                     deltaCount |-> fp2ChunkDB[d].deltaCount + 1]
  <2>9. key \in DeltaKey /\ key.length = n /\ key.deltaCount > 0
        /\ deltaChunkDB' = insert(deltaChunkDB, d, key)
    <3>1. fp2ChunkDB[d] \in DeltaKey
      BY <2>1 DEF TypesInv, EntriesOK, EntryAt
    <3> QED BY <2>2, <2>3, <2>4, <3>1 DEF DeltaKey, DeltaPlaced
  <2> HIDE DEF key
  <2>10. IsStore(deltaChunkDB', {c \in Chunk : Base[c] # NoBase}, DeltaKey)
    BY <2>1, <2>9, InsertFacts DEF TypesInv, DeltaTypeOK
  <2>11. LogTypes'
    BY <2>9 DEF insert, LogTypes, TypesInv
  <2>12. HandOK'
    BY <2>1 DEF HandOK
  <2> QED BY <1>0, <2>1, <2>7, <2>8, <2>10, <2>11, <2>12
      DEF TypesInv, DeltaTypeOK, LogOK, JobType
<1>7. CASE CloseCompressor
  <2>1. /\ mode = "compress" /\ UNCHANGED <<mode, deltaChunkDB, compressor>>
        /\ deltaConfig' = [last |-> compressor.last, used |-> compressor.used]
        /\ deltaFiles' = deltaSaveTOFile /\ job' \in JobType
    BY <1>0, <1>7 DEF CloseCompressor, JobType
  <2>2. deltaConfig' \in [last : Nat, used : DeltaUsed]
    BY <2>1 DEF TypesInv, DeltaTypeOK
  <2>3. HandOK'
    BY <2>1 DEF HandOK
  <2> QED BY <1>0, <2>1, <2>2, <2>3, DeltaFileFacts
      DEF TypesInv, DeltaTypeOK, LogTypes, LogOK, JobType
<1>8. CASE UpdateBegin \/ \E c \in Chunk : UpdateSkip(c)
  <2>1. /\ mode = "update" /\ UNCHANGED <<deltaDisk, mode, compressor, fp2ChunkDB>>
        /\ job.todo \subseteq DOMAIN deltaChunkDB
    BY <1>0, <1>8 DEF UpdateBegin, UpdateSkip, Updating, Stays, vars, diskVars, HandOK
  <2>2. job' \in JobType /\ job'.todo \subseteq DOMAIN deltaChunkDB /\ job'.step = "next"
    <3>1. CASE UpdateBegin
      BY <1>0, <3>1 DEF UpdateBegin, JobType
    <3>2. ASSUME NEW c \in Chunk, UpdateSkip(c)
          PROVE  /\ job' \in JobType /\ job'.todo \subseteq DOMAIN deltaChunkDB
                 /\ job'.step = "next"
      <4>1. /\ job' = [job EXCEPT !.todo = job.todo \ {c}, !.count = job.count + 1]
            /\ job.step = "next"
        BY <3>2 DEF UpdateSkip, Updating
      <4>2. job.todo \ {c} \in SUBSET Chunk /\ job.count + 1 \in Nat
        BY <1>0 DEF JobType
      <4> QED BY <1>0, <2>1, <4>1, <4>2 DEF JobType
    <3> QED BY <1>8, <3>1, <3>2
  <2>3. HandOK'
    BY <2>1, <2>2 DEF HandOK, deltaDisk
  <2> QED BY <1>0, <2>1, <2>2, <2>3, LogFrame
<1>9. ASSUME NEW c \in Chunk, UpdateSize(c) PROVE LogOK'
  <2>1. /\ mode = "update" /\ UNCHANGED <<deltaDisk, mode, compressor, fp2ChunkDB>>
        /\ job.todo \subseteq DOMAIN deltaChunkDB /\ c \in job.todo /\ c \in DOMAIN fp2ChunkDB
    BY <1>0, <1>9 DEF UpdateSize, Updating, Stays, HandOK, Postponed, query
  <2>2. /\ job' \in JobType /\ job'.todo = job.todo \ {c} /\ job'.step = "sized"
        /\ job'.chunk = c
    BY <1>0, <1>9 DEF UpdateSize, JobType
  <2>3. HandOK'
    BY <2>1, <2>2 DEF HandOK, deltaDisk
  <2> QED BY <1>0, <2>1, <2>2, <2>3, LogFrame
<1>10. CASE UpdateIndex \/ UpdateIndexFails \/ UpdateFile
  <2>1. /\ mode = "update" /\ UNCHANGED <<deltaDisk, mode, compressor>>
        /\ DOMAIN fp2ChunkDB' = DOMAIN fp2ChunkDB
    BY <1>10, UpdateIndexTypes
    DEF UpdateIndex, UpdateIndexFails, UpdateFile, Updating, Stays, vars, diskVars
  <2>2. /\ job.todo \subseteq DOMAIN deltaChunkDB
        /\ job.chunk \in (DOMAIN deltaChunkDB \cap DOMAIN fp2ChunkDB) \ job.todo
    BY <1>0, <1>10 DEF UpdateIndex, UpdateIndexFails, UpdateFile, Updating, HandOK
  <2>3. job' \in JobType /\ job'.todo = job.todo /\ job'.chunk = job.chunk
    BY <1>0, <1>10 DEF UpdateIndex, UpdateIndexFails, UpdateFile, JobType
  <2>4. HandOK'
    BY <2>1, <2>2, <2>3 DEF HandOK, deltaDisk
  <2> QED BY <1>0, <2>1, <2>3, <2>4, LogFrame
<1>11. CASE UpdateForget
  <2>1. /\ mode = "update" /\ UNCHANGED <<deltaConfig, deltaFiles, mode, compressor, fp2ChunkDB>>
        /\ DOMAIN deltaChunkDB' = DOMAIN deltaChunkDB \ {job.chunk}
        /\ deltaChunkDB' = [x \in DOMAIN deltaChunkDB \ {job.chunk} |-> deltaChunkDB[x]]
    BY <1>11 DEF UpdateForget, Updating, vars, diskVars, delete_
  <2>2. job.todo \subseteq DOMAIN deltaChunkDB /\ job.chunk \notin job.todo
    BY <1>0, <1>11 DEF UpdateForget, Updating, HandOK
  <2>3. job' \in JobType /\ job'.todo = job.todo /\ job'.step = "next"
    BY <1>0, <1>11 DEF UpdateForget, JobType
  <2>4. HandOK'
    BY <2>1, <2>2, <2>3 DEF HandOK
  <2>5. LogTypes'
    BY <2>1 DEF TypesInv, LogTypes
  <2>6. IsStore(deltaChunkDB', {c \in Chunk : Base[c] # NoBase}, DeltaKey)
    BY <2>1 DEF TypesInv, DeltaTypeOK, IsStore
  <2> QED BY <1>0, <2>1, <2>3, <2>4, <2>5, <2>6 DEF TypesInv, DeltaTypeOK, LogOK, JobType
<1>12. CASE UpdateEnd
  <2>1. /\ mode' = "none" /\ job' = NoJob /\ UNCHANGED <<deltaConfig, deltaChunkDB, compressor>>
        /\ deltaFiles' \in {EmptyStore, deltaFiles}
    BY <1>12 DEF UpdateEnd
  <2>2. IsStore(EmptyStore, Nat, Seq(Cell))
    BY DEF IsStore, EmptyStore
  <2>3. IsStore(deltaFiles', Nat, Seq(Cell))
    BY <2>1, <2>2 DEF TypesInv, DeltaTypeOK
  <2>4. NoJob \in JobType /\ HandOK'
    BY <2>1, LimitAssumption DEF NoJob, Job, JobType, HandOK
  <2> QED BY <2>1, <2>3, <2>4 DEF TypesInv, DeltaTypeOK, LogTypes, LogOK, JobType, Mode
<1>13. CASE (\E c \in Chunk : UpdateThrows(c)) \/ GC \/ Die
  BY <1>13, EndTypes DEF UpdateThrows, GC, Die
<1>14. CASE \/ ListContainers \/ RemoveContainers \/ RewriteSave
            \/ \E c \in Chunk : RewriteSkip(c)
  <2>1. mode = "rewrite" /\ UNCHANGED <<deltaDisk, mode, compressor>>
    BY <1>14 DEF ListContainers, RemoveContainers, RewriteSave, RewriteSkip, Rewriting, Stays
  <2>2. job' \in JobType /\ job'.step # "read"
    <3>1. CASE ListContainers
      <4>1. DOMAIN containerDB \subseteq Nat
        BY DEF TypesInv, StoreTypes
      <4> QED BY <1>0, <3>1, <4>1, LimitAssumption DEF ListContainers, JobType, Job
    <3>2. CASE RemoveContainers
      BY <3>2, LimitAssumption DEF RemoveContainers, NoJob, Job, JobType
    <3>3. CASE RewriteSave
      BY <1>0, <3>3 DEF RewriteSave, JobType
    <3>4. CASE \E c \in Chunk : RewriteSkip(c)
      BY <1>0, <3>4 DEF RewriteSkip, Rewriting, JobType
    <3> QED BY <1>14, <3>1, <3>2, <3>3, <3>4
  <2>3. HandOK'
    BY <2>1, <2>2 DEF HandOK
  <2> QED BY <1>0, <2>1, <2>2, <2>3, LogFrame
<1>15. ASSUME NEW c \in Chunk, RewriteRead(c) PROVE LogOK'
  <2>1. /\ mode = "rewrite" /\ UNCHANGED <<deltaDisk, mode, compressor, fp2ChunkDB>>
        /\ c \in DOMAIN fp2ChunkDB
    BY <1>15 DEF RewriteRead, Rewriting, RestoreChunk, diskVars, query, Stays
  <2>2. job' \in JobType /\ job'.chunk = c
    BY <1>0, <1>15 DEF RewriteRead, JobType
  <2>3. HandOK'
    BY <2>1, <2>2 DEF HandOK
  <2> QED BY <1>0, <2>1, <2>2, <2>3, LogFrame
<1>16. CASE \E c \in Chunk : DeleteBeforeGC(c)
  BY <1>1, <1>16 DEF DeleteBeforeGC, deleteChunk, SetCount, insert, Stays
<1>17. CASE UNCHANGED mvars
  BY <1>1, <1>17 DEF mvars, vars, diskVars
<1>18. CASE SaveChunkFails
  <2>1. /\ mode \in {"backup", "rewrite"} /\ UNCHANGED <<deltaDisk, mode, compressor, fp2ChunkDB>>
        /\ job' \in JobType /\ job'.step \in {"next", "closed"}
    BY <1>0, <1>18 DEF SaveChunkFails, IndexFails, diskVars, JobType
  <2>2. HandOK'
    BY <2>1 DEF HandOK
  <2> QED BY <1>0, <2>1, <2>2, LogFrame
<1> QED BY <1>2, <1>3, <1>4, <1>5, <1>6, <1>7, <1>8, <1>9, <1>10, <1>11, <1>12, <1>13, <1>14,
           <1>15, <1>16, <1>17, <1>18 DEF MNext

LEMMA TypesInit == MInit => TypesInv
<1> SUFFICES ASSUME MInit PROVE TypesInv
  OBVIOUS
<1>1. /\ DOMAIN deltaChunkDB = {} /\ DOMAIN fp2ChunkDB = {} /\ DOMAIN containerDB = {}
      /\ IsStore(deltaFiles, Nat, Seq(Cell)) /\ IsStore(files, Nat, Seq(Cell))
      /\ IsStore(deltaChunkDB, {c \in Chunk : Base[c] # NoBase}, DeltaKey)
  BY DEF MInit, Init, EmptyStore, IsStore
<1>2. StoreTypes
  BY <1>1, JunkBodyType, SizeAssumption DEF MInit, Init, StoreTypes
<1>3. NoJob \in JobType
  BY LimitAssumption DEF NoJob, Job, JobType
<1>4. DeltaTypeOK
  BY <1>1, <1>3, NoCompressorType DEF MInit, DeltaTypeOK, JobType, Mode
<1>5. EntriesOK /\ SaveTypes /\ LogTypes /\ HandOK
  BY <1>1 DEF MInit, Init, EntriesOK, SaveTypes, Saving, LogTypes, HandOK
<1> QED BY <1>2, <1>4, <1>5 DEF TypesInv

LEMMA TypesStep == TypesInv /\ [MNext]_mvars => TypesInv'
BY StoreOKStep, LogOKStep DEF TypesInv, StoreOK, LogOK

(* What DeltaCompressor and Manager keep has its types, and used_ never    *)
(* passes maxContainerSize_, whatever process dies where and whatever the  *)
(* stack held (saveDeltaChunk, updateContainer, rewriteContainer).         *)
THEOREM ManagerTypes == MSpec => []DeltaTypeOK
<1>1. TypesInv => DeltaTypeOK
  BY DEF TypesInv
<1> QED BY <1>1, TypesInit, TypesStep, PTL DEF MSpec

-----------------------------------------------------------------------------
(* What the theorem below assumes: processes die only where updateContainer *)
(* or the listing of rewriteContainer is at work, a count can hold 1 and a  *)
(* chunk has two bytes.                                                     *)
SoundManager ==
    /\ Faults \subseteq {"update", "list", "insert"}
    /\ Wrap > 1
    /\ \A c \in Chunk : Len(Content[c]) > 1

ManagerInv == TypesInv /\ DeltaInv /\ RecoverInv

(* A step that moves no entry and writes no file and no buffer.            *)
StoreParts == PlacesOK /\ Apart /\ SizesOK /\ ConfigsOK /\ BasesOK /\ MovingOK
SamePlace(c) ==
    /\ fp2ChunkDB'[c].containerName = fp2ChunkDB[c].containerName
    /\ fp2ChunkDB'[c].offset = fp2ChunkDB[c].offset
    /\ fp2ChunkDB'[c].length = fp2ChunkDB[c].length
    /\ fp2ChunkDB'[c].deltaCount = fp2ChunkDB[c].deltaCount

LEMMA QuietParts ==
    ASSUME StoreParts,
           UNCHANGED <<config, files, objectVars, fresh, mode, lastByte>>, failed \subseteq failed',
           DOMAIN containerDB' \subseteq DOMAIN containerDB,
           DOMAIN fp2ChunkDB' = DOMAIN fp2ChunkDB,
           \A c \in DOMAIN fp2ChunkDB : SamePlace(c),
           \A c \in DOMAIN fp2ChunkDB :
               (\E d \in Chunk : Base[d] = c) => fp2ChunkDB'[c].count = fp2ChunkDB[c].count,
           phase = "indexed" => fp2ChunkDB' = fp2ChunkDB,
           DOMAIN deltaChunkDB \subseteq DOMAIN deltaChunkDB',
           \A c \in DOMAIN deltaChunkDB' : Base[c] \in DOMAIN fp2ChunkDB
    PROVE  StoreParts'
<1>1. UNCHANGED <<phase, last, used, body, readName, readBody, saving>>
  BY DEF objectVars, cacheVars
<1>2. PlacesOK'
  <2> SUFFICES ASSUME NEW c \in DOMAIN fp2ChunkDB
               PROVE  (IsOpen' => OpenAt(c)') /\ (Settled' => ClosedAt(c)')
    BY DEF PlacesOK
  <2>1. SamePlace(c) /\ In_(c)' = In_(c) /\ End(c)' = End(c)
    BY DEF SamePlace, In_, End
  <2>2. Pending(c) => Pending(c)'
    BY <2>1 DEF Pending, SamePlace
  <2>9. c \in AtRisk => c \in AtRisk'
    BY DEF AtRisk
  <2>3. \A buf : Has(buf, c) => \/ c \in AtRisk' \/ Pending(c)'
                                \/ \A i \in 1 .. fp2ChunkDB'[c].length :
                                     buf[fp2ChunkDB'[c].offset + i]
                                       = Form(c, fp2ChunkDB'[c].deltaCount)[i]
    BY <2>1, <2>2, <2>9 DEF Has, SamePlace
  <2>4. InFile(c) => InFile(c)'
    BY <2>1, <2>3, <2>9 DEF InFile, Has
  <2>5. /\ Has(body, c) => Has(body, c)'
        /\ Has(readBody, c) => Has(readBody, c)'
    BY <1>1, <2>3 DEF Has
  <2>6. OpenAt(c) => OpenAt(c)'
    BY <1>1, <2>1, <2>4, <2>5 DEF OpenAt
  <2>7. ClosedAt(c) => ClosedAt(c)'
    BY <2>1, <2>4 DEF ClosedAt
  <2>8. (IsOpen' <=> IsOpen) /\ (Settled' <=> Settled)
    BY <1>1 DEF IsOpen, Settled
  <2> QED BY <2>6, <2>7, <2>8 DEF StoreParts, PlacesOK
<1>3. Apart'
  BY DEF StoreParts, Apart, SamePlace, In_, End
<1>4. SizesOK' /\ ConfigsOK'
  BY <1>1 DEF StoreParts, SizesOK, ConfigsOK, IsOpen, Settled
<1>5. BasesOK'
  BY DEF StoreParts, BasesOK, SamePlace
<1>6. MovingOK'
  BY <1>1 DEF StoreParts, MovingOK, SamePlace, In_, SavingKey
<1> QED BY <1>2, <1>3, <1>4, <1>5, <1>6 DEF StoreParts

(* An entry that is not awaiting its delta can be read and is what it      *)
(* should be.                                                              *)
LEMMA OpenReads ==
    ASSUME TypesInv, NEW c \in DOMAIN fp2ChunkDB, c \notin AtRisk, OpenAt(c)
    PROVE  /\ CanRead(In_(c))
           /\ ~Pending(c) =>
                 readContainer(fp2ChunkDB[c]) = Form(c, fp2ChunkDB[c].deltaCount)
<1> DEFINE form == Form(c, fp2ChunkDB[c].deltaCount)
           n == fp2ChunkDB[c].length
           off == fp2ChunkDB[c].offset
<1>1. CanRead(In_(c))
  BY DEF OpenAt, InFile, CanRead
<1>2. /\ form \in Seq(Cell) /\ n = Len(form) /\ n \in Nat
      /\ \A i \in 1 .. n : off + i \in Addr /\ off + i <= End(c)
      /\ End(c) \in Nat
  BY EntryForm DEF TypesInv
<1>3. ASSUME ~Pending(c), NEW i \in 1 .. n
      PROVE  Source(In_(c))[off + i] = form[i]
  <2>1. CASE In_(c) = readName
    BY <1>3, <2>1 DEF OpenAt, Has, Source
  <2>2. CASE In_(c) # readName /\ In_(c) = last
    BY <1>3, <2>2 DEF OpenAt, Has, Source
  <2>3. CASE In_(c) # readName /\ In_(c) # last
    <3> DEFINE file == files[In_(c)]
    <3>1. /\ In_(c) \in DOMAIN files /\ End(c) <= Len(file) /\ file[off + i] = form[i]
      BY <1>3, <2>3 DEF OpenAt, InFile, Has
    <3>2. file \in Seq(Cell) /\ Len(file) \in Nat
      BY <3>1 DEF TypesInv, StoreTypes, IsStore
    <3>3. off + i \in Addr /\ off + i <= Len(file)
      <4>1. off + i \in Addr /\ off + i <= End(c) /\ off + i \in Nat
        BY <1>2, SizeAssumption DEF Addr
      <4> QED BY <1>2, <3>1, <3>2, <4>1
    <3>4. ReadFile(readBody, file, Len(file))[off + i] = file[off + i]
      BY <3>2, <3>3, ReadFileFacts DEF TypesInv, StoreTypes
    <3> QED BY <2>3, <3>1, <3>4 DEF Source
  <2> QED BY <2>1, <2>2, <2>3
<1>4. ASSUME ~Pending(c) PROVE readContainer(fp2ChunkDB[c]) = form
  <2>1. readContainer(fp2ChunkDB[c]) = [i \in 1 .. n |-> form[i]]
    BY <1>3, <1>4 DEF readContainer, Bytes, In_
  <2> QED BY <1>2, <2>1
<1> QED BY <1>1, <1>4

(* What the files hold for an entry when the object is gone.               *)
LEMMA ClosedReads ==
    ASSUME TypesInv, NEW c \in DOMAIN fp2ChunkDB, c \notin AtRisk, ClosedAt(c), ~Pending(c)
    PROVE  FileBytes(c) = Form(c, fp2ChunkDB[c].deltaCount)
<1> DEFINE form == Form(c, fp2ChunkDB[c].deltaCount)
           n == fp2ChunkDB[c].length
           off == fp2ChunkDB[c].offset
           file == files[fp2ChunkDB[c].containerName]
<1>1. /\ form \in Seq(Cell) /\ n = Len(form) /\ n \in Nat /\ off \in Nat
      /\ \A i \in 1 .. n : off + i <= End(c)
      /\ End(c) \in Nat
  BY EntryForm DEF TypesInv
<1>2. /\ fp2ChunkDB[c].containerName \in DOMAIN files /\ End(c) <= Len(file)
      /\ \A i \in 1 .. n : file[off + i] = form[i]
  BY DEF ClosedAt, InFile, Has, In_
<1>3. Len(file) \in Nat
  BY <1>2 DEF TypesInv, StoreTypes, IsStore
<1>4. \A i \in 1 .. n : off + i <= Len(file)
  BY <1>1, <1>2, <1>3
<1>5. FileBytes(c) = [i \in 1 .. n |-> form[i]]
  BY <1>2, <1>4 DEF FileBytes
<1> QED BY <1>1, <1>5

(* Every chunk that the invariant speaks of restores, or can be made to.   *)
LEMMA InvRecoverable == ManagerInv => Recoverable
<1> SUFFICES ASSUME ManagerInv, NEW c \in DOMAIN fp2ChunkDB, c \notin AtRisk, Base[c] \notin AtRisk
             PROVE  Restores(c) \/ Redoable(c)
  BY DEF Recoverable
<1>1. TypesInv /\ PlacesOK /\ ModeOK /\ BasesOK
  BY DEF ManagerInv, RecoverInv
<1>2. ASSUME NEW d \in DOMAIN fp2ChunkDB, d \notin AtRisk, ~Pending(d)
      PROVE  Holding(d, Form(d, fp2ChunkDB[d].deltaCount))
  <2>1. CASE IsOpen
    <3>1. OpenAt(d)
      BY <1>1, <2>1 DEF PlacesOK
    <3> QED BY <1>1, <1>2, <2>1, <3>1, OpenReads DEF Holding, In_, query
  <2>2. CASE ~IsOpen
    <3>1. ClosedAt(d)
      BY <1>1, <2>2 DEF PlacesOK, Settled
    <3> QED BY <1>1, <1>2, <2>2, <3>1, ClosedReads DEF Holding, query
  <2> QED BY <2>1, <2>2
<1>3. /\ c \in Chunk /\ fp2ChunkDB[c].deltaCount \in Nat
      /\ fp2ChunkDB[c].deltaCount > 0 => Base[c] # NoBase
      /\ fp2ChunkDB[c].length = Len(Form(c, fp2ChunkDB[c].deltaCount))
  BY <1>1, EntryForm DEF TypesInv, EntryAt
<1>4. CASE fp2ChunkDB[c].deltaCount = 0
  <2>1. ~Pending(c) /\ Form(c, fp2ChunkDB[c].deltaCount) = Stored(c)
    BY <1>4 DEF Pending, Form
  <2> QED BY <1>2, <1>4, <2>1 DEF Restores
<1>5. CASE fp2ChunkDB[c].deltaCount > 0
  <2> DEFINE b == Base[c]
  <2>1. /\ b # NoBase /\ b \in Chunk /\ b \in DOMAIN fp2ChunkDB /\ Base[b] = NoBase
    <3>1. b # NoBase /\ b \in DOMAIN fp2ChunkDB
      BY <1>1, <1>3, <1>5 DEF BasesOK
    <3> QED BY <1>3, <3>1, DeltaAssumption
  <2>2. fp2ChunkDB[b].deltaCount = 0
    <3>1. EntryAt(b) /\ fp2ChunkDB[b].deltaCount \in Nat
      BY <1>1, <2>1, EntryForm DEF TypesInv
    <3>2. ~(fp2ChunkDB[b].deltaCount > 0)
      BY <2>1, <3>1 DEF EntryAt
    <3> QED BY <3>1, <3>2
  <2>3. BaseRestores(c)
    <3>1. ~Pending(b) /\ Form(b, fp2ChunkDB[b].deltaCount) = Stored(b)
      BY <2>2 DEF Pending, Form
    <3> QED BY <1>2, <2>1, <2>2, <3>1 DEF BaseRestores
  <2>4. Form(c, fp2ChunkDB[c].deltaCount) = Delta[c] /\ fp2ChunkDB[c].deltaCount # 0
    BY <1>3, <1>5 DEF Form
  <2>5. CASE ~Pending(c)
    BY <1>2, <2>3, <2>4, <2>5 DEF Restores
  <2>6. CASE Pending(c)
    <3>1. c \in DOMAIN deltaChunkDB /\ DeltaKept(c)
      BY <2>6, KeptIsReadable DEF Pending, ManagerInv, NoDanglingDelta
    <3>2. fp2ChunkDB[c].length = Len(Delta[c])
      BY <1>3, <2>4
    <3>3. IsOpen => CanRead(fp2ChunkDB[c].containerName)
      BY <1>1, OpenReads DEF PlacesOK, In_
    <3>4. ~IsOpen => fp2ChunkDB[c].containerName \in DOMAIN files
      BY <1>1 DEF PlacesOK, Settled, ClosedAt, InFile, In_
    <3> QED BY <2>3, <3>1, <3>2, <3>3, <3>4 DEF Redoable
  <2> QED BY <2>5, <2>6
<1> QED BY <1>3, <1>4, <1>5

(* Only the process of the store changes: a step that the frame covers.    *)
LEMMA QuietRecovers ==
    ASSUME RecoverInv, UNCHANGED <<vars, lastByte, mode>>, failed \subseteq failed',
           DOMAIN deltaChunkDB \subseteq DOMAIN deltaChunkDB',
           \A c \in DOMAIN deltaChunkDB' : Base[c] \in DOMAIN fp2ChunkDB
    PROVE  StoreParts'
<1>1. UNCHANGED <<config, files, containerDB, fp2ChunkDB, objectVars, fresh, phase>>
  BY DEF vars, diskVars, historyVars, objectVars
<1>2. \A c \in DOMAIN fp2ChunkDB : SamePlace(c)
  BY <1>1 DEF SamePlace
<1>3. StoreParts
  BY DEF RecoverInv, StoreParts
<1> QED BY <1>1, <1>2, <1>3, QuietParts

(* The constructor finds every entry where the last process left it.       *)
LEMMA StartRecovers ==
    ASSUME ManagerInv, NEW m \in Mode \ {"none"}, Start(m)
    PROVE  RecoverInv'
<1>1. /\ mode = "none" /\ mode' = m /\ phase = "closed" /\ phase' = "ready"
      /\ UNCHANGED <<config, files, containerDB, fp2ChunkDB, deltaChunkDB, lastByte, failed,
                     readName, readBody, saving, fresh, job>>
      /\ config # NoConfig =>
            /\ last' = config.last /\ used' = config.used
            /\ body' = IF config.last \in DOMAIN files
                       THEN ReadFile(body, files[config.last], config.used) ELSE body
  BY DEF Start, Open, diskVars, cacheVars, historyVars, deltaDisk
<1>2. TypesInv /\ PlacesOK /\ Apart /\ SizesOK /\ ModeOK /\ BasesOK
  BY DEF ManagerInv, RecoverInv
<1>3. ~IsOpen /\ Settled /\ IsOpen' /\ fresh = {} /\ readName = NoName /\ job = NoJob
  BY <1>1, <1>2 DEF IsOpen, Settled, ModeOK, TypesInv, HandOK
<1>4. config # NoConfig => config.last \in Nat /\ config.used \in Nat /\ config.used <= MaxContainerSize
  BY <1>2, SizeAssumption DEF TypesInv, StoreTypes
<1>5. PlacesOK'
  <2> SUFFICES ASSUME NEW c \in DOMAIN fp2ChunkDB
               PROVE  OpenAt(c)' /\ ClosedAt(c)'
    BY <1>1 DEF PlacesOK
  <2>1. ClosedAt(c)
    BY <1>2, <1>3 DEF PlacesOK
  <2>6. AtRisk' = AtRisk
    BY <1>1 DEF AtRisk
  <2>2. ClosedAt(c)' /\ InFile(c)' /\ In_(c)' = In_(c) /\ End(c)' = End(c)
    BY <1>1, <2>1, <2>6 DEF ClosedAt, InFile, Has, Pending, In_, End
  <2>3. /\ config # NoConfig /\ In_(c) <= last' /\ last' = config.last /\ used' = config.used
        /\ In_(c) = config.last => End(c) <= config.used
    BY <1>1, <2>1 DEF ClosedAt
  <2>4. In_(c) # NoName
    BY <1>2, EntryForm DEF TypesInv
  <2>5. ASSUME In_(c) = config.last, c \notin AtRisk PROVE Has(body, c)'
    <3> DEFINE file == files[config.last]
               off == fp2ChunkDB[c].offset
    <3>1. config.last \in DOMAIN files /\ End(c) <= Len(file) /\ Has(file, c)
      BY <2>1, <2>5 DEF ClosedAt, InFile
    <3>2. file \in Seq(Cell) /\ Len(file) \in Nat /\ body \in Buffer
      BY <1>2, <3>1 DEF TypesInv, StoreTypes, IsStore
    <3>3. body' = ReadFile(body, file, config.used)
      BY <1>1, <2>3, <3>1
    <3>4. \A i \in 1 .. fp2ChunkDB[c].length :
             off + i \in Addr /\ off + i <= config.used /\ off + i <= Len(file)
      <4>1. \A i \in 1 .. fp2ChunkDB[c].length :
               off + i \in Addr /\ off + i <= End(c) /\ off + i \in Nat
        BY <1>2, EntryForm, SizeAssumption DEF TypesInv, Addr
      <4>2. End(c) \in Nat /\ End(c) <= config.used /\ End(c) <= Len(file)
        BY <1>2, <2>3, <2>5, <3>1, EntryForm DEF TypesInv
      <4> QED BY <1>4, <2>3, <3>2, <4>1, <4>2
    <3>5. \A i \in 1 .. fp2ChunkDB[c].length : body'[off + i] = file[off + i]
      BY <1>4, <2>3, <3>2, <3>3, <3>4, ReadFileFacts
    <3> QED BY <1>1, <2>5, <2>6, <3>1, <3>5 DEF Has, Pending
  <2>7. c \in AtRisk => Has(body, c)'
    BY <2>6 DEF Has
  <2> QED BY <1>1, <1>3, <2>2, <2>3, <2>4, <2>5, <2>7 DEF OpenAt
<1>6. Apart'
  BY <1>1, <1>2 DEF Apart, In_, End
<1>7. SizesOK' /\ ConfigsOK'
  BY <1>1, <1>2, <1>3, <1>4 DEF SizesOK, ConfigsOK, Settled
<1>8. ModeOK'
  BY <1>1, <1>3, SentinelAssumption DEF ModeOK, Phase, Saving, NoJob, Job
<1>9. BasesOK' /\ MovingOK'
  BY <1>1, <1>2 DEF BasesOK, MovingOK
<1>10. ListOK' /\ UpdateOK'
  BY <1>1, <1>3 DEF ListOK, UpdateOK, NoJob, Job
<1> QED BY <1>5, <1>6, <1>7, <1>8, <1>9, <1>10 DEF RecoverInv

(* A process that leaves nothing to be made durable may end, or die, or    *)
(* drop entries that are no bases.                                         *)
LEMMA EndRecovers ==
    ASSUME ManagerInv, Settled, Gone, mode' = "none", job' = NoJob,
           UNCHANGED <<config, files, containerDB, deltaChunkDB, lastByte>>,
           DOMAIN fp2ChunkDB' \subseteq DOMAIN fp2ChunkDB,
           \A c \in DOMAIN fp2ChunkDB' : fp2ChunkDB'[c] = fp2ChunkDB[c],
           failed \cap DOMAIN fp2ChunkDB' \subseteq failed',
           \A c \in DOMAIN fp2ChunkDB :
               (\E d \in Chunk : Base[d] = c) => c \in DOMAIN fp2ChunkDB'
    PROVE  RecoverInv'
<1>1. /\ phase' = "closed" /\ fresh' = {} /\ readName' = NoName /\ ~IsOpen'
  BY DEF Gone, IsOpen
<1>2. TypesInv /\ PlacesOK /\ Apart /\ SizesOK /\ BasesOK
  BY DEF ManagerInv, RecoverInv
<1>3. PlacesOK'
  <2> SUFFICES ASSUME NEW c \in DOMAIN fp2ChunkDB' PROVE ClosedAt(c)'
    BY <1>1 DEF PlacesOK
  <2>1. ClosedAt(c) /\ fp2ChunkDB'[c] = fp2ChunkDB[c]
    BY <1>2 DEF PlacesOK
  <2>2. c \in AtRisk => c \in AtRisk'
    BY DEF AtRisk
  <2> QED BY <2>1, <2>2 DEF ClosedAt, InFile, Has, Pending, In_, End
<1>4. Apart'
  BY <1>2 DEF Apart, In_, End
<1>5. SizesOK' /\ ConfigsOK'
  BY <1>1, <1>2 DEF SizesOK, ConfigsOK
<1>6. ModeOK'
  BY <1>1 DEF ModeOK, Phase, Saving, NoJob, Job
<1>7. BasesOK'
  <2>1. ASSUME NEW c \in DOMAIN fp2ChunkDB'
        PROVE  /\ (\E d \in Chunk : Base[d] = c) => fp2ChunkDB'[c].count # 0
               /\ fp2ChunkDB'[c].deltaCount > 0 => Base[c] \in DOMAIN fp2ChunkDB'
               /\ c \in DOMAIN lastByte'
    <3>1. c \in Chunk
      BY <1>2, EntryForm DEF TypesInv
    <3> QED BY <1>2, <3>1 DEF BasesOK
  <2>2. ASSUME NEW c \in DOMAIN deltaChunkDB' PROVE Base[c] \in DOMAIN fp2ChunkDB'
    <3>1. c \in Chunk
      BY <1>2 DEF TypesInv, DeltaTypeOK, IsStore
    <3> QED BY <1>2, <3>1 DEF BasesOK
  <2> QED BY <2>1, <2>2 DEF BasesOK
<1>8. MovingOK' /\ ListOK' /\ UpdateOK'
  BY <1>1 DEF MovingOK, ListOK, UpdateOK
<1> QED BY <1>3, <1>4, <1>5, <1>6, <1>7, <1>8 DEF RecoverInv

(* Saving the container being filled leaves each entry in a file, where    *)
(* nothing was to be indexed.                                              *)
LEMMA FileSaved ==
    ASSUME TypesInv, NEW c \in DOMAIN fp2ChunkDB, OpenAt(c), phase # "indexed",
           files' = insert(files, last, Bytes(body, 0, used)),
           fp2ChunkDB' = fp2ChunkDB, deltaChunkDB' = deltaChunkDB, AtRisk' = AtRisk
    PROVE  InFile(c)'
<1> SUFFICES ASSUME c \notin AtRisk PROVE InFile(c)'
  BY DEF InFile
<1> DEFINE off == fp2ChunkDB[c].offset
           n == fp2ChunkDB[c].length
           image == Bytes(body, 0, used)
<1>1. used \in Nat /\ used <= MaxContainerSize /\ body \in Buffer
  BY SizeAssumption DEF TypesInv, StoreTypes
<1>2. /\ \A i \in 1 .. n : off + i <= End(c)
      /\ End(c) \in Nat /\ off \in Nat /\ n \in Nat
  BY EntryForm DEF TypesInv
<1>3. In_(c)' = In_(c) /\ End(c)' = End(c)
  BY DEF In_, End
<1>4. CASE In_(c) = last
  <2>1. last \in DOMAIN files' /\ files'[last] = image
    BY DEF insert
  <2>2. Len(image) = used /\ \A i \in 1 .. used : image[i] = body[i]
    BY <1>1, ImageFacts
  <2>3. Has(body, c) /\ End(c) <= used
    BY <1>4 DEF OpenAt
  <2>4. \A i \in 1 .. n : off + i \in 1 .. used
    BY <1>1, <1>2, <2>3
  <2> HIDE DEF image
  <2> QED BY <1>3, <1>4, <2>1, <2>2, <2>3, <2>4 DEF InFile, Has, Pending
<1>5. CASE In_(c) # last
  <2>1. InFile(c) /\ In_(c) \in DOMAIN files'
    BY <1>5 DEF OpenAt, InFile, insert
  <2>2. files'[In_(c)] = files[In_(c)]
    BY <1>5, <2>1 DEF InFile, insert
  <2> QED BY <1>3, <2>1, <2>2 DEF InFile, Has, Pending
<1> QED BY <1>4, <1>5

(* A saveChunk of a new chunk or of what was read for an entry.            *)
LEMMA SaveBeginRecovers ==
    ASSUME ManagerInv, mode \in {"backup", "rewrite"},
           NEW c \in Chunk, NEW data \in Seq(Cell), Len(data) = Len(Form(c, Arg(c))),
           WriteFits(c, data) \/ Rotate(c, data),
           \/ Sanitise(data) = Form(c, Arg(c))
           \/ Arg(c) > 0 /\ c \in DOMAIN deltaChunkDB
           \/ c \in failed,
           Arg(c) > 0 => Base[c] \in DOMAIN fp2ChunkDB,
           (\E d \in Chunk : Base[d] = c) => Arguments(c, data).count # 0,
           Settled => config # NoConfig,
           UNCHANGED <<deltaChunkDB, lastByte, failed, mode>>,
           mode = "rewrite" => /\ job.step = "read" /\ job'.step = "save" /\ c = job.chunk
                               /\ job'.todo = job.todo /\ job'.list = job.list,
           mode # "rewrite" => job' = job
    PROVE  RecoverInv'
<1> DEFINE args == Arguments(c, data)
<1>1. /\ TypesInv /\ PlacesOK /\ Apart /\ SizesOK /\ ConfigsOK /\ ModeOK /\ BasesOK
      /\ MovingOK /\ ListOK /\ StoreOK
  BY DEF ManagerInv, RecoverInv, TypesInv, StoreOK
<1>2. /\ args.chunk = c /\ args.data = Sanitise(data) /\ args.deltaCount = Arg(c)
      /\ Sanitise(data) \in Seq(Cell) /\ Len(Sanitise(data)) = Len(data)
      /\ Len(data) \in Nat
  BY <1>1, ArgumentTypes
<1>3. /\ phase = "ready" /\ phase' \in {"written", "rotated"} /\ IsOpen /\ IsOpen'
      /\ UNCHANGED <<config, fp2ChunkDB, used, readName, readBody, fresh>>
      /\ saving' = args
      /\ Settled' <=> Settled
  BY DEF WriteFits, Rotate, NeedsRotation, diskVars, cacheVars, historyVars, IsOpen, Settled
<1>4. /\ last \in Nat /\ used \in Nat /\ body \in Buffer /\ MaxContainerSize \in Nat
      /\ config # NoConfig => config.last \in Nat
      /\ readName # NoName => readName \in Nat
  BY <1>1, SizeAssumption DEF TypesInv, StoreTypes
<1>5. ASSUME NEW d \in DOMAIN fp2ChunkDB
      PROVE  /\ OpenAt(d) /\ (Settled => ClosedAt(d))
             /\ In_(d) \in Nat /\ In_(d) <= last
             /\ In_(d)' = In_(d) /\ End(d)' = End(d)
             /\ In_(d) = last => End(d) <= used
  <2>1. OpenAt(d) /\ (Settled => ClosedAt(d))
    BY <1>1, <1>3 DEF PlacesOK
  <2>2. In_(d) \in Nat
    BY <1>1, EntryForm DEF TypesInv
  <2> QED BY <1>3, <2>1, <2>2 DEF OpenAt, In_, End
<1>10. AtRisk' = AtRisk
  BY <1>3 DEF AtRisk
<1>6. Apart'
  BY <1>1, <1>3 DEF Apart, In_, End
<1>7. BasesOK'
  BY <1>1, <1>3 DEF BasesOK
<1>8. CASE WriteFits(c, data)
  <2>1. /\ UNCHANGED <<files, containerDB, last>> /\ phase' = "written"
        /\ body' = memcpy(body, used, Sanitise(data)) /\ Len(data) + used < MaxContainerSize
    BY <1>8 DEF WriteFits, diskVars, Fits
  <2>2. used + Len(Sanitise(data)) <= MaxContainerSize
    BY <1>2, <1>4, <2>1
  <2>3. /\ \A i \in 1 .. Len(Sanitise(data)) : body'[used + i] = Sanitise(data)[i]
        /\ \A a \in 1 .. used : body'[a] = body[a]
    BY <1>2, <1>4, <2>1, <2>2, MemcpyFacts
  <2>4. PlacesOK'
    <3> SUFFICES ASSUME NEW d \in DOMAIN fp2ChunkDB
                 PROVE  OpenAt(d)' /\ (Settled => ClosedAt(d)')
      BY <1>3 DEF PlacesOK
    <3>1. InFile(d) => InFile(d)'
      BY <1>3, <1>10, <2>1 DEF InFile, Has, Pending, In_, End
    <3>2. ClosedAt(d) => ClosedAt(d)'
      BY <1>3, <1>5, <3>1 DEF ClosedAt
    <3>3. ASSUME In_(d) = last PROVE Has(body, d)'
      <4>1. Has(body, d) /\ End(d) <= used
        BY <1>5, <3>3 DEF OpenAt
      <4>2. \A i \in 1 .. fp2ChunkDB[d].length : fp2ChunkDB[d].offset + i \in 1 .. used
        <5>1. /\ \A i \in 1 .. fp2ChunkDB[d].length : fp2ChunkDB[d].offset + i <= End(d)
              /\ End(d) \in Nat /\ fp2ChunkDB[d].offset \in Nat
          BY <1>1, EntryForm DEF TypesInv
        <5> QED BY <1>4, <4>1, <5>1
      <4> QED BY <1>3, <1>10, <2>3, <4>1, <4>2 DEF Has, Pending
    <3>4. Has(readBody, d) => Has(readBody, d)'
      BY <1>3, <1>10 DEF Has, Pending
    <3>5. OpenAt(d)'
      BY <1>3, <1>5, <2>1, <3>1, <3>3, <3>4 DEF OpenAt
    <3> QED BY <1>5, <3>2, <3>5
  <2>5. SizesOK' /\ ConfigsOK'
    BY <1>1, <1>3, <2>1 DEF SizesOK, ConfigsOK
  <2>6. ModeOK'
    BY <1>1, <1>3, <2>1 DEF ModeOK, Phase, Saving
  <2>7. MovingOK'
    BY <1>2, <1>3, <2>1, <2>3 DEF MovingOK
  <2>8. ListOK' /\ UpdateOK'
    BY <1>1, <1>2, <1>3, <1>10, <2>1 DEF ListOK, UpdateOK, In_
  <2> QED BY <1>6, <1>7, <2>4, <2>5, <2>6, <2>7, <2>8 DEF RecoverInv
<1>9. CASE Rotate(c, data)
  <2>1. /\ files' = insert(files, last, Bytes(body, 0, used))
        /\ containerDB' = insert(containerDB, last, used)
        /\ last' = last + 1 /\ body' = body /\ phase' = "rotated"
    BY <1>9 DEF Rotate, saveTOFile
  <2>2. ASSUME NEW d \in DOMAIN fp2ChunkDB PROVE InFile(d)'
    BY <1>1, <1>3, <1>5, <1>10, <2>1, FileSaved
  <2>3. PlacesOK'
    <3> SUFFICES ASSUME NEW d \in DOMAIN fp2ChunkDB
                 PROVE  OpenAt(d)' /\ (Settled => ClosedAt(d)')
      BY <1>3 DEF PlacesOK
    <3>1. In_(d) <= last' /\ In_(d) # last'
      BY <1>4, <1>5, <2>1
    <3>2. In_(d) = readName => Has(readBody, d)'
      BY <1>3, <1>5, <1>10 DEF OpenAt, Has, Pending
    <3>3. OpenAt(d)'
      BY <1>3, <1>5, <2>2, <3>1, <3>2 DEF OpenAt
    <3>4. Settled => ClosedAt(d)'
      BY <1>3, <1>5, <2>2 DEF ClosedAt
    <3> QED BY <3>3, <3>4
  <2>4. SizesOK'
    <3> SUFFICES ASSUME NEW n \in DOMAIN containerDB'
                 PROVE  n <= last' /\ (Settled => config # NoConfig /\ n <= config.last)
      BY <1>3 DEF SizesOK
    <3>1. n \in DOMAIN containerDB \/ n = last
      BY <2>1 DEF insert
    <3>2. n \in Nat /\ n <= last
      BY <1>1, <1>3, <1>4, <3>1 DEF SizesOK, TypesInv, StoreTypes
    <3>3. Settled => config # NoConfig /\ last = config.last
      <4>1. Len(data) < MaxContainerSize /\ ~(Len(data) + used < MaxContainerSize)
        BY <1>1, <1>9, ArgumentTypes DEF Rotate, NeedsRotation, Fits
      <4>2. used # 0
        BY <1>2, <1>4, <4>1
      <4> QED BY <1>1, <1>3, <4>2 DEF ConfigsOK, Settled
    <3> QED BY <1>4, <2>1, <3>2, <3>3
  <2>5. ConfigsOK'
    <3>1. config # NoConfig => config.last <= last'
      BY <1>1, <1>3, <1>4, <2>1 DEF ConfigsOK
    <3> QED BY <1>3, <2>1, <3>1 DEF ConfigsOK
  <2>6. ModeOK'
    <3>1. readName # NoName => readName < last'
      BY <1>1, <1>4, <2>1 DEF ModeOK
    <3> QED BY <1>1, <1>3, <2>1, <3>1 DEF ModeOK, Phase, Saving
  <2>7. MovingOK'
    <3>1. \A d \in DOMAIN fp2ChunkDB : In_(d)' # last'
      BY <1>4, <1>5, <2>1
    <3> QED BY <1>2, <1>3, <2>1, <3>1 DEF MovingOK
  <2>8. ListOK'
    <3> SUFFICES ASSUME mode = "rewrite" PROVE ListOK'
      BY DEF ListOK
    <3>1. \A n \in job.list : n \in Nat /\ n < last
      BY <1>1 DEF ListOK, TypesInv, DeltaTypeOK
    <3>2. \A n \in job'.list : n < last'
      BY <1>4, <2>1, <3>1
    <3>3. \A d \in DOMAIN fp2ChunkDB' : In_(d)' \in job'.list =>
             \/ d \in AtRisk' \/ d \in job'.todo
             \/ phase' \in {"rotated", "written"} /\ d = saving'.chunk
      BY <1>1, <1>2, <1>3, <1>10, <2>1 DEF ListOK, In_
    <3> QED BY <3>2, <3>3 DEF ListOK
  <2>9. UpdateOK'
    BY DEF UpdateOK
  <2> QED BY <1>6, <1>7, <2>3, <2>4, <2>5, <2>6, <2>7, <2>8, <2>9 DEF RecoverInv
<1> QED BY <1>8, <1>9

(* The chunker saves a chunk that it did not find.                         *)
LEMMA BackupRecovers ==
    ASSUME ManagerInv, SoundManager, BackupStep
    PROVE  RecoverInv'
<1>1. PICK c \in Chunk : SaveNew(c)
  BY DEF BackupStep
<1>2. /\ mode = "backup" /\ UNCHANGED <<deltaChunkDB, lastByte, failed, mode, job>>
      /\ c \notin DOMAIN fp2ChunkDB
  BY <1>1 DEF BackupStep, Stays, deltaDisk, SaveNew, query
<1>3. Len(Content[c]) > 1 /\ "torn" \notin Faults /\ "noopen" \notin Faults
  BY DEF SoundManager
<1>4. WriteFits(c, Content[c]) \/ Rotate(c, Content[c])
  <2>1. ~Overrun(c, Content[c])
    <3>1. Len(Content[c]) \in Nat
      BY ContentAssumption
    <3> QED BY <1>3, <3>1 DEF Overrun
  <2> QED BY <1>1, <1>3, <2>1 DEF SaveNew, BeginSave, RotateUnopened, TornRotate, Torn
<1>5. Content[c] \in Seq(Cell) /\ Sanitise(Content[c]) = Form(c, Arg(c)) /\ Arg(c) = 0
      /\ Len(Content[c]) = Len(Form(c, Arg(c)))
  <2>1. Content[c] \in Seq(Byte)
    BY ContentAssumption
  <2>2. Arg(c) = 0
    BY <1>2 DEF Arg, query
  <2> QED BY <2>1, <2>2, StoredFacts DEF Form, Stored, Cell
<1>6. Arguments(c, Content[c]).count # 0
  <2>1. 1 % Wrap = 1
    BY SizeAssumption DEF SoundManager
  <2> QED BY <1>2, <2>1 DEF Arguments, query
<1>7. ~Settled
  <2>1. phase = "ready"
    BY <1>4 DEF WriteFits, Rotate, NeedsRotation
  <2> QED BY <1>2, <2>1 DEF Settled, IsOpen
<1> QED BY <1>2, <1>4, <1>5, <1>6, <1>7, SaveBeginRecovers

(* rewriteContainer saves again what it read.                              *)
LEMMA RewriteSaveRecovers ==
    ASSUME ManagerInv, SoundManager, RewriteSave
    PROVE  RecoverInv'
<1>1. PICK c : c = job.chunk
  OBVIOUS
<1>2. /\ mode = "rewrite" /\ job.step = "read" /\ phase = "ready"
      /\ UNCHANGED <<deltaChunkDB, lastByte, failed, mode>>
      /\ job'.step = "save" /\ job'.todo = job.todo /\ job'.list = job.list
      /\ WriteFits(c, Retrieved(c)) \/ Rotate(c, Retrieved(c))
  BY <1>1 DEF RewriteSave, BeginSave, RotateUnopened, SoundManager, Rewriting, Stays, deltaDisk,
              ManagerInv, TypesInv, DeltaTypeOK
<1>3. TypesInv /\ PlacesOK /\ BasesOK /\ ListOK
  BY DEF ManagerInv, RecoverInv
<1>4. c \in DOMAIN fp2ChunkDB /\ c \in Chunk
  BY <1>1, <1>2, <1>3, EntryForm DEF TypesInv, HandOK
<1>5. Arg(c) = fp2ChunkDB[c].deltaCount /\ Arg(c) \in Nat
      /\ (Arg(c) > 0 => Base[c] # NoBase) /\ fp2ChunkDB[c].length = Len(Form(c, Arg(c)))
  BY <1>3, <1>4, EntryForm DEF Arg, query, TypesInv, EntryAt
<1>6. Retrieved(c) \in Seq(Cell) /\ Len(Retrieved(c)) = Len(Form(c, Arg(c)))
  BY <1>3, <1>4, <1>5, RetrievedFacts DEF TypesInv
<1>7. /\ OpenAt(c) /\ IsOpen /\ (Settled => config # NoConfig)
  BY <1>2, <1>3, <1>4 DEF PlacesOK, IsOpen, ClosedAt
<1>8. \/ Sanitise(Retrieved(c)) = Form(c, Arg(c))
      \/ Arg(c) > 0 /\ c \in DOMAIN deltaChunkDB
      \/ c \in failed
  <2>1. CASE Pending(c)
    BY <1>5, <2>1 DEF Pending
  <2>3. CASE c \in AtRisk
    BY <1>1, <1>2, <1>3, <2>3 DEF ListOK, AtRisk
  <2>2. CASE ~Pending(c) /\ c \notin AtRisk
    <3>1. Retrieved(c) = Form(c, Arg(c))
      BY <1>3, <1>4, <1>5, <1>7, <2>2, OpenReads DEF Retrieved, In_
    <3> QED BY <1>4, <1>5, <3>1, FormFacts
  <2> QED BY <2>1, <2>2, <2>3
<1>9. /\ Arg(c) > 0 => Base[c] \in DOMAIN fp2ChunkDB
      /\ (\E d \in Chunk : Base[d] = c) => Arguments(c, Retrieved(c)).count # 0
  BY <1>3, <1>4, <1>5 DEF BasesOK, Arguments, query
<1> QED BY <1>1, <1>2, <1>4, <1>6, <1>7, <1>8, <1>9, SaveBeginRecovers

(* The steps of a saveChunk.                                               *)
LEMMA SaveChunkRecovers ==
    ASSUME ManagerInv, SoundManager, SaveChunkStep
    PROVE  RecoverInv'
<1>1. /\ TypesInv /\ PlacesOK /\ Apart /\ SizesOK /\ ConfigsOK /\ ModeOK /\ BasesOK
      /\ MovingOK /\ ListOK /\ StoreOK
  BY DEF ManagerInv, RecoverInv, TypesInv, StoreOK
<1>2. /\ last \in Nat /\ used \in Nat /\ body \in Buffer /\ MaxContainerSize \in Nat
      /\ readName # NoName => readName \in Nat
  BY <1>1, SizeAssumption DEF TypesInv, StoreTypes
<1>3. Saving => /\ saving.data \in Seq(Cell) /\ Len(saving.data) \in Nat
                /\ saving.chunk \in Chunk /\ saving.deltaCount \in Nat
                /\ Len(saving.data) = Len(Form(saving.chunk, saving.deltaCount))
                /\ Len(saving.data) < MaxContainerSize
                /\ mode \in {"backup", "rewrite"} /\ IsOpen
  <2> SUFFICES ASSUME Saving
               PROVE  /\ saving.data \in Seq(Cell) /\ Len(saving.data) \in Nat
                      /\ saving.chunk \in Chunk /\ saving.deltaCount \in Nat
                      /\ Len(saving.data) = Len(Form(saving.chunk, saving.deltaCount))
                      /\ Len(saving.data) < MaxContainerSize
                      /\ mode \in {"backup", "rewrite"} /\ IsOpen
    OBVIOUS
  <2>1. /\ saving.data \in Seq(Cell) /\ saving.chunk \in Chunk /\ saving.deltaCount \in Nat
        /\ Len(saving.data) = Len(Form(saving.chunk, saving.deltaCount))
        /\ saving.deltaCount > 0 => Base[saving.chunk] # NoBase
    BY <1>1 DEF TypesInv, SaveTypes
  <2>2. Len(saving.data) \in Nat /\ Len(saving.data) < MaxContainerSize
    BY <2>1, FormFacts
  <2>3. mode \in {"backup", "rewrite"} /\ IsOpen
    BY <1>1 DEF ModeOK, TypesInv, DeltaTypeOK, Mode, IsOpen, Saving
  <2> QED BY <2>1, <2>2, <2>3
<1>4. CASE WriteRotated /\ Stays /\ UNCHANGED job
  <2>1. /\ phase = "rotated" /\ phase' = "written" /\ used' = 0 /\ Saving
        /\ body' = memcpy(body, 0, saving.data)
        /\ UNCHANGED <<config, files, containerDB, fp2ChunkDB, last, readName, readBody,
                       saving, fresh, deltaChunkDB, lastByte, failed, mode, job>>
    BY <1>4 DEF WriteRotated, Stays, diskVars, cacheVars, historyVars, deltaDisk, Saving
  <2>9. AtRisk' = AtRisk
    BY <2>1 DEF AtRisk
  <2>2. \A i \in 1 .. Len(saving.data) : body'[0 + i] = saving.data[i]
    BY <1>2, <1>3, <2>1, MemcpyFacts
  <2>3. \A i \in 1 .. Len(saving.data) : body'[used' + i] = saving.data[i]
    BY <2>1, <2>2
  <2>4. PlacesOK'
    <3> SUFFICES ASSUME NEW d \in DOMAIN fp2ChunkDB
                 PROVE  OpenAt(d)' /\ (Settled' => ClosedAt(d)')
      BY <2>1 DEF PlacesOK
    <3>1. /\ OpenAt(d) /\ (Settled => ClosedAt(d)) /\ In_(d) # last
          /\ Settled' => Settled
      BY <1>1, <1>3, <2>1 DEF PlacesOK, MovingOK, Settled, IsOpen
    <3>2. OpenAt(d)'
      BY <2>1, <2>9, <3>1 DEF OpenAt, InFile, Has, Pending, In_, End
    <3>3. ClosedAt(d) => ClosedAt(d)'
      BY <2>1, <2>9 DEF ClosedAt, InFile, Has, Pending, In_, End
    <3> QED BY <3>1, <3>2, <3>3
  <2>5. Apart' /\ BasesOK'
    BY <1>1, <2>1 DEF Apart, BasesOK, In_, End
  <2>6. SizesOK' /\ ConfigsOK' /\ ModeOK'
    BY <1>1, <2>1 DEF SizesOK, ConfigsOK, ModeOK, IsOpen, Settled, Saving, Phase
  <2>7. MovingOK'
    BY <1>1, <2>1, <2>3 DEF MovingOK
  <2>8. ListOK' /\ UpdateOK'
    BY <1>1, <1>3, <2>1, <2>9 DEF ListOK, UpdateOK, In_
  <2> QED BY <2>4, <2>5, <2>6, <2>7, <2>8 DEF RecoverInv
<1>5. CASE /\ IndexChunk
           /\ \E b \in LastByte : /\ b = NUL \/ MoreRisk
                                 /\ lastByte' = insert(lastByte, saving.chunk, b)
           /\ UNCHANGED <<deltaDisk, mode, compressor, job, processes, failed>>
  <2>1. /\ phase = "written" /\ phase' = "indexed" /\ Saving
        /\ UNCHANGED <<config, files, containerDB, last, used, body, readName, readBody,
                       saving, fresh, deltaChunkDB, failed, mode, job>>
    BY <1>5 DEF IndexChunk, cacheVars, historyVars, deltaDisk, Saving
  <2>2. /\ DOMAIN fp2ChunkDB' = DOMAIN fp2ChunkDB \cup {saving.chunk}
        /\ fp2ChunkDB'[saving.chunk] = SavingKey
        /\ \A d \in DOMAIN fp2ChunkDB : d # saving.chunk => fp2ChunkDB'[d] = fp2ChunkDB[d]
    BY <1>5, IndexChunkDB
  <2>3. PICK s : s = saving.chunk
    OBVIOUS
  <2>16. /\ DOMAIN lastByte' = DOMAIN lastByte \cup {s}
         /\ \A d \in DOMAIN lastByte : d # s => lastByte'[d] = lastByte[d]
    BY <1>5, <2>3 DEF insert
  <2>17. \A d \in DOMAIN fp2ChunkDB : d # s => (d \in AtRisk' <=> d \in AtRisk)
    BY <1>1, <2>1, <2>2, <2>3, <2>16 DEF AtRisk, BasesOK
  <2>4. /\ fp2ChunkDB'[s].containerName = last /\ fp2ChunkDB'[s].offset = used
        /\ fp2ChunkDB'[s].length = Len(saving.data)
        /\ fp2ChunkDB'[s].count = saving.count /\ fp2ChunkDB'[s].deltaCount = saving.deltaCount
    BY <2>2, <2>3 DEF SavingKey
  <2>5. Settled' = FALSE /\ IsOpen' /\ IsOpen
    BY <2>1 DEF Settled, IsOpen
  <2>6. ASSUME NEW d \in DOMAIN fp2ChunkDB, d # s
        PROVE  /\ OpenAt(d) /\ fp2ChunkDB'[d] = fp2ChunkDB[d] /\ OpenAt(d)'
               /\ In_(d)' = In_(d) /\ End(d)' = End(d)
               /\ In_(d) = last => End(d) <= used
    <3>1. OpenAt(d) /\ fp2ChunkDB'[d] = fp2ChunkDB[d]
      BY <1>1, <2>2, <2>3, <2>5, <2>6 DEF PlacesOK
    <3>2. In_(d) = last => End(d) <= used
      BY <2>1, <3>1 DEF OpenAt
    <3> QED BY <2>1, <2>6, <2>17, <3>1, <3>2 DEF OpenAt, InFile, Has, Pending, In_, End
  <2>7. OpenAt(s)'
    <3>1. Has(body, s)'
      <4>1. \A i \in 1 .. Len(saving.data) : body[used + i] = saving.data[i]
        BY <1>1, <2>1 DEF MovingOK
      <4>2. \/ saving.data = Form(s, saving.deltaCount)
            \/ saving.deltaCount > 0 /\ s \in DOMAIN deltaChunkDB
            \/ s \in AtRisk'
        BY <1>1, <2>1, <2>3 DEF MovingOK, AtRisk
      <4> QED BY <2>1, <2>4, <4>1, <4>2 DEF Has, Pending
    <3>2. readName # last
      <4>1. readName # NoName => readName < last
        BY <1>1 DEF ModeOK
      <4> QED BY <1>2, <4>1, SentinelAssumption
    <3>3. In_(s)' = last /\ last <= last
      BY <1>2, <2>4 DEF In_
    <3> QED BY <2>1, <2>3, <3>1, <3>2, <3>3 DEF OpenAt
  <2>8. PlacesOK'
    BY <2>2, <2>3, <2>5, <2>6, <2>7 DEF PlacesOK
  <2>9. Apart'
    <3> SUFFICES ASSUME NEW c \in DOMAIN fp2ChunkDB', NEW d \in DOMAIN fp2ChunkDB',
                        c # d, In_(c)' = In_(d)'
                 PROVE  \/ End(c)' <= fp2ChunkDB'[d].offset
                        \/ End(d)' <= fp2ChunkDB'[c].offset
      BY DEF Apart
    <3>1. CASE c = s
      BY <2>2, <2>3, <2>4, <2>6, <3>1 DEF In_
    <3>2. CASE d = s
      BY <2>2, <2>3, <2>4, <2>6, <3>2 DEF In_
    <3>3. CASE c # s /\ d # s
      BY <1>1, <2>2, <2>3, <2>6, <3>3 DEF Apart
    <3> QED BY <3>1, <3>2, <3>3
  <2>10. SizesOK' /\ ConfigsOK'
    BY <1>1, <2>1, <2>5 DEF SizesOK, ConfigsOK
  <2>11. ModeOK'
    BY <1>1, <2>1 DEF ModeOK, Saving, Phase
  <2>12. BasesOK'
    <3>1. ASSUME NEW c \in DOMAIN fp2ChunkDB'
          PROVE  /\ (\E d \in Chunk : Base[d] = c) => fp2ChunkDB'[c].count # 0
                 /\ fp2ChunkDB'[c].deltaCount > 0 => Base[c] \in DOMAIN fp2ChunkDB'
                 /\ c \in DOMAIN lastByte'
      <4>1. CASE c = s
        BY <1>1, <2>1, <2>2, <2>3, <2>4, <2>16, <4>1 DEF MovingOK
      <4>2. CASE c # s
        <5>1. c \in DOMAIN fp2ChunkDB /\ fp2ChunkDB'[c] = fp2ChunkDB[c]
          BY <2>2, <2>3, <4>2
        <5> QED BY <1>1, <2>2, <2>16, <5>1 DEF BasesOK
      <4> QED BY <4>1, <4>2
    <3> QED BY <1>1, <2>1, <2>2, <3>1 DEF BasesOK
  <2>13. MovingOK'
    BY <2>1, <2>2 DEF MovingOK, SavingKey
  <2>14. ListOK'
    <3> SUFFICES ASSUME mode = "rewrite" PROVE ListOK'
      BY <2>1 DEF ListOK
    <3>3. job.step # "read"
      BY <1>1, <2>1 DEF ModeOK
    <3>1. \A n \in job.list : n < last /\ n # last
      BY <1>1, <1>2 DEF ListOK, TypesInv, DeltaTypeOK
    <3>2. \A d \in DOMAIN fp2ChunkDB' : In_(d)' \in job'.list =>
             d \in AtRisk' \/ d \in job'.todo
      <4> SUFFICES ASSUME NEW d \in DOMAIN fp2ChunkDB', In_(d)' \in job.list
                   PROVE  d \in AtRisk' \/ d \in job.todo
        BY <2>1
      <4>1. d # s
        BY <2>4, <3>1 DEF In_
      <4>2. d \in DOMAIN fp2ChunkDB /\ In_(d) \in job.list
        BY <2>2, <2>3, <2>6, <4>1
      <4> QED BY <1>1, <2>1, <2>3, <2>17, <3>3, <4>1, <4>2 DEF ListOK
    <3> QED BY <2>1, <3>1, <3>2, <3>3 DEF ListOK
  <2>15. UpdateOK'
    BY <1>3, <2>1 DEF UpdateOK
  <2> QED BY <2>8, <2>9, <2>10, <2>11, <2>12, <2>13, <2>14, <2>15 DEF RecoverInv
<1>6. CASE /\ AdvanceUsed
           /\ job' = [job EXCEPT !.step = IF mode = "rewrite" THEN "next" ELSE @]
           /\ Stays
  <2>1. /\ phase = "indexed" /\ phase' = "ready" /\ Saving
        /\ used' = used + Len(saving.data) /\ fresh' = fresh \cup {saving.chunk}
        /\ UNCHANGED <<config, files, containerDB, fp2ChunkDB, last, body, readName, readBody,
                       deltaChunkDB, lastByte, failed, mode>>
    BY <1>6 DEF AdvanceUsed, Stays, diskVars, cacheVars, deltaDisk, Saving
  <2>2. /\ job'.todo = job.todo /\ job'.list = job.list /\ job'.chunk = job.chunk
        /\ mode = "rewrite" => job'.step = "next"
        /\ mode # "rewrite" => job'.step = job.step
    BY <1>1, <1>6 DEF TypesInv, DeltaTypeOK
  <2>10. AtRisk' = AtRisk
    BY <2>1 DEF AtRisk
  <2>3. Settled' = FALSE /\ fresh' # {} /\ IsOpen /\ IsOpen'
    BY <2>1 DEF Settled, IsOpen
  <2>4. PlacesOK'
    <3> SUFFICES ASSUME NEW d \in DOMAIN fp2ChunkDB PROVE OpenAt(d)'
      BY <2>1, <2>3 DEF PlacesOK
    <3>1. OpenAt(d) /\ End(d) \in Nat
      BY <1>1, <2>3, EntryForm DEF PlacesOK, TypesInv
    <3>2. In_(d) = last => End(d) <= used + Len(saving.data)
      <4>1. CASE d = saving.chunk
        BY <1>1, <1>2, <1>3, <2>1, <4>1 DEF MovingOK, SavingKey, End
      <4>2. CASE d # saving.chunk
        BY <1>2, <1>3, <2>1, <3>1, <4>2 DEF OpenAt
      <4> QED BY <4>1, <4>2
    <3> QED BY <2>1, <2>10, <3>1, <3>2 DEF OpenAt, InFile, Has, Pending, In_, End
  <2>5. Apart' /\ BasesOK'
    BY <1>1, <2>1 DEF Apart, BasesOK, In_, End
  <2>6. SizesOK' /\ ConfigsOK'
    BY <1>1, <2>1, <2>3 DEF SizesOK, ConfigsOK
  <2>7. ModeOK'
    BY <1>1, <1>3, <2>1, <2>2, <2>3 DEF ModeOK, Saving, Phase
  <2>8. MovingOK'
    BY <2>1 DEF MovingOK
  <2>9. ListOK' /\ UpdateOK'
    BY <1>1, <1>3, <2>1, <2>2, <2>10 DEF ListOK, UpdateOK, In_, ModeOK
  <2> QED BY <2>4, <2>5, <2>6, <2>7, <2>8, <2>9 DEF RecoverInv
<1> QED BY <1>4, <1>5, <1>6 DEF SaveChunkStep

(* The entry cannot be inserted: the object goes back to where the next    *)
(* saveChunk begins, and rewriteContainer has a chunk more at risk.        *)
LEMMA SaveFailsRecovers ==
    ASSUME ManagerInv, SaveChunkFails
    PROVE  RecoverInv'
<1>1. /\ TypesInv /\ PlacesOK /\ Apart /\ SizesOK /\ ConfigsOK /\ ModeOK /\ BasesOK /\ ListOK
  BY DEF ManagerInv, RecoverInv
<1>2. /\ phase = "written" /\ phase' = "ready" /\ Saving /\ mode \in {"backup", "rewrite"}
      /\ UNCHANGED <<config, files, containerDB, fp2ChunkDB, last, used, body, readName,
                     readBody, fresh, deltaChunkDB, lastByte, mode>>
      /\ failed \subseteq failed'
      /\ mode = "rewrite" => saving.chunk \in failed'
  BY DEF SaveChunkFails, IndexFails, diskVars, cacheVars, historyVars, deltaDisk, Saving
<1>3. /\ job'.todo = job.todo /\ job'.list = job.list
      /\ mode = "rewrite" => job'.step = "next"
      /\ mode = "backup" => job'.step = "closed"
  BY <1>1 DEF SaveChunkFails, TypesInv, DeltaTypeOK
<1>4. (Settled' <=> Settled) /\ IsOpen /\ IsOpen'
  BY <1>2 DEF Settled, IsOpen
<1>5. AtRisk \subseteq AtRisk' /\ (mode = "rewrite" => saving.chunk \in AtRisk')
  BY <1>2 DEF AtRisk
<1>6. PlacesOK'
  <2> SUFFICES ASSUME NEW d \in DOMAIN fp2ChunkDB
               PROVE  OpenAt(d)' /\ (Settled => ClosedAt(d)')
    BY <1>2, <1>4 DEF PlacesOK
  <2>1. OpenAt(d) /\ (Settled => ClosedAt(d))
    BY <1>1, <1>4 DEF PlacesOK
  <2>2. /\ In_(d)' = In_(d) /\ End(d)' = End(d) /\ (InFile(d) => InFile(d)')
        /\ Has(body, d) => Has(body, d)'
        /\ Has(readBody, d) => Has(readBody, d)'
    BY <1>2, <1>5 DEF InFile, Has, Pending, In_, End
  <2>3. OpenAt(d)'
    BY <1>2, <2>1, <2>2 DEF OpenAt
  <2>4. ClosedAt(d) => ClosedAt(d)'
    BY <1>2, <2>2 DEF ClosedAt
  <2> QED BY <2>1, <2>3, <2>4
<1>7. Apart' /\ BasesOK'
  BY <1>1, <1>2 DEF Apart, BasesOK, In_, End
<1>8. SizesOK' /\ ConfigsOK' /\ MovingOK'
  BY <1>1, <1>2, <1>4 DEF SizesOK, ConfigsOK, MovingOK
<1>9. ModeOK'
  BY <1>1, <1>2, <1>3 DEF ModeOK, Phase, Saving
<1>10. ListOK' /\ UpdateOK'
  <2>1. mode = "rewrite" => job.step # "read"
    BY <1>1, <1>2 DEF ModeOK
  <2> QED BY <1>1, <1>2, <1>3, <1>5, <2>1 DEF ListOK, UpdateOK, In_
<1> QED BY <1>6, <1>7, <1>8, <1>9, <1>10 DEF RecoverInv

(* The destructor.                                                         *)
LEMMA CloseRecovers ==
    ASSUME ManagerInv, SoundManager, CloseStep
    PROVE  RecoverInv'
<1>1. /\ TypesInv /\ PlacesOK /\ Apart /\ SizesOK /\ ConfigsOK /\ ModeOK /\ BasesOK
      /\ MovingOK /\ ListOK
  BY DEF ManagerInv, RecoverInv
<1>2. CASE /\ \/ mode = "backup"
              \/ mode = "compress" /\ job.step = "closed"
              \/ mode = "rewrite" /\ job.step = "removed"
           /\ BeginClose
           /\ Stays /\ UNCHANGED job
  <2>1. /\ phase = "ready" /\ phase' = "closing"
        /\ UNCHANGED <<config, files, containerDB, fp2ChunkDB, last, used, body, readName,
                       readBody, saving, fresh, deltaChunkDB, lastByte, failed, mode, job>>
    BY <1>2 DEF BeginClose, Stays, diskVars, cacheVars, historyVars, deltaDisk
  <2>8. AtRisk' = AtRisk
    BY <2>1 DEF AtRisk
  <2>2. (Settled' <=> Settled) /\ IsOpen /\ IsOpen'
    BY <2>1 DEF Settled, IsOpen
  <2>3. PlacesOK'
    BY <1>1, <2>1, <2>2, <2>8 DEF PlacesOK, OpenAt, ClosedAt, InFile, Has, Pending, In_, End
  <2>4. Apart' /\ BasesOK' /\ SizesOK' /\ ConfigsOK'
    BY <1>1, <2>1, <2>2 DEF Apart, BasesOK, SizesOK, ConfigsOK, In_, End
  <2>5. ModeOK' /\ MovingOK' /\ ListOK' /\ UpdateOK'
    BY <1>1, <1>2, <2>1, <2>8 DEF ModeOK, MovingOK, ListOK, UpdateOK, Saving, Phase, In_
  <2> QED BY <2>3, <2>4, <2>5 DEF RecoverInv
<1>3. CASE ConfigStep /\ Stays /\ UNCHANGED job
  <2>1. /\ phase = "closing" /\ phase' = "configured"
        /\ config' = [last |-> last, used |-> used]
        /\ UNCHANGED <<files, containerDB, fp2ChunkDB, last, used, body, readName,
                       readBody, saving, fresh, deltaChunkDB, lastByte, failed, mode, job>>
    BY <1>3 DEF ConfigStep, WriteConfig, WriteConfigUnopened, SoundManager, Stays, diskVars, cacheVars, historyVars, deltaDisk
  <2>8. AtRisk' = AtRisk
    BY <2>1 DEF AtRisk
  <2>2. (Settled' <=> Settled) /\ IsOpen /\ IsOpen'
    BY <2>1 DEF Settled, IsOpen
  <2>3. config'.last = last /\ config'.used = used /\ config' # NoConfig /\ last \in Nat
    <3>1. last \in Nat /\ used \in Nat
      BY <1>1, SizeAssumption DEF TypesInv, StoreTypes
    <3> QED BY <2>1, <3>1, SentinelAssumption
  <2>4. PlacesOK'
    <3> SUFFICES ASSUME NEW d \in DOMAIN fp2ChunkDB
                 PROVE  OpenAt(d)' /\ (Settled => ClosedAt(d)')
      BY <2>1, <2>2 DEF PlacesOK
    <3>1. OpenAt(d) /\ (Settled => ClosedAt(d))
      BY <1>1, <2>2 DEF PlacesOK
    <3>2. OpenAt(d)'
      BY <2>1, <2>8, <3>1 DEF OpenAt, InFile, Has, Pending, In_, End
    <3>3. InFile(d) => InFile(d)'
      BY <2>1, <2>8 DEF InFile, Has, Pending, In_, End
    <3>4. Settled => ClosedAt(d)'
      BY <2>1, <2>3, <3>1, <3>3 DEF OpenAt, ClosedAt, In_, End
    <3> QED BY <3>2, <3>4
  <2>5. Apart' /\ BasesOK'
    BY <1>1, <2>1 DEF Apart, BasesOK, In_, End
  <2>6. SizesOK' /\ ConfigsOK'
    BY <1>1, <2>1, <2>2, <2>3 DEF SizesOK, ConfigsOK
  <2>7. ModeOK' /\ MovingOK' /\ ListOK' /\ UpdateOK'
    BY <1>1, <2>1, <2>8 DEF ModeOK, MovingOK, ListOK, UpdateOK, Saving, Phase, In_
  <2> QED BY <2>4, <2>5, <2>6, <2>7 DEF RecoverInv
<1>4. CASE SaveLastStep /\ Ends /\ UNCHANGED failed
  <2>1. /\ phase = "configured" /\ phase' = "closed" /\ fresh' = {} /\ readName' = NoName
        /\ mode' = "none" /\ job' = NoJob /\ IsOpen /\ ~IsOpen'
        /\ files' = insert(files, last, Bytes(body, 0, used))
        /\ containerDB' = insert(containerDB, last, used)
        /\ UNCHANGED <<config, fp2ChunkDB, deltaChunkDB, lastByte, failed>>
    BY <1>4 DEF SaveLastStep, SaveLast, SaveLastUnopened, SoundManager, saveTOFile, Gone, Ends, deltaDisk, IsOpen
  <2>8. AtRisk' = AtRisk
    BY <2>1 DEF AtRisk
  <2>2. config = [last |-> last, used |-> used] /\ last \in Nat /\ used \in Nat
    BY <1>1, <2>1, SizeAssumption DEF ConfigsOK, TypesInv, StoreTypes
  <2>3. config # NoConfig /\ config.last = last /\ config.used = used
    BY <2>2, SentinelAssumption
  <2>4. PlacesOK'
    <3> SUFFICES ASSUME NEW d \in DOMAIN fp2ChunkDB PROVE ClosedAt(d)'
      BY <2>1 DEF PlacesOK
    <3>1. OpenAt(d)
      BY <1>1, <2>1 DEF PlacesOK
    <3>2. InFile(d)'
      BY <1>1, <2>1, <2>8, <3>1, FileSaved
    <3> QED BY <2>1, <2>3, <3>1, <3>2 DEF OpenAt, ClosedAt, In_, End
  <2>5. Apart' /\ BasesOK'
    BY <1>1, <2>1 DEF Apart, BasesOK, In_, End
  <2>6. SizesOK' /\ ConfigsOK'
    <3>1. ASSUME NEW n \in DOMAIN containerDB' PROVE n <= config.last
      <4>1. n \in DOMAIN containerDB \/ n = last
        BY <2>1 DEF insert
      <4> QED BY <1>1, <2>1, <2>2, <2>3, <4>1 DEF SizesOK
    <3> QED BY <2>1, <2>3, <3>1 DEF SizesOK, ConfigsOK
  <2>7. ModeOK' /\ MovingOK' /\ ListOK' /\ UpdateOK'
    BY <2>1 DEF ModeOK, MovingOK, ListOK, UpdateOK, Saving, Phase, NoJob, Job
  <2> QED BY <2>4, <2>5, <2>6, <2>7 DEF RecoverInv
<1> QED BY <1>2, <1>3, <1>4 DEF CloseStep

(* DeltaCompressor only adds deltas, whose bases are in the index.         *)
LEMMA CompressRecovers ==
    ASSUME ManagerInv, CloseCompressor \/ \E c \in Chunk : saveDeltaChunk(c)
    PROVE  RecoverInv'
<1>1. RecoverInv /\ ModeOK /\ BasesOK
  BY DEF ManagerInv, RecoverInv
<1>2. /\ UNCHANGED <<vars, lastByte, failed, mode>> /\ mode = "compress" /\ phase = "ready"
      /\ job.step = "begin" /\ job'.step \in {"begin", "closed"} /\ job'.list = job.list
      /\ DOMAIN deltaChunkDB \subseteq DOMAIN deltaChunkDB'
      /\ \A c \in DOMAIN deltaChunkDB' : Base[c] \in DOMAIN fp2ChunkDB
  <2>1. CASE CloseCompressor
    BY <1>1, <2>1 DEF CloseCompressor, BasesOK, ManagerInv, TypesInv, DeltaTypeOK
  <2>2. CASE \E c \in Chunk : saveDeltaChunk(c)
    BY <1>1, <2>2 DEF saveDeltaChunk, BasesOK, insert, query
  <2> QED BY <2>1, <2>2
<1>3. StoreParts'
  BY <1>1, <1>2, QuietRecovers
<1>4. UNCHANGED <<phase, last, readName, fresh>>
  BY <1>2 DEF vars, objectVars, cacheVars, historyVars
<1>5. ModeOK' /\ ListOK' /\ UpdateOK'
  BY <1>1, <1>2, <1>4 DEF ModeOK, ListOK, UpdateOK, Saving
<1> QED BY <1>3, <1>5 DEF StoreParts, RecoverInv

(* While updateContainer is at work nothing is being saved, and everything *)
(* is where the next object will find it.                                  *)
LEMMA UpdateQuiet ==
    ASSUME ManagerInv, mode = "update"
    PROVE  /\ phase = "ready" /\ fresh = {} /\ readName = NoName /\ Settled /\ IsOpen
           /\ \A c \in DOMAIN fp2ChunkDB :
                 /\ OpenAt(c) /\ ClosedAt(c) /\ In_(c) # readName
                 /\ In_(c) # ManagerLast => In_(c) # last
<1>1. TypesInv /\ ModeOK /\ PlacesOK /\ ConfigsOK
  BY DEF ManagerInv, RecoverInv
<1>2. phase = "ready" /\ fresh = {} /\ readName = NoName
  BY <1>1 DEF ModeOK
<1>3. Settled /\ IsOpen
  BY <1>2 DEF Settled, IsOpen
<1>4. ASSUME NEW c \in DOMAIN fp2ChunkDB
      PROVE  /\ OpenAt(c) /\ ClosedAt(c) /\ In_(c) # readName
             /\ In_(c) # ManagerLast => In_(c) # last
  <2>1. OpenAt(c) /\ ClosedAt(c) /\ In_(c) # readName /\ In_(c) \in Nat
    BY <1>1, <1>2, <1>3, EntryForm DEF PlacesOK, TypesInv
  <2>2. config # NoConfig /\ In_(c) <= config.last
    BY <2>1 DEF ClosedAt
  <2>3. config.last \in Nat /\ last \in Nat /\ config.last <= last
    BY <1>1, <1>3, <2>2 DEF ConfigsOK, TypesInv, StoreTypes
  <2> QED BY <2>1, <2>2, <2>3 DEF ManagerLast
<1> QED BY <1>2, <1>3, <1>4

(* The steps of updateContainer before an entry changes.                   *)
LEMMA UpdateSizeRecovers ==
    ASSUME ManagerInv, UpdateBegin \/ \E c \in Chunk : UpdateSkip(c) \/ UpdateSize(c)
    PROVE  RecoverInv'
<1>1. RecoverInv /\ ModeOK /\ BasesOK /\ UpdateOK /\ StoreParts
  BY DEF ManagerInv, RecoverInv, StoreParts
<1>2. /\ mode = "update" /\ UNCHANGED <<config, files, objectVars, fresh, mode, lastByte,
                                        fp2ChunkDB, deltaChunkDB, failed>>
      /\ DOMAIN containerDB' = DOMAIN containerDB
  <2>1. CASE UpdateBegin \/ \E c \in Chunk : UpdateSkip(c)
    BY <2>1 DEF UpdateBegin, UpdateSkip, Updating, vars, diskVars, historyVars, Stays, deltaDisk
  <2>2. CASE \E c \in Chunk : UpdateSize(c)
    <3>1. PICK c \in Chunk : UpdateSize(c)
      BY <2>2
    <3>2. PICK k, v : k \in DOMAIN containerDB /\ containerDB' = insert(containerDB, k, v)
      BY <3>1 DEF UpdateSize, SizeKnown
    <3>3. DOMAIN containerDB' = DOMAIN containerDB
      BY <3>2 DEF insert
    <3> QED BY <3>1, <3>3 DEF UpdateSize, Updating, historyVars, Stays, deltaDisk
  <2> QED BY <2>1, <2>2
<1>3. StoreParts'
  <2>1. \A c \in DOMAIN fp2ChunkDB : SamePlace(c)
    BY <1>2 DEF SamePlace
  <2> QED BY <1>1, <1>2, <2>1, QuietParts DEF BasesOK
<1>4. UNCHANGED <<phase, last, readName>>
  BY <1>2 DEF objectVars, cacheVars
<1>5. /\ job'.step \in {"next", "sized"}
      /\ job'.step = "sized" => job'.chunk \in DOMAIN fp2ChunkDB /\ In_(job'.chunk) # last
  <2>1. job \in JobType
    BY DEF ManagerInv, TypesInv, DeltaTypeOK, JobType
  <2>2. CASE UpdateBegin \/ \E c \in Chunk : UpdateSkip(c)
    BY <2>1, <2>2 DEF UpdateBegin, UpdateSkip, Updating, JobType
  <2>3. ASSUME NEW c \in Chunk, UpdateSize(c)
        PROVE  /\ job'.step = "sized" /\ job'.chunk = c
               /\ c \in DOMAIN fp2ChunkDB /\ In_(c) # last
    <3>1. job'.step = "sized" /\ job'.chunk = c
      BY <2>1, <2>3 DEF UpdateSize, JobType
    <3>2. c \in DOMAIN fp2ChunkDB /\ lastByte[c] = NUL
      BY <2>3 DEF UpdateSize, Postponed, SizeKnown, query
    <3>3. In_(c) # ManagerLast
      BY <2>3, <3>2 DEF UpdateSize, Postponed, In_
    <3> QED BY <1>2, <3>1, <3>2, <3>3, UpdateQuiet
  <2> QED BY <2>2, <2>3
<1>6. UpdateOK'
  BY <1>2, <1>4, <1>5 DEF UpdateOK, In_
<1>7. ModeOK' /\ ListOK'
  BY <1>1, <1>2, <1>4, <1>5 DEF ModeOK, ListOK, Saving
<1> QED BY <1>3, <1>6, <1>7 DEF StoreParts, RecoverInv

(* The entry becomes that of the delta before its bytes do: until then     *)
(* updateContainer can write them again.                                   *)
LEMMA UpdateIndexRecovers ==
    ASSUME ManagerInv, UpdateIndex
    PROVE  RecoverInv'
<1>1. /\ TypesInv /\ PlacesOK /\ Apart /\ SizesOK /\ ConfigsOK /\ ModeOK /\ BasesOK /\ UpdateOK
  BY DEF ManagerInv, RecoverInv
<1>2. /\ mode = "update" /\ job.step = "sized"
      /\ UNCHANGED <<config, files, containerDB, objectVars, fresh, mode, lastByte, deltaChunkDB,
                     failed>>
      /\ job'.step = "indexed" /\ job'.chunk = job.chunk
  BY <1>1 DEF UpdateIndex, Updating, historyVars, Stays, deltaDisk, TypesInv, DeltaTypeOK
<1>3. UNCHANGED <<phase, last, used, body, readName, readBody, saving>>
  BY <1>2 DEF objectVars, cacheVars
<1>4. PICK c : c = job.chunk
  OBVIOUS
<1>5. /\ c \in DOMAIN fp2ChunkDB /\ c \in DOMAIN deltaChunkDB /\ In_(c) # last
  BY <1>1, <1>2, <1>4 DEF TypesInv, HandOK, UpdateOK
<1>6. /\ DOMAIN fp2ChunkDB' = DOMAIN fp2ChunkDB
      /\ \A d \in DOMAIN fp2ChunkDB : d # c => fp2ChunkDB'[d] = fp2ChunkDB[d]
      /\ In_(c)' = In_(c)
      /\ fp2ChunkDB'[c].offset = fp2ChunkDB[c].offset
      /\ fp2ChunkDB'[c].count = fp2ChunkDB[c].count
      /\ fp2ChunkDB'[c].deltaCount > 0
      /\ End(c)' <= End(c)
  BY <1>1, <1>4, UpdateIndexTypes DEF In_, End
<1>7. /\ phase = "ready" /\ fresh = {} /\ Settled /\ Settled' /\ IsOpen /\ IsOpen'
      /\ \A d \in DOMAIN fp2ChunkDB : OpenAt(d) /\ ClosedAt(d) /\ In_(d) # readName
  BY <1>2, <1>3, UpdateQuiet DEF Settled, IsOpen
<1>8. End(c) \in Nat /\ End(c)' \in Nat
  <2>1. End(c) \in Nat
    BY <1>1, <1>5, EntryForm DEF TypesInv
  <2>2. EntriesOK'
    BY <1>1, UpdateIndexTypes DEF StoreOK
  <2>3. fp2ChunkDB'[c] \in DeltaKey
    BY <1>5, <1>6, <2>2 DEF EntriesOK, EntryAt
  <2>4. fp2ChunkDB'[c].offset + fp2ChunkDB'[c].length \in Nat
    BY <2>3 DEF DeltaKey
  <2> QED BY <2>1, <2>4 DEF End
<1>18. AtRisk' = AtRisk
  BY <1>2, <1>6 DEF AtRisk
<1>9. Pending(c)'
  BY <1>2, <1>5, <1>6 DEF Pending
<1>10. InFile(c)' /\ OpenAt(c)' /\ ClosedAt(c)'
  <2>1. /\ InFile(c) /\ In_(c) <= last /\ config # NoConfig /\ In_(c) <= config.last
        /\ In_(c) = config.last => End(c) <= config.used
    BY <1>5, <1>7 DEF OpenAt, ClosedAt
  <2>2. c \notin AtRisk => Len(files[In_(c)]) \in Nat
    BY <1>1, <2>1 DEF InFile, TypesInv, StoreTypes, IsStore
  <2>3. config.used \in Nat
    BY <1>1, <2>1, SizeAssumption DEF TypesInv, StoreTypes
  <2>4. PICK e : e = End(c)'
    OBVIOUS
  <2>5. (c \notin AtRisk => e <= Len(files[In_(c)])) /\ (In_(c) = config.last => e <= config.used)
    BY <1>6, <1>8, <2>1, <2>2, <2>3, <2>4 DEF InFile
  <2>6. InFile(c)'
    BY <1>2, <1>6, <1>9, <1>18, <2>1, <2>4, <2>5 DEF InFile, Has
  <2>7. OpenAt(c)'
    BY <1>3, <1>5, <1>6, <1>7, <2>1, <2>6 DEF OpenAt
  <2>8. ClosedAt(c)'
    BY <1>2, <1>6, <2>1, <2>4, <2>5, <2>6 DEF ClosedAt
  <2> QED BY <2>6, <2>7, <2>8
<1>11. ASSUME NEW d \in DOMAIN fp2ChunkDB, d # c
       PROVE  /\ OpenAt(d)' /\ ClosedAt(d)' /\ In_(d)' = In_(d) /\ End(d)' = End(d)
              /\ fp2ChunkDB'[d].offset = fp2ChunkDB[d].offset
  <2>1. fp2ChunkDB'[d] = fp2ChunkDB[d] /\ OpenAt(d) /\ ClosedAt(d)
    BY <1>6, <1>7, <1>11
  <2> QED BY <1>2, <1>3, <1>18, <2>1 DEF OpenAt, ClosedAt, InFile, Has, Pending, In_, End
<1>12. PlacesOK'
  BY <1>6, <1>10, <1>11 DEF PlacesOK
<1>13. Apart'
  <2> SUFFICES ASSUME NEW d \in DOMAIN fp2ChunkDB, NEW e \in DOMAIN fp2ChunkDB,
                      d # e, In_(d)' = In_(e)'
               PROVE  \/ End(d)' <= fp2ChunkDB'[e].offset
                      \/ End(e)' <= fp2ChunkDB'[d].offset
    BY <1>6 DEF Apart
  <2>1. \/ End(d) <= fp2ChunkDB[e].offset
        \/ End(e) <= fp2ChunkDB[d].offset
    BY <1>1, <1>6, <1>11 DEF Apart
  <2>2. fp2ChunkDB[d].offset \in Nat /\ fp2ChunkDB[e].offset \in Nat
    BY <1>1, EntryForm DEF TypesInv
  <2>3. PICK n : n = End(c)'
    OBVIOUS
  <2> QED BY <1>6, <1>8, <1>11, <2>1, <2>2, <2>3
<1>14. SizesOK' /\ ConfigsOK' /\ MovingOK'
  BY <1>1, <1>2, <1>3, <1>7 DEF SizesOK, ConfigsOK, MovingOK
<1>15. BasesOK'
  <2>1. Base[c] \in DOMAIN fp2ChunkDB
    BY <1>1, <1>5 DEF BasesOK
  <2> QED BY <1>1, <1>2, <1>6, <2>1 DEF BasesOK
<1>16. ModeOK' /\ ListOK'
  BY <1>1, <1>2, <1>3 DEF ModeOK, ListOK, Saving
<1>17. UpdateOK'
  BY <1>2, <1>3, <1>4, <1>5, <1>6 DEF UpdateOK
<1> QED BY <1>12, <1>13, <1>14, <1>15, <1>16, <1>17 DEF RecoverInv

(* Or it does not, and the chunk is at risk.                               *)
LEMMA IndexFailsRecovers ==
    ASSUME ManagerInv, UpdateIndexFails
    PROVE  RecoverInv'
<1>1. TypesInv /\ ModeOK /\ BasesOK /\ UpdateOK /\ RecoverInv
  BY DEF ManagerInv, RecoverInv
<1>2. /\ mode = "update" /\ job.step = "sized"
      /\ UNCHANGED <<vars, lastByte, mode, deltaChunkDB>>
      /\ failed' = failed \cup {job.chunk}
      /\ job'.step = "indexed" /\ job'.chunk = job.chunk
  BY <1>1 DEF UpdateIndexFails, Updating, deltaDisk, TypesInv, DeltaTypeOK
<1>3. StoreParts'
  BY <1>1, <1>2, QuietRecovers DEF BasesOK
<1>4. UNCHANGED <<fp2ChunkDB, phase, last, readName, fresh>>
  BY <1>2 DEF vars, diskVars, objectVars, cacheVars, historyVars
<1>5. ModeOK' /\ ListOK' /\ UpdateOK'
  BY <1>1, <1>2, <1>4 DEF ModeOK, ListOK, UpdateOK, Saving, In_
<1> QED BY <1>3, <1>5 DEF StoreParts, RecoverInv

(* The delta is written over the chunk it replaces, and over nothing else. *)
LEMMA UpdateFileRecovers ==
    ASSUME ManagerInv, UpdateFile
    PROVE  RecoverInv'
<1>1. /\ TypesInv /\ PlacesOK /\ Apart /\ SizesOK /\ ConfigsOK /\ ModeOK /\ BasesOK /\ UpdateOK
  BY DEF ManagerInv, RecoverInv
<1>2. /\ mode = "update" /\ job.step = "indexed"
      /\ UNCHANGED <<config, containerDB, fp2ChunkDB, objectVars, fresh, mode, lastByte,
                     deltaChunkDB, failed>>
      /\ job'.step = "written" /\ job'.chunk = job.chunk
  BY <1>1 DEF UpdateFile, Updating, historyVars, Stays, deltaDisk, TypesInv, DeltaTypeOK
<1>3. UNCHANGED <<phase, last, used, body, readName, readBody, saving>> /\ AtRisk' = AtRisk
  BY <1>2 DEF objectVars, cacheVars, AtRisk
<1>4. PICK c : c = job.chunk
  OBVIOUS
<1>5. /\ c \in DOMAIN fp2ChunkDB /\ c \in DOMAIN deltaChunkDB /\ In_(c) # last
      /\ c \notin AtRisk => fp2ChunkDB[c].deltaCount > 0
  BY <1>1, <1>2, <1>4 DEF TypesInv, HandOK, UpdateOK, AtRisk
<1>6. /\ phase = "ready" /\ fresh = {} /\ Settled /\ Settled' /\ IsOpen /\ IsOpen'
      /\ \A d \in DOMAIN fp2ChunkDB : OpenAt(d) /\ ClosedAt(d) /\ In_(d) # readName
  BY <1>2, <1>3, UpdateQuiet DEF Settled, IsOpen
<1> DEFINE n == In_(c)
           off == fp2ChunkDB[c].offset
           file == files[n]
           new == Overwrite(file, off, Delta[c])
<1>7. /\ off \in Nat /\ c \in Chunk /\ End(c) \in Nat
      /\ Delta[c] \in Seq(Cell) /\ Len(Delta[c]) \in Nat
      /\ off + Len(Delta[c]) <= End(c)
  <2>1. /\ c \in Chunk /\ Base[c] # NoBase
    BY <1>1, <1>5 DEF TypesInv, DeltaTypeOK, IsStore
  <2>2. /\ Delta[c] \in Seq(Cell) /\ Len(Delta[c]) \in Nat
        /\ Len(Delta[c]) < Len(Content[c])
    <3>1. Delta[c] \in Seq(Byte) /\ Len(Delta[c]) < Len(Content[c])
      BY <2>1, DeltaAssumption
    <3> QED BY <3>1 DEF Cell
  <2>3. /\ fp2ChunkDB[c].deltaCount \in Nat /\ fp2ChunkDB[c].length \in Nat
        /\ fp2ChunkDB[c].length = Len(Form(c, fp2ChunkDB[c].deltaCount))
        /\ off \in Nat /\ End(c) \in Nat
    BY <1>1, <1>5, EntryForm DEF TypesInv
  <2>4. Len(Form(c, fp2ChunkDB[c].deltaCount)) >= Len(Delta[c])
    <3>1. Len(Stored(c)) = Len(Content[c]) /\ Len(Content[c]) \in Nat
      BY <2>1, StoredFacts, ContentAssumption
    <3> QED BY <2>2, <3>1 DEF Form
  <2> HIDE DEF off
  <2>5. End(c) = off + fp2ChunkDB[c].length
    BY DEF End, off
  <2> QED BY <2>1, <2>2, <2>3, <2>4, <2>5
<1>8. readDeltaContainer(deltaChunkDB[c]) = Delta[c]
  <2>1. DeltaKept(c)
    BY <1>5, KeptIsReadable DEF ManagerInv, NoDanglingDelta
  <2> QED BY <1>2, <2>1 DEF DeltaKept
<1>9. /\ n \notin DOMAIN files => files' = files
      /\ n \in DOMAIN files => /\ DOMAIN files' = DOMAIN files /\ files'[n] = new
                               /\ \A k \in DOMAIN files : k # n => files'[k] = files[k]
  <2>1. n \notin DOMAIN files => files' = files
    BY <1>4 DEF UpdateFile, In_
  <2>2. n \in DOMAIN files => files' = insert(files, n, new)
    BY <1>4, <1>8 DEF UpdateFile, In_
  <2> QED BY <2>1, <2>2 DEF insert
<1>10. ASSUME n \in DOMAIN files
       PROVE  /\ file \in Seq(Cell) /\ Len(file) \in Nat
              /\ Len(new) \in Nat /\ Len(new) >= Len(file)
              /\ \A i \in 1 .. Len(Delta[c]) : new[off + i] = Delta[c][i]
              /\ \A a \in 1 .. Len(file) : a <= off \/ a > End(c) => new[a] = file[a]
  <2>1. file \in Seq(Cell) /\ Len(file) \in Nat
    BY <1>1, <1>10 DEF TypesInv, StoreTypes, IsStore
  <2>2. /\ new \in Seq(Cell) /\ Len(new) >= Len(file)
        /\ \A i \in 1 .. Len(Delta[c]) : new[off + i] = Delta[c][i]
        /\ \A a \in 1 .. Len(file) : a <= off \/ a > off + Len(Delta[c]) => new[a] = file[a]
    BY <1>7, <2>1, OverwriteFacts
  <2> HIDE DEF new, file, off
  <2> QED BY <1>7, <2>1, <2>2
<1> HIDE DEF new
<1>11. ASSUME NEW d \in DOMAIN fp2ChunkDB
       PROVE  InFile(d)' /\ In_(d)' = In_(d) /\ End(d)' = End(d)
  <2>1. In_(d)' = In_(d) /\ End(d)' = End(d)
    BY <1>2 DEF In_, End
  <2>2. CASE d \in AtRisk
    BY <1>3, <2>1, <2>2 DEF InFile
  <2>3. CASE d \notin AtRisk
    <3>1. In_(d) \in DOMAIN files /\ End(d) <= Len(files[In_(d)]) /\ Has(files[In_(d)], d)
      BY <1>6, <2>3 DEF ClosedAt, InFile
    <3>2. CASE In_(d) # n
      <4>1. In_(d) \in DOMAIN files' /\ files'[In_(d)] = files[In_(d)]
        BY <1>9, <3>1, <3>2
      <4> QED BY <1>2, <1>3, <2>1, <3>1, <4>1 DEF InFile, Has, Pending
    <3>3. CASE In_(d) = n
      <4>1. /\ End(d) \in Nat /\ fp2ChunkDB[d].offset \in Nat /\ fp2ChunkDB[d].length \in Nat
            /\ \A i \in 1 .. fp2ChunkDB[d].length : fp2ChunkDB[d].offset + i <= End(d)
        BY <1>1, EntryForm DEF TypesInv
      <4>2. End(d) <= Len(new)
        BY <1>7, <1>10, <3>1, <3>3, <4>1
      <4>3. Has(new, d)
        <5>1. CASE d = c
          BY <1>5, <2>3, <5>1 DEF Has, Pending
        <5>2. CASE d # c
          <6>1. End(c) <= fp2ChunkDB[d].offset \/ End(d) <= off
            BY <1>1, <1>5, <3>3, <5>2 DEF Apart
          <6>2. \A i \in 1 .. fp2ChunkDB[d].length :
                   new[fp2ChunkDB[d].offset + i] = file[fp2ChunkDB[d].offset + i]
            <7> TAKE i \in 1 .. fp2ChunkDB[d].length
            <7>1. fp2ChunkDB[d].offset + i \in 1 .. Len(file)
              BY <1>7, <1>10, <3>1, <3>3, <4>1
            <7>2. fp2ChunkDB[d].offset + i <= off \/ fp2ChunkDB[d].offset + i > End(c)
              BY <1>7, <4>1, <6>1
            <7> QED BY <1>10, <3>1, <3>3, <7>1, <7>2
          <6> QED BY <3>1, <3>3, <6>2 DEF Has
        <5> QED BY <5>1, <5>2
      <4> QED BY <1>2, <1>3, <1>9, <2>1, <3>1, <3>3, <4>2, <4>3 DEF InFile, Has, Pending
    <3> QED BY <3>2, <3>3
  <2> QED BY <2>1, <2>2, <2>3
<1>12. PlacesOK'
  <2> SUFFICES ASSUME NEW d \in DOMAIN fp2ChunkDB PROVE OpenAt(d)' /\ ClosedAt(d)'
    BY <1>2 DEF PlacesOK
  <2>1. OpenAt(d) /\ ClosedAt(d) /\ In_(d) # readName
    BY <1>6
  <2>2. Has(body, d) => Has(body, d)'
    BY <1>2, <1>3 DEF Has, Pending
  <2>3. OpenAt(d)'
    BY <1>3, <1>11, <2>1, <2>2 DEF OpenAt
  <2>4. ClosedAt(d)'
    BY <1>2, <1>11, <2>1 DEF ClosedAt
  <2> QED BY <2>3, <2>4
<1>13. Apart' /\ BasesOK'
  BY <1>1, <1>2 DEF Apart, BasesOK, In_, End
<1>14. SizesOK' /\ ConfigsOK' /\ MovingOK'
  BY <1>1, <1>2, <1>3, <1>6 DEF SizesOK, ConfigsOK, MovingOK
<1>15. ModeOK' /\ ListOK'
  BY <1>1, <1>2, <1>3 DEF ModeOK, ListOK, Saving
<1>16. UpdateOK'
  <2>1. c \notin AtRisk => n \in DOMAIN files
    BY <1>5, <1>6 DEF ClosedAt, InFile
  <2>2. /\ c \in failed \/ fp2ChunkDB[c].deltaCount > 0
    BY <1>1, <1>2, <1>4 DEF UpdateOK
  <2> QED BY <1>2, <1>3, <1>4, <1>5, <1>9, <1>10, <2>1, <2>2 DEF UpdateOK, In_
<1> QED BY <1>12, <1>13, <1>14, <1>15, <1>16 DEF RecoverInv

(* The delta is forgotten once the container has its bytes.                *)
LEMMA UpdateForgetRecovers ==
    ASSUME ManagerInv, UpdateForget
    PROVE  RecoverInv'
<1>1. /\ TypesInv /\ PlacesOK /\ Apart /\ SizesOK /\ ConfigsOK /\ ModeOK /\ BasesOK /\ UpdateOK
  BY DEF ManagerInv, RecoverInv
<1>2. /\ mode = "update" /\ job.step = "written" /\ UNCHANGED <<vars, mode, lastByte, failed>>
      /\ deltaChunkDB' = delete_(deltaChunkDB, job.chunk)
      /\ job'.step = "next"
  BY <1>1 DEF UpdateForget, Updating, TypesInv, DeltaTypeOK
<1>3. UNCHANGED <<config, files, containerDB, fp2ChunkDB, phase, last, used, body, readName,
                  readBody, saving, fresh>> /\ AtRisk' = AtRisk
  BY <1>2 DEF AtRisk, vars, diskVars, historyVars, objectVars, cacheVars
<1>4. PICK c : c = job.chunk
  OBVIOUS
<1>5. /\ c \in DOMAIN fp2ChunkDB /\ In_(c) # last
      /\ c \notin AtRisk =>
            /\ fp2ChunkDB[c].deltaCount > 0
            /\ \A i \in 1 .. Len(Delta[c]) :
                  files[In_(c)][fp2ChunkDB[c].offset + i] = Delta[c][i]
  BY <1>1, <1>2, <1>4 DEF TypesInv, HandOK, UpdateOK, AtRisk
<1>6. /\ phase = "ready" /\ fresh = {} /\ Settled /\ Settled' /\ IsOpen /\ IsOpen'
      /\ \A d \in DOMAIN fp2ChunkDB : OpenAt(d) /\ ClosedAt(d) /\ In_(d) # readName
  BY <1>2, <1>3, UpdateQuiet DEF Settled, IsOpen
<1>7. DOMAIN deltaChunkDB' = DOMAIN deltaChunkDB \ {c}
  BY <1>2, <1>4 DEF delete_
<1>8. c \notin AtRisk => /\ Form(c, fp2ChunkDB[c].deltaCount) = Delta[c]
                         /\ fp2ChunkDB[c].length = Len(Delta[c])
  BY <1>1, <1>5, EntryForm DEF TypesInv, Form
<1>9. ASSUME NEW d \in DOMAIN fp2ChunkDB PROVE OpenAt(d)' /\ ClosedAt(d)'
  <2>1. OpenAt(d) /\ ClosedAt(d) /\ In_(d) # readName /\ In_(d)' = In_(d) /\ End(d)' = End(d)
    BY <1>3, <1>6 DEF In_, End
  <2>2. InFile(d)'
    <3>1. CASE d = c
      BY <1>3, <1>5, <1>8, <2>1, <3>1 DEF ClosedAt, InFile, Has
    <3>2. CASE d # c
      BY <1>3, <1>7, <2>1, <3>2 DEF ClosedAt, InFile, Has, Pending
    <3> QED BY <3>1, <3>2
  <2>3. In_(d) = last => Has(body, d)'
    BY <1>3, <1>5, <1>7, <2>1 DEF OpenAt, Has, Pending
  <2>4. OpenAt(d)'
    BY <1>3, <2>1, <2>2, <2>3 DEF OpenAt
  <2>5. ClosedAt(d)'
    BY <1>3, <2>1, <2>2 DEF ClosedAt
  <2> QED BY <2>4, <2>5
<1>10. PlacesOK'
  BY <1>3, <1>9 DEF PlacesOK
<1>11. Apart' /\ BasesOK'
  BY <1>1, <1>2, <1>3, <1>7 DEF Apart, BasesOK, In_, End
<1>12. SizesOK' /\ ConfigsOK' /\ MovingOK'
  BY <1>1, <1>2, <1>3, <1>6 DEF SizesOK, ConfigsOK, MovingOK
<1>13. ModeOK' /\ ListOK' /\ UpdateOK'
  BY <1>1, <1>2, <1>3 DEF ModeOK, ListOK, UpdateOK, Saving
<1> QED BY <1>10, <1>11, <1>12, <1>13 DEF RecoverInv

(* The ends of a process that is not filling a container.                  *)
LEMMA EndsRecover ==
    ASSUME ManagerInv, SoundManager,
           UpdateEnd \/ GC \/ Die \/ \E c \in Chunk : UpdateThrows(c)
    PROVE  RecoverInv'
<1>1. TypesInv /\ ModeOK /\ BasesOK
  BY DEF ManagerInv, RecoverInv
<1>2. Settled
  <2>1. mode \in {"update", "gc"} => Settled
    BY <1>1 DEF ModeOK, Settled
  <2>2. CASE UpdateEnd \/ GC \/ \E c \in Chunk : UpdateThrows(c)
    BY <2>1, <2>2 DEF UpdateEnd, GC, UpdateThrows, Updating
  <2>3. CASE Die
    <3>1. DeathPoint \in {"update", "list"}
      <4>1. DeathPoint # "insert"
        BY <1>1 DEF DeathPoint, TypesInv, DeltaTypeOK, Mode
      <4> QED BY <2>3, <4>1 DEF Die, SoundManager
    <3> QED BY <1>1, <2>1, <3>1 DEF DeathPoint, TypesInv, DeltaTypeOK, Mode, Settled
  <2> QED BY <2>2, <2>3
<1>3. /\ Gone /\ mode' = "none" /\ job' = NoJob
      /\ UNCHANGED <<config, files, containerDB, deltaChunkDB, lastByte>>
  BY DEF UpdateEnd, GC, Die, UpdateThrows, Ends, Exit, diskVars, deltaDisk
<1>4. CASE GC
  <2>1. /\ DOMAIN fp2ChunkDB' = {c \in DOMAIN fp2ChunkDB : fp2ChunkDB[c].count # 0}
        /\ \A c \in DOMAIN fp2ChunkDB' : fp2ChunkDB'[c] = fp2ChunkDB[c]
        /\ failed' = failed \cap DOMAIN fp2ChunkDB'
    BY <1>4 DEF GC, Without
  <2>2. \A c \in DOMAIN fp2ChunkDB :
           (\E d \in Chunk : Base[d] = c) => c \in DOMAIN fp2ChunkDB'
    BY <1>1, <2>1 DEF BasesOK
  <2> QED BY <1>2, <1>3, <2>1, <2>2, EndRecovers
<1>5. CASE UpdateEnd \/ Die \/ \E c \in Chunk : UpdateThrows(c)
  <2>1. UNCHANGED <<fp2ChunkDB, failed>>
    BY <1>5 DEF UpdateEnd, Die, UpdateThrows, Exit, diskVars
  <2> QED BY <1>2, <1>3, <2>1, EndRecovers
<1> QED BY <1>4, <1>5

(* rewriteContainer lists containers before the one being filled, and all  *)
(* entries are still to be visited.                                        *)
LEMMA ListRecovers ==
    ASSUME ManagerInv, ListContainers
    PROVE  RecoverInv'
<1> DEFINE list == {n \in DOMAIN containerDB : containerDB[n] <= RewriteLimit /\ n # ManagerLast}
<1>1. TypesInv /\ ModeOK /\ BasesOK /\ SizesOK /\ ConfigsOK /\ StoreParts
  BY DEF ManagerInv, RecoverInv, StoreParts
<1>2. /\ mode = "rewrite" /\ job.step = "begin" /\ phase = "ready"
      /\ UNCHANGED <<config, files, fp2ChunkDB, objectVars, fresh, mode, lastByte, deltaChunkDB,
                     failed>>
      /\ containerDB' = Without(containerDB, list)
      /\ job' = IF list = {} THEN [job EXCEPT !.step = "removed"]
                ELSE Job("next", NoChunk, DOMAIN fp2ChunkDB, 0, list)
  BY DEF ListContainers, Rewriting, historyVars, Stays, deltaDisk
<1>3. UNCHANGED <<phase, last, readName>>
  BY <1>2 DEF objectVars, cacheVars
<1>4. fresh = {} /\ Settled /\ job.list = {}
  BY <1>1, <1>2 DEF ModeOK, Settled
<1>5. \A n \in list : n < last
  <2> SUFFICES ASSUME NEW n \in DOMAIN containerDB, n # ManagerLast PROVE n < last
    OBVIOUS
  <2>1. config # NoConfig /\ n <= config.last
    BY <1>1, <1>4 DEF SizesOK
  <2>2. config.last <= last /\ config.last \in Nat /\ last \in Nat /\ n \in Nat
    BY <1>1, <1>2, <2>1 DEF ConfigsOK, IsOpen, TypesInv, StoreTypes
  <2> QED BY <2>1, <2>2 DEF ManagerLast
<1>6. StoreParts'
  <2>1. \A c \in DOMAIN fp2ChunkDB : SamePlace(c)
    BY <1>2 DEF SamePlace
  <2>2. DOMAIN containerDB' \subseteq DOMAIN containerDB
    BY <1>2 DEF Without
  <2> QED BY <1>1, <1>2, <2>1, <2>2, QuietParts DEF BasesOK
<1> HIDE DEF list
<1>7. \/ job'.step = "removed" /\ job'.list = {}
      \/ job'.step = "next" /\ job'.list = list /\ job'.todo = DOMAIN fp2ChunkDB
  BY <1>1, <1>2, <1>4 DEF Job, TypesInv, DeltaTypeOK
<1>8. ModeOK'
  BY <1>1, <1>2, <1>3, <1>4, <1>7 DEF ModeOK, Saving
<1>9. ListOK' /\ UpdateOK'
  BY <1>2, <1>3, <1>5, <1>7 DEF ListOK, UpdateOK
<1> QED BY <1>6, <1>8, <1>9 DEF StoreParts, RecoverInv

(* An entry that is not in a listed container stays where it is.           *)
LEMMA RewriteSkipRecovers ==
    ASSUME ManagerInv, NEW c \in Chunk, RewriteSkip(c)
    PROVE  RecoverInv'
<1>1. TypesInv /\ ModeOK /\ BasesOK /\ ListOK /\ RecoverInv
  BY DEF ManagerInv, RecoverInv
<1>2. /\ mode = "rewrite" /\ job.step = "next" /\ phase = "ready" /\ ~Listed(c)
      /\ UNCHANGED <<vars, lastByte, mode, deltaChunkDB, failed>>
      /\ job'.step = "next" /\ job'.list = job.list /\ job'.todo = job.todo \ {c}
  BY <1>1 DEF RewriteSkip, Rewriting, Stays, deltaDisk, TypesInv, DeltaTypeOK
<1>3. StoreParts'
  BY <1>1, <1>2, QuietRecovers DEF BasesOK
<1>4. UNCHANGED <<fp2ChunkDB, phase, last, readName, fresh>> /\ AtRisk' = AtRisk
  BY <1>2 DEF AtRisk, vars, diskVars, objectVars, cacheVars, historyVars
<1>5. ModeOK'
  BY <1>1, <1>2, <1>4 DEF ModeOK, Saving
<1>6. c \in DOMAIN fp2ChunkDB => c \in AtRisk \/ In_(c) \notin job.list
  BY <1>2 DEF AtRisk, Listed, In_
<1>7. ListOK' /\ UpdateOK'
  BY <1>1, <1>2, <1>4, <1>6 DEF ListOK, UpdateOK, In_
<1> QED BY <1>3, <1>5, <1>7 DEF StoreParts, RecoverInv

(* retriveChunk reads a whole container, whose entries are in its file.    *)
LEMMA RewriteReadRecovers ==
    ASSUME ManagerInv, NEW c \in Chunk, RewriteRead(c)
    PROVE  RecoverInv'
<1>1. /\ TypesInv /\ PlacesOK /\ Apart /\ SizesOK /\ ConfigsOK /\ ModeOK /\ BasesOK /\ ListOK
  BY DEF ManagerInv, RecoverInv
<1>2. /\ mode = "rewrite" /\ job.step = "next" /\ phase = "ready"
      /\ c \in DOMAIN fp2ChunkDB /\ In_(c) \in job.list /\ LoadCache(In_(c))
      /\ lastByte[c] = NUL
      /\ UNCHANGED <<config, files, containerDB, fp2ChunkDB, phase, last, used, body, saving,
                     fresh, lastByte, mode, deltaChunkDB, failed>>
      /\ job'.step = "read" /\ job'.chunk = c /\ job'.list = job.list
      /\ job'.todo = job.todo \ {c}
  BY <1>1 DEF RewriteRead, Rewriting, RestoreChunk, Listed, query, In_, diskVars, historyVars,
              Stays, deltaDisk, TypesInv, DeltaTypeOK
<1>3. IsOpen /\ IsOpen' /\ (Settled' <=> Settled)
  BY <1>2 DEF IsOpen, Settled
<1>14. AtRisk' = AtRisk
  BY <1>2 DEF AtRisk
<1>4. In_(c) < last /\ In_(c) # last /\ In_(c) \in Nat
  <2>1. In_(c) < last
    BY <1>1, <1>2 DEF ListOK
  <2>2. In_(c) \in Nat /\ last \in Nat
    BY <1>1, <1>2, EntryForm DEF TypesInv, StoreTypes
  <2> QED BY <2>1, <2>2
<1> DEFINE n == In_(c)
           file == files[n]
<1>5. \A d \in DOMAIN fp2ChunkDB : In_(d) = n /\ d \notin AtRisk => n \in DOMAIN files
  BY <1>1, <1>3, <1>4 DEF PlacesOK, OpenAt, InFile
<1>6. \/ UNCHANGED <<readName, readBody>> /\ (readName = n \/ n \notin DOMAIN files)
      \/ /\ n \in DOMAIN files
         /\ readName' = n /\ readBody' = ReadFile(readBody, file, Len(file))
  BY <1>2, <1>4 DEF LoadCache, CanRead, Source, cacheVars
<1>7. ASSUME NEW d \in DOMAIN fp2ChunkDB, In_(d) = n, d \notin AtRisk
      PROVE  Has(readBody, d)'
  <2>1. OpenAt(d)
    BY <1>1, <1>3 DEF PlacesOK
  <2>2. CASE UNCHANGED <<readName, readBody>> /\ readName = n
    BY <1>2, <1>7, <1>14, <2>1, <2>2 DEF OpenAt, Has, Pending
  <2>3. CASE n \in DOMAIN files /\ readName' = n /\ readBody' = ReadFile(readBody, file, Len(file))
    <3> DEFINE off == fp2ChunkDB[d].offset
    <3>1. End(d) <= Len(file) /\ Has(file, d)
      BY <1>4, <1>7, <2>1 DEF OpenAt, InFile
    <3>2. file \in Seq(Cell) /\ Len(file) \in Nat /\ readBody \in Buffer
      BY <1>1, <2>3 DEF TypesInv, StoreTypes, IsStore
    <3>3. \A i \in 1 .. fp2ChunkDB[d].length : off + i \in Addr /\ off + i <= Len(file)
      <4>1. \A i \in 1 .. fp2ChunkDB[d].length :
               off + i \in Addr /\ off + i <= End(d) /\ off + i \in Nat
        BY <1>1, EntryForm, SizeAssumption DEF TypesInv, Addr
      <4>2. End(d) \in Nat
        BY <1>1, EntryForm DEF TypesInv
      <4> QED BY <3>1, <3>2, <4>1, <4>2
    <3>4. \A i \in 1 .. fp2ChunkDB[d].length : readBody'[off + i] = file[off + i]
      BY <2>3, <3>2, <3>3, ReadFileFacts
    <3> QED BY <1>2, <1>14, <3>1, <3>4 DEF Has, Pending
  <2> QED BY <1>5, <1>6, <1>7, <2>2, <2>3
<1>8. readName' = n \/ UNCHANGED <<readName, readBody>>
  BY <1>6
<1>9. PlacesOK'
  <2> SUFFICES ASSUME NEW d \in DOMAIN fp2ChunkDB
               PROVE  OpenAt(d)' /\ (Settled => ClosedAt(d)')
    BY <1>2, <1>3 DEF PlacesOK
  <2>1. OpenAt(d) /\ (Settled => ClosedAt(d))
    BY <1>1, <1>3 DEF PlacesOK
  <2>2. /\ In_(d)' = In_(d) /\ End(d)' = End(d)
        /\ Has(body, d) => Has(body, d)'
        /\ InFile(d) => InFile(d)'
        /\ Has(readBody, d) /\ UNCHANGED readBody => Has(readBody, d)'
        /\ d \in AtRisk => Has(readBody, d)'
    BY <1>2, <1>14 DEF InFile, Has, Pending, In_, End
  <2>3. OpenAt(d)'
    BY <1>2, <1>7, <1>8, <2>1, <2>2 DEF OpenAt
  <2>4. ClosedAt(d) => ClosedAt(d)'
    BY <1>2, <2>2 DEF ClosedAt
  <2> QED BY <2>1, <2>3, <2>4
<1>10. Apart' /\ BasesOK'
  BY <1>1, <1>2 DEF Apart, BasesOK, In_, End
<1>11. SizesOK' /\ ConfigsOK' /\ MovingOK'
  BY <1>1, <1>2, <1>3 DEF SizesOK, ConfigsOK, MovingOK
<1>12. ModeOK'
  BY <1>1, <1>2, <1>4, <1>8 DEF ModeOK, Saving
<1>13. ListOK' /\ UpdateOK'
  BY <1>1, <1>2, <1>14 DEF ListOK, UpdateOK, In_
<1> QED BY <1>9, <1>10, <1>11, <1>12, <1>13 DEF RecoverInv

(* When all entries were visited, none is in a container that is removed.  *)
LEMMA RemoveRecovers ==
    ASSUME ManagerInv, RemoveContainers
    PROVE  RecoverInv'
<1>1. /\ TypesInv /\ PlacesOK /\ Apart /\ SizesOK /\ ConfigsOK /\ ModeOK /\ BasesOK /\ ListOK
  BY DEF ManagerInv, RecoverInv
<1>2. /\ mode = "rewrite" /\ job.step = "next" /\ phase = "ready" /\ job.todo = {}
      /\ UNCHANGED <<config, containerDB, fp2ChunkDB, objectVars, fresh, mode, lastByte,
                     deltaChunkDB, failed>>
      /\ files' = Without(files, job.list)
      /\ job'.step = "removed" /\ job'.list = {}
  BY DEF RemoveContainers, Rewriting, historyVars, Stays, deltaDisk, NoJob, Job
<1>3. UNCHANGED <<phase, last, used, body, readName, readBody, saving>> /\ AtRisk' = AtRisk
  BY <1>2 DEF objectVars, cacheVars, AtRisk
<1>4. IsOpen /\ IsOpen' /\ (Settled' <=> Settled)
  BY <1>2, <1>3 DEF IsOpen, Settled
<1>5. ASSUME NEW d \in DOMAIN fp2ChunkDB, InFile(d) PROVE InFile(d)'
  <2> SUFFICES ASSUME d \notin AtRisk PROVE InFile(d)'
    BY <1>3 DEF InFile
  <2>1. In_(d) \notin job.list
    BY <1>1, <1>2 DEF ListOK
  <2>2. In_(d) \in DOMAIN files' /\ files'[In_(d)] = files[In_(d)]
    BY <1>2, <1>5, <2>1 DEF InFile, Without
  <2> QED BY <1>2, <1>3, <1>5, <2>2 DEF InFile, Has, Pending, In_, End
<1>6. PlacesOK'
  <2> SUFFICES ASSUME NEW d \in DOMAIN fp2ChunkDB
               PROVE  OpenAt(d)' /\ (Settled => ClosedAt(d)')
    BY <1>2, <1>4 DEF PlacesOK
  <2>1. OpenAt(d) /\ (Settled => ClosedAt(d))
    BY <1>1, <1>4 DEF PlacesOK
  <2>2. /\ In_(d)' = In_(d) /\ End(d)' = End(d)
        /\ Has(body, d) => Has(body, d)'
        /\ Has(readBody, d) => Has(readBody, d)'
    BY <1>2, <1>3 DEF Has, Pending, In_, End
  <2>3. OpenAt(d)'
    BY <1>3, <1>5, <2>1, <2>2 DEF OpenAt
  <2>4. ClosedAt(d) => ClosedAt(d)'
    BY <1>2, <1>5, <2>2 DEF ClosedAt
  <2> QED BY <2>1, <2>3, <2>4
<1>7. Apart' /\ BasesOK'
  BY <1>1, <1>2 DEF Apart, BasesOK, In_, End
<1>8. SizesOK' /\ ConfigsOK' /\ MovingOK'
  BY <1>1, <1>2, <1>3, <1>4 DEF SizesOK, ConfigsOK, MovingOK
<1>9. ModeOK' /\ ListOK' /\ UpdateOK'
  BY <1>1, <1>2, <1>3 DEF ModeOK, ListOK, UpdateOK, Saving
<1> QED BY <1>6, <1>7, <1>8, <1>9 DEF RecoverInv

(* A reference to a chunk that is no base is dropped.                      *)
LEMMA DeleteRecovers ==
    ASSUME ManagerInv, NEW c \in Chunk, DeleteBeforeGC(c)
    PROVE  RecoverInv'
<1>1. TypesInv /\ ModeOK /\ BasesOK /\ StoreParts
  BY DEF ManagerInv, RecoverInv, StoreParts
<1>2. /\ mode = "gc" /\ \A d \in Chunk : Base[d] # c
      /\ phase = "ready" /\ c \in DOMAIN fp2ChunkDB
      /\ UNCHANGED <<config, files, containerDB, objectVars, fresh, mode, lastByte, deltaChunkDB,
                     job, failed>>
  BY DEF DeleteBeforeGC, deleteChunk, SetCount, query, historyVars, Stays, deltaDisk
<1>3. PICK n : fp2ChunkDB' = insert(fp2ChunkDB, c, [fp2ChunkDB[c] EXCEPT !.count = n])
  BY DEF DeleteBeforeGC, deleteChunk, SetCount
<1>4. /\ DOMAIN fp2ChunkDB' = DOMAIN fp2ChunkDB
      /\ \A d \in DOMAIN fp2ChunkDB : d # c => fp2ChunkDB'[d] = fp2ChunkDB[d]
      /\ fp2ChunkDB'[c] = [fp2ChunkDB[c] EXCEPT !.count = n]
  BY <1>2, <1>3 DEF insert
<1>5. \A d \in DOMAIN fp2ChunkDB : SamePlace(d)
  <2>1. fp2ChunkDB[c] \in DeltaKey
    BY <1>1, <1>2 DEF TypesInv, EntriesOK, EntryAt
  <2> QED BY <1>4, <2>1 DEF SamePlace, DeltaKey
<1>6. StoreParts'
  BY <1>1, <1>2, <1>4, <1>5, QuietParts DEF BasesOK
<1>7. UNCHANGED <<phase, readName, last>>
  BY <1>2 DEF objectVars, cacheVars
<1>8. ModeOK' /\ ListOK' /\ UpdateOK'
  BY <1>1, <1>2, <1>7 DEF ModeOK, ListOK, UpdateOK, Saving
<1> QED BY <1>6, <1>8 DEF StoreParts, RecoverInv

LEMMA RecoverInit == MInit => RecoverInv
<1> SUFFICES ASSUME MInit PROVE RecoverInv
  OBVIOUS
<1>1. /\ phase = "closed" /\ fresh = {} /\ readName = NoName /\ mode = "none" /\ job = NoJob
      /\ DOMAIN fp2ChunkDB = {} /\ DOMAIN containerDB = {} /\ DOMAIN deltaChunkDB = {}
  BY DEF MInit, Init, EmptyStore
<1>2. ~IsOpen
  BY <1>1 DEF IsOpen
<1> QED BY <1>1, <1>2 DEF RecoverInv, PlacesOK, Apart, SizesOK, ConfigsOK, ModeOK, BasesOK,
        MovingOK, ListOK, UpdateOK, Phase, Saving, NoJob, Job

LEMMA RecoverStep ==
    ASSUME ManagerInv, SoundManager, [MNext]_mvars
    PROVE  ManagerInv'
<1>1. TypesInv' /\ DeltaInv'
  <2>1. "compress" \notin Faults
    BY DEF SoundManager
  <2> QED BY <2>1, TypesStep, DeltaInvStep DEF ManagerInv
<1> SUFFICES RecoverInv'
  BY <1>1 DEF ManagerInv
<1>2. CASE \E m \in Mode \ {"none"} : Start(m)
  BY <1>2, StartRecovers
<1>3. CASE BackupStep
  BY <1>3, BackupRecovers
<1>4. CASE SaveChunkStep \/ SaveChunkFails \/ CloseStep
  BY <1>4, SaveChunkRecovers, SaveFailsRecovers, CloseRecovers
<1>5. CASE CloseCompressor \/ \E c \in Chunk : saveDeltaChunk(c)
  BY <1>5, CompressRecovers
<1>6. CASE UpdateBegin \/ \E c \in Chunk : UpdateSkip(c) \/ UpdateSize(c)
  BY <1>6, UpdateSizeRecovers
<1>7. CASE UpdateIndex \/ UpdateIndexFails \/ UpdateFile \/ UpdateForget
  BY <1>7, UpdateIndexRecovers, IndexFailsRecovers, UpdateFileRecovers, UpdateForgetRecovers
<1>8. CASE UpdateEnd \/ GC \/ Die \/ \E c \in Chunk : UpdateThrows(c)
  BY <1>8, EndsRecover
<1>9. CASE ListContainers \/ \E c \in Chunk : RewriteSkip(c) \/ RewriteRead(c)
  BY <1>9, ListRecovers, RewriteSkipRecovers, RewriteReadRecovers
<1>10. CASE RewriteSave \/ RemoveContainers
  BY <1>10, RewriteSaveRecovers, RemoveRecovers
<1>11. CASE \E c \in Chunk : DeleteBeforeGC(c)
  BY <1>11, DeleteRecovers
<1>12. CASE UNCHANGED mvars
  <2>1. UNCHANGED <<vars, lastByte, mode, deltaChunkDB, job, failed>> /\ RecoverInv /\ BasesOK
    BY <1>12 DEF mvars, deltaDisk, ManagerInv, RecoverInv
  <2>2. StoreParts'
    BY <2>1, QuietRecovers DEF BasesOK
  <2>3. UNCHANGED <<fp2ChunkDB, files, phase, last, readName, fresh, saving>> /\ AtRisk' = AtRisk
    BY <2>1 DEF AtRisk, vars, diskVars, objectVars, cacheVars, historyVars
  <2>4. ModeOK' /\ ListOK' /\ UpdateOK'
    BY <2>1, <2>3 DEF RecoverInv, ModeOK, ListOK, UpdateOK, Saving, In_
  <2> QED BY <2>2, <2>4 DEF StoreParts, RecoverInv
<1> QED BY <1>2, <1>3, <1>4, <1>5, <1>6, <1>7, <1>8, <1>9, <1>10, <1>11, <1>12 DEF MNext

(* Through backups, delta compression, in-place update, moving and garbage *)
(* collection, in whatever order the processes run, every chunk of the     *)
(* index restores, or updateContainer, run again, makes it restore: also   *)
(* when updateContainer dies between any two of its steps, or              *)
(* rewriteContainer before it has moved a chunk.  A name without an end,   *)
(* and an insert into fp2ChunkDB that fails in rewriteContainer or         *)
(* updateContainer, cost the chunk they are of and the deltas of it, and   *)
(* no other chunk.                                                         *)
THEOREM ChunksRecoverable ==
    ASSUME SoundManager
    PROVE  MSpec => []Recoverable
<1>1. MInit => ManagerInv
  BY TypesInit, DeltaInvInit, RecoverInit DEF ManagerInv
<1>2. ManagerInv /\ [MNext]_mvars => ManagerInv'
  BY RecoverStep
<1>3. ManagerInv => Recoverable
  BY InvRecoverable
<1> QED BY <1>1, <1>2, <1>3, PTL DEF MSpec

=============================================================================
