------------------------------ MODULE Manager ------------------------------
(***************************************************************************)
(* Delta compression of stored chunks: DeltaCompressor collects deltas in  *)
(* containers of its own (Delta/) and lists them in deltaChunkDB; Manager  *)
(* writes them over the chunks they replace (updateContainer), moves the   *)
(* chunks out of containers that have become small (rewriteContainer) and  *)
(* drops chunks that nothing refers to (GC).  Each is a process of its own *)
(* (mode), as in main, and works on the store of StorageCore.              *)
(*                                                                         *)
(* deltaChunkDB and Delta/ are a redo log: updateContainer changes the     *)
(* index, then the bytes, then forgets the delta.                          *)
(***************************************************************************)
EXTENDS StorageCore

CONSTANTS
    Base,                   \* the chunk that each chunk may be a delta of
    NoBase,                 \* no delta is made of the chunk
    Delta,                  \* the delta: the base's fingerprint and delta_create's output
    MaxDeltaContainerSize,  \* maxContainerSize_ of DeltaCompressor
    RewriteLimit,           \* 8300000
    MaxDeltaCount,          \* bound: how often a chunk is made a delta
    LastByte,               \* what containerName[15] of a new entry may hold
    MaxProcesses,           \* bound: how many processes are run
    MaxAtRisk,              \* bound: how many chunks rewriteContainer may lose
    NoChunk                 \* no chunk is being worked on

(* A delta is shorter than its chunk (compress compares them), a base is   *)
(* not made a delta itself (flag 2 in compress).  restoreChunk and         *)
(* saveChunk need deltas without zero bytes.                               *)
ASSUME DeltaAssumption ==
    /\ Base \in [Chunk -> Chunk \cup {NoBase}] /\ NoBase \notin Chunk
    /\ \A c \in Chunk : Base[c] # NoBase =>
         /\ Delta[c] \in Seq(Byte)
         /\ Base[c] # c /\ Base[Base[c]] = NoBase
         /\ Len(Delta[c]) > 1 /\ Len(Delta[c]) < Len(Content[c])
         /\ Len(Delta[c]) < MaxDeltaContainerSize
         /\ Sanitise(Delta[c]) = Delta[c]
ASSUME LimitAssumption ==
    /\ MaxDeltaContainerSize \in 1 .. MaxContainerSize
    /\ RewriteLimit \in Nat
    /\ MaxDeltaCount \in Nat /\ MaxProcesses \in Nat /\ MaxAtRisk \in Nat
    /\ NoChunk \notin Chunk
    /\ LastByte \subseteq {NUL, Junk}

VARIABLES
    \* On disk.
    deltaConfig,    \* .DeltaConfig: [last, used] or NoConfig
    deltaFiles,     \* Delta/: the bytes of each delta container
    deltaChunkDB,   \* where the delta of each chunk is
    lastByte,       \* containerName[15] of each entry of fp2ChunkDB
    \* In the process.
    mode,           \* what main is doing
    compressor,     \* DeltaCompressor: lastContainerFileName_, used_ and body_
    job,            \* where the operation of Manager is
    processes,      \* how many processes were run
    \* History.
    failed          \* chunks of which rewriteContainer or updateContainer could
                    \* not insert the entry

deltaDisk == <<deltaConfig, deltaFiles, deltaChunkDB>>
mvars == <<vars, deltaDisk, lastByte, mode, compressor, job, processes, failed>>

Mode == {"none", "backup", "compress", "update", "rewrite", "gc"}
NoCompressor == [last |-> 0, used |-> 0, body |-> JunkBody]

(* The iterator's snapshot still to be visited, the entry at hand and the  *)
(* step it has reached, updateContainer's count and containerList.         *)
Job(step, chunk, todo, count, list) ==
    [step |-> step, chunk |-> chunk, todo |-> todo, count |-> count, list |-> list]
NoJob == Job("begin", NoChunk, {}, 0, {})

(* A file or store without some of its keys. *)
Without(f, S) == [k \in (DOMAIN f) \ S |-> f[k]]

MInit ==
    /\ Init
    /\ deltaConfig = NoConfig
    /\ deltaFiles = EmptyStore
    /\ deltaChunkDB = EmptyStore
    /\ lastByte = EmptyStore
    /\ mode = "none"
    /\ compressor = NoCompressor
    /\ job = NoJob
    /\ processes = 0
    /\ failed = {}

-----------------------------------------------------------------------------
(* Processes.  Manager reads lastContainerFileName_ from .StorageConfig,   *)
(* which no step but the destructor changes.                               *)
ManagerLast == IF config = NoConfig THEN 0 ELSE config.last

(* DeltaCompressor::DeltaCompressor *)
LoadCompressor ==
    IF deltaConfig = NoConfig THEN NoCompressor
    ELSE [last |-> deltaConfig.last, used |-> deltaConfig.used,
          body |-> IF deltaConfig.last \in DOMAIN deltaFiles
                   THEN ReadFile(JunkBody, deltaFiles[deltaConfig.last], deltaConfig.used)
                   ELSE JunkBody]

Start(m) ==
    /\ mode = "none" /\ processes < MaxProcesses
    /\ mode' = m
    /\ processes' = processes + 1
    /\ Open
    /\ compressor' = IF m = "compress" THEN LoadCompressor ELSE NoCompressor
    /\ UNCHANGED <<deltaDisk, lastByte, job, failed>>

Ends ==
    /\ mode' = "none"
    /\ compressor' = NoCompressor
    /\ job' = NoJob
    /\ UNCHANGED <<deltaDisk, lastByte, processes>>

Stays == UNCHANGED <<deltaDisk, lastByte, mode, compressor, processes, failed>>

(* The chunks that rewriteContainer may lose: those whose container's name *)
(* has no end, and those whose entry could not be inserted.                *)
AtRisk == {c \in DOMAIN fp2ChunkDB : lastByte[c] # NUL} \cup failed
MoreRisk == Cardinality(AtRisk) < MaxAtRisk

(* An insert into fp2ChunkDB may fail. *)
MayFail == "insert" \in Faults /\ MoreRisk

(* The rest of a saveChunk.  containerName[15] of the entry is what the    *)
(* stack held.                                                             *)
SaveChunkStep ==
    \/ WriteRotated /\ Stays /\ UNCHANGED job
    \/ /\ IndexChunk
       /\ \E b \in LastByte : /\ b = NUL \/ MoreRisk
                             /\ lastByte' = insert(lastByte, saving.chunk, b)
       /\ UNCHANGED <<deltaDisk, mode, compressor, job, processes, failed>>
    \/ /\ AdvanceUsed
       /\ job' = [job EXCEPT !.step = IF mode = "rewrite" THEN "next" ELSE @]
       /\ Stays

(* The entry cannot be inserted: the chunker ends, but rewriteContainer    *)
(* does not look at what saveChunk returns.                                *)
SaveChunkFails ==
    /\ MayFail
    /\ IndexFails
    /\ \/ /\ mode = "backup"
          /\ job' = [job EXCEPT !.step = "closed"]
          /\ UNCHANGED failed
       \/ /\ mode = "rewrite"
          /\ job' = [job EXCEPT !.step = "next"]
          /\ failed' = failed \cup {saving.chunk}
    /\ UNCHANGED <<deltaDisk, lastByte, mode, compressor, processes>>

(* The chunker saves a chunk that it did not find. *)
BackupStep ==
    /\ mode = "backup" /\ job.step = "begin"
    /\ \E c \in Chunk : SaveNew(c)
    /\ Stays /\ UNCHANGED job

CloseStep ==
    \/ /\ \/ mode = "backup"
          \/ mode = "compress" /\ job.step = "closed"
          \/ mode = "rewrite" /\ job.step = "removed"
       /\ BeginClose
       /\ Stays /\ UNCHANGED job
    \/ ConfigStep /\ Stays /\ UNCHANGED job
    \/ SaveLastStep /\ Ends /\ UNCHANGED failed

-----------------------------------------------------------------------------
(* DeltaCompressor *)

(* Mutant: the test forgets what the container already holds.              *)
DeltaFitsAlone(length) == length < MaxDeltaContainerSize

DeltaFits(length) == length + compressor.used < MaxDeltaContainerSize

deltaSaveTOFile ==
    insert(deltaFiles, compressor.last, Bytes(compressor.body, 0, compressor.used))

(* saveDeltaChunk and writeDeltaContainer. *)
saveDeltaChunk(c) ==
    LET at == IF DeltaFits(Len(Delta[c])) THEN compressor
              ELSE [last |-> compressor.last + 1, used |-> 0, body |-> compressor.body]
    IN  /\ mode = "compress" /\ phase = "ready" /\ job.step = "begin"
        /\ Base[c] # NoBase
        /\ query(fp2ChunkDB, c) /\ query(fp2ChunkDB, Base[c])
        /\ fp2ChunkDB[c].deltaCount < MaxDeltaCount
        /\ at.last <= MaxName
        /\ deltaFiles' = IF at = compressor THEN deltaFiles ELSE deltaSaveTOFile
        /\ deltaChunkDB' = insert(deltaChunkDB, c,
                             [containerName |-> at.last, offset |-> at.used,
                              length |-> Len(Delta[c]), count |-> fp2ChunkDB[c].count,
                              deltaCount |-> fp2ChunkDB[c].deltaCount + 1])
        /\ compressor' = [at EXCEPT !.used = @ + Len(Delta[c]),
                                    !.body = memcpy(@, at.used, Delta[c])]
        /\ UNCHANGED <<vars, deltaConfig, lastByte, mode, job, processes, failed>>

(* DeltaCompressor::~DeltaCompressor *)
CloseCompressor ==
    /\ mode = "compress" /\ phase = "ready" /\ job.step = "begin"
    /\ deltaConfig' = [last |-> compressor.last, used |-> compressor.used]
    /\ deltaFiles' = deltaSaveTOFile
    /\ job' = [job EXCEPT !.step = "closed"]
    /\ UNCHANGED <<vars, deltaChunkDB, lastByte, mode, compressor, processes, failed>>

-----------------------------------------------------------------------------
(* Manager::updateContainer.  The iterator sees deltaChunkDB as it was.    *)

Updating(step) == mode = "update" /\ job.step = step

UpdateBegin ==
    /\ Updating("begin")
    /\ job' = [job EXCEPT !.step = "next", !.todo = DOMAIN deltaChunkDB]
    /\ UNCHANGED vars /\ Stays

(* The chunk is gone, or in the container that StorageCore still fills.    *)
Postponed(c) ==
    query(fp2ChunkDB, c) =>
        lastByte[c] = NUL /\ fp2ChunkDB[c].containerName = ManagerLast

UpdateSkip(c) ==
    /\ Updating("next")
    /\ c \in job.todo
    /\ Postponed(c)
    /\ job' = [job EXCEPT !.todo = @ \ {c}, !.count = @ + 1]
    /\ UNCHANGED vars /\ Stays

(* The name of the container, with an end, finds its size.                 *)
SizeKnown(c) == lastByte[c] = NUL /\ fp2ChunkDB[c].containerName \in DOMAIN containerDB

UpdateSize(c) ==
    /\ Updating("next")
    /\ c \in job.todo
    /\ ~Postponed(c) /\ SizeKnown(c)
    /\ LET key == fp2ChunkDB[c]
       IN  containerDB' = insert(containerDB, key.containerName,
               containerDB[key.containerName] - (key.length - deltaChunkDB[c].length))
    /\ job' = [job EXCEPT !.step = "sized", !.chunk = c, !.todo = @ \ {c}]
    /\ UNCHANGED <<config, files, fp2ChunkDB, objectVars, historyVars>> /\ Stays

(* stoi of an empty string: the exception ends the process.                *)
UpdateThrows(c) ==
    /\ Updating("next")
    /\ c \in job.todo
    /\ ~Postponed(c) /\ ~SizeKnown(c)
    /\ Gone /\ Ends
    /\ UNCHANGED <<diskVars, committed, failed>>

(* Mutant: the delta is forgotten before it is written.                    *)
UpdateIndexForgets ==
    /\ Updating("sized")
    /\ LET c == job.chunk
       IN  fp2ChunkDB' = insert(fp2ChunkDB, c,
               [fp2ChunkDB[c] EXCEPT !.length = deltaChunkDB[c].length,
                                     !.deltaCount = deltaChunkDB[c].deltaCount])
    /\ deltaChunkDB' = delete_(deltaChunkDB, job.chunk)
    /\ job' = [job EXCEPT !.step = "indexed"]
    /\ UNCHANGED <<config, files, containerDB, objectVars, historyVars>>
    /\ UNCHANGED <<deltaConfig, deltaFiles, lastByte, mode, compressor, processes, failed>>

UpdateIndex ==
    /\ Updating("sized")
    /\ LET c == job.chunk
       IN  fp2ChunkDB' = insert(fp2ChunkDB, c,
               [fp2ChunkDB[c] EXCEPT !.length = deltaChunkDB[c].length,
                                     !.deltaCount = deltaChunkDB[c].deltaCount])
    /\ job' = [job EXCEPT !.step = "indexed"]
    /\ UNCHANGED <<config, files, containerDB, objectVars, historyVars>> /\ Stays

(* The insert of the entry fails, which updateContainer does not see: the  *)
(* delta will be written over the chunk, and forgotten.                    *)
UpdateIndexFails ==
    /\ Updating("sized")
    /\ MayFail
    /\ failed' = failed \cup {job.chunk}
    /\ job' = [job EXCEPT !.step = "indexed"]
    /\ UNCHANGED <<vars, deltaDisk, lastByte, mode, compressor, processes>>

(* Manager::readDeltaContainer into a buffer of zeros; what a short file   *)
(* does not have is what an earlier one left there.                        *)
readDeltaContainer(key) ==
    [i \in 1 .. key.length |->
        IF key.containerName \notin DOMAIN deltaFiles THEN NUL
        ELSE IF key.offset + i <= Len(deltaFiles[key.containerName])
        THEN deltaFiles[key.containerName][key.offset + i] ELSE Junk]

(* Writing over part of a file, which grows if it is too short.            *)
Overwrite(file, off, data) ==
    LET end == off + Len(data)
    IN  [a \in 1 .. (IF end > Len(file) THEN end ELSE Len(file)) |->
            IF a - off \in 1 .. Len(data) THEN data[a - off]
            ELSE IF a <= Len(file) THEN file[a] ELSE NUL]

(* updateContainerFile does nothing if the container cannot be opened.     *)
UpdateFile ==
    /\ Updating("indexed")
    /\ LET key == fp2ChunkDB[job.chunk]
       IN  files' = IF key.containerName \in DOMAIN files
                    THEN insert(files, key.containerName,
                           Overwrite(files[key.containerName], key.offset,
                                     readDeltaContainer(deltaChunkDB[job.chunk])))
                    ELSE files
    /\ job' = [job EXCEPT !.step = "written"]
    /\ UNCHANGED <<config, containerDB, fp2ChunkDB, objectVars, historyVars>> /\ Stays

UpdateForget ==
    /\ Updating("written")
    /\ deltaChunkDB' = delete_(deltaChunkDB, job.chunk)
    /\ job' = [job EXCEPT !.step = "next", !.chunk = NoChunk]
    /\ UNCHANGED <<vars, deltaConfig, deltaFiles, lastByte, mode, compressor, processes, failed>>

(* Mutant: Delta/ is emptied though deltas were put off.                   *)
UpdateEndAlways ==
    /\ Updating("next")
    /\ job.todo = {}
    /\ deltaFiles' = EmptyStore
    /\ Exit
    /\ mode' = "none" /\ job' = NoJob
    /\ UNCHANGED <<deltaConfig, deltaChunkDB, lastByte, compressor, processes, failed>>

(* All files of Delta/ are removed if every delta was dealt with.  main    *)
(* does not destroy the object.                                            *)
UpdateEnd ==
    /\ Updating("next")
    /\ job.todo = {}
    /\ deltaFiles' = IF job.count = 0 THEN EmptyStore ELSE deltaFiles
    /\ Exit
    /\ mode' = "none" /\ job' = NoJob
    /\ UNCHANGED <<deltaConfig, deltaChunkDB, lastByte, compressor, processes, failed>>

-----------------------------------------------------------------------------
(* Manager::rewriteContainer *)

Rewriting(step) == mode = "rewrite" /\ job.step = step /\ phase = "ready"

ListContainers ==
    LET list == {n \in DOMAIN containerDB : containerDB[n] <= RewriteLimit /\ n # ManagerLast}
    IN  /\ Rewriting("begin")
        /\ containerDB' = Without(containerDB, list)
        /\ job' = IF list = {} THEN [job EXCEPT !.step = "removed"]
                  ELSE Job("next", NoChunk, DOMAIN fp2ChunkDB, 0, list)
        /\ UNCHANGED <<config, files, fp2ChunkDB, objectVars, historyVars>> /\ Stays

(* The name of the chunk's container is compared as a C string.            *)
Listed(c) == lastByte[c] = NUL /\ fp2ChunkDB[c].containerName \in job.list

RewriteSkip(c) ==
    /\ Rewriting("next")
    /\ c \in job.todo /\ ~Listed(c)
    /\ job' = [job EXCEPT !.todo = @ \ {c}]
    /\ UNCHANGED vars /\ Stays

(* retriveChunk.  That it failed is not looked at.                         *)
RewriteRead(c) ==
    /\ Rewriting("next")
    /\ c \in job.todo /\ Listed(c)
    /\ RestoreChunk(c)
    /\ job' = [job EXCEPT !.step = "read", !.chunk = c, !.todo = @ \ {c}]
    /\ Stays

(* saveChunk copies key.length bytes whatever it was given.                *)
Retrieved(c) ==
    IF CanRead(fp2ChunkDB[c].containerName) THEN readContainer(fp2ChunkDB[c])
    ELSE [i \in 1 .. fp2ChunkDB[c].length |-> Junk]

RewriteSave ==
    /\ Rewriting("read")
    /\ BeginSave(job.chunk, Retrieved(job.chunk))
    /\ job' = [job EXCEPT !.step = "save", !.chunk = NoChunk]
    /\ Stays

RemoveContainers ==
    /\ Rewriting("next")
    /\ job.todo = {}
    /\ files' = Without(files, job.list)
    /\ job' = [NoJob EXCEPT !.step = "removed"]
    /\ UNCHANGED <<config, containerDB, fp2ChunkDB, objectVars, historyVars>> /\ Stays

-----------------------------------------------------------------------------
(* A chunk of a recipe that is deleted.  Nothing counts the deltas that    *)
(* need a chunk as their base, so that the caller must.                    *)
DeleteBeforeGC(c) ==
    /\ mode = "gc"
    /\ \A d \in Chunk : Base[d] # c
    /\ deleteChunk(c) /\ fp2ChunkDB[c].count > 0
    /\ Stays /\ UNCHANGED job

(* Manager::GC *)
GC ==
    /\ mode = "gc"
    /\ fp2ChunkDB' = Without(fp2ChunkDB, {c \in DOMAIN fp2ChunkDB : fp2ChunkDB[c].count = 0})
    /\ Gone /\ Ends
    /\ committed' = committed \cap DOMAIN fp2ChunkDB'
    /\ failed' = failed \cap DOMAIN fp2ChunkDB'
    /\ UNCHANGED <<config, files, containerDB>>

(* Where a process may die, as far as its effects differ: Faults has the   *)
(* points at which it does.                                                *)
DeathPoint ==
    IF mode # "rewrite" THEN mode
    ELSE IF fresh = {} /\ phase # "indexed" THEN "list" ELSE "move"

Die ==
    /\ DeathPoint \in Faults
    /\ Gone /\ Ends
    /\ UNCHANGED <<diskVars, committed, failed>>

MNext ==
    \/ \E m \in Mode \ {"none"} : Start(m)
    \/ BackupStep \/ SaveChunkStep \/ SaveChunkFails \/ CloseStep
    \/ \E c \in Chunk : saveDeltaChunk(c)
    \/ CloseCompressor
    \/ UpdateBegin
    \/ \E c \in Chunk : UpdateSkip(c) \/ UpdateSize(c) \/ UpdateThrows(c)
    \/ UpdateIndex \/ UpdateIndexFails \/ UpdateFile \/ UpdateForget \/ UpdateEnd
    \/ ListContainers
    \/ \E c \in Chunk : RewriteSkip(c) \/ RewriteRead(c)
    \/ RewriteSave \/ RemoveContainers
    \/ \E c \in Chunk : DeleteBeforeGC(c)
    \/ GC
    \/ Die

MSpec == MInit /\ [][MNext]_mvars

-----------------------------------------------------------------------------
DeltaKey == [containerName : Nat, offset : Nat, length : Nat, count : Nat, deltaCount : Nat]
DeltaUsed == 0 .. MaxDeltaContainerSize

(* The types of what Manager and DeltaCompressor add to the store: used_   *)
(* never passes maxContainerSize_.                                         *)
DeltaTypeOK ==
    /\ deltaConfig \in [last : Nat, used : DeltaUsed] \cup {NoConfig}
    /\ IsStore(deltaFiles, Nat, Seq(Cell))
    /\ IsStore(deltaChunkDB, {c \in Chunk : Base[c] # NoBase}, DeltaKey)
    /\ mode \in Mode
    /\ compressor \in [last : Nat, used : DeltaUsed, body : Buffer]
    /\ job \in [step : {"begin", "closed", "next", "sized", "indexed", "written",
                        "read", "save", "removed"},
                chunk : Chunk \cup {NoChunk}, todo : SUBSET Chunk, count : Nat,
                list : SUBSET Nat]

(* The bytes of an entry, as the open object reads them, or as the files   *)
(* hold them for the next.                                                 *)
Holding(c, data) ==
    /\ query(fp2ChunkDB, c)
    /\ IF IsOpen THEN CanRead(fp2ChunkDB[c].containerName)
                      /\ readContainer(fp2ChunkDB[c]) = data
       ELSE FileBytes(c) = data

(* restoreChunk of the base of a chunk, which is no delta itself.          *)
BaseRestores(c) ==
    Holding(Base[c], Stored(Base[c])) /\ fp2ChunkDB[Base[c]].deltaCount = 0

(* What restoreChunk returns for a chunk of the index is the chunk: its    *)
(* bytes, or its delta and a base that restores (delta_apply undoes        *)
(* delta_create).                                                          *)
Restores(c) ==
    IF fp2ChunkDB[c].deltaCount = 0 THEN Holding(c, Stored(c))
    ELSE Holding(c, Delta[c]) /\ BaseRestores(c)

(* The delta of a chunk can be read, from Delta/ or from the compressor    *)
(* that is collecting it.                                                  *)
DeltaKept(c) ==
    \/ readDeltaContainer(deltaChunkDB[c]) = Delta[c]
    \/ /\ mode = "compress" /\ deltaChunkDB[c].containerName = compressor.last
       /\ Bytes(compressor.body, deltaChunkDB[c].offset, deltaChunkDB[c].length) = Delta[c]

(* The delta of a chunk is still listed and makes it restore once it is    *)
(* written over it.                                                        *)
Redoable(c) ==
    /\ c \in DOMAIN deltaChunkDB
    /\ DeltaKept(c)
    /\ BaseRestores(c)
    /\ LET key == fp2ChunkDB[c]
       IN  /\ key.length = Len(Delta[c])
           /\ IsOpen => CanRead(key.containerName)
           /\ ~IsOpen => key.containerName \in DOMAIN files

(* Every chunk of the index restores, or can be made to by updateContainer *)
(* when no insert fails: rewriteContainer takes the chunks of a container  *)
(* out and stores them again before it removes it, as its comment says.    *)
AllRecoverable == \A c \in DOMAIN fp2ChunkDB : Restores(c) \/ Redoable(c)

(* Through saving, delta compression, in-place update, moving and garbage  *)
(* collection, in whatever order the processes run, every chunk of the     *)
(* index restores, or can be made to by updateContainer, which may die     *)
(* between any two of its steps and is run again.  A container name        *)
(* without an end, or an insert into fp2ChunkDB that fails, costs its own  *)
(* chunk and the deltas of it, and no other.                               *)
Recoverable ==
    \A c \in DOMAIN fp2ChunkDB :
        c \in AtRisk \/ Base[c] \in AtRisk \/ Restores(c) \/ Redoable(c)

(* updateContainer removes the delta containers only when no listed delta  *)
(* is in them, and DeltaCompressor overwrites none that is: .DeltaConfig   *)
(* outlives the files it names.                                            *)
NoDanglingDelta == \A c \in DOMAIN deltaChunkDB : DeltaKept(c)

=============================================================================
