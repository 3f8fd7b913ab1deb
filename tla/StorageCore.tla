---------------------------- MODULE StorageCore ----------------------------
(***************************************************************************)
(* StorageCore: the container log that holds chunk bytes, the index        *)
(* fp2ChunkDB that locates them, and the object that a process opens,      *)
(* fills and closes.  A process appends chunks to the container it keeps   *)
(* in memory (currentContainer_), writes that container out when it is     *)
(* full (writeContainer) and once more when the object is destroyed; the   *)
(* name and fill of the last container are kept in .StorageConfig.         *)
(*                                                                         *)
(* saveChunk and the destructor are split at the points where a signal     *)
(* (CTRLC in main.cc) or the death of the process separates two effects.   *)
(***************************************************************************)
EXTENDS Database, Integers, Sequences, FiniteSets

CONSTANTS
    Chunk,              \* chunks; a chunk stands for its own fingerprint
    Byte,               \* byte values
    NUL,                \* '\0'
    X80,                \* '\200', what saveChunk writes over a '\0'
    Junk,               \* a buffer cell that was never written
    Content,            \* the bytes of each chunk, as handed to saveChunk
    MaxContainerSize,   \* maxContainerSize_
    MaxName,            \* bound: the last container name that can be reached
    Wrap,               \* 2^w for the w-bit reference count of an index entry
    NoName,             \* the empty currentReadContainerFileName_
    NoConfig,           \* .StorageConfig does not exist
    NoLine,             \* .StorageConfig exists and is empty
    NoSave,             \* no saveChunk is in progress
    Faults              \* which faults occur: "crash" (the process dies between
                        \* two steps), "torn" (inside a write of a file),
                        \* "interrupt" (SIGINT), "noopen" (a file cannot be
                        \* opened for writing), "lost" (the file that was
                        \* backed up is gone; see Backup)

ASSUME BytesAssumption ==
    /\ NUL \in Byte
    /\ X80 \in Byte
    /\ Junk \notin Byte
ASSUME SizeAssumption ==
    /\ MaxContainerSize \in Nat
    /\ MaxName \in Nat
    /\ Wrap \in Nat \ {0}
(* maxChunkSize (16 KiB) is below maxContainerSize_ (8 MiB), and the       *)
(* chunker hands over no empty chunk.                                      *)
ASSUME ContentAssumption ==
    /\ Content \in [Chunk -> Seq(Byte)]
    /\ \A c \in Chunk : Len(Content[c]) \in 1 .. (MaxContainerSize - 1)
ASSUME SentinelAssumption ==
    /\ NoName \notin Nat
    /\ {NoConfig, NoLine} \cap [last : Nat, used : Nat] = {}
    /\ NoConfig # NoLine
    /\ NoSave \notin [chunk : Chunk, data : Seq(Byte \cup {Junk}),
                      count : Nat, deltaCount : Nat]

(* next_permutation counts through the permutations of "abcdefghijklmno"   *)
(* in order: the name of a container is its rank.                          *)
Name == 0 .. MaxName
Cell == Byte \cup {Junk}
Addr == 1 .. MaxContainerSize
Buffer == [Addr -> Cell]
Phase == {"closed", "ready", "rotated", "written", "indexed",
          "closing", "configured"}
Count == 0 .. (Wrap - 1)

(* keyForChunkHashDB_t *)
Key == [containerName : Name, offset : Nat,
        length : 1 .. (MaxContainerSize - 1), count : Count, deltaCount : Nat]

VARIABLES
    \* On disk.
    config,         \* .StorageConfig: [last, used], NoConfig or NoLine
    files,          \* Containers/: the bytes of each container file
    containerDB,    \* the size recorded for each container file
    fp2ChunkDB,     \* the chunk index
    \* In the StorageCore object.
    phase,          \* which step of its life the object is in
    last,           \* lastContainerFileName_
    used,           \* currentContainer_.used_
    body,           \* currentContainer_.body_
    readName,       \* currentReadContainerFileName_
    readBody,       \* currentReadContainer_.body_
    saving,         \* the arguments of the saveChunk in progress
    \* History of the sessions.
    fresh,          \* chunks whose saveChunk returned true in this session
    committed       \* chunks of sessions that the destructor closed, with
                    \* .StorageConfig and the container written

diskVars == <<config, files, containerDB, fp2ChunkDB>>
cacheVars == <<readName, readBody>>
objectVars == <<phase, last, used, body, cacheVars, saving>>
historyVars == <<fresh, committed>>
vars == <<diskVars, objectVars, historyVars>>

-----------------------------------------------------------------------------
(* Buffers and files. *)

JunkBody == [a \in Addr |-> Junk]

(* memcpy(&buf[off], data, Len(data)) *)
memcpy(buf, off, data) ==
    [a \in Addr |-> IF a - off \in 1 .. Len(data) THEN data[a - off] ELSE buf[a]]

(* The bytes that memcpy(dst, buf + off, len) copies out of a buffer.      *)
Bytes(buf, off, len) == [i \in 1 .. len |-> buf[off + i]]

(* ifstream::read of up to n bytes: cells past the end of the file keep    *)
(* what was in the buffer.                                                 *)
ReadFile(buf, file, n) ==
    [a \in Addr |-> IF a <= n /\ a <= Len(file) THEN file[a] ELSE buf[a]]

(* The loop of saveChunk that replaces '\0' in all but the last two bytes. *)
Sanitise(data) ==
    [i \in 1 .. Len(data) |->
        IF i <= Len(data) - 2 /\ data[i] = NUL THEN X80 ELSE data[i]]

(* What the store keeps of a chunk, and must hand back.                    *)
Stored(c) == Sanitise(Content[c])

(* Container::saveTOFile: the first n of the used_ bytes reach the file,   *)
(* which was truncated when it was opened.                                 *)
saveTOFile(n) ==
    /\ files' = insert(files, last, Bytes(body, 0, n))
    /\ containerDB' = insert(containerDB, last, used)

(* readContainer: the buffer it copies from.  The cached container is      *)
(* looked at before the one being filled.                                  *)
Source(name) ==
    IF name = readName THEN readBody
    ELSE IF name = last THEN body
    ELSE ReadFile(readBody, files[name], Len(files[name]))

CanRead(name) == name \in {readName, last} \/ name \in DOMAIN files

readContainer(key) == Bytes(Source(key.containerName), key.offset, key.length)

(* Mutant: the name of the cached container is set, its bytes are not.     *)
LoadCacheNameOnly(name) ==
    IF name \in {readName, last} \/ name \notin DOMAIN files
    THEN UNCHANGED cacheVars
    ELSE UNCHANGED readBody /\ readName' = name

(* The cached container changes only when a file has to be read.           *)
LoadCache(name) ==
    IF name \in {readName, last} \/ name \notin DOMAIN files
    THEN UNCHANGED cacheVars
    ELSE /\ readBody' = Source(name)
         /\ readName' = name

In(S, name) == {c \in S : fp2ChunkDB[c].containerName = name}

-----------------------------------------------------------------------------
Init ==
    /\ config = NoConfig
    /\ files = EmptyStore
    /\ containerDB = EmptyStore
    /\ fp2ChunkDB = EmptyStore
    /\ phase = "closed"
    /\ last = 0
    /\ used = 0
    /\ body = JunkBody
    /\ readName = NoName
    /\ readBody = JunkBody
    /\ saving = NoSave
    /\ fresh = {}
    /\ committed = {}

(* The object is gone: nothing of it is left in memory.                    *)
Gone ==
    /\ phase' = "closed"
    /\ last' = 0
    /\ used' = 0
    /\ body' = JunkBody
    /\ readName' = NoName
    /\ readBody' = JunkBody
    /\ saving' = NoSave
    /\ fresh' = {}

(* Mutant: the constructor does not read the last container.               *)
OpenWithoutRead ==
    /\ phase = "closed" /\ config # NoLine
    /\ phase' = "ready"
    /\ IF config = NoConfig
       THEN UNCHANGED <<last, used>>
       ELSE last' = config.last /\ used' = config.used
    /\ UNCHANGED <<diskVars, body, cacheVars, saving, historyVars>>

(* Mutant: the constructor does not read .StorageConfig.                   *)
OpenAfresh ==
    /\ phase = "closed" /\ config # NoLine
    /\ phase' = "ready"
    /\ UNCHANGED <<diskVars, last, used, body, cacheVars, saving, historyVars>>

(* StorageCore::StorageCore *)
Open ==
    /\ phase = "closed" /\ config # NoLine
    /\ phase' = "ready"
    /\ IF config = NoConfig
       THEN UNCHANGED <<last, used, body>>
       ELSE /\ last' = config.last
            /\ used' = config.used
            /\ body' = IF config.last \in DOMAIN files
                       THEN ReadFile(body, files[config.last], config.used)
                       ELSE body
    /\ UNCHANGED <<diskVars, cacheVars, saving, historyVars>>

(* The same when .StorageConfig is empty: the name stays empty, and        *)
(* readContainer takes every chunk from currentReadContainer_, which is    *)
(* never loaded.  Of what such sessions do, only reading is modelled.      *)
(* Their destructor writes an empty line and a number, which the next      *)
(* session takes for a name, and it finds no chunk either.                 *)
ReadNothing == phase = "closed" /\ config = NoLine /\ UNCHANGED vars

-----------------------------------------------------------------------------
(* saveChunk, from the test of key.length in writeContainer.               *)

(* Mutant: the test forgets what the container already holds.              *)
FitsAlone(length) == length < MaxContainerSize

Fits(length) == length + used < MaxContainerSize

(* The arguments of a saveChunk: an existing entry keeps its counts.       *)
Arguments(c, data) ==
    [chunk |-> c, data |-> Sanitise(data),
     count |-> IF query(fp2ChunkDB, c) THEN fp2ChunkDB[c].count ELSE 1 % Wrap,
     deltaCount |-> IF query(fp2ChunkDB, c) THEN fp2ChunkDB[c].deltaCount ELSE 0]

(* The index entry of the saveChunk in progress: writeContainer has put    *)
(* its bytes at used_ of the current container.                            *)
SavingKey == [containerName |-> last, offset |-> used,
              length |-> Len(saving.data), count |-> saving.count,
              deltaCount |-> saving.deltaCount]

(* The chunk fits behind the others in the current container.              *)
WriteFits(c, data) ==
    /\ phase = "ready"
    /\ Len(data) > 1
    /\ Fits(Len(data))
    /\ saving' = Arguments(c, data)
    /\ body' = memcpy(body, used, Sanitise(data))
    /\ phase' = "written"
    /\ UNCHANGED <<diskVars, last, used, cacheVars, historyVars>>

NeedsRotation(data) ==
    /\ phase = "ready"
    /\ Len(data) > 1
    /\ ~Fits(Len(data))
    /\ last < MaxName

(* It does not fit: the current container is saved and the next name       *)
(* taken; used_ is reset by the step after.                                *)
Rotate(c, data) ==
    /\ NeedsRotation(data)
    /\ saving' = Arguments(c, data)
    /\ saveTOFile(used)
    /\ last' = last + 1
    /\ phase' = "rotated"
    /\ UNCHANGED <<config, fp2ChunkDB, used, body, cacheVars, historyVars>>

(* The same when the container file cannot be opened: writeContainer does  *)
(* not look at what saveTOFile returns.                                    *)
RotateUnopened(c, data) ==
    /\ "noopen" \in Faults
    /\ NeedsRotation(data)
    /\ saving' = Arguments(c, data)
    /\ last' = last + 1
    /\ phase' = "rotated"
    /\ fresh' = fresh \ In(fresh, last)
    /\ UNCHANGED <<diskVars, used, body, cacheVars, committed>>

(* A saveChunk begins. *)
BeginSave(c, data) == WriteFits(c, data) \/ Rotate(c, data) \/ RotateUnopened(c, data)

(* Mutant: used_ is reset after the copy.                                  *)
WriteBeforeReset ==
    /\ phase = "rotated"
    /\ used' = 0
    /\ body' = memcpy(body, used, saving.data)
    /\ phase' = "written"
    /\ UNCHANGED <<diskVars, last, cacheVars, saving, historyVars>>

WriteRotated ==
    /\ phase = "rotated"
    /\ used' = 0
    /\ body' = memcpy(body, 0, saving.data)
    /\ phase' = "written"
    /\ UNCHANGED <<diskVars, last, cacheVars, saving, historyVars>>

IndexChunk ==
    /\ phase = "written"
    /\ fp2ChunkDB' = insert(fp2ChunkDB, saving.chunk, SavingKey)
    /\ phase' = "indexed"
    /\ UNCHANGED <<config, files, containerDB, last, used, body, cacheVars,
                   saving, historyVars>>

(* fp2ChunkDB.insert returned false: saveChunk returns false.              *)
IndexFails ==
    /\ phase = "written"
    /\ saving' = NoSave
    /\ phase' = "ready"
    /\ UNCHANGED <<diskVars, last, used, body, cacheVars, historyVars>>

(* Mutant: used_ is not advanced.                                          *)
ReturnWithoutAdvance ==
    /\ phase = "indexed"
    /\ fresh' = fresh \cup {saving.chunk}
    /\ saving' = NoSave
    /\ phase' = "ready"
    /\ UNCHANGED <<diskVars, last, used, body, cacheVars, committed>>

(* used_ += key.length, and saveChunk returns true.                        *)
AdvanceUsed ==
    /\ phase = "indexed"
    /\ used' = used + Len(saving.data)
    /\ fresh' = fresh \cup {saving.chunk}
    /\ saving' = NoSave
    /\ phase' = "ready"
    /\ UNCHANGED <<diskVars, last, body, cacheVars, committed>>

(* key.length - 2 is unsigned: for a chunk of one byte the loop runs past  *)
(* the end of the buffer until the process is killed.                      *)
Overrun(c, data) ==
    /\ phase = "ready"
    /\ Len(data) <= 1
    /\ Gone
    /\ UNCHANGED <<diskVars, committed>>

-----------------------------------------------------------------------------
(* Operations on a chunk that is in the index.                             *)

(* retriveChunk, and restoreChunk of an entry with deltaCount = 0: what    *)
(* they return is readContainer(fp2ChunkDB[c]) if CanRead.                 *)
RestoreChunk(c) ==
    /\ phase = "ready"
    /\ query(fp2ChunkDB, c)
    /\ LoadCache(fp2ChunkDB[c].containerName)
    /\ UNCHANGED <<diskVars, phase, last, used, body, saving, historyVars>>

(* Mutant: the count is kept in a wider type.                              *)
SetWideCount(c, n) ==
    /\ phase = "ready"
    /\ query(fp2ChunkDB, c)
    /\ fp2ChunkDB' = insert(fp2ChunkDB, c, [fp2ChunkDB[c] EXCEPT !.count = n])
    /\ UNCHANGED <<config, files, containerDB, objectVars, historyVars>>

SetCount(c, n) ==
    /\ phase = "ready"
    /\ query(fp2ChunkDB, c)
    /\ fp2ChunkDB' = insert(fp2ChunkDB, c, [fp2ChunkDB[c] EXCEPT !.count = n % Wrap])
    /\ UNCHANGED <<config, files, containerDB, objectVars, historyVars>>

(* Mutant: the entry is written back without key.count++.                  *)
Uncounted(c) == SetCount(c, fp2ChunkDB[c].count)

(* The chunker met a chunk that is already stored.                         *)
AddReference(c) == SetCount(c, fp2ChunkDB[c].count + 1)

deleteChunk(c) == SetCount(c, fp2ChunkDB[c].count - 1)

-----------------------------------------------------------------------------
(* StorageCore::~StorageCore: .StorageConfig first, then the container.    *)

BeginClose ==
    /\ phase = "ready"
    /\ phase' = "closing"
    /\ UNCHANGED <<diskVars, last, used, body, cacheVars, saving, historyVars>>

WriteConfig ==
    /\ phase = "closing"
    /\ config' = [last |-> last, used |-> used]
    /\ phase' = "configured"
    /\ UNCHANGED <<files, containerDB, fp2ChunkDB, last, used, body, cacheVars,
                   saving, historyVars>>

(* .StorageConfig cannot be opened, which nothing looks at.                *)
WriteConfigUnopened ==
    /\ "noopen" \in Faults
    /\ phase = "closing"
    /\ phase' = "configured"
    /\ UNCHANGED <<diskVars, last, used, body, cacheVars, saving, historyVars>>

(* The next session will go on where this one ends.  Otherwise it goes on  *)
(* where an earlier one did, and writes over what this one saved.          *)
Recorded == config = [last |-> last, used |-> used]

SaveLast ==
    /\ phase = "configured"
    /\ saveTOFile(used)
    /\ committed' = IF Recorded THEN committed \cup fresh ELSE committed
    /\ Gone
    /\ UNCHANGED <<config, fp2ChunkDB>>

SaveLastUnopened ==
    /\ "noopen" \in Faults
    /\ phase = "configured"
    /\ committed' = IF Recorded THEN committed \cup (fresh \ In(fresh, last)) ELSE committed
    /\ Gone
    /\ UNCHANGED diskVars

ConfigStep == WriteConfig \/ WriteConfigUnopened
SaveLastStep == SaveLast \/ SaveLastUnopened

(* main -rs returns without destroying the object: a session in which      *)
(* nothing was saved, and of which nothing is written.                     *)
Exit ==
    /\ phase = "ready"
    /\ fresh = {}
    /\ Gone
    /\ UNCHANGED <<diskVars, committed>>

-----------------------------------------------------------------------------
(* What may happen to the process at any point.                            *)

(* SIGINT: CTRLC runs the destructor on the object as it stands; the       *)
(* saveChunk in progress never returns.                                    *)
Interrupt ==
    /\ "interrupt" \in Faults
    /\ phase # "closed"
    /\ phase' = "closing"
    /\ saving' = NoSave
    /\ UNCHANGED <<diskVars, last, used, body, cacheVars, historyVars>>

(* The process dies between two steps.                                     *)
Crash ==
    /\ "crash" \in Faults
    /\ phase # "closed"
    /\ Gone
    /\ UNCHANGED <<diskVars, committed>>

(* The process dies inside saveTOFile: the file was truncated and holds    *)
(* the first n bytes, its size was recorded or not.                        *)
Torn(n) ==
    /\ "torn" \in Faults
    /\ files' = insert(files, last, Bytes(body, 0, n))
    /\ containerDB' \in {containerDB, insert(containerDB, last, used)}
    /\ committed' = {c \in committed :
                       fp2ChunkDB[c].containerName = last
                         => fp2ChunkDB[c].offset + fp2ChunkDB[c].length <= n}
    /\ Gone
    /\ UNCHANGED <<config, fp2ChunkDB>>

TornRotate(data) == NeedsRotation(data) /\ \E n \in 0 .. used : Torn(n)

TornClose == phase = "configured" /\ \E n \in 0 .. used : Torn(n)

(* The process dies between the two lines of .StorageConfig, each of which *)
(* endl writes out: the next constructor reads the name, and used_ stays   *)
(* 0, so that the next session writes over the container of that name.     *)
TornConfig ==
    /\ "torn" \in Faults
    /\ phase = "closing"
    /\ config' = [last |-> last, used |-> 0]
    /\ committed' = committed \ In(committed, last)
    /\ Gone
    /\ UNCHANGED <<files, containerDB, fp2ChunkDB>>

(* It dies before the first line: the file is empty, and no session will   *)
(* read a chunk again.                                                     *)
EmptiedConfig ==
    /\ "torn" \in Faults
    /\ phase = "closing"
    /\ config' = NoLine
    /\ committed' = {}
    /\ Gone
    /\ UNCHANGED <<files, containerDB, fp2ChunkDB>>

-----------------------------------------------------------------------------
(* The chunker saves a chunk it did not find in the index.                 *)
SaveNew(c) ==
    /\ ~query(fp2ChunkDB, c)
    /\ \/ BeginSave(c, Content[c])
       \/ TornRotate(Content[c])
       \/ Overrun(c, Content[c])

Next ==
    \/ Open \/ ReadNothing
    \/ \E c \in Chunk : SaveNew(c)
    \/ WriteRotated \/ IndexChunk \/ IndexFails \/ AdvanceUsed
    \/ \E c \in Chunk : RestoreChunk(c) \/ AddReference(c) \/ deleteChunk(c)
    \/ BeginClose \/ ConfigStep \/ SaveLastStep
    \/ Exit
    \/ Interrupt \/ Crash \/ TornClose \/ TornConfig \/ EmptiedConfig

Spec == Init /\ [][Next]_vars

-----------------------------------------------------------------------------
(* Every variable holds a value of its C++ type.                           *)
TypeOK ==
    /\ config \in {NoConfig, NoLine} \cup [last : Name, used : Nat]
    /\ IsStore(files, Name, Seq(Cell))
    /\ IsStore(containerDB, Name, Nat)
    /\ IsStore(fp2ChunkDB, Chunk, Key)
    /\ phase \in Phase
    /\ last \in Name
    /\ used \in Nat
    /\ body \in Buffer
    /\ readName \in Name \cup {NoName}
    /\ readBody \in Buffer
    /\ saving \in {NoSave} \cup [chunk : Chunk, data : Seq(Cell),
                                 count : Count, deltaCount : Nat]
    /\ fresh \in SUBSET Chunk
    /\ committed \in SUBSET Chunk

(* writeContainer's test keeps every chunk, and the next one, inside the   *)
(* container: no memcpy into or out of body_ leaves it.                    *)
InBounds ==
    /\ used <= MaxContainerSize
    /\ phase = "written" => used + Len(saving.data) <= MaxContainerSize
    /\ \A c \in DOMAIN fp2ChunkDB :
          fp2ChunkDB[c].offset + fp2ChunkDB[c].length <= MaxContainerSize

IsOpen == phase # "closed"

(* The bytes of an index entry can be read and are those of the chunk.     *)
ReadsBack(c) ==
    /\ query(fp2ChunkDB, c)
    /\ CanRead(fp2ChunkDB[c].containerName)
    /\ readContainer(fp2ChunkDB[c]) = Stored(c)

(* With no crash, signal or failed open, whatever order chunks are saved,  *)
(* restored and the object closed and reopened in, every chunk in the      *)
(* index reads back: from the container in memory, the cached container    *)
(* or a file (saveChunk, writeContainer, readContainer, ~StorageCore).     *)
Restorable ==
    IsOpen => \A c \in DOMAIN fp2ChunkDB : ReadsBack(c)

(* Whatever later happens (signal in the middle of saveChunk, crash at any *)
(* step, container file or .StorageConfig that cannot be opened), a chunk  *)
(* whose session was closed by the destructor, with .StorageConfig and the *)
(* chunk's container written, reads back in every later session: no later  *)
(* session overwrites its bytes.  Only a process that dies inside a write  *)
(* can lose it: that of the very container it is in (saveTOFile), or that  *)
(* of .StorageConfig, which takes the container named there with it, or    *)
(* every chunk if it ends before its first line.                           *)
CommittedIntact ==
    IsOpen => \A c \in committed : ReadsBack(c)

(* No step takes .StorageConfig back to an earlier container name, after   *)
(* which saved containers would be overwritten (~StorageCore), or removes  *)
(* it; it can only be emptied.                                             *)
ConfigAdvances ==
    [][config # NoConfig =>
         config' = NoLine \/ (config' # NoConfig /\ config'.last >= config.last)]_vars

(* The bytes that the container files hold for a chunk of the index; a     *)
(* file that ends before them, or is missing, holds nothing there.         *)
FileBytes(c) ==
    LET key == fp2ChunkDB[c]
    IN  [i \in 1 .. key.length |->
            IF /\ key.containerName \in DOMAIN files
               /\ key.offset + i <= Len(files[key.containerName])
            THEN files[key.containerName][key.offset + i] ELSE Junk]

DurableChunks == INSTANCE ChunkStore
    WITH Image <- Stored, durable <- [c \in committed |-> FileBytes(c)]

(* The container files, the index and .StorageConfig together implement a  *)
(* write-once map of chunks: no rotation, close, signal, crash or failed   *)
(* open changes what the files hold for a chunk of a closed session, and   *)
(* what a close adds is what saveChunk was given.                          *)
ImplementsChunkStore == DurableChunks!ChunkStoreSpec

=============================================================================
