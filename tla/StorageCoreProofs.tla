------------------------- MODULE StorageCoreProofs -------------------------
(***************************************************************************)
(* Proofs about StorageCore, for every set of chunks and their contents,   *)
(* container size and set of faults.                                       *)
(***************************************************************************)
EXTENDS StorageCore, TLAPS

(* A saveChunk is between writeContainer and its return.                   *)
Saving == phase \in {"rotated", "written", "indexed"}

(* The saveChunk in progress is one of a chunk of the model, and what it   *)
(* wrote or is about to write fits.                                        *)
SavingOK ==
    /\ ~Saving => saving = NoSave
    /\ Saving => /\ saving # NoSave
                 /\ saving.data = Stored(saving.chunk)
    /\ phase \in {"written", "indexed"} => used + Len(saving.data) <= MaxContainerSize

(* .StorageConfig says where the next session goes on.                     *)
HasLog == config \notin {NoConfig, NoLine}

(* The ends of everything written stay inside a container.                 *)
BoundsOK ==
    /\ used <= MaxContainerSize
    /\ HasLog => config.used <= MaxContainerSize
    /\ \A c \in DOMAIN fp2ChunkDB :
          fp2ChunkDB[c].offset + fp2ChunkDB[c].length <= MaxContainerSize

End(c) == fp2ChunkDB[c].offset + fp2ChunkDB[c].length
In_(c) == fp2ChunkDB[c].containerName

(* A buffer or file has the bytes of a chunk where the index says.         *)
Holds(buf, c) ==
    \A i \in 1 .. Len(Stored(c)) : buf[fp2ChunkDB[c].offset + i] = Stored(c)[i]

Indexed(c) == c \in DOMAIN fp2ChunkDB /\ fp2ChunkDB[c].length = Len(Stored(c))

OnDisk(c) ==
    /\ In_(c) \in DOMAIN files
    /\ End(c) <= Len(files[In_(c)])
    /\ Holds(files[In_(c)], c)

InMemory(c) == End(c) <= used /\ Holds(body, c)

(* The session in progress continues the container log of .StorageConfig.  *)
ConfigOK ==
    /\ IsOpen /\ HasLog => config.last <= last
    /\ IsOpen => config # NoLine

(* Where the bytes of a chunk are whose session was closed.                *)
CommittedAt(c) ==
    /\ Indexed(c)
    /\ OnDisk(c)
    /\ HasLog
    /\ In_(c) <= config.last
    /\ In_(c) = config.last => End(c) <= config.used
    /\ IsOpen /\ In_(c) = last => InMemory(c)
    /\ IsOpen /\ In_(c) = readName => Holds(readBody, c)

(* Where the bytes of a chunk are that this session saved.                 *)
FreshAt(c) ==
    /\ Indexed(c)
    /\ In_(c) <= last
    /\ In_(c) = last => InMemory(c)
    /\ In_(c) # last => OnDisk(c)

CommittedOK == \A c \in committed : CommittedAt(c)
FreshOK == \A c \in fresh : FreshAt(c)
ClosedOK == ~IsOpen => fresh = {} /\ readName = NoName

(* The entry of the saveChunk in progress, and its bytes.                  *)
InFlightOK ==
    /\ phase \in {"rotated", "written"} => saving.chunk \notin DOMAIN fp2ChunkDB
    /\ phase = "rotated" => \A c \in committed \cup fresh : In_(c) # last
    /\ phase \in {"written", "indexed"} =>
         \A i \in 1 .. Len(saving.data) : body[used + i] = saving.data[i]
    /\ phase = "indexed" => /\ saving.chunk \in DOMAIN fp2ChunkDB
                            /\ fp2ChunkDB[saving.chunk] = SavingKey

Shape == TypeOK /\ SavingOK /\ BoundsOK
Durable == ConfigOK /\ CommittedOK /\ FreshOK /\ ClosedOK /\ InFlightOK

(* Without faults every entry of the index is accounted for, and the       *)
(* cached container is never the one being filled.                         *)
Known == committed \cup fresh \cup (IF phase = "indexed" THEN {saving.chunk} ELSE {})
CacheOK ==
    /\ readName \in Nat => readName < last
    /\ \A c \in fresh : In_(c) = readName => Holds(readBody, c)
Accounted ==
    /\ DOMAIN fp2ChunkDB \subseteq Known
    /\ IsOpen => CacheOK
    /\ phase = "configured" => Recorded

-----------------------------------------------------------------------------
(* The operators that the model is built from.                             *)

(* saveChunk's replacement of zero bytes keeps the length and yields bytes,*)
(* and doing it twice (rewriteContainer stores again what was stored) does *)
(* nothing more.                                                           *)
LEMMA SanitiseFacts ==
    ASSUME NEW S, NUL \in S, X80 \in S, NEW data \in Seq(S)
    PROVE  /\ Sanitise(data) \in Seq(S)
           /\ Len(Sanitise(data)) = Len(data)
           /\ NUL # X80 => Sanitise(Sanitise(data)) = Sanitise(data)
<1>1. Sanitise(data) \in [1 .. Len(data) -> S]
  BY DEF Sanitise
<1>2. Sanitise(data) \in Seq(S) /\ Len(Sanitise(data)) = Len(data)
  BY <1>1
<1>3. ASSUME NUL # X80 PROVE Sanitise(Sanitise(data)) = Sanitise(data)
  BY <1>2, <1>3 DEF Sanitise
<1> QED BY <1>2, <1>3

(* What is stored of a chunk is a byte string of the chunk's length.       *)
LEMMA StoredFacts ==
    ASSUME NEW c \in Chunk
    PROVE  /\ Stored(c) \in Seq(Byte)
           /\ Stored(c) \in Seq(Cell)
           /\ Len(Stored(c)) = Len(Content[c])
           /\ Len(Stored(c)) \in 1 .. (MaxContainerSize - 1)
<1>1. Content[c] \in Seq(Byte) /\ Len(Content[c]) \in 1 .. (MaxContainerSize - 1)
  BY ContentAssumption
<1>2. Stored(c) \in Seq(Byte) /\ Len(Stored(c)) = Len(Content[c])
  BY <1>1, BytesAssumption, SanitiseFacts DEF Stored
<1>3. Stored(c) \in Seq(Cell)
  BY <1>2 DEF Cell
<1> QED BY <1>1, <1>2, <1>3

(* The image of a buffer that saveTOFile writes.                           *)
LEMMA ImageFacts ==
    ASSUME NEW buf \in Buffer, NEW n \in Nat, n <= MaxContainerSize
    PROVE  /\ Bytes(buf, 0, n) \in Seq(Cell)
           /\ Len(Bytes(buf, 0, n)) = n
           /\ \A i \in 1 .. n : Bytes(buf, 0, n)[i] = buf[i]
<1>1. \A i \in 1 .. n : i \in Addr /\ 0 + i = i
  BY SizeAssumption DEF Addr
<1>2. Bytes(buf, 0, n) \in [1 .. n -> Cell]
  BY <1>1 DEF Bytes, Buffer
<1>3. Bytes(buf, 0, n) \in Seq(Cell) /\ Len(Bytes(buf, 0, n)) = n
  BY <1>2
<1> QED BY <1>1, <1>3 DEF Bytes

(* memcpy into a buffer leaves a buffer with the data at its place and     *)
(* everything before it as it was.                                         *)
LEMMA MemcpyFacts ==
    ASSUME NEW buf \in Buffer, NEW off \in Nat, NEW data \in Seq(Cell),
           off + Len(data) <= MaxContainerSize
    PROVE  /\ memcpy(buf, off, data) \in Buffer
           /\ \A i \in 1 .. Len(data) : memcpy(buf, off, data)[off + i] = data[i]
           /\ \A a \in 1 .. off : memcpy(buf, off, data)[a] = buf[a]
<1>1. memcpy(buf, off, data) \in Buffer
  BY SizeAssumption DEF memcpy, Buffer, Addr
<1>2. ASSUME NEW i \in 1 .. Len(data) PROVE memcpy(buf, off, data)[off + i] = data[i]
  <2>1. off + i \in Addr /\ (off + i) - off = i
    BY SizeAssumption DEF Addr
  <2> QED BY <2>1 DEF memcpy
<1>3. ASSUME NEW a \in 1 .. off PROVE memcpy(buf, off, data)[a] = buf[a]
  <2>1. a \in Addr /\ a - off \notin 1 .. Len(data)
    BY SizeAssumption DEF Addr
  <2> QED BY <2>1 DEF memcpy
<1> QED BY <1>1, <1>2, <1>3

(* Reading a file into a buffer brings in its first n bytes.               *)
LEMMA ReadFileFacts ==
    ASSUME NEW buf \in Buffer, NEW file \in Seq(Cell), NEW n \in Nat
    PROVE  /\ ReadFile(buf, file, n) \in Buffer
           /\ \A a \in Addr : a <= n /\ a <= Len(file) => ReadFile(buf, file, n)[a] = file[a]
BY SizeAssumption DEF ReadFile, Buffer, Addr

(* An unwritten buffer is a buffer.                                         *)
LEMMA JunkBodyType == JunkBody \in Buffer
BY DEF JunkBody, Buffer, Cell

(* What Database::insert does to a store.                                  *)
LEMMA InsertFacts ==
    ASSUME NEW db, NEW k, NEW v
    PROVE  /\ DOMAIN insert(db, k, v) = DOMAIN db \cup {k}
           /\ insert(db, k, v)[k] = v
           /\ \A x \in DOMAIN db : x # k => insert(db, k, v)[x] = db[x]
           /\ \A K, V : IsStore(db, K, V) /\ k \in K /\ v \in V
                         => IsStore(insert(db, k, v), K, V)
BY DEF insert, IsStore

-----------------------------------------------------------------------------
(* Types and bounds. *)

(* A saved chunk's arguments have the type of the variable that keeps them.*)
LEMMA ArgumentsFacts ==
    ASSUME TypeOK, NEW c \in Chunk
    PROVE  /\ Arguments(c, Content[c]) \in
                  [chunk : Chunk, data : Seq(Cell), count : Count, deltaCount : Nat]
           /\ Arguments(c, Content[c]).chunk = c
           /\ Arguments(c, Content[c]).data = Stored(c)
           /\ Arguments(c, Content[c]) # NoSave
<1> DEFINE args == Arguments(c, Content[c])
<1>1. 1 % Wrap \in Count
  BY SizeAssumption DEF Count
<1>2. \A d \in DOMAIN fp2ChunkDB :
         fp2ChunkDB[d].count \in Count /\ fp2ChunkDB[d].deltaCount \in Nat
  BY DEF TypeOK, IsStore, Key
<1>3. Stored(c) \in Seq(Cell)
  BY StoredFacts
<1>4. args \in [chunk : Chunk, data : Seq(Cell), count : Count, deltaCount : Nat]
  BY <1>1, <1>2, <1>3 DEF Arguments, Stored, query
<1>5. args \in [chunk : Chunk, data : Seq(Byte \cup {Junk}), count : Nat, deltaCount : Nat]
  BY <1>4, SizeAssumption DEF Cell, Count
<1>6. args # NoSave
  BY <1>5, SentinelAssumption
<1> QED BY <1>4, <1>6 DEF Arguments, Stored

(* The shape invariant holds initially.                                     *)
LEMMA InitShape == Init => Shape
<1> SUFFICES ASSUME Init PROVE Shape
  OBVIOUS
<1>1. IsStore(EmptyStore, Name, Seq(Cell)) /\ IsStore(EmptyStore, Name, Nat)
      /\ IsStore(EmptyStore, Chunk, Key)
  BY DEF EmptyStore, IsStore
<1>2. TypeOK
  BY <1>1, JunkBodyType, SizeAssumption DEF Init, TypeOK, Phase, Name
<1>3. SavingOK
  BY DEF Init, SavingOK, Saving
<1>4. BoundsOK
  BY SizeAssumption DEF Init, BoundsOK, HasLog, EmptyStore
<1> QED BY <1>2, <1>3, <1>4 DEF Shape

(* The object is gone, and the index and the configuration are unchanged.  *)
LEMMA GoneShape ==
    ASSUME Shape, Gone, UNCHANGED <<config, fp2ChunkDB>>,
           IsStore(files', Name, Seq(Cell)), IsStore(containerDB', Name, Nat),
           committed' \in SUBSET Chunk
    PROVE  Shape'
<1>1. TypeOK'
  BY JunkBodyType, SizeAssumption DEF Shape, TypeOK, Gone, Phase, Name
<1>2. SavingOK'
  BY DEF Gone, SavingOK, Saving
<1>3. BoundsOK'
  BY SizeAssumption DEF Shape, BoundsOK, HasLog, Gone
<1> QED BY <1>1, <1>2, <1>3 DEF Shape

(* saveTOFile leaves well-typed stores.                                    *)
LEMMA SaveFileType ==
    ASSUME Shape, NEW n \in 0 .. used
    PROVE  /\ IsStore(insert(files, last, Bytes(body, 0, n)), Name, Seq(Cell))
           /\ IsStore(insert(containerDB, last, used), Name, Nat)
<1>1. n \in Nat /\ n <= MaxContainerSize
  BY SizeAssumption DEF Shape, TypeOK, BoundsOK, HasLog
<1>2. Bytes(body, 0, n) \in Seq(Cell)
  BY <1>1, ImageFacts DEF Shape, TypeOK
<1> QED BY <1>2, InsertFacts DEF Shape, TypeOK

(* What the two kinds of step that write the index do to it.               *)
LEMMA IndexChunkDB ==
    ASSUME IndexChunk
    PROVE  /\ DOMAIN fp2ChunkDB' = DOMAIN fp2ChunkDB \cup {saving.chunk}
           /\ fp2ChunkDB'[saving.chunk] = SavingKey
           /\ \A d \in DOMAIN fp2ChunkDB : d # saving.chunk => fp2ChunkDB'[d] = fp2ChunkDB[d]
BY InsertFacts DEF IndexChunk

(* Setting a count moves no chunk.                                          *)
LEMMA SetCountDB ==
    ASSUME TypeOK, NEW c \in Chunk, NEW n \in Int, SetCount(c, n)
    PROVE  /\ IsStore(fp2ChunkDB', Chunk, Key)
           /\ DOMAIN fp2ChunkDB' = DOMAIN fp2ChunkDB
           /\ \A d \in DOMAIN fp2ChunkDB :
                 /\ fp2ChunkDB'[d].containerName = fp2ChunkDB[d].containerName
                 /\ fp2ChunkDB'[d].offset = fp2ChunkDB[d].offset
                 /\ fp2ChunkDB'[d].length = fp2ChunkDB[d].length
<1> DEFINE key == [fp2ChunkDB[c] EXCEPT !.count = n % Wrap]
<1>1. n % Wrap \in Count
  BY SizeAssumption DEF Count
<1>2. c \in DOMAIN fp2ChunkDB /\ fp2ChunkDB[c] \in Key
  BY DEF SetCount, query, TypeOK, IsStore
<1>3. /\ key \in Key
      /\ key.containerName = fp2ChunkDB[c].containerName
      /\ key.offset = fp2ChunkDB[c].offset
      /\ key.length = fp2ChunkDB[c].length
  BY <1>1, <1>2 DEF Key
<1>4. fp2ChunkDB' = insert(fp2ChunkDB, c, key)
  BY DEF SetCount
<1>5. IsStore(fp2ChunkDB', Chunk, Key)
  BY <1>3, <1>4, InsertFacts DEF TypeOK
<1>6. DOMAIN fp2ChunkDB' = DOMAIN fp2ChunkDB /\ fp2ChunkDB'[c] = key
  BY <1>2, <1>4, InsertFacts
<1>7. \A d \in DOMAIN fp2ChunkDB : d # c => fp2ChunkDB'[d] = fp2ChunkDB[d]
  BY <1>4 DEF insert
<1> QED BY <1>3, <1>5, <1>6, <1>7

(* Every step preserves types, bounds and the arguments of saveChunk.       *)
LEMMA NextShape == Shape /\ [Next]_vars => Shape'
<1> SUFFICES ASSUME Shape, [Next]_vars PROVE Shape'
  OBVIOUS
<1> USE DEF Shape
<1>1. CASE Open
  <2>1. HasLog => /\ config.last \in Name
                             /\ config.used \in Nat /\ config.used <= MaxContainerSize
    BY DEF TypeOK, BoundsOK, HasLog
  <2>2. HasLog /\ config.last \in DOMAIN files =>
           ReadFile(body, files[config.last], config.used) \in Buffer
    BY <2>1, ReadFileFacts DEF TypeOK, IsStore
  <2>3. TypeOK'
    BY <1>1, <2>1, <2>2 DEF Open, TypeOK, HasLog, diskVars, cacheVars, historyVars, Phase
  <2>4. SavingOK'
    BY <1>1 DEF Open, SavingOK, Saving
  <2>5. BoundsOK'
    BY <1>1, <2>1 DEF Open, BoundsOK, HasLog, diskVars
  <2> QED BY <2>3, <2>4, <2>5
<1>2. ASSUME NEW c \in Chunk, SaveNew(c) PROVE Shape'
  <2> DEFINE data == Content[c]
  <2>1. /\ Stored(c) = Sanitise(data) /\ Stored(c) \in Seq(Cell)
        /\ Len(Stored(c)) = Len(data) /\ Len(data) \in Nat
    BY StoredFacts DEF Stored
  <2>2. CASE WriteFits(c, data)
    <3>1. used + Len(Stored(c)) <= MaxContainerSize
      BY <2>1, <2>2, SizeAssumption DEF WriteFits, Fits, TypeOK
    <3>2. body' \in Buffer
      BY <2>1, <2>2, <3>1, MemcpyFacts DEF WriteFits, TypeOK
    <3>3. TypeOK'
      BY <2>2, <3>2, ArgumentsFacts
      DEF WriteFits, TypeOK, diskVars, cacheVars, historyVars, Phase
    <3>4. SavingOK'
      BY <2>2, <3>1, ArgumentsFacts DEF WriteFits, SavingOK, Saving
    <3>5. BoundsOK'
      BY <2>2 DEF WriteFits, BoundsOK, HasLog, diskVars
    <3> QED BY <3>3, <3>4, <3>5
  <2>3. CASE Rotate(c, data)
    <3>1. last + 1 \in Name
      BY <2>3, SizeAssumption DEF Rotate, NeedsRotation, TypeOK, Name
    <3>2. IsStore(files', Name, Seq(Cell)) /\ IsStore(containerDB', Name, Nat)
      BY <2>3, SaveFileType DEF Rotate, saveTOFile, TypeOK
    <3>3. TypeOK'
      BY <2>3, <3>1, <3>2, ArgumentsFacts
      DEF Rotate, TypeOK, cacheVars, historyVars, Phase
    <3>4. SavingOK'
      BY <2>3, ArgumentsFacts DEF Rotate, SavingOK, Saving
    <3>5. BoundsOK'
      BY <2>3 DEF Rotate, BoundsOK, HasLog
    <3> QED BY <3>3, <3>4, <3>5
  <2>4. CASE RotateUnopened(c, data)
    <3>1. last + 1 \in Name
      BY <2>4, SizeAssumption DEF RotateUnopened, NeedsRotation, TypeOK, Name
    <3>2. TypeOK'
      BY <2>4, <3>1, ArgumentsFacts
      DEF RotateUnopened, TypeOK, diskVars, cacheVars, Phase
    <3>3. SavingOK'
      BY <2>4, ArgumentsFacts DEF RotateUnopened, SavingOK, Saving
    <3>4. BoundsOK'
      BY <2>4 DEF RotateUnopened, BoundsOK, HasLog, diskVars
    <3> QED BY <3>2, <3>3, <3>4
  <2>5. CASE TornRotate(data)
    <3>1. PICK n \in 0 .. used : Torn(n)
      BY <2>5 DEF TornRotate
    <3>2. IsStore(files', Name, Seq(Cell))
      BY <3>1, SaveFileType DEF Torn
    <3>3. IsStore(containerDB', Name, Nat)
      <4>1. CASE containerDB' = containerDB
        BY <4>1 DEF TypeOK
      <4>2. CASE containerDB' = insert(containerDB, last, used)
        BY <4>2, SaveFileType
      <4> QED BY <3>1, <4>1, <4>2 DEF Torn
    <3> QED BY <3>1, <3>2, <3>3, GoneShape DEF Torn, TypeOK
  <2>6. CASE Overrun(c, data)
    BY <2>6, GoneShape DEF Overrun, diskVars, TypeOK
  <2> QED BY <1>2, <2>2, <2>3, <2>4, <2>5, <2>6 DEF SaveNew, BeginSave
<1>3. CASE WriteRotated
  <2>1. /\ saving \in [chunk : Chunk, data : Seq(Cell), count : Count, deltaCount : Nat]
        /\ saving.data = Stored(saving.chunk)
    BY <1>3 DEF WriteRotated, SavingOK, Saving, TypeOK
  <2>2. 0 + Len(saving.data) <= MaxContainerSize /\ saving.data \in Seq(Cell)
    BY <2>1, StoredFacts, SizeAssumption
  <2>3. body' \in Buffer
    BY <1>3, <2>2, MemcpyFacts DEF WriteRotated, TypeOK
  <2>4. TypeOK'
    BY <1>3, <2>3 DEF WriteRotated, TypeOK, diskVars, cacheVars, historyVars, Phase
  <2>5. SavingOK'
    BY <1>3, <2>1, <2>2 DEF WriteRotated, SavingOK, Saving
  <2>6. BoundsOK'
    BY <1>3, SizeAssumption DEF WriteRotated, BoundsOK, HasLog, diskVars
  <2> QED BY <2>4, <2>5, <2>6
<1>4. CASE IndexChunk
  <2>1. /\ saving \in [chunk : Chunk, data : Seq(Cell), count : Count, deltaCount : Nat]
        /\ saving.data = Stored(saving.chunk)
        /\ used + Len(saving.data) <= MaxContainerSize
    BY <1>4 DEF IndexChunk, SavingOK, Saving, TypeOK
  <2>2. Len(saving.data) \in 1 .. (MaxContainerSize - 1)
    BY <2>1, StoredFacts
  <2>3. SavingKey \in Key
    BY <2>1, <2>2 DEF SavingKey, Key, TypeOK
  <2>4. IsStore(fp2ChunkDB', Chunk, Key)
    BY <1>4, <2>1, <2>3, InsertFacts DEF IndexChunk, TypeOK
  <2>5. TypeOK'
    BY <1>4, <2>4 DEF IndexChunk, TypeOK, cacheVars, historyVars, Phase
  <2>6. SavingOK'
    BY <1>4 DEF IndexChunk, SavingOK, Saving
  <2>7. BoundsOK'
    <3>1. SavingKey.offset = used /\ SavingKey.length = Len(saving.data)
      BY DEF SavingKey
    <3> QED BY <1>4, <2>1, <3>1, IndexChunkDB DEF IndexChunk, BoundsOK, HasLog
  <2> QED BY <2>5, <2>6, <2>7
<1>5. CASE IndexFails
  <2>1. TypeOK'
    BY <1>5 DEF IndexFails, TypeOK, diskVars, cacheVars, historyVars, Phase
  <2>2. SavingOK' /\ BoundsOK'
    BY <1>5 DEF IndexFails, SavingOK, Saving, BoundsOK, HasLog, diskVars
  <2> QED BY <2>1, <2>2
<1>6. CASE AdvanceUsed
  <2>1. /\ saving.chunk \in Chunk /\ Len(saving.data) \in Nat
        /\ used + Len(saving.data) <= MaxContainerSize
    BY <1>6 DEF AdvanceUsed, SavingOK, Saving, TypeOK
  <2>2. TypeOK'
    BY <1>6, <2>1 DEF AdvanceUsed, TypeOK, diskVars, cacheVars, Phase
  <2>3. SavingOK' /\ BoundsOK'
    BY <1>6, <2>1 DEF AdvanceUsed, SavingOK, Saving, BoundsOK, HasLog, diskVars
  <2> QED BY <2>2, <2>3
<1>7. ASSUME NEW c \in Chunk, RestoreChunk(c) PROVE Shape'
  <2>1. readName' \in Name \cup {NoName} /\ readBody' \in Buffer
    <3> DEFINE name == fp2ChunkDB[c].containerName
    <3>1. name \in Name
      BY <1>7 DEF RestoreChunk, query, TypeOK, IsStore, Key
    <3>2. CASE name \in {readName, last} \/ name \notin DOMAIN files
      BY <1>7, <3>2 DEF RestoreChunk, LoadCache, cacheVars, TypeOK
    <3>3. CASE ~(name \in {readName, last} \/ name \notin DOMAIN files)
      <4>1. readBody' = ReadFile(readBody, files[name], Len(files[name])) /\ readName' = name
        BY <1>7, <3>3 DEF RestoreChunk, LoadCache, Source
      <4>2. files[name] \in Seq(Cell) /\ Len(files[name]) \in Nat
        BY <3>3 DEF TypeOK, IsStore
      <4> QED BY <3>1, <4>1, <4>2, ReadFileFacts DEF TypeOK
    <3> QED BY <3>2, <3>3
  <2>2. TypeOK'
    BY <1>7, <2>1 DEF RestoreChunk, TypeOK, diskVars, historyVars
  <2>3. SavingOK' /\ BoundsOK'
    BY <1>7 DEF RestoreChunk, SavingOK, Saving, BoundsOK, HasLog, diskVars
  <2> QED BY <2>2, <2>3
<1>8. ASSUME NEW c \in Chunk, NEW n \in Int, SetCount(c, n) PROVE Shape'
  <2>1. TypeOK'
    BY <1>8, SetCountDB DEF SetCount, TypeOK, objectVars, cacheVars, historyVars
  <2>2. SavingOK'
    BY <1>8 DEF SetCount, SavingOK, Saving, objectVars
  <2>3. BoundsOK'
    BY <1>8, SetCountDB DEF SetCount, BoundsOK, HasLog, objectVars
  <2> QED BY <2>1, <2>2, <2>3
<1>9. ASSUME NEW c \in Chunk, AddReference(c) \/ deleteChunk(c) PROVE Shape'
  <2>1. c \in DOMAIN fp2ChunkDB
    BY <1>9 DEF AddReference, deleteChunk, SetCount, query
  <2>2. fp2ChunkDB[c].count \in Int
    BY <2>1, SizeAssumption DEF TypeOK, IsStore, Key, Count
  <2> QED BY <1>8, <1>9, <2>2 DEF AddReference, deleteChunk
<1>10. CASE BeginClose
  <2>1. TypeOK'
    BY <1>10 DEF BeginClose, TypeOK, diskVars, cacheVars, historyVars, Phase
  <2>2. SavingOK' /\ BoundsOK'
    BY <1>10 DEF BeginClose, SavingOK, Saving, BoundsOK, HasLog, diskVars
  <2> QED BY <2>1, <2>2
<1>11. CASE ConfigStep
  <2>1. TypeOK'
    BY <1>11 DEF ConfigStep, WriteConfig, WriteConfigUnopened, TypeOK, diskVars, cacheVars,
                 historyVars, Phase
  <2>2. SavingOK' /\ BoundsOK'
    BY <1>11 DEF ConfigStep, WriteConfig, WriteConfigUnopened, SavingOK, Saving, BoundsOK,
                 HasLog, diskVars
  <2> QED BY <2>1, <2>2
<1>12. CASE SaveLast
  <2>1. IsStore(files', Name, Seq(Cell)) /\ IsStore(containerDB', Name, Nat)
    BY <1>12, SaveFileType DEF SaveLast, saveTOFile, TypeOK
  <2> QED BY <1>12, <2>1, GoneShape DEF SaveLast, TypeOK
<1>13. CASE SaveLastUnopened
  BY <1>13, GoneShape DEF SaveLastUnopened, diskVars, TypeOK
<1>14. CASE Exit \/ Crash
  BY <1>14, GoneShape DEF Exit, Crash, diskVars, TypeOK
<1>15. CASE Interrupt
  <2>1. TypeOK'
    BY <1>15 DEF Interrupt, TypeOK, diskVars, cacheVars, historyVars, Phase
  <2>2. SavingOK' /\ BoundsOK'
    BY <1>15 DEF Interrupt, SavingOK, Saving, BoundsOK, HasLog, diskVars
  <2> QED BY <2>1, <2>2
<1>16. CASE TornClose
  <2>1. PICK n \in 0 .. used : Torn(n)
    BY <1>16 DEF TornClose
  <2>2. IsStore(files', Name, Seq(Cell))
    BY <2>1, SaveFileType DEF Torn
  <2>3. IsStore(containerDB', Name, Nat)
    <3>1. CASE containerDB' = containerDB
      BY <3>1 DEF TypeOK
    <3>2. CASE containerDB' = insert(containerDB, last, used)
      BY <3>2, SaveFileType
    <3> QED BY <2>1, <3>1, <3>2 DEF Torn
  <2> QED BY <2>1, <2>2, <2>3, GoneShape DEF Torn, TypeOK
<1>17. CASE TornConfig \/ EmptiedConfig
  <2>1. /\ UNCHANGED <<files, containerDB, fp2ChunkDB>> /\ Gone
        /\ config' = [last |-> last, used |-> 0] \/ config' = NoLine
        /\ committed' \subseteq committed
    BY <1>17 DEF TornConfig, EmptiedConfig
  <2>2. TypeOK'
    BY <2>1, JunkBodyType, SizeAssumption DEF TypeOK, Gone, Phase, Name
  <2>3. SavingOK' /\ BoundsOK'
    BY <2>1, SizeAssumption DEF Gone, SavingOK, Saving, BoundsOK, HasLog
  <2> QED BY <2>2, <2>3
<1>18. CASE UNCHANGED vars \/ ReadNothing
  <2> USE DEF ReadNothing
  <2>1. TypeOK'
    BY <1>18 DEF vars, TypeOK, diskVars, objectVars, cacheVars, historyVars
  <2>2. SavingOK' /\ BoundsOK'
    BY <1>18 DEF vars, SavingOK, Saving, BoundsOK, HasLog, diskVars, objectVars
  <2> QED BY <2>1, <2>2
<1> QED
  BY <1>1, <1>2, <1>3, <1>4, <1>5, <1>6, <1>7, <1>9, <1>10, <1>11, <1>12, <1>13,
     <1>14, <1>15, <1>16, <1>17, <1>18 DEF Next, SaveLastStep

-----------------------------------------------------------------------------
(* Where the bytes of committed and fresh chunks are.                      *)

(* The fields of a committed or fresh chunk's entry are numbers, and its   *)
(* bytes lie at addresses of a container.                                  *)
LEMMA EntryFacts ==
    ASSUME Shape, NEW c \in DOMAIN fp2ChunkDB, fp2ChunkDB[c].length = Len(Stored(c))
    PROVE  /\ c \in Chunk
           /\ In_(c) \in Nat /\ In_(c) \in Name /\ In_(c) # NoName
           /\ fp2ChunkDB[c].offset \in Nat
           /\ Len(Stored(c)) \in Nat
           /\ End(c) \in Nat /\ End(c) <= MaxContainerSize
           /\ \A i \in 1 .. Len(Stored(c)) :
                 /\ fp2ChunkDB[c].offset + i \in Addr
                 /\ fp2ChunkDB[c].offset + i <= End(c)
<1>1. c \in Chunk /\ fp2ChunkDB[c] \in Key
  BY DEF Shape, TypeOK, IsStore
<1>2. In_(c) \in Name /\ fp2ChunkDB[c].offset \in Nat /\ Len(Stored(c)) \in Nat
  BY <1>1, StoredFacts DEF Key, In_
<1>3. In_(c) \in Nat /\ In_(c) # NoName
  BY <1>2, SizeAssumption, SentinelAssumption DEF Name
<1>4. End(c) \in Nat /\ End(c) <= MaxContainerSize
  BY <1>2 DEF End, Shape, BoundsOK, HasLog
<1>5. \A i \in 1 .. Len(Stored(c)) : /\ fp2ChunkDB[c].offset + i \in Addr
                                     /\ fp2ChunkDB[c].offset + i <= End(c)
  BY <1>2, <1>4, SizeAssumption DEF End, Addr
<1> QED BY <1>1, <1>2, <1>3, <1>4, <1>5

(* Saving the container in memory puts the chunks it holds into its file   *)
(* and leaves the other files alone.                                       *)
LEMMA SaveKeeps ==
    ASSUME Shape, NEW n \in 0 .. used, NEW c \in DOMAIN fp2ChunkDB,
           fp2ChunkDB[c].length = Len(Stored(c)),
           files' = insert(files, last, Bytes(body, 0, n)),
           fp2ChunkDB' = fp2ChunkDB,
           In_(c) = last => End(c) <= n /\ Holds(body, c),
           In_(c) # last => OnDisk(c)
    PROVE  OnDisk(c)'
<1>1. n \in Nat /\ n <= MaxContainerSize /\ body \in Buffer
  BY SizeAssumption DEF Shape, TypeOK, BoundsOK, HasLog
<1>2. CASE In_(c) = last
  <2>1. last \in DOMAIN files' /\ files'[last] = Bytes(body, 0, n)
    BY DEF insert
  <2>2. Len(Bytes(body, 0, n)) = n /\ \A i \in 1 .. n : Bytes(body, 0, n)[i] = body[i]
    BY <1>1, ImageFacts
  <2>3. \A i \in 1 .. Len(Stored(c)) : fp2ChunkDB[c].offset + i \in 1 .. n
    BY <1>1, <1>2, EntryFacts DEF Addr
  <2>4. \A i \in 1 .. Len(Stored(c)) :
           Bytes(body, 0, n)[fp2ChunkDB[c].offset + i] = Stored(c)[i]
    BY <1>2, <2>2, <2>3 DEF Holds
  <2>5. In_(c)' = last /\ End(c)' = End(c)
    BY <1>2 DEF In_, End
  <2> QED BY <1>2, <2>1, <2>2, <2>4, <2>5 DEF OnDisk, Holds
<1>3. CASE In_(c) # last
  <2>1. In_(c) \in DOMAIN files' /\ files'[In_(c)] = files[In_(c)]
    BY <1>3 DEF OnDisk, insert
  <2>2. In_(c)' = In_(c) /\ End(c)' = End(c)
    BY DEF In_, End
  <2> QED BY <1>3, <2>1, <2>2 DEF OnDisk, Holds
<1> QED BY <1>2, <1>3

(* The end of an object, however it ends: what remains to be shown is that *)
(* the chunks counted as committed are on disk under .StorageConfig.       *)
LEMMA GoneDurable ==
    ASSUME Gone, UNCHANGED fp2ChunkDB,
           \A c \in committed' : /\ Indexed(c) /\ OnDisk(c)'
                                 /\ HasLog' /\ In_(c) <= config'.last
                                 /\ In_(c) = config'.last => End(c) <= config'.used
    PROVE  Durable'
<1>1. phase' = "closed" /\ ~IsOpen'
  BY DEF Gone, IsOpen
<1>2. ConfigOK' /\ ClosedOK' /\ FreshOK' /\ InFlightOK'
  BY <1>1 DEF Gone, ConfigOK, HasLog, ClosedOK, FreshOK, InFlightOK
<1>3. CommittedOK'
  <2> SUFFICES ASSUME NEW c \in committed' PROVE CommittedAt(c)'
    BY DEF CommittedOK
  <2>1. In_(c)' = In_(c) /\ End(c)' = End(c) /\ Indexed(c)'
    BY DEF In_, End, Indexed
  <2> QED BY <1>1, <2>1 DEF CommittedAt, HasLog
<1> QED BY <1>2, <1>3 DEF Durable

(* The durability invariant holds initially.                                *)
LEMMA InitDurable == Init => Durable
BY DEF Init, Durable, ConfigOK, HasLog, CommittedOK, FreshOK, ClosedOK, InFlightOK, IsOpen

(* A committed chunk of an open store: the facts most steps need of it.    *)
LEMMA CommittedFacts ==
    ASSUME Shape, Durable, NEW c \in committed
    PROVE  /\ CommittedAt(c) /\ c \in DOMAIN fp2ChunkDB
           /\ fp2ChunkDB[c].length = Len(Stored(c))
           /\ In_(c) \in Nat /\ config.last \in Nat /\ HasLog
           /\ IsOpen => In_(c) <= last
<1>1. CommittedAt(c)
  BY DEF Durable, CommittedOK
<1>2. c \in DOMAIN fp2ChunkDB /\ fp2ChunkDB[c].length = Len(Stored(c)) /\ HasLog
  BY <1>1 DEF CommittedAt, HasLog, Indexed
<1>3. In_(c) \in Nat
  BY <1>2, EntryFacts
<1>4. config.last \in Nat /\ last \in Nat
  BY <1>2, SizeAssumption DEF Shape, TypeOK, Name, HasLog
<1>5. IsOpen => In_(c) <= last
  BY <1>1, <1>2, <1>3, <1>4 DEF CommittedAt, Durable, ConfigOK, HasLog
<1> QED BY <1>1, <1>2, <1>3, <1>4, <1>5

(* What the invariants say of a chunk saved in this session.                *)
LEMMA FreshFacts ==
    ASSUME Shape, Durable, NEW c \in fresh
    PROVE  /\ FreshAt(c) /\ c \in DOMAIN fp2ChunkDB
           /\ fp2ChunkDB[c].length = Len(Stored(c)) /\ In_(c) \in Nat
<1>1. FreshAt(c)
  BY DEF Durable, FreshOK
<1>2. c \in DOMAIN fp2ChunkDB /\ fp2ChunkDB[c].length = Len(Stored(c))
  BY <1>1 DEF FreshAt, Indexed
<1> QED BY <1>1, <1>2, EntryFacts

(* The process dies between two steps, or leaves the object undestroyed.   *)
LEMMA DeathDurable ==
    ASSUME Shape, Durable, Gone, UNCHANGED <<diskVars, committed>>
    PROVE  Durable'
<1>1. UNCHANGED <<config, files, fp2ChunkDB, committed>>
  BY DEF diskVars
<1>2. ASSUME NEW c \in committed
      PROVE  /\ Indexed(c) /\ OnDisk(c)' /\ HasLog /\ In_(c) <= config.last
             /\ In_(c) = config.last => End(c) <= config.used
  <2>1. OnDisk(c)' = OnDisk(c)
    BY <1>1 DEF OnDisk, Holds, In_, End
  <2> QED BY <2>1, CommittedFacts DEF CommittedAt, HasLog
<1> QED BY <1>1, <1>2, GoneDurable DEF HasLog

(* The process dies inside saveTOFile: the chunks it left in the file are  *)
(* still counted as committed.                                             *)
LEMMA TornDurable ==
    ASSUME Shape, Durable, IsOpen, NEW n \in 0 .. used, Torn(n)
    PROVE  Durable'
<1>1. /\ Gone /\ UNCHANGED <<config, fp2ChunkDB>> /\ fp2ChunkDB' = fp2ChunkDB
      /\ files' = insert(files, last, Bytes(body, 0, n))
  BY DEF Torn
<1>2. ASSUME NEW c \in committed'
      PROVE  /\ Indexed(c) /\ OnDisk(c)' /\ HasLog /\ In_(c) <= config.last
             /\ In_(c) = config.last => End(c) <= config.used
  <2>1. c \in committed /\ (In_(c) = last => End(c) <= n)
    BY DEF Torn, In_, End
  <2>2. OnDisk(c)'
    BY <1>1, <2>1, CommittedFacts, SaveKeeps DEF CommittedAt, HasLog, InMemory
  <2> QED BY <2>1, <2>2, CommittedFacts DEF CommittedAt, HasLog
<1> QED BY <1>1, <1>2, GoneDurable DEF HasLog

(* Steps of an open object that change neither the index nor the disk, the *)
(* current container's name, or the cache: a committed chunk is where it   *)
(* was if the container in memory still has it.                            *)
LEMMA CommittedFrame ==
    ASSUME NEW c, CommittedAt(c), IsOpen,
           UNCHANGED <<config, files, fp2ChunkDB, last, cacheVars>>,
           In_(c) = last => InMemory(c)'
    PROVE  CommittedAt(c)'
BY DEF CommittedAt, HasLog, Indexed, OnDisk, Holds, In_, End, cacheVars

(* A step that leaves files, index and log name alone.                      *)
LEMMA FreshFrame ==
    ASSUME NEW c, FreshAt(c),
           UNCHANGED <<files, fp2ChunkDB, last>>,
           In_(c) = last => InMemory(c)'
    PROVE  FreshAt(c)'
BY DEF FreshAt, Indexed, OnDisk, Holds, In_, End

(* Copying data in behind used_ leaves the chunks before it in place.      *)
LEMMA MemcpyKeeps ==
    ASSUME Shape, NEW data \in Seq(Cell), used + Len(data) <= MaxContainerSize,
           body' = memcpy(body, used, data), UNCHANGED <<used, fp2ChunkDB>>,
           NEW c \in DOMAIN fp2ChunkDB, fp2ChunkDB[c].length = Len(Stored(c)), InMemory(c)
    PROVE  InMemory(c)'
<1>1. used \in Nat /\ body \in Buffer
  BY DEF Shape, TypeOK
<1>2. \A a \in 1 .. used : body'[a] = body[a]
  BY <1>1, MemcpyFacts
<1>3. \A i \in 1 .. Len(Stored(c)) : fp2ChunkDB[c].offset + i \in 1 .. used
  BY <1>1, EntryFacts DEF InMemory, Addr
<1> QED BY <1>2, <1>3 DEF InMemory, Holds, End

(* The constructor loads the last container as it was closed.               *)
LEMMA OpenDurable == Shape /\ Durable /\ Open => Durable'
<1> SUFFICES ASSUME Shape, Durable, Open PROVE Durable'
  OBVIOUS
<1>1. phase' = "ready" /\ IsOpen' /\ ~IsOpen /\ fresh = {} /\ readName = NoName
  BY DEF Open, IsOpen, Durable, ClosedOK
<1>2. UNCHANGED <<config, files, fp2ChunkDB, readName, readBody, saving, fresh, committed>>
  BY DEF Open, diskVars, cacheVars, historyVars
<1>3. HasLog => /\ config.last \in Nat /\ last' = config.last
                           /\ config.used \in Nat /\ used' = config.used
  BY SizeAssumption DEF Open, Shape, TypeOK, Name, HasLog
<1>4. ConfigOK' /\ FreshOK' /\ ClosedOK' /\ InFlightOK'
  BY <1>1, <1>2, <1>3 DEF ConfigOK, HasLog, Open, FreshOK, ClosedOK, InFlightOK
<1>5. CommittedOK'
  <2> SUFFICES ASSUME NEW c \in committed PROVE CommittedAt(c)'
    BY <1>2 DEF CommittedOK
  <2>1. CommittedAt(c) /\ HasLog
    BY CommittedFacts
  <2>2. ASSUME In_(c) = config.last PROVE InMemory(c)'
    <3> DEFINE file == files[config.last]
    <3>1. config.last \in DOMAIN files /\ file \in Seq(Cell) /\ End(c) <= Len(file)
          /\ Holds(file, c) /\ End(c) <= config.used
      BY <2>1, <2>2 DEF CommittedAt, HasLog, OnDisk, Shape, TypeOK, IsStore
    <3>2. body' = ReadFile(body, file, config.used) /\ body \in Buffer
      BY <2>1, <3>1 DEF Open, Shape, TypeOK, HasLog
    <3>3. \A a \in Addr : a <= config.used /\ a <= Len(file) => body'[a] = file[a]
      BY <1>3, <2>1, <3>1, <3>2, ReadFileFacts
    <3>4. \A i \in 1 .. Len(Stored(c)) :
             LET a == fp2ChunkDB[c].offset + i
             IN a \in Addr /\ a <= config.used /\ a <= Len(file)
      <4>1. Len(file) \in Nat /\ config.used \in Nat
        BY <1>3, <2>1, <3>1
      <4> QED BY <3>1, <4>1, CommittedFacts, EntryFacts DEF Addr
    <3>5. Holds(body, c)'
      BY <1>2, <3>1, <3>3, <3>4 DEF Holds
    <3>6. (End(c) <= used)'
      BY <1>2, <1>3, <2>1, <3>1 DEF End
    <3> QED BY <3>5, <3>6 DEF InMemory
  <2>3. In_(c) # readName
    BY <1>1, CommittedFacts, SentinelAssumption
  <2>4. In_(c)' = In_(c) /\ End(c)' = End(c) /\ Indexed(c)' = Indexed(c) /\ OnDisk(c)' = OnDisk(c)
    BY <1>2 DEF In_, End, Indexed, OnDisk, Holds
  <2> QED BY <1>2, <1>3, <2>1, <2>2, <2>3, <2>4 DEF CommittedAt, HasLog
<1> QED BY <1>4, <1>5 DEF Durable

(* The first step of saveChunk, rotation or death included.                 *)
LEMMA SaveNewDurable ==
    ASSUME Shape, Durable, NEW c \in Chunk, SaveNew(c)
    PROVE  Durable'
<1> DEFINE data == Content[c]
<1>1. /\ Stored(c) = Sanitise(data) /\ Stored(c) \in Seq(Cell)
      /\ Len(Stored(c)) = Len(data) /\ Len(data) \in Nat
  BY StoredFacts DEF Stored
<1>2. c \notin DOMAIN fp2ChunkDB
  BY DEF SaveNew, query
<1>3. Arguments(c, data).chunk = c /\ Arguments(c, data).data = Stored(c)
  BY ArgumentsFacts DEF Shape
<1>4. used \in Nat /\ body \in Buffer /\ last \in Nat
  BY SizeAssumption DEF Shape, TypeOK, Name
<1>5. CASE WriteFits(c, data)
  <2>1. /\ UNCHANGED <<config, files, fp2ChunkDB, last, used, cacheVars, readName, fresh, committed>>
        /\ phase = "ready" /\ phase' = "written" /\ IsOpen /\ IsOpen'
        /\ saving' = Arguments(c, data) /\ body' = memcpy(body, used, Stored(c))
    BY <1>1, <1>5 DEF WriteFits, diskVars, historyVars, cacheVars, IsOpen
  <2>2. used + Len(Stored(c)) <= MaxContainerSize
    BY <1>1, <1>4, <1>5, SizeAssumption DEF WriteFits, Fits
  <2>3. ConfigOK' /\ ClosedOK'
    BY <2>1 DEF Durable, ConfigOK, HasLog, ClosedOK
  <2>4. CommittedOK'
    <3> SUFFICES ASSUME NEW d \in committed PROVE CommittedAt(d)'
      BY <2>1 DEF CommittedOK
    <3>1. In_(d) = last => InMemory(d)'
      BY <1>1, <2>1, <2>2, CommittedFacts, MemcpyKeeps DEF CommittedAt, HasLog
    <3> QED BY <2>1, <3>1, CommittedFacts, CommittedFrame
  <2>5. FreshOK'
    <3> SUFFICES ASSUME NEW d \in fresh PROVE FreshAt(d)'
      BY <2>1 DEF FreshOK
    <3>1. In_(d) = last => InMemory(d)'
      BY <1>1, <2>1, <2>2, FreshFacts, MemcpyKeeps DEF FreshAt
    <3> QED BY <2>1, <3>1, FreshFacts, FreshFrame
  <2>6. InFlightOK'
    <3>1. \A i \in 1 .. Len(Stored(c)) : body'[used + i] = Stored(c)[i]
      BY <1>1, <1>4, <2>1, <2>2, MemcpyFacts
    <3> QED BY <1>2, <1>3, <2>1, <3>1 DEF InFlightOK
  <2> QED BY <2>3, <2>4, <2>5, <2>6 DEF Durable
<1>6. CASE Rotate(c, data)
  <2>1. /\ UNCHANGED <<config, fp2ChunkDB, cacheVars, readName, readBody, fresh, committed>>
        /\ phase = "ready" /\ phase' = "rotated" /\ IsOpen /\ IsOpen'
        /\ saving' = Arguments(c, data) /\ last' = last + 1
        /\ files' = insert(files, last, Bytes(body, 0, used)) /\ used \in 0 .. used
    BY <1>4, <1>6 DEF Rotate, NeedsRotation, historyVars, cacheVars, IsOpen, saveTOFile
  <2>2. ConfigOK' /\ ClosedOK'
    <3>1. HasLog => config.last \in Nat
      BY SizeAssumption DEF Shape, TypeOK, Name, HasLog
    <3> QED BY <1>4, <2>1, <3>1 DEF Durable, ConfigOK, HasLog, ClosedOK
  <2>3. ASSUME NEW d \in committed PROVE CommittedAt(d)' /\ In_(d)' # last'
    <3>1. OnDisk(d)'
      BY <2>1, CommittedFacts, SaveKeeps DEF CommittedAt, HasLog, InMemory
    <3>2. In_(d)' = In_(d) /\ End(d)' = End(d) /\ Indexed(d)' = Indexed(d)
          /\ Holds(readBody, d)' = Holds(readBody, d)
      BY <2>1 DEF In_, End, Indexed, Holds
    <3>3. In_(d) # last'
      BY <1>4, <2>1, CommittedFacts
    <3> QED BY <2>1, <3>1, <3>2, <3>3, CommittedFacts DEF CommittedAt, HasLog
  <2>4. ASSUME NEW d \in fresh PROVE FreshAt(d)' /\ In_(d)' # last'
    <3>1. OnDisk(d)'
      BY <2>1, FreshFacts, SaveKeeps DEF FreshAt, InMemory
    <3>2. In_(d)' = In_(d) /\ Indexed(d)' = Indexed(d)
      BY <2>1 DEF In_, Indexed
    <3>3. In_(d) <= last' /\ In_(d) # last'
      BY <1>4, <2>1, FreshFacts DEF FreshAt
    <3> QED BY <3>1, <3>2, <3>3, FreshFacts DEF FreshAt
  <2>5. CommittedOK' /\ FreshOK'
    BY <2>1, <2>3, <2>4 DEF CommittedOK, FreshOK
  <2>6. InFlightOK'
    BY <1>2, <1>3, <2>1, <2>3, <2>4 DEF InFlightOK
  <2> QED BY <2>2, <2>5, <2>6 DEF Durable
<1>7. CASE RotateUnopened(c, data)
  <2>1. /\ UNCHANGED <<config, files, fp2ChunkDB, cacheVars, readName, readBody, committed>>
        /\ phase = "ready" /\ phase' = "rotated" /\ IsOpen /\ IsOpen'
        /\ saving' = Arguments(c, data) /\ last' = last + 1
        /\ fresh' = fresh \ In(fresh, last)
    BY <1>7 DEF RotateUnopened, NeedsRotation, diskVars, cacheVars, IsOpen
  <2>2. ConfigOK' /\ ClosedOK'
    <3>1. HasLog => config.last \in Nat
      BY SizeAssumption DEF Shape, TypeOK, Name, HasLog
    <3> QED BY <1>4, <2>1, <3>1 DEF Durable, ConfigOK, HasLog, ClosedOK
  <2>3. ASSUME NEW d \in committed PROVE CommittedAt(d)' /\ In_(d)' # last'
    <3>1. In_(d)' = In_(d) /\ End(d)' = End(d) /\ Indexed(d)' = Indexed(d)
          /\ Holds(readBody, d)' = Holds(readBody, d) /\ OnDisk(d)' = OnDisk(d)
      BY <2>1 DEF In_, End, Indexed, Holds, OnDisk
    <3>2. In_(d) # last'
      BY <1>4, <2>1, CommittedFacts
    <3> QED BY <2>1, <3>1, <3>2, CommittedFacts DEF CommittedAt, HasLog
  <2>4. ASSUME NEW d \in fresh' PROVE FreshAt(d)' /\ In_(d)' # last'
    <3>1. d \in fresh /\ In_(d) # last
      BY <2>1 DEF In, In_
    <3>2. In_(d)' = In_(d) /\ Indexed(d)' = Indexed(d) /\ OnDisk(d)' = OnDisk(d)
      BY <2>1 DEF In_, End, Indexed, Holds, OnDisk
    <3>3. In_(d) <= last' /\ In_(d) # last'
      BY <1>4, <2>1, <3>1, FreshFacts DEF FreshAt
    <3> QED BY <3>1, <3>2, <3>3, FreshFacts DEF FreshAt
  <2>5. CommittedOK' /\ FreshOK'
    BY <2>1, <2>3, <2>4 DEF CommittedOK, FreshOK
  <2>6. InFlightOK'
    BY <1>2, <1>3, <2>1, <2>3, <2>4 DEF InFlightOK
  <2> QED BY <2>2, <2>5, <2>6 DEF Durable
<1>8. CASE TornRotate(data)
  <2>1. PICK n \in 0 .. used : Torn(n)
    BY <1>8 DEF TornRotate
  <2>2. IsOpen
    BY <1>8 DEF TornRotate, NeedsRotation, IsOpen
  <2> QED BY <2>1, <2>2, TornDurable
<1>9. CASE Overrun(c, data)
  BY <1>9, DeathDurable DEF Overrun
<1> QED BY <1>5, <1>6, <1>7, <1>8, <1>9 DEF SaveNew, BeginSave

(* Steps of an open object that only move on to a phase in which no save   *)
(* is in progress and the configuration has not been written.              *)
LEMMA QuietDurable ==
    ASSUME Shape, Durable, IsOpen, phase' \in {"ready", "closing"},
           UNCHANGED <<config, files, fp2ChunkDB, last, used, body, readName, readBody,
                       fresh, committed>>
    PROVE  Durable'
<1>1. IsOpen'
  BY DEF IsOpen
<1>2. \A c : InMemory(c)' = InMemory(c)
  BY DEF InMemory, Holds, End
<1>3. ConfigOK' /\ ClosedOK' /\ InFlightOK'
  BY <1>1 DEF Durable, ConfigOK, HasLog, ClosedOK, InFlightOK
<1>4. CommittedOK'
  <2> SUFFICES ASSUME NEW c \in committed PROVE CommittedAt(c)'
    BY DEF CommittedOK
  <2> QED BY <1>2, CommittedFacts, CommittedFrame DEF CommittedAt, HasLog, cacheVars
<1>5. FreshOK'
  <2> SUFFICES ASSUME NEW c \in fresh PROVE FreshAt(c)'
    BY DEF FreshOK
  <2> QED BY <1>2, FreshFacts, FreshFrame DEF FreshAt
<1> QED BY <1>3, <1>4, <1>5 DEF Durable

(* The rest of saveChunk. *)
LEMMA SaveStepsDurable ==
    ASSUME Shape, Durable, WriteRotated \/ IndexChunk \/ IndexFails \/ AdvanceUsed
    PROVE  Durable'
<1>1. /\ saving \in [chunk : Chunk, data : Seq(Cell), count : Count, deltaCount : Nat]
         \/ phase \notin {"rotated", "written", "indexed"}
      /\ used \in Nat /\ body \in Buffer /\ last \in Nat
  BY SizeAssumption DEF Shape, TypeOK, Name, SavingOK, Saving
<1>2. Saving => saving.data = Stored(saving.chunk) /\ Len(saving.data) \in Nat
                /\ Len(saving.data) <= MaxContainerSize
  <2> SUFFICES ASSUME Saving
               PROVE  saving.data = Stored(saving.chunk) /\ Len(saving.data) \in Nat
                      /\ Len(saving.data) <= MaxContainerSize
    OBVIOUS
  <2>1. saving.chunk \in Chunk /\ saving.data = Stored(saving.chunk)
    BY <1>1 DEF Shape, SavingOK, Saving
  <2> QED BY <2>1, StoredFacts, SizeAssumption
<1>3. CASE WriteRotated
  <2>1. /\ UNCHANGED <<config, files, fp2ChunkDB, last, cacheVars, readName, readBody,
                       saving, fresh, committed>>
        /\ phase = "rotated" /\ phase' = "written" /\ IsOpen /\ IsOpen' /\ Saving
        /\ used' = 0 /\ body' = memcpy(body, 0, saving.data)
    BY <1>3 DEF WriteRotated, diskVars, historyVars, cacheVars, IsOpen, Saving
  <2>2. \A d \in committed \cup fresh : In_(d) # last
    BY <2>1 DEF Durable, InFlightOK
  <2>3. ConfigOK' /\ ClosedOK'
    BY <2>1 DEF Durable, ConfigOK, HasLog, ClosedOK
  <2>4. CommittedOK' /\ FreshOK'
    BY <2>1, <2>2, CommittedFacts, CommittedFrame, FreshFacts, FreshFrame
    DEF CommittedOK, FreshOK
  <2>5. InFlightOK'
    <3>1. \A i \in 1 .. Len(saving.data) : body'[0 + i] = saving.data[i]
      BY <1>1, <1>2, <2>1, MemcpyFacts
    <3> QED BY <2>1, <3>1 DEF Durable, InFlightOK
  <2> QED BY <2>3, <2>4, <2>5 DEF Durable
<1>4. CASE IndexChunk
  <2>1. /\ UNCHANGED <<config, files, last, used, body, cacheVars, readName, readBody,
                       saving, fresh, committed>>
        /\ phase = "written" /\ phase' = "indexed" /\ IsOpen /\ IsOpen'
    BY <1>4 DEF IndexChunk, historyVars, cacheVars, IsOpen
  <2>2. saving.chunk \notin DOMAIN fp2ChunkDB
    BY <2>1 DEF Durable, InFlightOK
  <2>3. \A d \in DOMAIN fp2ChunkDB : d \in DOMAIN fp2ChunkDB' /\ fp2ChunkDB'[d] = fp2ChunkDB[d]
    BY <1>4, <2>2, IndexChunkDB
  <2>4. \A d \in DOMAIN fp2ChunkDB :
           /\ In_(d)' = In_(d) /\ End(d)' = End(d)
           /\ Indexed(d) => Indexed(d)'
           /\ OnDisk(d)' = OnDisk(d) /\ InMemory(d)' = InMemory(d)
           /\ Holds(readBody, d)' = Holds(readBody, d)
    BY <2>1, <2>3 DEF In_, End, Indexed, OnDisk, InMemory, Holds
  <2>5. ConfigOK' /\ ClosedOK'
    BY <2>1 DEF Durable, ConfigOK, HasLog, ClosedOK
  <2>6. CommittedOK'
    <3> SUFFICES ASSUME NEW d \in committed PROVE CommittedAt(d)'
      BY <2>1 DEF CommittedOK
    <3> QED BY <2>1, <2>4, CommittedFacts DEF CommittedAt, HasLog
  <2>7. FreshOK'
    <3> SUFFICES ASSUME NEW d \in fresh PROVE FreshAt(d)'
      BY <2>1 DEF FreshOK
    <3> QED BY <2>1, <2>4, FreshFacts DEF FreshAt
  <2>8. InFlightOK'
    <3>1. SavingKey' = SavingKey
      BY <2>1 DEF SavingKey
    <3> QED BY <1>4, <2>1, <3>1, IndexChunkDB DEF Durable, InFlightOK
  <2> QED BY <2>5, <2>6, <2>7, <2>8 DEF Durable
<1>5. CASE IndexFails
  <2>1. /\ UNCHANGED <<config, files, fp2ChunkDB, last, used, body, cacheVars, readName,
                       readBody, fresh, committed>>
        /\ phase' = "ready" /\ IsOpen /\ IsOpen'
    BY <1>5 DEF IndexFails, diskVars, historyVars, cacheVars, IsOpen
  <2> QED BY <2>1, QuietDurable
<1>6. CASE AdvanceUsed
  <2>1. /\ UNCHANGED <<config, files, fp2ChunkDB, last, body, cacheVars, readName, readBody,
                       committed>>
        /\ phase = "indexed" /\ phase' = "ready" /\ IsOpen /\ IsOpen' /\ Saving
        /\ used' = used + Len(saving.data) /\ fresh' = fresh \cup {saving.chunk}
    BY <1>6 DEF AdvanceUsed, diskVars, cacheVars, IsOpen, Saving
  <2>2. \A d \in DOMAIN fp2ChunkDB :
           Indexed(d) /\ InMemory(d) => InMemory(d)'
    <3> SUFFICES ASSUME NEW d \in DOMAIN fp2ChunkDB, Indexed(d), InMemory(d)
                 PROVE  InMemory(d)'
      OBVIOUS
    <3>1. End(d) \in Nat /\ End(d) <= used
      BY EntryFacts DEF Indexed, InMemory
    <3>2. End(d) <= used'
      BY <1>1, <1>2, <2>1, <3>1
    <3> QED BY <2>1, <3>2 DEF InMemory, Holds, End
  <2>3. ConfigOK' /\ ClosedOK' /\ InFlightOK'
    BY <2>1 DEF Durable, ConfigOK, HasLog, ClosedOK, InFlightOK
  <2>4. CommittedOK'
    <3> SUFFICES ASSUME NEW d \in committed PROVE CommittedAt(d)'
      BY <2>1 DEF CommittedOK
    <3>1. In_(d) = last => InMemory(d)'
      BY <2>1, <2>2, CommittedFacts DEF CommittedAt, HasLog
    <3> QED BY <2>1, <3>1, CommittedFacts, CommittedFrame
  <2>5. ASSUME NEW d \in fresh PROVE FreshAt(d)'
    <3>1. In_(d) = last => InMemory(d)'
      BY <2>2, <2>5, FreshFacts DEF FreshAt
    <3> QED BY <2>1, <3>1, FreshFacts, FreshFrame
  <2>6. ASSUME NEW c, c = saving.chunk PROVE FreshAt(c)'
    <3>1. /\ c \in DOMAIN fp2ChunkDB /\ fp2ChunkDB[c] = SavingKey
          /\ \A i \in 1 .. Len(saving.data) : body[used + i] = saving.data[i]
      BY <2>1, <2>6 DEF Durable, InFlightOK
    <3>2. fp2ChunkDB[c].length = Len(Stored(c)) /\ In_(c) = last /\ fp2ChunkDB[c].offset = used
      BY <1>2, <2>1, <2>6, <3>1 DEF SavingKey, In_
    <3>3. \A i \in 1 .. Len(Stored(c)) : body'[fp2ChunkDB'[c].offset + i] = Stored(c)[i]
      BY <1>2, <2>1, <2>6, <3>1, <3>2
    <3>4. fp2ChunkDB'[c].offset + fp2ChunkDB'[c].length <= used'
      BY <1>1, <1>2, <2>1, <2>6, <3>2
    <3>5. In_(c)' = last' /\ c \in DOMAIN fp2ChunkDB' /\ fp2ChunkDB'[c].length = Len(Stored(c))
      BY <2>1, <3>1, <3>2 DEF In_
    <3>6. In_(c)' <= last'
      BY <1>1, <2>1, <3>5
    <3> QED BY <3>3, <3>4, <3>5, <3>6 DEF FreshAt, Indexed, InMemory, Holds, End
  <2>7. FreshOK'
    <3> SUFFICES ASSUME NEW d \in fresh' PROVE FreshAt(d)'
      BY DEF FreshOK
    <3> QED BY <2>1, <2>5, <2>6
  <2> QED BY <2>3, <2>4, <2>7 DEF Durable
<1> QED BY <1>3, <1>4, <1>5, <1>6

(* Reading a chunk only changes the cached container.                       *)
LEMMA RestoreDurable ==
    ASSUME Shape, Durable, NEW c \in Chunk, RestoreChunk(c)
    PROVE  Durable'
<1> DEFINE name == fp2ChunkDB[c].containerName
<1>1. /\ UNCHANGED <<config, files, fp2ChunkDB, last, used, body, saving, fresh, committed>>
      /\ phase = "ready" /\ phase' = "ready" /\ IsOpen /\ IsOpen'
  BY DEF RestoreChunk, diskVars, historyVars, IsOpen
<1>2. CASE name \in {readName, last} \/ name \notin DOMAIN files
  <2>1. UNCHANGED <<readName, readBody>>
    BY <1>2 DEF RestoreChunk, LoadCache, cacheVars
  <2> QED BY <1>1, <2>1, QuietDurable
<1>3. CASE ~(name \in {readName, last} \/ name \notin DOMAIN files)
  <2>1. readBody' = ReadFile(readBody, files[name], Len(files[name])) /\ readName' = name
    BY <1>3 DEF RestoreChunk, LoadCache, Source
  <2>2. files[name] \in Seq(Cell) /\ Len(files[name]) \in Nat /\ readBody \in Buffer
    BY <1>3 DEF Shape, TypeOK, IsStore
  <2>3. \A a \in Addr : a <= Len(files[name]) => readBody'[a] = files[name][a]
    BY <2>1, <2>2, ReadFileFacts
  <2>4. \A d : /\ InMemory(d)' = InMemory(d) /\ OnDisk(d)' = OnDisk(d) /\ In_(d)' = In_(d)
               /\ End(d)' = End(d) /\ Indexed(d)' = Indexed(d)
    BY <1>1 DEF InMemory, OnDisk, Holds, End, In_, Indexed
  <2>5. ConfigOK' /\ ClosedOK' /\ InFlightOK'
    BY <1>1 DEF Durable, ConfigOK, HasLog, ClosedOK, InFlightOK
  <2>6. FreshOK'
    <3> SUFFICES ASSUME NEW d \in fresh PROVE FreshAt(d)'
      BY <1>1 DEF FreshOK
    <3> QED BY <1>1, <2>4, FreshFacts, FreshFrame DEF FreshAt
  <2>7. CommittedOK'
    <3> SUFFICES ASSUME NEW d \in committed PROVE CommittedAt(d)'
      BY <1>1 DEF CommittedOK
    <3>1. ASSUME In_(d) = name PROVE Holds(readBody, d)'
      <4>1. End(d) <= Len(files[name]) /\ Holds(files[name], d)
        BY <3>1, CommittedFacts DEF CommittedAt, HasLog, OnDisk
      <4>2. \A i \in 1 .. Len(Stored(d)) : /\ fp2ChunkDB[d].offset + i \in Addr
                                           /\ fp2ChunkDB[d].offset + i <= Len(files[name])
        BY <2>2, <4>1, CommittedFacts, EntryFacts DEF Addr
      <4> QED BY <1>1, <2>3, <4>1, <4>2 DEF Holds
    <3> QED BY <1>1, <2>1, <2>4, <3>1, CommittedFacts DEF CommittedAt, HasLog
  <2> QED BY <2>5, <2>6, <2>7 DEF Durable
<1> QED BY <1>2, <1>3

(* Counting references leaves every byte where it is.                       *)
LEMMA SetCountDurable ==
    ASSUME Shape, Durable, NEW c \in Chunk, NEW n \in Int, SetCount(c, n)
    PROVE  Durable'
<1>1. /\ UNCHANGED <<config, files, last, used, body, readName, readBody, saving, fresh,
                     committed>>
      /\ phase = "ready" /\ phase' = "ready" /\ IsOpen /\ IsOpen'
  BY DEF SetCount, objectVars, cacheVars, historyVars, IsOpen
<1>2. /\ DOMAIN fp2ChunkDB' = DOMAIN fp2ChunkDB
      /\ \A d \in DOMAIN fp2ChunkDB :
            /\ fp2ChunkDB'[d].containerName = fp2ChunkDB[d].containerName
            /\ fp2ChunkDB'[d].offset = fp2ChunkDB[d].offset
            /\ fp2ChunkDB'[d].length = fp2ChunkDB[d].length
  BY SetCountDB DEF Shape
<1>3. \A d \in DOMAIN fp2ChunkDB :
         /\ In_(d)' = In_(d) /\ End(d)' = End(d)
         /\ Indexed(d) => Indexed(d)'
         /\ OnDisk(d)' = OnDisk(d) /\ InMemory(d)' = InMemory(d)
         /\ Holds(readBody, d)' = Holds(readBody, d)
  BY <1>1, <1>2 DEF In_, End, Indexed, OnDisk, InMemory, Holds
<1>4. ConfigOK' /\ ClosedOK' /\ InFlightOK'
  BY <1>1 DEF Durable, ConfigOK, HasLog, ClosedOK, InFlightOK
<1>5. CommittedOK'
  <2> SUFFICES ASSUME NEW d \in committed PROVE CommittedAt(d)'
    BY <1>1 DEF CommittedOK
  <2> QED BY <1>1, <1>3, CommittedFacts DEF CommittedAt, HasLog
<1>6. FreshOK'
  <2> SUFFICES ASSUME NEW d \in fresh PROVE FreshAt(d)'
    BY <1>1 DEF FreshOK
  <2> QED BY <1>1, <1>3, FreshFacts DEF FreshAt
<1> QED BY <1>4, <1>5, <1>6 DEF Durable

(* .StorageConfig is written, or cannot be opened.                         *)
LEMMA ConfigDurable ==
    ASSUME Shape, Durable, ConfigStep
    PROVE  Durable'
<1>1. used \in Nat /\ last \in Nat
  BY SizeAssumption DEF Shape, TypeOK, Name
<1>2. /\ UNCHANGED <<files, fp2ChunkDB, last, used, body, readName, readBody, fresh, committed>>
      /\ phase' = "configured" /\ IsOpen /\ IsOpen'
      /\ config' \in {config, [last |-> last, used |-> used]}
  BY DEF ConfigStep, WriteConfig, WriteConfigUnopened, diskVars, cacheVars, historyVars, IsOpen
<1>3. [last |-> last, used |-> used] \notin {NoConfig, NoLine}
  BY <1>1, SentinelAssumption
<1>4. \A d : /\ InMemory(d)' = InMemory(d) /\ OnDisk(d)' = OnDisk(d) /\ In_(d)' = In_(d)
             /\ End(d)' = End(d) /\ Indexed(d)' = Indexed(d)
             /\ Holds(readBody, d)' = Holds(readBody, d)
  BY <1>2 DEF InMemory, OnDisk, Holds, End, In_, Indexed
<1>5. ConfigOK' /\ ClosedOK' /\ InFlightOK'
  BY <1>1, <1>2, <1>3 DEF Durable, ConfigOK, HasLog, ClosedOK, InFlightOK
<1>6. CommittedOK'
  <2> SUFFICES ASSUME NEW d \in committed PROVE CommittedAt(d)'
    BY <1>2 DEF CommittedOK
  <2>1. In_(d) <= last /\ (In_(d) = last => End(d) <= used)
    BY <1>2, CommittedFacts DEF CommittedAt, InMemory
  <2>2. CASE config' = config
    BY <1>2, <1>4, <2>2, CommittedFacts DEF CommittedAt, HasLog
  <2>3. CASE config' = [last |-> last, used |-> used]
    BY <1>2, <1>3, <1>4, <2>1, <2>3, CommittedFacts DEF CommittedAt, HasLog
  <2> QED BY <1>2, <2>2, <2>3
<1>7. FreshOK'
  <2> SUFFICES ASSUME NEW d \in fresh PROVE FreshAt(d)'
    BY <1>2 DEF FreshOK
  <2> QED BY <1>2, <1>4, FreshFacts DEF FreshAt
<1> QED BY <1>5, <1>6, <1>7 DEF Durable

(* The container is written, or cannot be opened.  Only when .StorageConfig *)
(* was written before it does the session add to the committed chunks.     *)
LEMMA SaveLastDurable ==
    ASSUME Shape, Durable, SaveLastStep
    PROVE  Durable'
<1>1. used \in Nat /\ last \in Nat
  BY SizeAssumption DEF Shape, TypeOK, Name
<1>2. phase = "configured" /\ IsOpen
  BY DEF SaveLastStep, SaveLast, SaveLastUnopened, IsOpen
<1>3. Recorded => HasLog /\ config.last = last /\ config.used = used
  BY <1>1, SentinelAssumption DEF Recorded, HasLog
<1>4. CASE SaveLast
  <2>1. /\ UNCHANGED <<config, fp2ChunkDB>> /\ fp2ChunkDB' = fp2ChunkDB /\ Gone
        /\ committed' = IF Recorded THEN committed \cup fresh ELSE committed
        /\ files' = insert(files, last, Bytes(body, 0, used)) /\ used \in 0 .. used
    BY <1>1, <1>4 DEF SaveLast, saveTOFile
  <2>2. ASSUME NEW c \in committed'
        PROVE  /\ Indexed(c) /\ OnDisk(c)' /\ HasLog' /\ In_(c) <= config'.last
               /\ In_(c) = config'.last => End(c) <= config'.used
    <3>1. CASE c \in committed
      <4>1. OnDisk(c)'
        BY <1>2, <2>1, <3>1, CommittedFacts, SaveKeeps DEF CommittedAt, InMemory
      <4> QED BY <2>1, <3>1, <4>1, CommittedFacts DEF CommittedAt, HasLog
    <3>2. CASE Recorded /\ c \in fresh
      <4>1. OnDisk(c)'
        BY <2>1, <3>2, FreshFacts, SaveKeeps DEF FreshAt, InMemory
      <4> QED BY <1>3, <2>1, <3>2, <4>1, FreshFacts DEF FreshAt, InMemory, HasLog
    <3> QED BY <2>1, <2>2, <3>1, <3>2
  <2> QED BY <2>1, <2>2, GoneDurable
<1>5. CASE SaveLastUnopened
  <2>1. /\ UNCHANGED <<config, files, fp2ChunkDB>> /\ Gone
        /\ committed' = IF Recorded THEN committed \cup (fresh \ In(fresh, last)) ELSE committed
    BY <1>5 DEF SaveLastUnopened, diskVars
  <2>2. ASSUME NEW c \in committed'
        PROVE  /\ Indexed(c) /\ OnDisk(c)' /\ HasLog' /\ In_(c) <= config'.last
               /\ In_(c) = config'.last => End(c) <= config'.used
    <3>1. OnDisk(c)' = OnDisk(c)
      BY <2>1 DEF OnDisk, Holds, In_, End
    <3>2. CASE c \in committed
      BY <2>1, <3>1, <3>2, CommittedFacts DEF CommittedAt, HasLog
    <3>3. CASE Recorded /\ c \in fresh /\ In_(c) # last
      BY <1>3, <2>1, <3>1, <3>3, FreshFacts DEF FreshAt, HasLog
    <3> QED BY <2>1, <2>2, <3>2, <3>3 DEF In, In_
  <2> QED BY <2>1, <2>2, GoneDurable
<1> QED BY <1>4, <1>5 DEF SaveLastStep

(* Every step preserves what is known of closed sessions.                   *)
LEMMA NextDurable == Shape /\ Durable /\ [Next]_vars => Durable'
<1> SUFFICES ASSUME Shape, Durable, [Next]_vars PROVE Durable'
  OBVIOUS
<1>1. ASSUME NEW c \in Chunk, AddReference(c) \/ deleteChunk(c) PROVE Durable'
  <2>1. c \in DOMAIN fp2ChunkDB
    BY <1>1 DEF AddReference, deleteChunk, SetCount, query
  <2>2. fp2ChunkDB[c].count \in Int
    BY <2>1, SizeAssumption DEF Shape, TypeOK, IsStore, Key, Count
  <2> QED BY <1>1, <2>2, SetCountDurable DEF AddReference, deleteChunk
<1>2. CASE BeginClose \/ Interrupt
  <2>1. /\ UNCHANGED <<config, files, fp2ChunkDB, last, used, body, readName, readBody, fresh,
                       committed>>
        /\ IsOpen /\ phase' = "closing"
    BY <1>2 DEF BeginClose, Interrupt, diskVars, historyVars, cacheVars, IsOpen
  <2> QED BY <2>1, QuietDurable
<1>3. CASE Exit \/ Crash
  BY <1>3, DeathDurable DEF Exit, Crash
<1>4. CASE TornClose
  <2>1. IsOpen
    BY <1>4 DEF TornClose, IsOpen
  <2> QED BY <1>4, <2>1, TornDurable DEF TornClose
<1>5. CASE TornConfig
  <2>1. /\ UNCHANGED <<files, fp2ChunkDB>> /\ Gone /\ phase = "closing" /\ last \in Nat
        /\ config' = [last |-> last, used |-> 0] /\ HasLog'
        /\ committed' = committed \ In(committed, last)
    BY <1>5, SizeAssumption, SentinelAssumption DEF TornConfig, Shape, TypeOK, Name, HasLog
  <2>2. ASSUME NEW c \in committed'
        PROVE  /\ Indexed(c) /\ OnDisk(c)' /\ HasLog' /\ In_(c) <= config'.last
               /\ In_(c) = config'.last => End(c) <= config'.used
    <3>1. c \in committed /\ In_(c) # last
      BY <2>1 DEF In, In_
    <3>2. OnDisk(c)' = OnDisk(c)
      BY <2>1 DEF OnDisk, Holds, In_, End
    <3>3. CommittedAt(c) /\ In_(c) <= last
      BY <2>1, <3>1, CommittedFacts DEF IsOpen
    <3> QED BY <2>1, <3>1, <3>2, <3>3 DEF CommittedAt, HasLog
  <2> QED BY <2>1, <2>2, GoneDurable
<1>6. CASE EmptiedConfig
  BY <1>6, GoneDurable DEF EmptiedConfig
<1>7. CASE UNCHANGED vars \/ ReadNothing
  <2>1. /\ UNCHANGED <<config, files, fp2ChunkDB, phase, last, used, body, readName, readBody,
                       saving, fresh, committed>>
    BY <1>7 DEF ReadNothing, vars, diskVars, objectVars, cacheVars, historyVars
  <2>2. \A d : /\ InMemory(d)' = InMemory(d) /\ OnDisk(d)' = OnDisk(d) /\ In_(d)' = In_(d)
               /\ End(d)' = End(d) /\ Indexed(d)' = Indexed(d)
               /\ Holds(readBody, d)' = Holds(readBody, d)
    BY <2>1 DEF InMemory, OnDisk, Holds, End, In_, Indexed
  <2>3. IsOpen' = IsOpen /\ SavingKey' = SavingKey
    BY <2>1 DEF IsOpen, SavingKey
  <2>4. ConfigOK' /\ ClosedOK'
    BY <2>1, <2>3 DEF Durable, ConfigOK, HasLog, ClosedOK
  <2>5. CommittedOK' /\ FreshOK'
    BY <2>1, <2>2, <2>3 DEF Durable, CommittedOK, CommittedAt, HasLog, FreshOK, FreshAt
  <2>6. InFlightOK'
    BY <2>1, <2>2, <2>3 DEF Durable, InFlightOK
  <2> QED BY <2>4, <2>5, <2>6 DEF Durable
<1> QED
  BY <1>1, <1>2, <1>3, <1>4, <1>5, <1>6, <1>7, OpenDurable, SaveNewDurable,
     SaveStepsDurable, RestoreDurable, ConfigDurable, SaveLastDurable DEF Next

-----------------------------------------------------------------------------
(* What the invariants say about reading.                                  *)

(* A buffer that holds a chunk yields it to readContainer.                  *)
LEMMA BytesAreStored ==
    ASSUME Shape, NEW c \in DOMAIN fp2ChunkDB, fp2ChunkDB[c].length = Len(Stored(c)),
           Holds(Source(In_(c)), c)
    PROVE  readContainer(fp2ChunkDB[c]) = Stored(c)
<1>1. Stored(c) \in Seq(Byte) /\ Len(Stored(c)) \in Nat
  BY EntryFacts, StoredFacts
<1>2. readContainer(fp2ChunkDB[c]) =
         [i \in 1 .. Len(Stored(c)) |-> Source(In_(c))[fp2ChunkDB[c].offset + i]]
  BY DEF readContainer, Bytes, In_
<1>3. readContainer(fp2ChunkDB[c]) = [i \in 1 .. Len(Stored(c)) |-> Stored(c)[i]]
  BY <1>2 DEF Holds
<1> QED BY <1>1, <1>3

(* A chunk whose bytes are wherever readContainer would look for them      *)
(* reads back.                                                             *)
LEMMA ReadsBackFrom ==
    ASSUME Shape, NEW c, Indexed(c),
           In_(c) = readName => Holds(readBody, c),
           In_(c) = last => Holds(body, c),
           In_(c) # last => OnDisk(c)
    PROVE  ReadsBack(c)
<1>1. c \in DOMAIN fp2ChunkDB /\ fp2ChunkDB[c].length = Len(Stored(c))
  BY DEF Indexed
<1>2. CanRead(fp2ChunkDB[c].containerName)
  BY DEF CanRead, OnDisk, In_
<1>3. Holds(Source(In_(c)), c)
  <2>1. CASE In_(c) = readName
    BY <2>1 DEF Source
  <2>2. CASE In_(c) # readName /\ In_(c) = last
    BY <2>2 DEF Source
  <2>3. CASE In_(c) # readName /\ In_(c) # last
    <3> DEFINE file == files[In_(c)]
    <3>1. file \in Seq(Cell) /\ End(c) <= Len(file) /\ Holds(file, c)
      BY <2>3 DEF OnDisk, Shape, TypeOK, IsStore
    <3>2. Source(In_(c)) = ReadFile(readBody, file, Len(file)) /\ readBody \in Buffer
          /\ Len(file) \in Nat
      BY <2>3, <3>1 DEF Source, Shape, TypeOK
    <3>3. \A a \in Addr : a <= Len(file) => Source(In_(c))[a] = file[a]
      BY <3>1, <3>2, ReadFileFacts
    <3>4. \A i \in 1 .. Len(Stored(c)) : /\ fp2ChunkDB[c].offset + i \in Addr
                                         /\ fp2ChunkDB[c].offset + i <= Len(file)
      BY <1>1, <3>1, <3>2, EntryFacts DEF Addr
    <3> QED BY <3>1, <3>3, <3>4 DEF Holds
  <2> QED BY <2>1, <2>2, <2>3
<1> QED BY <1>1, <1>2, <1>3, BytesAreStored DEF ReadsBack, query

-----------------------------------------------------------------------------
(* Spec satisfies its type invariant (the C++ types of the members of      *)
(* StorageCore and of the index entries), under every combination of       *)
(* faults.                                                                 *)
THEOREM TypeCorrect == Spec => []TypeOK
<1>1. Shape => TypeOK
  BY DEF Shape
<1> QED BY <1>1, InitShape, NextShape, PTL DEF Spec

(* No chunk, and no prefix of a container that is saved or loaded, extends *)
(* beyond the container: writeContainer's test suffices for every          *)
(* container size and every sequence of chunk lengths below it.            *)
THEOREM StaysInBounds == Spec => []InBounds
<1>1. Shape => InBounds
  BY DEF Shape, InBounds, BoundsOK, HasLog, SavingOK
<1> QED BY <1>1, InitShape, NextShape, PTL DEF Spec

(* The inductive invariant of the store holds throughout.                   *)
LEMMA DurableInvariant == Spec => [](Shape /\ Durable)
<1>1. Init => Shape /\ Durable
  BY InitShape, InitDurable
<1>2. Shape /\ Durable /\ [Next]_vars => (Shape /\ Durable)'
  BY NextShape, NextDurable
<1> QED BY <1>1, <1>2, PTL DEF Spec

(* Once the destructor has closed the session that saved a chunk, with     *)
(* .StorageConfig and the chunk's container written, the chunk reads back  *)
(* in every later session, whatever mixture of crashes, signals in the     *)
(* middle of saveChunk or of the destructor and files that cannot be       *)
(* opened, .StorageConfig among them, the sessions in between went         *)
(* through.  A process that dies inside a write of its container or of     *)
(* .StorageConfig takes the chunks it destroys out of the committed ones.  *)
THEOREM CommittedChunksIntact == Spec => []CommittedIntact
<1>1. Shape /\ Durable => CommittedIntact
  <2> SUFFICES ASSUME Shape, Durable, IsOpen, NEW c \in committed PROVE ReadsBack(c)
    BY DEF CommittedIntact
  <2> QED BY CommittedFacts, ReadsBackFrom DEF CommittedAt, HasLog, InMemory
<1> QED BY <1>1, DurableInvariant, PTL

(* .StorageConfig never names an earlier container than before; a process  *)
(* that dies while writing it can empty it.                                *)
THEOREM ConfigNeverGoesBack == Spec => ConfigAdvances
<1> DEFINE Step == config # NoConfig =>
                     config' = NoLine \/ (config' # NoConfig /\ config'.last >= config.last)
<1>1. Shape /\ Durable /\ [Next]_vars => [Step]_vars
  <2> SUFFICES ASSUME Shape, Durable, Next, config # NoConfig, config' # NoLine
               PROVE  config' # NoConfig /\ config'.last >= config.last
    OBVIOUS
  <2>1. last \in Nat /\ used \in Nat /\ (HasLog => config.last \in Nat)
    BY SizeAssumption DEF Shape, TypeOK, Name, HasLog
  <2>2. CASE WriteConfig \/ TornConfig
    <3>1. PICK n \in Nat : config' = [last |-> last, used |-> n]
      BY <2>1, <2>2 DEF WriteConfig, TornConfig
    <3>2. HasLog /\ config.last <= last
      BY <2>2 DEF WriteConfig, TornConfig, Durable, ConfigOK, IsOpen, HasLog
    <3> QED BY <2>1, <3>1, <3>2, SentinelAssumption
  <2>3. CASE ~(WriteConfig \/ TornConfig \/ EmptiedConfig)
    <3>1. config' = config
      BY <2>3 DEF Next, Open, ReadNothing, SaveNew, BeginSave, WriteFits, Rotate,
                  RotateUnopened, TornRotate, Overrun, WriteRotated, IndexChunk, IndexFails,
                  AdvanceUsed, RestoreChunk, AddReference, deleteChunk, SetCount, BeginClose,
                  ConfigStep, WriteConfigUnopened, SaveLastStep, SaveLast, SaveLastUnopened,
                  Exit, Interrupt, Crash, TornClose, Torn, diskVars, vars
    <3> QED BY <2>1, <3>1 DEF HasLog
  <2> QED BY <2>2, <2>3 DEF EmptiedConfig
<1> QED BY <1>1, DurableInvariant, PTL DEF Spec, ConfigAdvances

-----------------------------------------------------------------------------
(* Without faults. *)

(* The cached container when a chunk is restored: one that is not being    *)
(* filled any more, as its file has it.                                    *)
LEMMA RestoreCache ==
    ASSUME Shape, Durable, Accounted, NEW c \in Chunk, RestoreChunk(c)
    PROVE  CacheOK'
<1> DEFINE name == fp2ChunkDB[c].containerName
<1>1. /\ UNCHANGED <<files, fp2ChunkDB, last, fresh>> /\ CacheOK
      /\ phase = "ready" /\ c \in DOMAIN fp2ChunkDB /\ last \in Nat
  BY SizeAssumption
  DEF RestoreChunk, diskVars, historyVars, Accounted, IsOpen, query, Shape, TypeOK, Name
<1>2. CASE name \in {readName, last} \/ name \notin DOMAIN files
  <2>1. UNCHANGED <<readName, readBody>>
    BY <1>2 DEF RestoreChunk, LoadCache, cacheVars
  <2> QED BY <1>1, <2>1 DEF CacheOK, Holds, In_
<1>3. CASE ~(name \in {readName, last} \/ name \notin DOMAIN files)
  <2>1. readBody' = ReadFile(readBody, files[name], Len(files[name])) /\ readName' = name
    BY <1>3 DEF RestoreChunk, LoadCache, Source
  <2>2. files[name] \in Seq(Cell) /\ Len(files[name]) \in Nat /\ readBody \in Buffer
    BY <1>3 DEF Shape, TypeOK, IsStore
  <2>3. \A a \in Addr : a <= Len(files[name]) => readBody'[a] = files[name][a]
    BY <2>1, <2>2, ReadFileFacts
  <2>4. readName' < last'
    <3>1. c \in committed \cup fresh /\ IsOpen
      BY <1>1 DEF Accounted, Known, IsOpen
    <3>2. In_(c) <= last /\ In_(c) \in Nat
      BY <3>1, CommittedFacts, FreshFacts DEF FreshAt
    <3> QED BY <1>1, <1>3, <2>1, <3>2 DEF In_
  <2>5. ASSUME NEW d \in fresh, In_(d) = name PROVE Holds(readBody, d)'
    <3>1. In_(d) # last
      BY <1>3, <2>5
    <3>2. End(d) <= Len(files[name]) /\ Holds(files[name], d)
      BY <2>5, <3>1, FreshFacts DEF FreshAt, OnDisk
    <3>3. \A i \in 1 .. Len(Stored(d)) : /\ fp2ChunkDB[d].offset + i \in Addr
                                         /\ fp2ChunkDB[d].offset + i <= Len(files[name])
      BY <2>2, <3>2, FreshFacts, EntryFacts DEF Addr
    <3> QED BY <1>1, <2>3, <3>2, <3>3 DEF Holds
  <2> QED BY <1>1, <2>1, <2>4, <2>5 DEF CacheOK, In_
<1> QED BY <1>2, <1>3

(* Without faults, every chunk in the index stays accounted for.            *)
LEMMA NextAccounted ==
    ASSUME Faults = {}, \A c \in Chunk : Len(Content[c]) > 1,
           Shape, Durable, Accounted, [Next]_vars
    PROVE  Accounted'
<1>1. last \in Nat /\ (readName \in Nat \/ readName = NoName) /\ NoName \notin Nat
  BY SizeAssumption, SentinelAssumption DEF Shape, TypeOK, Name
<1>2. CASE Open
  <2>1. phase' = "ready" /\ phase = "closed" /\ fresh = {} /\ readName = NoName
        /\ UNCHANGED <<fp2ChunkDB, readName, fresh, committed>>
    BY <1>2 DEF Open, diskVars, cacheVars, historyVars, Durable, ClosedOK, IsOpen
  <2> QED BY <1>1, <2>1 DEF Accounted, Known, CacheOK
<1>3. ASSUME NEW c \in Chunk, SaveNew(c) PROVE Accounted'
  <2>1. WriteFits(c, Content[c]) \/ Rotate(c, Content[c])
    BY <1>3 DEF SaveNew, BeginSave, RotateUnopened, TornRotate, Torn, Overrun, ContentAssumption
  <2>2. /\ UNCHANGED <<fp2ChunkDB, readName, readBody, fresh, committed>>
        /\ phase = "ready" /\ phase' \in {"written", "rotated"} /\ last' \in {last, last + 1}
    BY <2>1 DEF WriteFits, Rotate, NeedsRotation, diskVars, cacheVars, historyVars
  <2> QED BY <1>1, <2>2 DEF Accounted, Known, CacheOK, IsOpen, Holds, In_
<1>4. CASE WriteRotated \/ IndexFails \/ BeginClose \/ WriteConfig
  <2>1. /\ UNCHANGED <<fp2ChunkDB, last, readName, readBody, fresh, committed>>
        /\ phase \notin {"indexed", "closed"} /\ phase' \notin {"indexed", "closed"}
    BY <1>4 DEF WriteRotated, IndexFails, BeginClose, WriteConfig, diskVars, cacheVars,
                historyVars
  <2>2. phase' = "configured" => Recorded'
    BY <1>4 DEF WriteRotated, IndexFails, BeginClose, WriteConfig, Recorded
  <2> QED BY <2>1, <2>2 DEF Accounted, Known, CacheOK, IsOpen, Holds, In_
<1>5. CASE IndexChunk
  <2>1. /\ UNCHANGED <<last, readName, readBody, saving, fresh, committed>>
        /\ phase = "written" /\ phase' = "indexed" /\ CacheOK
    BY <1>5 DEF IndexChunk, cacheVars, historyVars, Accounted, IsOpen
  <2>2. DOMAIN fp2ChunkDB' \subseteq Known'
    BY <1>5, <2>1, IndexChunkDB DEF Accounted, Known
  <2>3. saving.chunk \notin DOMAIN fp2ChunkDB
    BY <2>1 DEF Durable, InFlightOK
  <2>4. \A d \in fresh : fp2ChunkDB'[d] = fp2ChunkDB[d]
    BY <1>5, <2>3, FreshFacts, IndexChunkDB
  <2>5. CacheOK'
    BY <2>1, <2>4 DEF CacheOK, Holds, In_
  <2> QED BY <2>1, <2>2, <2>5 DEF Accounted
<1>6. CASE AdvanceUsed
  <2>1. /\ UNCHANGED <<fp2ChunkDB, last, readName, readBody, committed>>
        /\ phase = "indexed" /\ phase' = "ready" /\ CacheOK
        /\ fresh' = fresh \cup {saving.chunk}
    BY <1>6 DEF AdvanceUsed, diskVars, cacheVars, Accounted, IsOpen
  <2>2. fp2ChunkDB[saving.chunk].containerName = last
    BY <2>1 DEF Durable, InFlightOK, SavingKey
  <2>3. readName # last
    BY <1>1, <2>1 DEF CacheOK
  <2>4. CacheOK'
    BY <2>1, <2>2, <2>3 DEF CacheOK, Holds, In_
  <2> QED BY <2>1, <2>4 DEF Accounted, Known
<1>7. ASSUME NEW c \in Chunk, RestoreChunk(c) PROVE Accounted'
  <2>1. UNCHANGED <<fp2ChunkDB, phase, fresh, committed>> /\ phase = "ready"
    BY <1>7 DEF RestoreChunk, diskVars, historyVars
  <2> QED BY <1>7, <2>1, RestoreCache DEF Accounted, Known
<1>8. ASSUME NEW c \in Chunk, AddReference(c) \/ deleteChunk(c) PROVE Accounted'
  <2>1. c \in DOMAIN fp2ChunkDB
    BY <1>8 DEF AddReference, deleteChunk, SetCount, query
  <2>2. fp2ChunkDB[c].count \in Int
    BY <2>1, SizeAssumption DEF Shape, TypeOK, IsStore, Key, Count
  <2>3. PICK n \in Int : SetCount(c, n)
    BY <1>8, <2>2 DEF AddReference, deleteChunk
  <2>4. /\ UNCHANGED <<phase, last, readName, readBody, fresh, committed>>
        /\ phase = "ready" /\ CacheOK
    BY <2>3 DEF SetCount, objectVars, cacheVars, historyVars, Accounted, IsOpen
  <2>5. /\ DOMAIN fp2ChunkDB' = DOMAIN fp2ChunkDB
        /\ \A d \in DOMAIN fp2ChunkDB :
              /\ fp2ChunkDB'[d].containerName = fp2ChunkDB[d].containerName
              /\ fp2ChunkDB'[d].offset = fp2ChunkDB[d].offset
    BY <2>3, SetCountDB DEF Shape
  <2>6. CacheOK'
    BY <2>4, <2>5, FreshFacts DEF CacheOK, Holds, In_
  <2> QED BY <2>4, <2>5, <2>6 DEF Accounted, Known
<1>9. CASE SaveLast \/ Exit
  <2>1. /\ fp2ChunkDB' = fp2ChunkDB /\ phase # "indexed" /\ phase' = "closed"
        /\ committed' = committed \cup fresh
    BY <1>9 DEF SaveLast, Exit, Gone, diskVars, Accounted
  <2> QED BY <2>1 DEF Accounted, Known, IsOpen
<1>10. CASE UNCHANGED vars \/ ReadNothing
  BY <1>10 DEF ReadNothing, vars, diskVars, objectVars, cacheVars, historyVars, Accounted,
               Known, CacheOK, IsOpen, Holds, In_, Recorded
<1>11. ~(WriteConfigUnopened \/ SaveLastUnopened \/ Interrupt \/ Crash \/ TornClose
         \/ TornConfig \/ EmptiedConfig)
  BY DEF WriteConfigUnopened, SaveLastUnopened, Interrupt, Crash, TornClose, Torn, TornConfig,
         EmptiedConfig
<1> QED
  BY <1>2, <1>3, <1>4, <1>5, <1>6, <1>7, <1>8, <1>9, <1>10, <1>11
  DEF Next, ConfigStep, SaveLastStep

(* With no crash, signal or failed open, and chunks of at least two bytes, *)
(* every chunk in the index reads back at every moment the store is open:  *)
(* before and after rotations, through the cached container, and across    *)
(* any number of sessions.                                                 *)
THEOREM SoundStoreRestores ==
    ASSUME Faults = {}, \A c \in Chunk : Len(Content[c]) > 1
    PROVE  Spec => []Restorable
<1>1. Init => Accounted
  BY DEF Init, Accounted, Known, EmptyStore, IsOpen
<1>2. Shape /\ Durable /\ Accounted /\ [Next]_vars => Accounted'
  BY NextAccounted
<1>3. Shape /\ Durable /\ Accounted => Restorable
  <2> SUFFICES ASSUME Shape, Durable, Accounted, IsOpen, NEW c \in DOMAIN fp2ChunkDB
               PROVE  ReadsBack(c)
    BY DEF Restorable
  <2>1. CASE c \in committed
    BY <2>1, CommittedFacts, ReadsBackFrom DEF CommittedAt, HasLog, InMemory
  <2>2. CASE c \in fresh
    BY <2>2, FreshFacts, ReadsBackFrom DEF FreshAt, InMemory, Accounted, CacheOK
  <2>3. CASE phase = "indexed" /\ c = saving.chunk
    <3>1. /\ fp2ChunkDB[c] = SavingKey /\ saving.data = Stored(c)
          /\ \A i \in 1 .. Len(saving.data) : body[used + i] = saving.data[i]
      BY <2>3 DEF Durable, InFlightOK, Shape, SavingOK, Saving
    <3>2. Indexed(c) /\ In_(c) = last /\ Holds(body, c)
      BY <3>1 DEF SavingKey, Indexed, In_, Holds
    <3>3. readName # last
      BY SizeAssumption, SentinelAssumption DEF Accounted, CacheOK, Shape, TypeOK, Name
    <3> QED BY <3>2, <3>3, ReadsBackFrom
  <2> QED BY <2>1, <2>2, <2>3 DEF Accounted, Known
<1>4. Spec => []Accounted
  BY <1>1, <1>2, DurableInvariant, PTL DEF Spec
<1> QED BY <1>3, <1>4, DurableInvariant, PTL

-----------------------------------------------------------------------------
(* The store implements ChunkStore.                                        *)

(* The files hold the stored bytes of every chunk of a closed session.     *)
LEMMA DurableImage ==
    ASSUME Shape, Durable
    PROVE  [c \in committed |-> FileBytes(c)] = [c \in committed |-> Stored(c)]
<1> SUFFICES ASSUME NEW c \in committed PROVE FileBytes(c) = Stored(c)
  OBVIOUS
<1>1. /\ OnDisk(c) /\ c \in DOMAIN fp2ChunkDB
      /\ fp2ChunkDB[c].length = Len(Stored(c))
  BY CommittedFacts DEF CommittedAt, HasLog
<1>2. Stored(c) \in Seq(Byte) /\ Len(Stored(c)) \in Nat /\ fp2ChunkDB[c].offset \in Nat
  BY <1>1, EntryFacts, StoredFacts
<1>3. files[In_(c)] \in Seq(Cell) /\ Len(files[In_(c)]) \in Nat
  BY <1>1 DEF OnDisk, Shape, TypeOK, IsStore
<1>4. \A i \in 1 .. Len(Stored(c)) :
        /\ fp2ChunkDB[c].offset + i <= Len(files[In_(c)])
        /\ files[In_(c)][fp2ChunkDB[c].offset + i] = Stored(c)[i]
  BY <1>1, <1>2, <1>3 DEF OnDisk, Holds, End
<1>5. FileBytes(c) = [i \in 1 .. Len(Stored(c)) |-> Stored(c)[i]]
  BY <1>1, <1>4 DEF FileBytes, OnDisk, In_
<1> QED BY <1>2, <1>5

(* A step adds chunks to the committed ones, or takes some away.            *)
LEMMA CommittedMoves ==
    ASSUME [Next]_vars
    PROVE  committed \subseteq committed' \/ committed' \subseteq committed
  BY DEF Next, Open, ReadNothing, SaveNew, BeginSave, WriteFits, Rotate, RotateUnopened,
         TornRotate, Overrun, WriteRotated, IndexChunk, IndexFails, AdvanceUsed, RestoreChunk,
         AddReference, deleteChunk, SetCount, BeginClose, ConfigStep, WriteConfig,
         WriteConfigUnopened, SaveLastStep, SaveLast, SaveLastUnopened, Exit, Interrupt, Crash,
         TornClose, Torn, TornConfig, EmptiedConfig, historyVars, vars

(* StorageCore implements ChunkStore: whatever signals, crashes, torn      *)
(* writes and files that cannot be opened (.StorageConfig among them)      *)
(* happen, what the container files hold for the chunks of sessions that   *)
(* were closed with .StorageConfig written is a map that is written once   *)
(* per chunk, with the bytes saveChunk was given.                          *)
THEOREM StoreImplementsChunkStore == Spec => ImplementsChunkStore
<1> DEFINE image == [c \in committed |-> FileBytes(c)]
<1>1. Init => DurableChunks!ChunkStoreInit
  BY DEF Init, DurableChunks!ChunkStoreInit
<1>2. Shape /\ Durable => image = [c \in committed |-> Stored(c)]
  BY DurableImage
<1>3. (Shape /\ Durable => image = [c \in committed |-> Stored(c)])'
  BY <1>2, PTL
<1>4. Shape /\ Durable /\ (Shape /\ Durable)' /\ [Next]_vars
        => DurableChunks!ChunkStoreNext
  <2> SUFFICES ASSUME Shape, Durable, Shape', Durable', [Next]_vars
               PROVE  DurableChunks!ChunkStoreNext
    OBVIOUS
  <2>1. image = [c \in committed |-> Stored(c)]
    BY <1>2
  <2>2. image' = [c \in committed' |-> Stored(c)]
    BY <1>3
  <2>3. committed \subseteq Chunk /\ committed' \subseteq Chunk
    BY DEF Shape, TypeOK
  <2>4. CASE committed \subseteq committed'
    <3>1. image' = [c \in (DOMAIN image) \cup committed' |->
                      IF c \in DOMAIN image THEN image[c] ELSE Stored(c)]
      BY <2>1, <2>2, <2>4
    <3> QED BY <2>3, <3>1 DEF DurableChunks!ChunkStoreNext, DurableChunks!Commit
  <2>5. CASE committed' \subseteq committed
    <3>1. image' = [c \in (DOMAIN image) \ (committed \ committed') |-> image[c]]
      BY <2>1, <2>2, <2>5
    <3> QED BY <2>3, <3>1 DEF DurableChunks!ChunkStoreNext, DurableChunks!Lose
  <2> QED BY <2>4, <2>5, CommittedMoves
<1> QED BY <1>1, <1>4, DurableInvariant, PTL
        DEF Spec, ImplementsChunkStore, DurableChunks!ChunkStoreSpec

=============================================================================
