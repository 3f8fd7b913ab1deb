# SimCompression: models and proofs

SimCompression is a deduplicating backup store.  `simcomp -c name-n` cuts a file
into chunks, stores the chunks it has not seen in container files, writes a
recipe and an index of the version and compares the version with the one before;
`simcomp -rs name-n` restores a version; `-rw` runs similarity detection and
delta compression.  The program is one process with one thread.  What makes it
hard is what happens between its writes: a SIGINT handler that closes the store
in the middle of an operation, a process that dies, files rewritten in place,
and a database that is durable at once beside containers that are not.

## Inventory

| part | source | state | operations | must be true |
|---|---|---|---|---|
| key-value stores | `database.cpp` | LevelDB directories `fp2ChunkDB`, `fileName2metaDB`, `deltaChunkDB`, `containerDB` | `query`, `insert`, `delete_`, `openDB` | each call atomic and durable (external) |
| container store | `storageCore.cpp` | `.StorageConfig`, `Containers/*`; in memory the container being filled, its fill, one cached container | constructor, `saveChunk`, `writeContainer`, `readContainer`, `restoreChunk`, `retriveChunk`, `deleteChunk`, `saveTOFile`, destructor | on disk a write-once map of chunks; stored chunks read back; nothing overwrites a chunk of a closed session; copies stay in the buffer |
| recipes | `storageCore.cpp` | `Recipes/*`, `fileName2metaDB` | `checkRecipeStatus`, `saveRecipe`, `restoreRecipeAndChunk`, `restoreRecipeHead`, `deleteRecipeAndChunk` | a recipe names only chunks that exist; a version restores to itself |
| chunker | `chunker.cc` | rolling hash, chunk buffer, three-level index of a file | `varSizeChunking`, `fixSizeChunking`, `EndOfSegment`, `saveToFile`, `loadIndex` | the chunks are the file; cuts depend on the bytes only; segments and containers partition the chunks |
| detector | `dector.cc` | places in both versions, transfer pairs, `similar.log`, a MongoDB collection | `truetransferDector` | ends; reads where it may; a region that opens closes, regions lie inside both versions |
| delta compressor | `compressor.cc` | `.DeltaConfig`, `Delta/*`, `deltaChunkDB` | `compress`, `saveDeltaChunk`, `writeDeltaContainer`, destructor, `restoreDeltaChunk` | listed deltas read back; no similar chunks are left apart |
| space manager | `manager.cc` | none of its own | `updateContainer`, `updateContainerFile`, `rewriteContainer`, `GC` | no chunk is lost by replacing, moving or dropping; an update that died can be repeated |
| program | `main.cc` | global object pointers | `-c`, `-rw`, `-rs`, two files, `CTRLC` | a backup that begins is recorded; a complete version survives |
| hashing, configuration, similarity library | `cryptoPrimitive.cc`, `configure.cc`, `include/simcomp` | none | | fingerprints identify chunks (assumed) |

Interaction: `main` opens a `StorageCore`, the chunker calls `saveChunk` for new
chunks and increments counts in `fp2ChunkDB` itself, then `checkRecipeStatus`;
`main` destroys the store object, writes `Index/name-v` and, from version 1 on,
opens a second store object from which `Dector` restores chunks.  `CTRLC` runs
the destructors of both objects wherever the program is.  `Dector` puts the
features of changed chunks into MongoDB, where `compress` (`-rw`) groups them;
`Manager` and `DeltaCompressor` meet in `deltaChunkDB` and `Delta/`, and with the
store in `fp2ChunkDB`, `containerDB`, `Containers/` and `.StorageConfig`.

## Modules

| module | models |
|---|---|
| `Database` | the operators of a key-value store or directory |
| `StorageCore` | the container store, with signals and crashes |
| `ChunkStore` | what it promises: a write-once map of chunks (abstract) |
| `Backup` | `main -c`, `main -rs`, the chunker's use of the store, recipes, index files; extends `StorageCore` |
| `Manager` | `DeltaCompressor`'s containers, `updateContainer`, `rewriteContainer`, `GC`; extends `StorageCore` |
| `FileIndex` | the index that `varSizeChunking` builds of a file |
| `Chunker` | `varSizeChunking`: reading, rolling fingerprint, cuts; extends `FileIndex` |
| `FixedChunker` | `fixSizeChunking` |
| `Chunking` | `chunking`: the choice between the two; extends `Chunker` and `FixedChunker` |
| `Dector` | `truetransferDector`: the comparison of two versions |
| `Compressor` | the features `Dector` stores and `DeltaCompressor::compress`; extends `Dector` |
| `MCStorageCore`, `MCBackup`, `MCManager`, `MCFileIndex`, `MCChunker`, `MCCompressor` | instances for TLC |
| `StorageCoreProofs`, `BackupProofs`, `ManagerProofs`, `FileIndexProofs`, `ChunkerProofs`, `FixedChunkerProofs`, `CompressorProofs` | theorems about the module of that name |
| `DectorProofs` | the invariant of the search, for `CompressorProofs` |

### StorageCore

On disk: `config` (`.StorageConfig`), `files` (`Containers/`), `containerDB`,
`fp2ChunkDB`.  In the object: `last` and `used` and `body`
(`lastContainerFileName_`, `currentContainer_`), `readName` and `readBody` (the
cached container), `saving` (arguments of the `saveChunk` in progress) and
`phase`, which says which step comes next.  `fresh` and `committed` are history:
chunks whose `saveChunk` returned true in this session, and chunks whose session
was closed by the destructor with `.StorageConfig` and their container written.

`saveChunk` is split where a signal or crash can separate two effects:
`WriteFits`, or `Rotate` and `WriteRotated`, copy the bytes; `IndexChunk` inserts
the entry; `AdvanceUsed` moves `used_`.  The destructor is `WriteConfig` then
`SaveLast`.  `Overrun` is the loop of `saveChunk` for a chunk of one byte.
`Interrupt` is `CTRLC`; `Crash` the death of the process between two steps; `Torn`
its death inside `saveTOFile`, which truncates the file it writes; `TornConfig` its
death between the two lines of `.StorageConfig`, after which the next session
takes the last container for empty; `EmptiedConfig` its death before the first line
(`NoLine`), after which sessions read nothing (`ReadNothing`) and no chunk counts as
committed.  The `Unopened` actions are files that cannot be opened for writing, which
the code does not look at: `RotateUnopened` and `SaveLastUnopened` a container,
`WriteConfigUnopened` `.StorageConfig`.  After the last one the next session goes on
where an earlier one ended and writes over what this one saved; so `SaveLast` commits
the chunks of a session only if `.StorageConfig` has its end (`Recorded`).  The
constant `Faults` says which of these occur.

`ChunkStore` is the promise: one variable, the map from chunks to their bytes;
`Commit` adds chunks, `Lose` takes some away, nothing changes one.
`ImplementsChunkStore` maps it to the bytes that the container files hold for the
committed chunks (`FileBytes`), whatever is in memory.

Abstractions.  A chunk stands for its SHA-256 fingerprint, and `Content` gives its
bytes.  A container name is its rank: `next_permutation` goes through the
permutations in order.  The `count` field is kept modulo `Wrap` (2^32 in the code).
A buffer cell that was never written holds `Junk`.  A LevelDB call is atomic and
survives the process (its log reaches the operating system before `Put`
returns).

### Backup

`stage` is the point `main` has reached, `job` what it works on.  A file is a
non-empty sequence of chunks, of which only the last may have a single byte: all others
have at least `minChunkSize`.  A duplicate is counted (`Duplicate`), or the insert of the
raised count fails, which the chunker does not see (`DuplicateUncounted`); `uncounted`
is history and has how often.  `metaDB` and `recipes` are `fileName2metaDB` and
`Recipes/`; `index` is `Index/`; `truth` is history: the chunks of the file when
its version was recorded.  One base name is modelled; its version numbers are the
paths.  `InOrder` says that the user gives `-c` the number of the next version.
`Unopened` actions are files that cannot be opened for writing (those of the store
among them), `Torn` actions a
death inside the write of a recipe or an index file, `RestoreWithoutFile` the
`exit(1)` of the `Chunker` that `-rs` constructs.  After `delete storageObj` the
pointer dangles: the object is larger than 32 MB and always mapped on its own, so
a second `delete` in `CTRLC` faults (`Killed`), or, if the second object got the
same addresses, closes that one (`Interrupted`).

### FileIndex

`chunk`, `segment`, `container` and the three numbers are the fields of
`fileindex`; `startChunkID` and `startSegmentID` those of the entries being
prepared; `segmentsize` and `containersize` the local counters.  `offsets` and
`bytes` are history: where each chunk begins.  `AddChunk` is what happens to the
index at a cut, the same code twice in `varSizeChunking`: the chunk stays in the
open segment, ends it, or ends the container too.  `AddFinal` is the rest of the
file and `NothingLeft` a file that ends at a cut.  Whether a hash shows the pattern
that `EndOfSegment` looks for is a choice, since the hash may have any value; its
comparison of the sizes is kept, `MAX_CONTAINER_SIZE` as the negative int it is.
`IndexStep` is what the code does; `IndexNext` adds the bound `MaxIndexed`.

### Chunker

`pos` is the place in the file that the loops have reached, `fileSize` what was
read of it; `chunkBuffer`, `chunkBufferCnt` and `winFp` are the code's.  A byte
is `FillWindow`, `SlideWindow`, `Cut` or `CutFails`; a block ends with
`BlockDone`, the file with `FinalChunk`, `FinalFails` or `NoFinalChunk`.  `stored`
says which chunks `fp2ChunkDB` has; it begins empty.  `garbage` is the value an
uninitialised `winFp` happens to have, `start` where the chunk begins; both are
history.  The widths are constants: `PolyRange` for 2^23, `FpRange` for 2^16;
the products of the code stay below 2^32.

Assumed, and not verified by the code: the window is shorter than the largest
chunk (otherwise `chunkBuffer` is overrun), `generateHash` succeeds, and
`AnchorRange` divides `PolyRange` and `FpRange` (`MaskAssumption`).  All three are
powers of two, so the last is an average chunk below 2^17 bytes: the anchor lies in
the 16 bits that `winFp` keeps.  Only the two properties about the cuts need it.

`CutsAtAnchors` says where chunks end by `Poly`, the polynomial of the bytes computed
afresh, and `CutAt`, the first place where the window's polynomial has the anchor;
`RepeatsCutAlike` says what deduplication wants of that: content that comes again is
cut alike.

### FixedChunker and Chunking

One action per chunk of a full block and of the last block, where `retSize` is
used before it is set.  The bytes are left out: only sizes and places matter, and
`fixSizeChunking` stores nothing.  The module stands alone, since in this mode
`ChunkerInit` ends the program unless the minimum, average and maximum size are one,
which `varSizeChunking` could do nothing with; `avgChunkSize` is that size, any member of
`FixedSizes`.  That it divides `ReadSize` is only warned of, so the module assumes it
nowhere: `FixedCopies` says how far behind the block the last chunk of a block is then
copied from.  `Chunking` has the variables of both; `ChunkerType` is chosen once.

### Manager

`mode` is the process that runs: `main` constructs one object per mode and the
modes follow each other in any order, at most `MaxProcesses` of them.  "backup" and
the moves of "rewrite" use the steps of `StorageCore` itself.  `compressor` is the
`DeltaCompressor` object, `deltaConfig`, `deltaFiles`, `deltaChunkDB` what it
keeps; `saveDeltaChunk` is one action, since nothing is looked at between its
steps, and the destructor is `CloseCompressor`.

`updateContainer` is one action per durable effect: the size in `containerDB`
(`UpdateSize`), the index entry (`UpdateIndex`), the bytes (`UpdateFile`), the entry
of `deltaChunkDB` (`UpdateForget`), and `rm ./Delta/*` (`UpdateEnd`).
`deltaChunkDB` and `Delta/` are its redo log.  `rewriteContainer` is
`ListContainers`, which drops the sizes of the containers it will remove, then
per chunk `RewriteRead` and a `saveChunk`, then `RemoveContainers`; the
destructor saves the container that the chunks went to only after that.  `job` has
the snapshot that the iterator goes through, and the place in it.

`Faults` has the points where a process may die: "update" and "list" (before
`rewriteContainer` has moved anything), for which the properties hold, and
"compress", "backup" and "move", for which they do not: a `DeltaCompressor` that dies
leaves entries of deltas that no file holds, a backup entries of chunks, and a
`rewriteContainer` that dies late has removed containers whose chunks are in no file
yet.  "noopen", with which the steps of `StorageCore` may find a file unopenable, loses
chunks that way too.

With "insert" in `Faults` an insert into `fp2ChunkDB` may fail.  In a backup it ends the
chunking (`SaveChunkFails`); `rewriteContainer` does not look at what `saveChunk`
returns and goes on to remove the container; `updateContainer` writes the delta over a
chunk whose entry is still the old one, and forgets it (`UpdateIndexFails`).  `failed` is
history: the chunks that met one of the last two.  `lastByte` is the sixteenth byte of
`containerName`, of which `saveChunk` sets fifteen and leaves the last as the stack had
it.  `AtRisk` are the chunks of `failed` and those with a sixteenth byte other than 0,
whose name has no end: `Recoverable` says that each costs itself and the deltas of it
and no other chunk; `AllRecoverable`, which `manager_unterminated` refutes, that none
is lost.

Assumed of the caller, which the repository does not have (`saveDeltaChunk` and
`GC` are called by nobody): a delta is shorter than its chunk, as `compress` tests;
a base is no delta, as its marks intend; a chunk that is a base is not deleted.
`MaxDeltaCount` bounds how often a chunk becomes a delta, `MaxName` the containers of
both kinds, `MaxAtRisk` the chunks at risk.  Taken to succeed: the inserts into
`fileName2metaDB`, `containerDB` and `deltaChunkDB`, deletes and queries of LevelDB, and
the opening of `Delta/*` and `.DeltaConfig`.

### Dector and Compressor

`old` and `new` are the two vectors of fingerprints together with what is in
memory behind them: the search goes past both ends.  That memory may hold
anything and is taken not to change during the search.  `i1`, `i2`, `stand1`,
`stand2`, `k`, `count`, `size`, `flag`, `before`, `after` are the code's; `step` says
which loop or block it is in.  An action is one pass of a loop or one branch of a
block.  The restores of chunks are taken to succeed (`Backup` has those that do
not).  The windows are 4 and 5 where `config.json` has 48 and 256.

`Compressor` adds the collection `restaurants`: `TakeOld` and `TakeNew` insert documents
until `FeaturesTaken`;
`AggregateF`, `AggregateS`, `GroupF`, `GroupS` are the two passes of `compress`,
`CompressLog` and `CompressGroups` count deltas.  The order in which the server
returns the groups is a choice.  The features of a chunk and whether a
delta is shorter are constants.  Documents are those of `SFNumber` 2.  With 4, which
`config.json` has, `Dector` writes `SF` as an array without `F` and `S`, the `_id` that
`compress` groups by is an array, and its `get_utf8` throws once two documents are not
grouped; only the documents of `SFNumber` 2 are modelled.
`compress` only measures: it saves no delta.

## Runs

| run | question | bounds |
|---|---|---|
| `faulty` | do chunks of closed sessions survive signals, crashes, torn and unopenable files (containers and `.StorageConfig`), one-byte chunks? is the store a write-once map? | 4 chunks, 2 containers of 4 usable bytes, any number of sessions |
| `backup` | do versions that share chunks restore, and every indexed chunk read back? is every backup recorded? | 3 chunks, 2 versions, 4 sessions |
| `backup_faults` | do complete versions restore under crashes and torn files, with names used again? do counts cover references, but for failed inserts? does an entry dangle? | 2 chunks, 2 versions, 3 sessions, one failed insert of a count per chunk |
| `backup_survives` | can a crash, signal, lost or unopenable file make a complete version incomplete? | 3 chunks, one of a single byte (then the last), 3 sessions |
| `index` | do segments tile chunks and containers segments, with the sizes intended? is every chunk grouped? | 10 chunks of 1 or 2 units |
| `chunker` | are the chunks the file? are the cuts where the window's polynomial says, and repeated content cut alike? are fixed-size chunks counted and copied within the buffers? | all files of 0, 6 and 11 bytes of two values, two of 17 bytes, blocks of 10; flat index; every first `winFp`; fixed sizes 5, which divides the block, and 4 |
| `manager` | does every chunk that is not at risk restore, or can it be made to, whatever processes run, where `updateContainer` dies and which insert fails? does every listed delta exist? | 3 chunks, one the base of the others; 3 containers of each kind; 4 processes; one chunk at risk |
| `similarity` | does the search end, stay where it may read, and close the regions it opens? does `compress` leave similar chunks apart? | 4 old versions of up to 10 chunks, more than 2000 new ones: every set of chunks changed, with and without three lost, and all of up to 4 chunks of 4 fingerprints |

Bounds.  Two chunks share a container or cause a rotation; `MaxName` admits the
rotations that the chunks and sessions of a run can cause; three sessions are a
failing one, one that builds on what it left, and one that restores.  `faulty` has
no bound on sessions; its counts have one value (`Wrap = 1`), since the store
never looks at them, and those of `backup_faults` do not wrap.  `MaxUncounted` is 1
in `backup_faults`: a count one short shows what a count further short would.  There
both chunks fill a container of their own and have bytes that no other has, and the
chunks are symmetric; so are the two chunks of two bytes in `faulty` and, in `manager`,
the two chunks that are deltas of the third.
With `MaxAtRisk = 1` one chunk of `manager` may be lost, the base or a delta, and the
others must not be.  Four processes of
`manager` are a backup, a compression, an update that fails or not, and its repetition
or a rewrite; the proofs are for any number.  The `Backup` and `Manager` runs do not check for deadlock:
the number of sessions is bounded and a program ends.

Ten chunks of `index` give three containers; 11 bytes in `chunker` give
chunks cut by the anchor and by size, cuts inside and at the end of a block, a rest
and none.  `MaxIndexed` is unused in the `Chunker` runs: the file bounds them.
Ten chunks of `similarity` are more than two windows of 4, so that the search
gives up, widens its window and goes back.  These runs check for deadlock; the end
is a step of its own.

Fairness (`backup`): weak fairness of the program as a whole.  It is one
thread that the system schedules, and calls to LevelDB and the file system
return.  No user action is assumed to be fair: a backup that has begun has a step
enabled until it is recorded.  `similarity` assumes the same of detection and
`compress`: one thread, and calls to MongoDB that return.

### Disagreements that the runs show

| run | what happens |
|---|---|
| `backup_crash` | `saveChunk` makes the index entry durable before the bytes; after a crash the next backup takes the chunk for stored, ends normally and cannot be restored |
| `backup_zero` | zero bytes are restored as `\200` |
| `backup_short` | a chunk of one byte kills the backup |
| `manager_unterminated` | a chunk whose `containerName` has a sixteenth byte other than 0 is not found by `rewriteContainer`, which removes its container |

`RestoreFaithful`, which `backup_crash` violates, holds without faults
(`backup`); under faults what holds is `CompleteRestores` and `CompleteSurvives`.

Behaviour that the models have and the properties leave room for: a second backup
of the same name appends to the recipe of the first, and restoring its version
returns the first (`AddDataBack`; `RestoreFaithful` fails with `InOrder = FALSE`);
`-rs` opens the file it is to restore and exits if it does not exist
(`RestoreWithoutFile`); a container write that is torn loses the chunks of the
versions in it (`LostToTornWrite`); a file that ends at a cut leaves its last
chunks in no segment and its last segments in no container (`NothingLeft`);
`fixSizeChunking` gives the chunks of the last block wrong sizes
(`PartialBlockChunk`).  The limits in `chunker.hpp` are twice their comments or
more; `MAX_CONTAINER_SIZE` overflows, so that a container ends with the first
segment behind `MIN_CONTAINER_SIZE`, 512 MB.  The first cut of a file may be
shifted by the uninitialised `winFp` (`CutsAtAnchors` says by what).  When equal
chunks end a region, `Dector` fills lists that shadow the ones whose features it
takes (`dector.cc:96`), so that those chunks get none.  A chunk that shares one
feature with one group and the other with another is in both, and may be a base in
one and a delta in the other.  A death in "compress", "backup" or
"move", or a file that cannot be opened, breaks `Recoverable` or `NoDanglingDelta`.

## Proofs

`StorageCoreProofs` proves, for every set of chunks with contents shorter than a
container, every container size and every set of the faults that the module has:

* `TypeCorrect`, `StaysInBounds`: from `Shape` = `TypeOK` and `SavingOK` (the
  arguments of the `saveChunk` in progress are a chunk and its bytes, and fit where
  they go) and `BoundsOK` (fill, recorded fill and index entries stay inside a
  container);
* `CommittedChunksIntact`: from `Shape` and `Durable`.  `CommittedIntact` is not
  inductive: that a committed chunk reads back now says nothing of the buffer
  that will be written over its file.  `Durable` says where its bytes are: in the
  file; below the recorded fill if it is in the last container; in `body` below
  `used` when that container is open; in the cache when that is cached.  `FreshOK`
  says the same of chunks that will become committed at `SaveLast`.  A chunk whose
  session could not write `.StorageConfig` never becomes committed: the theorem says of
  such a session that it costs no chunk of the sessions before it;
* `ConfigNeverGoesBack`, from `ConfigOK`;
* `StoreImplementsChunkStore`: the steps of `Spec` are steps of `ChunkStore`, since
  `Durable` gives the bytes on disk of committed chunks and a step either adds
  committed chunks or takes some away;
* `SoundStoreRestores`: without faults and with chunks of two bytes or more, from
  `Accounted`: every entry of the index is committed, fresh or in flight.

`BackupProofs` proves that each step of `Backup` is a step of `StorageCore`
(`BackupUsesStorageCore`), so that the theorems above hold inside the program
(`BackupCommittedIntact`), and, for any versions, chunks and faults:

* `NoEntryDangles`: a recipe entry names a chunk of the index.  Its strengthening
  `JobOK` says that the chunks a backup is done with are in the index and that the
  `saveChunk` in progress is that of the next one;
* `BackupTypes`, `CompleteVersionsRestore`: a restore of a complete version (its
  recipe is whole and all its chunks are of closed sessions) succeeds and returns its
  bytes.  `ProgramInv` adds to the above which phases of the store go with which
  stage of `main` (`StageOK`), that the index files are numbered without gaps and
  record the length of what was saved (`DirsOK`), and that a restore in progress of a
  complete version has so far read that version (`RestoreOK`): `CompleteRestores` only
  speaks of its end;
* `CompleteVersionsSurvive`: the action property that no step makes a complete
  version incomplete, unless it tears the write of a container that its chunks are in
  or of `.StorageConfig`;
* `CountsCover`: a chunk is counted at least as often as recipes name it, less the
  inserts of its raised count that failed.  `CountInv`
  also counts the chunks that the backup in progress has met and not yet written to a
  recipe.  The
  assumption is that the program meets fewer chunks in all its sessions than the
  count can hold (2^32): otherwise it wraps;
* `BackupsRestore`, `BackupRestorable`: without faults, with chunks of two bytes or more
  and versions given in order, every restore returns what was saved.  `SoundInv` says
  that no recipe is appended to twice (`OwnRecipe`: the recipes there are those of
  recorded versions, and the one being written) and that each recorded version is
  complete (`AllComplete`).  `InOrder` is needed: see `AddDataBack` above.

`ManagerProofs` proves, for every set of chunks, bases, deltas and sizes, and any
number of processes of all kinds:

* `ManagerTypes` (`DeltaTypeOK`), whatever process dies where: `TypesInv` adds the types
  of the store underneath, in which an entry is as long as the chunk or as its delta
  (`EntriesOK`), and that the entry `updateContainer` has at hand is in both stores
  (`HandOK`).  The types of `StorageCore` do not carry over: there an entry always has
  the length of its chunk;
* `DeltasAreKept`: a delta that `deltaChunkDB` lists can be read (`NoDanglingDelta`),
  provided that no `DeltaCompressor` dies ("compress" not in `Faults`; `manager` with it
  fails).  The property is not inductive: that a delta can be read now says nothing
  of the container that a later `DeltaCompressor` writes.  `DeltaInv` adds
  `DeltaLogTypes` (types and sizes of the log), `JobOK` (as long as `updateContainer` has
  put no delta off, what is listed is what it has still to visit, so that `rm`
  takes no file that is needed) and `KeptOK` (each listed delta lies below the fill
  that `.DeltaConfig` records, or below that of the open compressor, where nothing is
  written again);
* `ChunksRecoverable` (`Recoverable`), under `SoundManager`: processes die only in
  `updateContainer` or before `rewriteContainer` has moved a chunk and files can be
  opened (`Faults` has no more than "update", "list" and "insert"), a count can hold 1
  and chunks have two bytes or more.  Without the first it fails (`manager` with
  "compress", "move", "backup" or "noopen" in `Faults`).  Nothing is assumed of the
  sixteenth byte of a container name, nor of the inserts into `fp2ChunkDB`: the chunks
  concerned, and the deltas of them, are exempt.  `RecoverInv` says where the bytes of an entry
  are for the open object (`OpenAt`: in `body` below `used`, else in its file, and in
  the cache if that is the cached container) and for the next one (`ClosedAt`: in its
  file and below the recorded fill), the latter in every state in which a process may
  end (`Settled`).  An entry whose delta is still listed is exempt (`Pending`): its
  bytes will be written again.  Why each further part is needed: writing a delta in
  place spares the neighbours because no two entries share a byte (`Apart`);
  `updateContainer` never writes to the container being filled, whose bytes in memory
  would replace it (`UpdateOK`, from `ConfigsOK`); a listed container is before that
  one too (`SizesOK`), and an entry in it is still to be visited or being moved
  (`ListOK`), so that none is left when the containers are removed; a base stays in the
  index and is no delta (`BasesOK`); a `saveChunk` in progress has the bytes of its
  entry (`MovingOK`); and `ModeOK` says what each process leaves alone.

`FileIndexProofs` proves, for all limits and files of any length,
`IndexTypeCorrect`, `GroupsTile`, `GroupSizes` and `RestEndsGroups`
(`EveryChunkGrouped`), from `IndexInv`.  The last one needs `ClosedGrouped`: every
chunk before the open segment is in a segment, every segment before the open
container in a container.  The others are not inductive either: a new segment begins where
the code's `startChunkID` says, which `SegmentsTile` ties to the segment before,
and its size is judged by `segmentsize`.  `OpenSegment` says that this counter is
what the open segment has; `OpenContainer` that `containersize` is at most what
the closed segments of the open container have, because a segment's last chunk is
not counted.

`ChunkerProofs` proves, for every file, block size and limits, `ChunkerTypeCorrect`
(`chunkBuffer` is not overrun), `ChunksAreFile`, `ChunksWithinLimits`, and
`ChunkerBuildsIndex`: every step of the chunker is a step of `FileIndex` or leaves the
index alone, so that the theorems above hold in it. The strengthening is `BufferHolds`
(the buffer has the bytes of the file since the last cut) and `Progress` (how far the
file has been read at each step). Assumptions: `ChunkerAssumption`, `IndexAssumption`.

With `MaskAssumption` it also proves `CutsFollowContent`: the fingerprint that is
rolled through `powerLUT` and `removeLUT` and cut to 23 and then to 16 bits makes
every chunk end where the polynomial says.  `CutsAtAnchors` is about chunks that were
cut; the strengthening is about the one being read.  `FingerprintOK` says that `winFp`
is congruent, modulo `AnchorRange`, to the polynomial of the window plus the seed times
a power of `Base`; `NoEarlierEnd` that no place passed since the last cut was one where
the chunk had to end.  Equality would not do: the masks drop different bits at different
steps, and only the residue modulo `AnchorRange` is kept by all of them (`MasksKeep`,
`TableIsPower`, `RemoveTakesOut`, `PolyShift`).  From it follow `ContentDefinesChunk`
(of two files, too: equal bytes and an equal seed give equal chunks) and
`RepeatedContentRepeatsChunks`.  The lemmas about `Power`, `powerLUT`, `Poly` and the
loop that counts `numOfMaskBits` are inductions; the library's induction rule has an
operator as parameter, so they take a least counterexample instead (`LeastNat`, from
the well-foundedness of `<`), and `Recursion` gives each recursive function its
equation.

`FixedChunkerProofs` proves `FixedCounts` and `FixedCopiesInside` for files, blocks and
chunk sizes of any kind, whether the size divides the block or not.  `FixedProgress`
ties the number of chunks to the bytes read: the blocks before had the chunks each of
them needs, and what was chunked of this one is a multiple of the chunk size and less
than one chunk ahead of what was read.

`CompressorProofs` proves, for versions of any length, any windows, whatever is behind
the vectors and any features, the properties that `similarity` checks: `DectorTypes`,
`RegionsClosed`, `PairsAreInside`, `NewChunksAscend`, `GroupsComplete`.  None is
inductive.  `SearchInv` (`DectorProofs`) says which of the marks `flag`, `before` and
`after` may occur together at the head of the loop (`MarksOK`) and when a region is
evaluated (`RegionOK`), where the window may be (`WindowOK`), and how far the chunks
already taken reach (`OrderOK`: to the pair that opened the region, or to where the
search stands).  For `GroupsComplete`, `GroupsOK` says that a feature two ungrouped
documents share is in the cursor until it has been grouped, and that the second pass
does not undo the first.

Only model-checked: the liveness properties `BackupRecorded` and `CompressionEnds`
(fairness is outside what the prover handles).

## Not modelled

* `saveChunks`, `deleteRecipeAndChunk` beyond `deleteChunk`, and `restoreDeltaChunk`
  have no caller; `restoreRecipeHead` is used by none.  `ContainerDector`,
  `SegmentDector` and `transferDector` are empty.
* The fixed range of chunks that the mode with two files restores at its end, a
  measurement.  `-rw` has its calls of `updateContainer` and `rewriteContainer`
  commented out; the mode with two files makes them, and `Manager` has them as
  processes of their own.
* What sessions write after a `.StorageConfig` was left without any line (a death
  between its truncation and its first line).  The container name is then empty and
  `readContainer` takes every chunk to be in the empty cache: `ReadNothing` stands for
  sessions that only read, and in `Backup` no session begins after it.
* Failing calls of LevelDB other than the inserts into `fp2ChunkDB`.
* OpenSSL, MongoDB, the JSON configuration and the byte-level similarity and delta
  library: they keep no state of the program's own.
* LevelDB (`lib/leveldb`) and the MongoDB driver (`include/mongocxx` and others) are
  vendored third-party code; they appear as the atomic operations the program
  uses.  They are nearly all of the lines in the repository.

## Next

1. `Backup` on the chunks that `Chunker` cuts, so that a restored version is the
   file byte by byte.
2. The theorems of `Backup` for several base names.
