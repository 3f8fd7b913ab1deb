------------------------------- MODULE Backup -------------------------------
(***************************************************************************)
(* The program around the store: main -c (chunk a file, store or count     *)
(* each chunk, save the recipe, close the store, save the index of the     *)
(* version, look at the store once more for Dector) and main -rs (load     *)
(* the index of a version and restore the recipe it names).                *)
(*                                                                         *)
(* One base file name is modelled: the file "name-n" is its version number *)
(* n, and backups of other files differ only in the chunks they share.     *)
(* Only one process runs at a time (LevelDB locks its directory).          *)
(***************************************************************************)
EXTENDS StorageCore

CONSTANTS
    MaxVersion,     \* bound: versions 0 .. MaxVersion
    MaxChunks,      \* bound: chunks in a file
    MaxSessions,    \* bound: processes started
    MaxUncounted,   \* bound: inserts of the raised count of a chunk that fail
    InOrder,        \* -c is given the number of the next version
    NoJob,          \* no process is running
    NoPath,         \* the file name read from an index file that is empty
    NoResult        \* no restore has finished

ASSUME BoundsAssumption ==
    /\ MaxVersion \in Nat
    /\ MaxChunks \in Nat \ {0}
    /\ MaxSessions \in Nat
    /\ MaxUncounted \in Nat
    /\ Wrap > MaxSessions * MaxChunks
    /\ InOrder \in BOOLEAN
ASSUME NoPathAssumption == NoPath \notin Nat

Version == 0 .. MaxVersion

(* What a file is cut into: varSizeChunking yields no empty list for a     *)
(* file that is not empty, and only the rest of the file can be shorter    *)
(* than minChunkSize.                                                      *)
ChunkList ==
    {data \in UNION {[1 .. k -> Chunk] : k \in 1 .. MaxChunks} :
        \A i \in DOMAIN data : i + 1 \in DOMAIN data => Len(Content[data[i]]) > 1}

VARIABLES
    metaDB,     \* fileName2metaDB: the files that have a recipe name
    recipes,    \* Recipes/: [head, entries] of each recipe file
    index,      \* Index/: [path, chunknumber] of each version
    stage,      \* where the running process is
    job,        \* what it works on
    result,     \* what the restore that just ended returned
    sessions,   \* processes started
    truth,      \* history: the chunks of the file when its version was saved
    uncounted   \* history: the references to each chunk whose insert failed

backupVars == <<metaDB, recipes, index, stage, job, result, sessions, truth, uncounted>>
bvars == <<vars, backupVars>>

Stage == {"idle", "chunk", "saving", "head", "close", "closing", "index",
          "detect", "detected", "interrupted", "restore"}

-----------------------------------------------------------------------------
BInit ==
    /\ Init
    /\ metaDB = EmptyStore
    /\ recipes = EmptyStore
    /\ index = EmptyStore
    /\ stage = "idle"
    /\ job = NoJob
    /\ result = NoResult
    /\ sessions = 0
    /\ truth = EmptyStore
    /\ uncounted = [c \in Chunk |-> 0]

(* Mutant: the job is dropped and the stage kept.                          *)
EndedInPlace == job' = NoJob /\ UNCHANGED stage

(* The process is gone. *)
Ended == stage' = "idle" /\ job' = NoJob

(* Mutant: the loop that looks for a free version number is missing.       *)
FirstVersion == 0

(* main -c name-n: the first version whose index file does not exist is    *)
(* the one that will be saved.                                             *)
NextVersion ==
    CHOOSE v \in 0 .. (MaxVersion + 1) :
        v \notin DOMAIN index /\ \A w \in 0 .. (v - 1) : w \in DOMAIN index

StartBackup(n, data) ==
    /\ stage = "idle"
    /\ sessions < MaxSessions
    /\ NextVersion \in Version
    /\ InOrder => n = NextVersion
    /\ Open
    /\ stage' = "chunk"
    /\ job' = [path |-> n, data |-> data, pos |-> 0, saved |-> FALSE]
    /\ result' = NoResult
    /\ sessions' = sessions + 1
    /\ UNCHANGED <<metaDB, recipes, index, truth, uncounted>>

-----------------------------------------------------------------------------
(* varSizeChunking: one chunk of the file after another.                   *)

ChunkDone == job' = [job EXCEPT !.pos = @ + 1]
NextChunk == job.data[job.pos + 1]
MoreChunks == stage = "chunk" /\ job.pos < Len(job.data)
ChunkingOver == stage = "chunk" /\ job.pos = Len(job.data)

Duplicate ==
    /\ MoreChunks
    /\ AddReference(NextChunk)
    /\ ChunkDone
    /\ UNCHANGED <<metaDB, recipes, index, stage, result, sessions, truth, uncounted>>

(* The insert of the raised count fails, which the chunker does not see.   *)
DuplicateUncounted ==
    /\ MoreChunks
    /\ query(fp2ChunkDB, NextChunk)
    /\ uncounted[NextChunk] < MaxUncounted
    /\ uncounted' = [uncounted EXCEPT ![NextChunk] = @ + 1]
    /\ ChunkDone
    /\ UNCHANGED <<vars, metaDB, recipes, index, stage, result, sessions, truth>>

Unique ==
    /\ MoreChunks
    /\ ~query(fp2ChunkDB, NextChunk)
    /\ BeginSave(NextChunk, Content[NextChunk])
    /\ stage' = "saving"
    /\ UNCHANGED <<metaDB, recipes, index, job, result, sessions, truth, uncounted>>

(* Saving a chunk of one byte, or dying in the rotation.                   *)
UniqueDies ==
    /\ MoreChunks
    /\ ~query(fp2ChunkDB, NextChunk)
    /\ LET data == Content[NextChunk]
       IN Overrun(NextChunk, data) \/ TornRotate(data)
    /\ Ended
    /\ UNCHANGED <<metaDB, recipes, index, result, sessions, truth, uncounted>>

SaveStep ==
    /\ stage = "saving"
    /\ WriteRotated \/ IndexChunk
    /\ UNCHANGED backupVars

SaveDone ==
    /\ stage = "saving"
    /\ AdvanceUsed
    /\ stage' = "chunk"
    /\ ChunkDone
    /\ UNCHANGED <<metaDB, recipes, index, result, sessions, truth, uncounted>>

(* Mutant: the result of saveChunk is ignored.                             *)
SaveFailureIgnored ==
    /\ stage = "saving"
    /\ IndexFails
    /\ stage' = "chunk"
    /\ ChunkDone
    /\ UNCHANGED <<metaDB, recipes, index, result, sessions, truth, uncounted>>

(* saveChunk returned false: varSizeChunking returns, and main goes on     *)
(* without a recipe.                                                       *)
SaveFailed ==
    /\ stage = "saving"
    /\ IndexFails
    /\ stage' = "close"
    /\ UNCHANGED <<metaDB, recipes, index, job, result, sessions, truth, uncounted>>

-----------------------------------------------------------------------------
(* checkRecipeStatus and saveRecipe.                                       *)

Entries(n) == IF n \in DOMAIN recipes THEN recipes[n].entries ELSE <<>>
HasHead(n) == n \in DOMAIN recipes /\ recipes[n].head

(* The recipe file is opened for append.  A head is only of use at the     *)
(* front of the file.                                                      *)
AppendTo(n, head, entries) ==
    recipes' = insert(recipes, n,
                 [head |-> IF n \in DOMAIN recipes THEN recipes[n].head ELSE head,
                  entries |-> Entries(n) \o entries])

(* There is no recipe name yet: it is recorded before the file exists.     *)
InsertMeta ==
    /\ ChunkingOver
    /\ ~query(metaDB, job.path)
    /\ metaDB' = insert(metaDB, job.path, job.path)
    /\ stage' = "head"
    /\ UNCHANGED <<vars, recipes, index, job, result, sessions, truth, uncounted>>

SaveRecipe(head) ==
    /\ AppendTo(job.path, head, job.data)
    /\ stage' = "close"
    /\ job' = [job EXCEPT !.saved = TRUE]
    /\ UNCHANGED <<vars, metaDB, index, result, sessions, truth, uncounted>>

NewRecipe == stage = "head" /\ SaveRecipe(TRUE)

(* "current file's recipe exist, add data back"                            *)
AddDataBack == ChunkingOver /\ query(metaDB, job.path) /\ SaveRecipe(FALSE)

(* saveRecipe cannot open the file: the chunker only says so.              *)
RecipeUnopened ==
    /\ "noopen" \in Faults
    /\ stage = "head" \/ (ChunkingOver /\ query(metaDB, job.path))
    /\ stage' = "close"
    /\ UNCHANGED <<vars, metaDB, recipes, index, job, result, sessions, truth, uncounted>>

(* The process dies inside saveRecipe: a prefix of it reached the file.    *)
TornRecipe ==
    /\ "torn" \in Faults
    /\ \/ stage = "head" /\ \E head \in BOOLEAN, k \in 0 .. Len(job.data) :
            (k > 0 => head) /\ AppendTo(job.path, head, SubSeq(job.data, 1, k))
       \/ ChunkingOver /\ query(metaDB, job.path) /\ \E k \in 0 .. Len(job.data) :
            AppendTo(job.path, FALSE, SubSeq(job.data, 1, k))
    /\ Crash
    /\ Ended
    /\ UNCHANGED <<metaDB, index, result, sessions, truth, uncounted>>

-----------------------------------------------------------------------------
(* main: delete storageObj, save the index, and the session of Dector.     *)

Close ==
    /\ stage \in {"close", "detect"}
    /\ BeginClose
    /\ stage' = IF stage = "close" THEN "closing" ELSE "detected"
    /\ UNCHANGED <<metaDB, recipes, index, job, result, sessions, truth, uncounted>>

CloseConfig ==
    /\ ConfigStep
    /\ UNCHANGED backupVars

(* Mutant: main ends after deleting the object.                            *)
ClosedForGood ==
    /\ SaveLastStep
    /\ Ended
    /\ UNCHANGED <<metaDB, recipes, index, result, sessions, truth, uncounted>>

Closed ==
    /\ SaveLastStep
    /\ IF stage = "closing"
       THEN stage' = "index" /\ UNCHANGED job
       ELSE Ended
    /\ UNCHANGED <<metaDB, recipes, index, result, sessions, truth, uncounted>>

(* From version 1 on a second StorageCore is opened for Dector.            *)
AfterIndex ==
    IF NextVersion < 1
    THEN Ended /\ UNCHANGED vars
    ELSE stage' = "detect" /\ Open /\ UNCHANGED job

(* saveToFile under the first free version number, even if the recipe was  *)
(* not saved.                                                              *)
SaveIndex ==
    /\ stage = "index"
    /\ index' = insert(index, NextVersion,
                       [path |-> job.path, chunknumber |-> job.pos])
    /\ truth' = IF job.saved THEN insert(truth, NextVersion, job.data) ELSE truth
    /\ AfterIndex
    /\ UNCHANGED <<metaDB, recipes, result, sessions, uncounted>>

(* saveToFile cannot open the file; main does not look at its result.      *)
IndexUnopened ==
    /\ "noopen" \in Faults
    /\ stage = "index"
    /\ AfterIndex
    /\ UNCHANGED <<metaDB, recipes, index, result, sessions, truth, uncounted>>

(* The process dies inside saveToFile: the file exists and is empty.       *)
TornIndex ==
    /\ "torn" \in Faults
    /\ stage = "index"
    /\ index' = insert(index, NextVersion, [path |-> NoPath, chunknumber |-> 0])
    /\ Ended
    /\ UNCHANGED <<vars, metaDB, recipes, result, sessions, truth, uncounted>>

(* Dector restores chunks of the two versions it compares.                 *)
Detect(c) ==
    /\ stage = "detect"
    /\ RestoreChunk(c)
    /\ UNCHANGED backupVars

-----------------------------------------------------------------------------
(* main -rs name-v: loadIndex, restoreRecipeAndChunk.                      *)

(* loadIndex: of an empty file it returns what was never written.          *)
LoadedNumber(v) ==
    IF index[v].path = NoPath THEN 0 .. MaxChunks ELSE {index[v].chunknumber}

StartRestore(v) ==
    /\ stage = "idle"
    /\ sessions < MaxSessions
    /\ v \in DOMAIN index
    /\ Open
    /\ stage' = "restore"
    /\ \E k \in LoadedNumber(v) :
         job' = [version |-> v, path |-> index[v].path, number |-> k, out |-> <<>>]
    /\ result' = NoResult
    /\ sessions' = sessions + 1
    /\ UNCHANGED <<metaDB, recipes, index, truth, uncounted>>

(* The Chunker that -rs makes to read the index opens the file "name-v"    *)
(* itself, and exits if it is gone.                                        *)
RestoreWithoutFile(v) ==
    /\ "lost" \in Faults
    /\ stage = "idle"
    /\ sessions < MaxSessions
    /\ v \in DOMAIN index
    /\ result' = [version |-> v, file |-> FALSE, ok |-> FALSE, out |-> <<>>]
    /\ sessions' = sessions + 1
    /\ UNCHANGED <<vars, metaDB, recipes, index, stage, job, truth, uncounted>>

RestorePos == Len(job.out) + 1

(* The recipe can be found, and the entry read from it is one.             *)
EntryReadable ==
    /\ query(metaDB, job.path)
    /\ HasHead(job.path)
    /\ RestorePos <= Len(Entries(job.path))

EntryChunk == Entries(job.path)[RestorePos]

(* restoreChunk succeeds, and the length agrees with that of the recipe.   *)
ChunkReadable(c) ==
    /\ query(fp2ChunkDB, c)
    /\ CanRead(fp2ChunkDB[c].containerName)
    /\ fp2ChunkDB[c].length = Len(Content[c])

RestoreNext ==
    /\ stage = "restore"
    /\ Len(job.out) < job.number
    /\ EntryReadable
    /\ ChunkReadable(EntryChunk)
    /\ RestoreChunk(EntryChunk)
    /\ job' = [job EXCEPT !.out = Append(@, readContainer(fp2ChunkDB[EntryChunk]))]
    /\ UNCHANGED <<metaDB, recipes, index, stage, result, sessions, truth, uncounted>>

RestoreFails ==
    /\ stage = "restore"
    /\ Len(job.out) < job.number
    /\ ~(EntryReadable /\ ChunkReadable(EntryChunk))
    /\ result' = [version |-> job.version, file |-> TRUE, ok |-> FALSE, out |-> <<>>]
    /\ Exit
    /\ Ended
    /\ UNCHANGED <<metaDB, recipes, index, sessions, truth, uncounted>>

RestoreDone ==
    /\ stage = "restore"
    /\ Len(job.out) = job.number
    /\ result' = [version |-> job.version, file |-> TRUE,
                  ok |-> query(metaDB, job.path) /\ job.path \in DOMAIN recipes,
                  out |-> job.out]
    /\ Exit
    /\ Ended
    /\ UNCHANGED <<metaDB, recipes, index, sessions, truth, uncounted>>

-----------------------------------------------------------------------------
(* Signals and crashes.  After delete storageObj the pointer dangles, and  *)
(* CTRLC dies on it.                                                       *)

Interrupted ==
    /\ stage # "interrupted"
    /\ Interrupt
    /\ stage' = "interrupted"
    /\ job' = NoJob
    /\ UNCHANGED <<metaDB, recipes, index, result, sessions, truth, uncounted>>

Killed ==
    /\ \/ Crash
       \/ TornClose \/ TornConfig \/ EmptiedConfig
       \/ stage = "index" /\ Faults \cap {"crash", "interrupt"} # {} /\ UNCHANGED vars
    /\ Ended
    /\ UNCHANGED <<metaDB, recipes, index, result, sessions, truth, uncounted>>

BNext ==
    \/ \E n \in Version, data \in ChunkList : StartBackup(n, data)
    \/ Duplicate \/ DuplicateUncounted
    \/ Unique \/ UniqueDies \/ SaveStep \/ SaveDone \/ SaveFailed
    \/ InsertMeta \/ NewRecipe \/ AddDataBack \/ RecipeUnopened \/ TornRecipe
    \/ Close \/ CloseConfig \/ Closed \/ SaveIndex \/ IndexUnopened \/ TornIndex
    \/ \E c \in Chunk : Detect(c)
    \/ \E v \in Version : StartRestore(v) \/ RestoreWithoutFile(v)
    \/ RestoreNext \/ RestoreFails \/ RestoreDone
    \/ Interrupted \/ Killed

BSpec == BInit /\ [][BNext]_bvars

(* The program is one thread that the system keeps scheduling, and its     *)
(* calls into LevelDB and the file system return.                          *)
FairBSpec == BSpec /\ WF_bvars(BNext)

-----------------------------------------------------------------------------
(* The stores and directories of the program hold what their types say.    *)
BTypeOK ==
    /\ IsStore(metaDB, Version, Version)
    /\ IsStore(recipes, Version, [head : BOOLEAN, entries : Seq(Chunk)])
    /\ IsStore(index, Version, [path : Version \cup {NoPath}, chunknumber : 0 .. MaxChunks])
    /\ stage \in Stage
    /\ sessions \in 0 .. MaxSessions
    /\ IsStore(truth, Version, ChunkList)
    /\ uncounted \in [Chunk -> Nat]
    /\ stage \in {"chunk", "saving", "head", "close", "closing", "index", "detect"} =>
         job \in [path : Version, data : ChunkList, pos : 0 .. MaxChunks, saved : BOOLEAN]
    /\ stage = "restore" =>
         job \in [version : Version, path : Version \cup {NoPath}, number : 0 .. MaxChunks,
                 out : Seq(Seq(Cell))]

(* The restore that just ended returned the bytes stored for version v.    *)
ResultIs(v) ==
    /\ result.ok
    /\ result.out = [i \in 1 .. Len(truth[v]) |-> Stored(truth[v][i])]

(* -rs of a version whose backup saved its recipe succeeds and returns the *)
(* chunks the file had when that version was saved (restoreRecipeAndChunk  *)
(* against varSizeChunking, saveChunk and checkRecipeStatus), whatever     *)
(* chunks the versions share and however often the store was reopened.     *)
RestoreFaithful ==
    result # NoResult /\ result.version \in DOMAIN truth => ResultIs(result.version)

(* The restore that just ended returned the file that was backed up, byte  *)
(* for byte ("Restore the backup file", README.md).                        *)
RestoreExact ==
    result # NoResult /\ result.ok /\ result.version \in DOMAIN truth =>
        result.out = [i \in 1 .. Len(truth[result.version]) |->
                        Content[truth[result.version][i]]]

(* A version is complete when the recipe starts with its chunks and the    *)
(* sessions that saved them were all closed, with .StorageConfig and the   *)
(* containers written (committed).                                         *)
Complete(v) ==
    /\ v \in DOMAIN truth
    /\ query(metaDB, index[v].path)
    /\ HasHead(index[v].path)
    /\ Len(truth[v]) <= Len(Entries(index[v].path))
    /\ \A i \in 1 .. Len(truth[v]) :
          /\ truth[v][i] = Entries(index[v].path)[i]
          /\ truth[v][i] \in committed

(* Under crashes, signals, torn writes and files that cannot be opened     *)
(* (.StorageConfig, containers, recipes, index files), in this session and *)
(* all before it, the restore of a complete version succeeds and returns   *)
(* its bytes (while the file itself is there to be opened).                *)
CompleteRestores ==
    result # NoResult /\ result.file /\ Complete(result.version)
        => ResultIs(result.version)

(* Whether a chunk of version v was lost with the container, or the        *)
(* .StorageConfig, that the process was writing when it died (TornRotate,  *)
(* TornClose, TornConfig, EmptiedConfig).                                  *)
LostToTornWrite(v) == \E i \in 1 .. Len(truth[v]) : truth[v][i] \notin committed'

(* No later backup, restore, crash or signal makes a complete version      *)
(* incomplete, torn recipes and index files included: recipes are only     *)
(* appended to, versions never reused.  Only a torn write can: of a        *)
(* container, or of .StorageConfig, for the versions with chunks in that   *)
(* container, or all of them if .StorageConfig is left empty.              *)
CompleteSurvives ==
    [][\A v \in DOMAIN index : Complete(v) => Complete(v)' \/ LostToTornWrite(v)]_bvars

(* The recipe entries that name a chunk. *)
References(c) ==
    {p \in (DOMAIN recipes) \X (1 .. MaxSessions * MaxChunks) :
        p[2] <= Len(recipes[p[1]].entries) /\ recipes[p[1]].entries[p[2]] = c}

(* At every step of a backup and after every crash, a chunk's count falls  *)
(* short of the recipe entries that name it by no more than the counts     *)
(* that could not be inserted: the chunker counts before checkRecipeStatus *)
(* makes the recipe refer.  So as long as no such insert fails, GC, which  *)
(* drops chunks whose count is 0, drops none that a recipe needs.          *)
CountCoversReferences ==
    \A c \in DOMAIN fp2ChunkDB :
        fp2ChunkDB[c].count + uncounted[c] >= Cardinality(References(c))

(* No recipe entry names a chunk that the index does not have.             *)
NoDanglingEntry ==
    \A n \in DOMAIN recipes : \A i \in 1 .. Len(recipes[n].entries) :
        query(fp2ChunkDB, recipes[n].entries[i])

(* A backup that has begun ends with its version in Index/.                *)
BackupRecorded ==
    \A n \in Version :
        (stage = "chunk" /\ job.path = n) ~> (\E v \in DOMAIN index : index[v].path = n)

(* Each step of the program is a step of the store or leaves it alone.     *)
UsesStorageCore == Init /\ [][Next]_vars

=============================================================================
