---------------------------- MODULE BackupProofs ----------------------------
(***************************************************************************)
(* Proofs about Backup: the program uses the store only through its        *)
(* operations, so what is proved of StorageCore holds of the store inside  *)
(* the program; whatever the faults no recipe entry dangles, no chunk is   *)
(* counted less often than recipes name it, and complete versions stay     *)
(* complete and restore; and without faults every version is complete.     *)
(***************************************************************************)
EXTENDS Backup, StorageCoreProofs, FiniteSetTheorems

Working == {"chunk", "saving", "head", "close", "closing", "index", "detect"}
BackupJob == [path : Version, data : Seq(Chunk), pos : Nat, saved : BOOLEAN]

(* The job of a backup: the chunks it is done with are in the index, and   *)
(* the saveChunk in progress is that of the next one.                      *)
JobOK ==
    /\ stage \in Working =>
          /\ job \in BackupJob
          /\ job.pos <= Len(job.data)
          /\ \A i \in 1 .. job.pos : job.data[i] \in DOMAIN fp2ChunkDB
    /\ stage = "saving" => /\ job.pos < Len(job.data)
                           /\ Saving
                           /\ saving.chunk = job.data[job.pos + 1]
    /\ stage = "head" => job.pos = Len(job.data)

RecipesOK == IsStore(recipes, Version, [head : BOOLEAN, entries : Seq(Chunk)])

BInv == Shape /\ Durable /\ JobOK /\ RecipesOK /\ NoDanglingEntry

-----------------------------------------------------------------------------
(* A list of chunks is a sequence of them. *)
LEMMA ChunkListSeq == \A data \in ChunkList : data \in Seq(Chunk)
BY DEF ChunkList

(* The index never loses an entry: only GC deletes from it.                *)
LEMMA IndexGrows ==
    ASSUME [Next]_vars PROVE DOMAIN fp2ChunkDB \subseteq DOMAIN fp2ChunkDB'
<1>1. CASE IndexChunk
  BY <1>1, IndexChunkDB
<1>2. ASSUME NEW c \in Chunk, AddReference(c) \/ deleteChunk(c)
      PROVE  DOMAIN fp2ChunkDB \subseteq DOMAIN fp2ChunkDB'
  BY <1>2 DEF AddReference, deleteChunk, SetCount, insert
<1>3. CASE fp2ChunkDB' = fp2ChunkDB
  BY <1>3
<1> QED
  BY <1>1, <1>2, <1>3
  DEF Next, Open, ReadNothing, SaveNew, BeginSave, WriteFits, Rotate, RotateUnopened,
      TornRotate, Overrun, WriteRotated, IndexFails, AdvanceUsed, RestoreChunk, BeginClose,
      ConfigStep, WriteConfig, WriteConfigUnopened, SaveLastStep, SaveLast, SaveLastUnopened,
      Exit, Interrupt, Crash, TornClose, Torn, TornConfig, EmptiedConfig, diskVars, vars

(* Each step of the program is a step of the store or leaves it alone.     *)
LEMMA BackupStep ==
    ASSUME BInv, [BNext]_bvars PROVE [Next]_vars
<1> USE DEF BInv
<1>1. CASE UNCHANGED bvars
  BY <1>1 DEF bvars
<1>2. ASSUME NEW n \in Version, NEW data \in ChunkList, StartBackup(n, data) PROVE Next
  BY <1>2 DEF StartBackup, Next
<1>3. ASSUME MoreChunks PROVE NextChunk \in Chunk
  BY <1>3 DEF MoreChunks, NextChunk, JobOK, Working, BackupJob
<1>4. CASE Duplicate \/ DuplicateUncounted
  BY <1>3, <1>4 DEF Duplicate, DuplicateUncounted, Next
<1>5. CASE Unique \/ UniqueDies
  BY <1>3, <1>5 DEF Unique, UniqueDies, Next, SaveNew
<1>6. CASE SaveStep \/ SaveDone \/ SaveFailed
  BY <1>6 DEF SaveStep, SaveDone, SaveFailed, Next
<1>7. CASE InsertMeta \/ NewRecipe \/ AddDataBack \/ RecipeUnopened \/ TornRecipe
  BY <1>7 DEF InsertMeta, NewRecipe, AddDataBack, SaveRecipe, RecipeUnopened, TornRecipe, Next
<1>8. CASE Close \/ CloseConfig \/ Closed \/ SaveIndex \/ IndexUnopened \/ TornIndex
  BY <1>8 DEF Close, CloseConfig, Closed, SaveIndex, IndexUnopened, TornIndex, AfterIndex, Next
<1>9. ASSUME NEW c \in Chunk, Detect(c) PROVE Next
  BY <1>9 DEF Detect, Next
<1>10. ASSUME NEW v \in Version, StartRestore(v) \/ RestoreWithoutFile(v) PROVE [Next]_vars
  BY <1>10 DEF StartRestore, RestoreWithoutFile, Next
<1>11. CASE RestoreNext
  <2>1. EntryChunk \in Chunk
    BY <1>11 DEF RestoreNext, ChunkReadable, query, Shape, TypeOK, IsStore
  <2> QED BY <1>11, <2>1 DEF RestoreNext, Next
<1>12. CASE RestoreFails \/ RestoreDone
  BY <1>12 DEF RestoreFails, RestoreDone, Next
<1>13. CASE Interrupted \/ Killed
  BY <1>13 DEF Interrupted, Killed, Next
<1> QED
  BY <1>1, <1>2, <1>4, <1>5, <1>6, <1>7, <1>8, <1>9, <1>10, <1>11, <1>12, <1>13 DEF BNext

-----------------------------------------------------------------------------
(* Steps that leave the job alone, in phases in which no chunk is saved.   *)
LEMMA JobFrame ==
    ASSUME BInv, [Next]_vars, job' = job,
           stage' \in Working => stage \in Working,
           stage' # "saving", stage' = "head" => job.pos = Len(job.data)
    PROVE  JobOK'
BY IndexGrows DEF BInv, JobOK

(* Each step of the program keeps its job consistent with the index. *)
LEMMA BackupJobStep ==
    ASSUME BInv, [BNext]_bvars PROVE JobOK'
<1> USE DEF BInv
<1>0. [Next]_vars /\ DOMAIN fp2ChunkDB \subseteq DOMAIN fp2ChunkDB'
  BY BackupStep, IndexGrows
<1>1. CASE UNCHANGED bvars
  BY <1>1 DEF bvars, vars, backupVars, diskVars, objectVars, JobOK, Saving
<1>2. ASSUME NEW n \in Version, NEW data \in ChunkList, StartBackup(n, data) PROVE JobOK'
  <2>1. job' \in BackupJob /\ job'.pos = 0 /\ stage' = "chunk"
    BY <1>2, ChunkListSeq DEF StartBackup, BackupJob
  <2>2. Len(job'.data) \in Nat
    BY <2>1 DEF BackupJob
  <2> QED BY <2>1, <2>2 DEF JobOK
<1>3. ASSUME MoreChunks
      PROVE  /\ job \in BackupJob /\ job.pos \in Nat /\ Len(job.data) \in Nat
             /\ job.pos < Len(job.data) /\ NextChunk = job.data[job.pos + 1]
             /\ \A i \in 1 .. job.pos : job.data[i] \in DOMAIN fp2ChunkDB
  BY <1>3 DEF MoreChunks, NextChunk, JobOK, Working, BackupJob
<1>4. ASSUME stage' = "chunk", ChunkDone, job \in BackupJob, job.pos < Len(job.data),
             job.data[job.pos + 1] \in DOMAIN fp2ChunkDB',
             \A i \in 1 .. job.pos : job.data[i] \in DOMAIN fp2ChunkDB
      PROVE  JobOK'
  <2>1. job'.pos = job.pos + 1 /\ job'.data = job.data /\ job' \in BackupJob
        /\ Len(job.data) \in Nat /\ job.pos \in Nat
    BY <1>4 DEF ChunkDone, BackupJob
  <2>2. \A i \in 1 .. job'.pos : job'.data[i] \in DOMAIN fp2ChunkDB'
    BY <1>0, <1>4, <2>1
  <2> QED BY <1>4, <2>1, <2>2 DEF JobOK
<1>5. CASE Duplicate \/ DuplicateUncounted
  <2>1. NextChunk \in DOMAIN fp2ChunkDB /\ MoreChunks /\ stage' = "chunk" /\ ChunkDone
    BY <1>5 DEF Duplicate, DuplicateUncounted, AddReference, SetCount, query, MoreChunks
  <2> QED BY <1>0, <1>3, <1>4, <2>1
<1>6. CASE Unique
  <2>1. /\ MoreChunks /\ stage' = "saving" /\ job' = job
        /\ saving' = Arguments(NextChunk, Content[NextChunk])
        /\ phase' \in {"written", "rotated"}
    BY <1>6 DEF Unique, BeginSave, WriteFits, Rotate, RotateUnopened
  <2>2. saving'.chunk = NextChunk
    BY <2>1 DEF Arguments
  <2> QED BY <1>0, <1>3, <2>1, <2>2 DEF JobOK, Saving
<1>7. CASE UniqueDies \/ TornRecipe \/ TornIndex \/ RestoreFails \/ RestoreDone
           \/ Interrupted \/ Killed
  BY <1>7 DEF UniqueDies, TornRecipe, TornIndex, RestoreFails, RestoreDone, Interrupted, Killed, Ended,
              JobOK, Working
<1>8. CASE SaveStep
  <2>1. stage = "saving" /\ stage' = stage /\ job' = job /\ saving' = saving
        /\ phase' \in {"written", "indexed"}
    BY <1>8 DEF SaveStep, backupVars, WriteRotated, IndexChunk
  <2> QED BY <1>0, <2>1 DEF JobOK, Saving, Working
<1>9. CASE SaveDone
  <2>1. stage = "saving" /\ stage' = "chunk" /\ ChunkDone /\ phase = "indexed"
    BY <1>9 DEF SaveDone, AdvanceUsed
  <2>2. saving.chunk \in DOMAIN fp2ChunkDB
    BY <2>1 DEF Durable, InFlightOK
  <2>3. /\ job \in BackupJob /\ job.pos < Len(job.data) /\ saving.chunk = job.data[job.pos + 1]
        /\ \A i \in 1 .. job.pos : job.data[i] \in DOMAIN fp2ChunkDB
    BY <2>1 DEF JobOK, Working
  <2> QED BY <1>0, <1>4, <2>1, <2>2, <2>3
<1>10. CASE SaveFailed
  BY <1>0, <1>10, JobFrame DEF SaveFailed, Working
<1>11. CASE InsertMeta
  BY <1>0, <1>11, JobFrame DEF InsertMeta, ChunkingOver, Working
<1>12. CASE NewRecipe \/ AddDataBack
  <2>1. stage \in Working /\ stage' = "close" /\ job' = [job EXCEPT !.saved = TRUE]
    BY <1>12 DEF NewRecipe, AddDataBack, SaveRecipe, ChunkingOver, Working
  <2>2. job \in BackupJob
    BY <2>1 DEF JobOK
  <2>3. job' \in BackupJob /\ job'.pos = job.pos /\ job'.data = job.data
    BY <2>1, <2>2 DEF BackupJob
  <2> QED BY <1>0, <2>1, <2>3 DEF JobOK
<1>13. CASE Close \/ RecipeUnopened
  BY <1>0, <1>13, JobFrame DEF Close, RecipeUnopened, ChunkingOver, Working
<1>14. CASE CloseConfig
  <2>1. phase = "closing" /\ UNCHANGED <<job, stage>>
    BY <1>14 DEF CloseConfig, ConfigStep, WriteConfig, WriteConfigUnopened, backupVars
  <2>2. stage # "saving"
    BY <2>1 DEF JobOK, Saving
  <2> QED BY <1>0, <2>1, <2>2, JobFrame DEF JobOK
<1>15. CASE Closed
  <2>1. CASE stage = "closing"
    BY <1>0, <1>15, <2>1, JobFrame DEF Closed, Working
  <2>2. CASE stage # "closing"
    BY <1>15, <2>2 DEF Closed, Ended, JobOK, Working
  <2> QED BY <2>1, <2>2
<1>16. CASE SaveIndex \/ IndexUnopened
  <2>1. CASE stage' = "idle"
    BY <2>1 DEF JobOK, Working
  <2>2. CASE stage' = "detect" /\ job' = job
    BY <1>0, <1>16, <2>2, JobFrame DEF SaveIndex, IndexUnopened, Working
  <2> QED BY <1>16, <2>1, <2>2 DEF SaveIndex, IndexUnopened, AfterIndex, Ended
<1>17. ASSUME NEW c \in Chunk, Detect(c) PROVE JobOK'
  BY <1>0, <1>17, JobFrame DEF Detect, backupVars, Working
<1>18. ASSUME NEW v \in Version, StartRestore(v) \/ RestoreWithoutFile(v) PROVE JobOK'
  BY <1>18 DEF StartRestore, RestoreWithoutFile, JobOK, Working
<1>19. CASE RestoreNext
  BY <1>19 DEF RestoreNext, JobOK, Working
<1> QED
  BY <1>1, <1>2, <1>5, <1>6, <1>7, <1>8, <1>9, <1>10, <1>11, <1>12, <1>13, <1>14, <1>15,
     <1>16, <1>17, <1>18, <1>19 DEF BNext

-----------------------------------------------------------------------------
(* Appending a prefix of the chunks of a backup that is done with them.    *)
LEMMA AppendRecipes ==
    ASSUME BInv, NEW head \in BOOLEAN, NEW k \in 0 .. Len(job.data),
           stage \in Working, job.pos = Len(job.data),
           AppendTo(job.path, head, SubSeq(job.data, 1, k)),
           DOMAIN fp2ChunkDB \subseteq DOMAIN fp2ChunkDB'
    PROVE  RecipesOK' /\ NoDanglingEntry'
<1> DEFINE n == job.path
           new == SubSeq(job.data, 1, k)
           old == Entries(n)
           file == [head |-> IF n \in DOMAIN recipes THEN recipes[n].head ELSE head,
                    entries |-> old \o new]
<1>1. n \in Version /\ job.data \in Seq(Chunk) /\ Len(job.data) \in Nat
  BY DEF BInv, JobOK, BackupJob
<1>2. new \in Seq(Chunk) /\ Len(new) = k /\ \A i \in 1 .. k : new[i] = job.data[i]
  BY <1>1
<1>3. old \in Seq(Chunk) /\ \A i \in 1 .. Len(old) : old[i] \in DOMAIN fp2ChunkDB
  <2>1. CASE n \in DOMAIN recipes
    BY <2>1 DEF Entries, BInv, RecipesOK, IsStore, NoDanglingEntry, query
  <2>2. CASE n \notin DOMAIN recipes
    BY <2>2 DEF Entries
  <2> QED BY <2>1, <2>2
<1>4. \A i \in 1 .. k : new[i] \in DOMAIN fp2ChunkDB
  BY <1>1, <1>2 DEF BInv, JobOK
<1> HIDE DEF new, old
<1>5. old \o new \in Seq(Chunk) /\ Len(old \o new) = Len(old) + Len(new)
      /\ \A i \in 1 .. Len(old \o new) :
            (old \o new)[i] = IF i <= Len(old) THEN old[i] ELSE new[i - Len(old)]
  BY <1>2, <1>3
<1>6. \A i \in 1 .. Len(old \o new) : (old \o new)[i] \in DOMAIN fp2ChunkDB
  <2> SUFFICES ASSUME NEW i \in 1 .. Len(old \o new)
               PROVE  (old \o new)[i] \in DOMAIN fp2ChunkDB
    OBVIOUS
  <2>1. CASE i <= Len(old)
    BY <1>3, <1>5, <2>1
  <2>2. CASE ~(i <= Len(old))
    <3>1. i - Len(old) \in 1 .. k
      BY <1>2, <1>3, <1>5, <2>2
    <3> QED BY <1>4, <1>5, <2>2, <3>1
  <2> QED BY <2>1, <2>2
<1>7. file \in [head : BOOLEAN, entries : Seq(Chunk)] /\ file.entries = old \o new
  BY <1>5 DEF BInv, RecipesOK, IsStore
<1>8. recipes' = insert(recipes, n, file)
  BY DEF AppendTo, new, old
<1> HIDE DEF file, n
<1>9. RecipesOK'
  BY <1>1, <1>7, <1>8, InsertFacts DEF BInv, RecipesOK
<1>10. NoDanglingEntry'
  <2>1. DOMAIN recipes' = DOMAIN recipes \cup {n} /\ recipes'[n] = file
        /\ \A m \in DOMAIN recipes : m # n => recipes'[m] = recipes[m]
    BY <1>8 DEF insert
  <2> SUFFICES ASSUME NEW m \in DOMAIN recipes', NEW i \in 1 .. Len(recipes'[m].entries)
               PROVE  recipes'[m].entries[i] \in DOMAIN fp2ChunkDB'
    BY DEF NoDanglingEntry, query
  <2>2. CASE m = n
    BY <1>6, <1>7, <2>1, <2>2
  <2>3. CASE m # n
    BY <2>1, <2>3 DEF BInv, NoDanglingEntry, query
  <2> QED BY <2>2, <2>3
<1> QED BY <1>9, <1>10

(* Each step appends to a recipe only chunks that the index has. *)
LEMMA BackupRecipeStep ==
    ASSUME BInv, [BNext]_bvars PROVE RecipesOK' /\ NoDanglingEntry'
<1>0. DOMAIN fp2ChunkDB \subseteq DOMAIN fp2ChunkDB'
  BY BackupStep, IndexGrows
<1>1. CASE recipes' = recipes
  BY <1>0, <1>1 DEF BInv, RecipesOK, NoDanglingEntry, query
<1>2. ASSUME ChunkingOver \/ stage = "head"
      PROVE  /\ stage \in Working /\ job.pos = Len(job.data) /\ Len(job.data) \in Nat
             /\ SubSeq(job.data, 1, Len(job.data)) = job.data
  BY <1>2 DEF ChunkingOver, BInv, JobOK, BackupJob, Working
<1>3. CASE NewRecipe \/ AddDataBack
  <2>1. PICK head \in BOOLEAN : AppendTo(job.path, head, job.data)
    BY <1>3 DEF NewRecipe, AddDataBack, SaveRecipe
  <2>2. ChunkingOver \/ stage = "head"
    BY <1>3 DEF NewRecipe, AddDataBack
  <2>3. /\ stage \in Working /\ job.pos = Len(job.data) /\ Len(job.data) \in Nat
        /\ SubSeq(job.data, 1, Len(job.data)) = job.data
    BY <1>2, <2>2
  <2>4. Len(job.data) \in 0 .. Len(job.data)
    BY <2>3
  <2>5. AppendTo(job.path, head, SubSeq(job.data, 1, Len(job.data)))
    BY <2>1, <2>3, Zenon
  <2> QED BY <1>0, <2>3, <2>4, <2>5, AppendRecipes
<1>4. CASE TornRecipe
  <2>1. PICK head \in BOOLEAN, k \in 0 .. Len(job.data) :
           AppendTo(job.path, head, SubSeq(job.data, 1, k))
    BY <1>4 DEF TornRecipe
  <2>2. ChunkingOver \/ stage = "head"
    BY <1>4 DEF TornRecipe
  <2> QED BY <1>0, <1>2, <2>1, <2>2, AppendRecipes
<1> QED
  BY <1>1, <1>3, <1>4
  DEF BNext, StartBackup, Duplicate, DuplicateUncounted, Unique, UniqueDies, SaveStep, SaveDone, SaveFailed,
      InsertMeta, RecipeUnopened, Close, CloseConfig, Closed, SaveIndex, IndexUnopened,
      TornIndex, Detect, StartRestore, RestoreWithoutFile, RestoreNext,
      RestoreFails, RestoreDone, Interrupted, Killed, backupVars, bvars

(* The inductive invariant of the program holds throughout. *)
LEMMA BackupInvariant == BSpec => []BInv
<1>1. BInit => BInv
  <2> SUFFICES ASSUME BInit PROVE BInv
    OBVIOUS
  <2>1. Shape /\ Durable
    BY InitShape, InitDurable DEF BInit
  <2>2. JobOK /\ RecipesOK /\ NoDanglingEntry
    BY DEF BInit, JobOK, Working, RecipesOK, NoDanglingEntry, IsStore, EmptyStore
  <2> QED BY <2>1, <2>2 DEF BInv
<1>2. BInv /\ [BNext]_bvars => BInv'
  <2> SUFFICES ASSUME BInv, [BNext]_bvars PROVE BInv'
    OBVIOUS
  <2>1. [Next]_vars
    BY BackupStep
  <2>2. Shape' /\ Durable'
    BY <2>1, NextShape, NextDurable DEF BInv
  <2> QED BY <2>2, BackupJobStep, BackupRecipeStep DEF BInv
<1> QED BY <1>1, <1>2, PTL DEF BSpec

-----------------------------------------------------------------------------
(* Where the program is, against the object it uses: none in "idle" and    *)
(* "index", one that works, one that saves a chunk, one being destroyed.   *)
StageOK ==
    /\ stage \in Stage
    /\ phase = "closed" <=> stage \in {"idle", "index"}
    /\ stage \in {"chunk", "head", "close", "detect", "restore"} => phase = "ready"
    /\ stage \in {"closing", "detected", "interrupted"} => phase \in {"closing", "configured"}
    /\ result # NoResult => stage = "idle"

LEMMA StageStep ==
    ASSUME BInv, StageOK, [BNext]_bvars PROVE StageOK'
<1> USE DEF StageOK, Stage
<1>1. CASE UNCHANGED bvars
  BY <1>1 DEF bvars, vars, objectVars, backupVars
<1>2. ASSUME NEW n \in Version, NEW data \in ChunkList, StartBackup(n, data) PROVE StageOK'
  BY <1>2 DEF StartBackup, Open
<1>3. CASE Duplicate \/ DuplicateUncounted
  BY <1>3 DEF Duplicate, DuplicateUncounted, MoreChunks, AddReference, SetCount, objectVars, vars
<1>4. CASE Unique
  <2>1. stage = "chunk" /\ stage' = "saving" /\ result' = result
        /\ phase' \in {"written", "rotated"}
    BY <1>4 DEF Unique, MoreChunks, BeginSave, WriteFits, Rotate, RotateUnopened
  <2> QED BY <2>1
<1>5. CASE UniqueDies
  <2>1. stage = "chunk" /\ stage' = "idle" /\ result' = result /\ phase' = "closed"
    BY <1>5 DEF UniqueDies, MoreChunks, Ended, Overrun, TornRotate, Torn, Gone
  <2> QED BY <2>1
<1>6. CASE SaveStep \/ SaveDone \/ SaveFailed
  BY <1>6 DEF SaveStep, SaveDone, SaveFailed, WriteRotated, IndexChunk, AdvanceUsed, IndexFails,
              backupVars
<1>7. CASE InsertMeta \/ NewRecipe \/ AddDataBack \/ RecipeUnopened
  BY <1>7 DEF InsertMeta, NewRecipe, AddDataBack, SaveRecipe, RecipeUnopened, ChunkingOver, vars,
              objectVars
<1>8. CASE TornRecipe
  <2>1. stage \in {"chunk", "head"} /\ stage' = "idle" /\ result' = result /\ phase' = "closed"
    BY <1>8 DEF TornRecipe, ChunkingOver, Ended, Crash, Gone
  <2> QED BY <2>1
<1>9. CASE Close \/ CloseConfig
  BY <1>9 DEF Close, CloseConfig, BeginClose, ConfigStep, WriteConfig, WriteConfigUnopened,
              backupVars
<1>10. CASE Closed
  <2>1. phase = "configured" /\ phase' = "closed" /\ result' = result /\ stage' \in {"index", "idle"}
    BY <1>10 DEF Closed, SaveLastStep, SaveLast, SaveLastUnopened, Gone, Ended
  <2> QED BY <2>1
<1>11. CASE SaveIndex \/ IndexUnopened
  <2>1. /\ stage = "index" /\ result' = result
        /\ \/ stage' = "idle" /\ phase' = phase
           \/ stage' = "detect" /\ phase' = "ready"
    BY <1>11 DEF SaveIndex, IndexUnopened, AfterIndex, Ended, Open, vars, objectVars
  <2> QED BY <2>1
<1>12. CASE TornIndex
  BY <1>12 DEF TornIndex, Ended, vars, objectVars
<1>13. ASSUME NEW c \in Chunk, Detect(c) PROVE StageOK'
  BY <1>13 DEF Detect, RestoreChunk, backupVars
<1>14. ASSUME NEW v \in Version, StartRestore(v) \/ RestoreWithoutFile(v) PROVE StageOK'
  BY <1>14 DEF StartRestore, RestoreWithoutFile, Open, vars, objectVars
<1>15. CASE RestoreNext
  BY <1>15 DEF RestoreNext, RestoreChunk
<1>16. CASE RestoreFails \/ RestoreDone
  <2>1. stage' = "idle" /\ phase' = "closed"
    BY <1>16 DEF RestoreFails, RestoreDone, Exit, Gone, Ended
  <2> QED BY <2>1
<1>17. CASE Interrupted
  <2>1. phase # "closed" /\ phase' = "closing" /\ stage' = "interrupted" /\ result' = result
    BY <1>17 DEF Interrupted, Interrupt
  <2> QED BY <2>1
<1>18. CASE Killed
  <2>1. stage' = "idle" /\ result' = result /\ phase' = "closed"
    BY <1>18 DEF Killed, Crash, TornClose, TornConfig, EmptiedConfig, Torn, Gone, Ended, vars,
                 objectVars
  <2> QED BY <2>1
<1> QED
  BY <1>1, <1>2, <1>3, <1>4, <1>5, <1>6, <1>7, <1>8, <1>9, <1>10, <1>11, <1>12, <1>13, <1>14,
     <1>15, <1>16, <1>17, <1>18 DEF BNext

-----------------------------------------------------------------------------
(* What is kept of versions: the indexes are numbered without a gap, and   *)
(* what was saved of a version agrees with its index.                      *)
IndexEntry == [path : Version \cup {NoPath}, chunknumber : 0 .. MaxChunks]

DirsOK ==
    /\ IsStore(metaDB, Version, Version)
    /\ IsStore(index, Version, IndexEntry)
    /\ IsStore(truth, Version, ChunkList)
    /\ uncounted \in [Chunk -> Nat]
    /\ sessions \in 0 .. MaxSessions
    /\ \E m \in 0 .. (MaxVersion + 1) : DOMAIN index = 0 .. (m - 1)
    /\ \A v \in DOMAIN truth : /\ v \in DOMAIN index
                               /\ index[v].path \in Version
                               /\ index[v].chunknumber = Len(truth[v])

(* The backup in progress: it has a version number to save, and a recipe   *)
(* only of all its chunks.                                                 *)
BackupOK ==
    stage \in Working => /\ job.data \in ChunkList
                         /\ stage # "detect" => NextVersion \in Version
                         /\ job.saved => job.pos = Len(job.data)

(* A list of at most MaxChunks chunks.                                     *)
LEMMA ChunkListFacts ==
    \A data \in ChunkList : /\ data \in Seq(Chunk) /\ Len(data) \in Nat
                            /\ Len(data) <= MaxChunks
<1> SUFFICES ASSUME NEW data \in ChunkList
             PROVE  data \in Seq(Chunk) /\ Len(data) \in Nat /\ Len(data) <= MaxChunks
  OBVIOUS
<1>1. PICK n \in 1 .. MaxChunks : data \in [1 .. n -> Chunk]
  BY DEF ChunkList
<1>2. n \in Nat /\ n <= MaxChunks
  BY BoundsAssumption
<1>3. data \in Seq(Chunk) /\ Len(data) = n
  BY <1>1, <1>2
<1> QED BY <1>2, <1>3

(* The loop in main finds the first number without an index.               *)
LEMMA NextVersionFacts ==
    ASSUME NEW m \in 0 .. (MaxVersion + 1), DOMAIN index = 0 .. (m - 1)
    PROVE  NextVersion = m /\ NextVersion \notin DOMAIN index
<1> DEFINE Free(v) == v \notin DOMAIN index /\ \A w \in 0 .. (v - 1) : w \in DOMAIN index
<1>1. m \in Nat /\ MaxVersion \in Nat
  BY BoundsAssumption
<1>2. Free(m)
  BY <1>1
<1>3. NextVersion = CHOOSE v \in 0 .. (MaxVersion + 1) : Free(v)
  BY DEF NextVersion
<1>4. NextVersion \in 0 .. (MaxVersion + 1) /\ Free(NextVersion)
  BY <1>2, <1>3
<1>5. \A v \in 0 .. (MaxVersion + 1) : Free(v) => v = m
  BY <1>1
<1>6. NextVersion = m
  BY <1>4, <1>5
<1> QED BY <1>1, <1>6

(* The next version gets its index file.                                   *)
LEMMA NewIndex ==
    ASSUME DirsOK, NextVersion \in Version, NEW e \in IndexEntry,
           index' = insert(index, NextVersion, e)
    PROVE  /\ NextVersion \notin DOMAIN index
           /\ IsStore(index', Version, IndexEntry)
           /\ \E m \in 0 .. (MaxVersion + 1) : DOMAIN index' = 0 .. (m - 1)
           /\ \A v \in DOMAIN index : v \in DOMAIN index' /\ index'[v] = index[v]
           /\ NextVersion \in DOMAIN index' /\ index'[NextVersion] = e
<1>1. PICK m \in 0 .. (MaxVersion + 1) : DOMAIN index = 0 .. (m - 1)
  BY DEF DirsOK
<1>2. NextVersion = m /\ NextVersion \notin DOMAIN index
  BY <1>1, NextVersionFacts
<1>3. DOMAIN index' = DOMAIN index \cup {m}
      /\ index'[NextVersion] = e /\ \A v \in DOMAIN index : v # NextVersion => index'[v] = index[v]
  BY <1>2 DEF insert
<1>4. IsStore(index', Version, IndexEntry)
  BY InsertFacts DEF DirsOK
<1>5. m + 1 \in 0 .. (MaxVersion + 1) /\ DOMAIN index' = 0 .. ((m + 1) - 1)
  <2>1. m \in Nat /\ MaxVersion \in Nat /\ m <= MaxVersion
    BY <1>2, BoundsAssumption DEF Version
  <2>2. 0 .. ((m + 1) - 1) = (0 .. (m - 1)) \cup {m}
    BY <2>1
  <2> QED BY <1>1, <1>3, <2>1, <2>2
<1> QED BY <1>2, <1>3, <1>4, <1>5

(* Only the last steps of a backup touch Index/.                           *)
LEMMA SaveIndexDirs ==
    ASSUME BInv, DirsOK, BackupOK, SaveIndex
    PROVE  DirsOK'
<1> DEFINE e == [path |-> job.path, chunknumber |-> job.pos]
<1>1. /\ stage \in Working /\ NextVersion \in Version /\ UNCHANGED <<metaDB, sessions, uncounted>>
      /\ index' = insert(index, NextVersion, e)
      /\ truth' = IF job.saved THEN insert(truth, NextVersion, job.data) ELSE truth
      /\ job.data \in ChunkList /\ (job.saved => job.pos = Len(job.data))
  BY DEF SaveIndex, BackupOK, Working
<1>2. /\ job \in BackupJob /\ job.pos \in Nat /\ job.pos <= Len(job.data) /\ job.path \in Version
      /\ Len(job.data) \in Nat /\ Len(job.data) <= MaxChunks
  BY <1>1, ChunkListFacts DEF BInv, JobOK, BackupJob
<1>3. e \in IndexEntry /\ e.path = job.path /\ e.chunknumber = job.pos
  BY <1>2, BoundsAssumption DEF IndexEntry
<1> HIDE DEF e
<1>4. /\ NextVersion \notin DOMAIN index
      /\ IsStore(index', Version, IndexEntry)
      /\ \E m \in 0 .. (MaxVersion + 1) : DOMAIN index' = 0 .. (m - 1)
      /\ \A v \in DOMAIN index : v \in DOMAIN index' /\ index'[v] = index[v]
      /\ NextVersion \in DOMAIN index' /\ index'[NextVersion] = e
  BY <1>1, <1>3, NewIndex
<1>5. IsStore(truth', Version, ChunkList)
  BY <1>1, InsertFacts DEF DirsOK
<1>6. ASSUME NEW v \in DOMAIN truth'
      PROVE  v \in DOMAIN index' /\ index'[v].path \in Version
             /\ index'[v].chunknumber = Len(truth'[v])
  <2>1. CASE v \in DOMAIN truth
    <3>1. v \in DOMAIN index /\ v # NextVersion
      BY <1>4, <2>1 DEF DirsOK
    <3>2. truth'[v] = truth[v]
      BY <1>1, <2>1, <3>1 DEF insert
    <3> QED BY <1>4, <2>1, <3>1, <3>2 DEF DirsOK
  <2>2. CASE v \notin DOMAIN truth
    <3>1. v = NextVersion /\ job.saved /\ truth'[v] = job.data
      BY <1>1, <1>6, <2>2 DEF insert
    <3> QED BY <1>1, <1>2, <1>3, <1>4, <3>1
  <2> QED BY <2>1, <2>2
<1> QED BY <1>1, <1>4, <1>5, <1>6 DEF DirsOK

LEMMA TornIndexDirs ==
    ASSUME DirsOK, BackupOK, TornIndex
    PROVE  DirsOK'
<1> DEFINE e == [path |-> NoPath, chunknumber |-> 0]
<1>1. /\ NextVersion \in Version /\ UNCHANGED <<metaDB, sessions, truth, uncounted>>
      /\ index' = insert(index, NextVersion, e)
  BY DEF TornIndex, BackupOK, Working
<1>2. e \in IndexEntry
  BY BoundsAssumption DEF IndexEntry
<1> HIDE DEF e
<1> QED BY <1>1, <1>2, NewIndex DEF DirsOK

LEMMA DirsStep ==
    ASSUME BInv, DirsOK, BackupOK, [BNext]_bvars PROVE DirsOK'
<1>1. CASE UNCHANGED <<metaDB, index, truth, sessions, uncounted>>
  BY <1>1 DEF DirsOK
<1>4. CASE DuplicateUncounted
  <2>1. /\ UNCHANGED <<metaDB, index, truth, sessions>>
        /\ uncounted' = [uncounted EXCEPT ![NextChunk] = @ + 1]
    BY <1>4 DEF DuplicateUncounted
  <2>2. uncounted' \in [Chunk -> Nat]
    <3>1. uncounted \in [Chunk -> Nat]
      BY DEF DirsOK
    <3>2. ASSUME NEW d \in Chunk PROVE uncounted'[d] \in Nat
      BY <2>1, <3>1
    <3>3. uncounted' = [d \in Chunk |-> uncounted'[d]]
      BY <2>1, <3>1
    <3> QED BY <3>2, <3>3
  <2> QED BY <2>1, <2>2 DEF DirsOK
<1>2. CASE InsertMeta
  <2>1. job.path \in Version
    BY <1>2 DEF InsertMeta, ChunkingOver, Working, BInv, JobOK, BackupJob
  <2> QED BY <1>2, <2>1, InsertFacts DEF InsertMeta, DirsOK
<1>3. CASE UNCHANGED <<metaDB, index, truth, uncounted>> /\ sessions < MaxSessions
           /\ sessions' = sessions + 1
  <2>1. sessions + 1 \in 0 .. MaxSessions
    BY <1>3, BoundsAssumption DEF DirsOK
  <2> QED BY <1>3, <2>1 DEF DirsOK
<1> QED
  BY <1>1, <1>2, <1>3, <1>4, SaveIndexDirs, TornIndexDirs
  DEF BNext, StartBackup, Duplicate, DuplicateUncounted, Unique, UniqueDies, SaveStep, SaveDone, SaveFailed,
      NewRecipe, AddDataBack, SaveRecipe, TornRecipe, RecipeUnopened, Close, CloseConfig, Closed,
      IndexUnopened, Detect, StartRestore, RestoreWithoutFile, RestoreNext,
      RestoreFails, RestoreDone, Interrupted, Killed, backupVars, bvars

(* Steps that leave the job and Index/ alone.                              *)
LEMMA BackupFrame ==
    ASSUME BackupOK, UNCHANGED <<job, index>>, stage' \in Working => stage \in Working,
           stage = "detect" => stage' \notin Working \ {"detect"}
    PROVE  BackupOK'
<1>1. NextVersion' = NextVersion
  BY DEF NextVersion
<1> QED BY <1>1 DEF BackupOK

LEMMA BackupOKStep ==
    ASSUME BInv, BackupOK, [BNext]_bvars PROVE BackupOK'
<1>0. index' = index => NextVersion' = NextVersion
  BY DEF NextVersion
<1>1. CASE UNCHANGED bvars
  BY <1>1, BackupFrame DEF bvars, backupVars
<1>2. ASSUME NEW n \in Version, NEW data \in ChunkList, StartBackup(n, data) PROVE BackupOK'
  <2>1. /\ job' = [path |-> n, data |-> data, pos |-> 0, saved |-> FALSE] /\ index' = index
        /\ NextVersion \in Version
    BY <1>2 DEF StartBackup
  <2> QED BY <1>0, <2>1 DEF BackupOK
<1>3. CASE Duplicate \/ DuplicateUncounted \/ SaveDone
  <2>1. /\ stage \in Working /\ stage # "detect" /\ index' = index /\ job' = [job EXCEPT !.pos = @ + 1]
    BY <1>3 DEF Duplicate, DuplicateUncounted, SaveDone, MoreChunks, ChunkDone, Working
  <2>2. job \in BackupJob /\ job.pos < Len(job.data)
    BY <1>3 DEF Duplicate, DuplicateUncounted, SaveDone, MoreChunks, BInv, JobOK, Working
  <2>3. job'.data = job.data /\ job'.saved = job.saved /\ ~job.saved
    BY <2>1, <2>2 DEF BackupJob, BackupOK
  <2> QED BY <1>0, <2>1, <2>3 DEF BackupOK
<1>4. CASE NewRecipe \/ AddDataBack
  <2>1. /\ stage \in Working /\ stage # "detect" /\ index' = index /\ job' = [job EXCEPT !.saved = TRUE]
        /\ job.pos = Len(job.data) /\ job \in BackupJob
    BY <1>4 DEF NewRecipe, AddDataBack, ChunkingOver, SaveRecipe, BInv, JobOK, Working
  <2>2. job'.data = job.data /\ job'.pos = job.pos
    BY <2>1 DEF BackupJob
  <2> QED BY <1>0, <2>1, <2>2 DEF BackupOK
<1>5. CASE SaveIndex
  <2>1. stage = "index" /\ (stage' = "idle" \/ (stage' = "detect" /\ job' = job))
    BY <1>5 DEF SaveIndex, AfterIndex, Ended
  <2> QED BY <2>1 DEF BackupOK, Working
<1>6. CASE stage' \notin Working
  BY <1>6 DEF BackupOK
<1>7. ASSUME UNCHANGED <<job, index>>, stage' \in Working => stage \in Working, stage # "detect" \/ stage' = stage
      PROVE  BackupOK'
  BY <1>7, BackupFrame DEF Working
<1>8. CASE Unique \/ SaveStep \/ SaveFailed \/ InsertMeta \/ RecipeUnopened
  BY <1>7, <1>8 DEF Unique, SaveStep, SaveFailed, InsertMeta, RecipeUnopened, MoreChunks,
                    ChunkingOver, Working, backupVars
<1>9. CASE Close \/ CloseConfig
  BY <1>6, <1>7, <1>9 DEF Close, CloseConfig, Working, backupVars
<1>10. CASE Closed \/ IndexUnopened
  BY <1>6, <1>7, <1>10 DEF Closed, IndexUnopened, AfterIndex, Ended, Working
<1>11. ASSUME NEW c \in Chunk, Detect(c) PROVE BackupOK'
  BY <1>7, <1>11 DEF Detect, backupVars
<1>12. ASSUME NEW v \in Version, StartRestore(v) \/ RestoreWithoutFile(v) PROVE BackupOK'
  BY <1>6, <1>12 DEF StartRestore, RestoreWithoutFile, Working
<1>13. CASE UniqueDies \/ TornRecipe \/ TornIndex \/ RestoreNext \/ RestoreFails \/ RestoreDone
            \/ Interrupted \/ Killed
  BY <1>6, <1>13 DEF UniqueDies, TornRecipe, TornIndex, RestoreNext, RestoreFails, RestoreDone,
                     Interrupted, Killed, Ended, Working
<1> QED
  BY <1>1, <1>2, <1>3, <1>4, <1>5, <1>8, <1>9, <1>10, <1>11, <1>12, <1>13 DEF BNext

-----------------------------------------------------------------------------
(* What a step keeps of the directories: nothing is removed, recipe files  *)
(* grow at their end, indexes and versions stay as they were saved.        *)
RecipeKept(n) ==
    /\ n \in DOMAIN recipes'
    /\ recipes'[n].head = recipes[n].head
    /\ Len(recipes[n].entries) <= Len(recipes'[n].entries)
    /\ \A i \in 1 .. Len(recipes[n].entries) : recipes'[n].entries[i] = recipes[n].entries[i]

LEMMA AppendKeeps ==
    ASSUME RecipesOK, NEW n \in Version, NEW head \in BOOLEAN, NEW entries \in Seq(Chunk),
           AppendTo(n, head, entries)
    PROVE  \A m \in DOMAIN recipes : RecipeKept(m)
<1> SUFFICES ASSUME NEW m \in DOMAIN recipes PROVE RecipeKept(m)
  OBVIOUS
<1> DEFINE file == [head |-> IF n \in DOMAIN recipes THEN recipes[n].head ELSE head,
                    entries |-> Entries(n) \o entries]
<1>1. /\ m \in DOMAIN recipes' /\ (m # n => recipes'[m] = recipes[m])
      /\ (m = n => recipes'[m] = file)
  BY DEF AppendTo, insert
<1>2. recipes[m].entries \in Seq(Chunk) /\ Len(recipes[m].entries) \in Nat
  BY DEF RecipesOK, IsStore
<1>3. CASE m # n
  BY <1>1, <1>2, <1>3 DEF RecipeKept
<1>4. CASE m = n
  <2> DEFINE s == recipes[m].entries
  <2>1. file.head = recipes[m].head /\ file.entries = s \o entries
    BY <1>4 DEF Entries
  <2>2. Len(s) <= Len(s \o entries) /\ \A i \in 1 .. Len(s) : (s \o entries)[i] = s[i]
    BY <1>2
  <2> QED BY <1>1, <1>4, <2>1, <2>2 DEF RecipeKept
<1> QED BY <1>3, <1>4

LEMMA RecipesKept ==
    ASSUME BInv, [BNext]_bvars PROVE \A n \in DOMAIN recipes : RecipeKept(n)
<1>1. CASE recipes' = recipes
  <2>1. \A n \in DOMAIN recipes : Len(recipes[n].entries) \in Nat
    BY DEF BInv, RecipesOK, IsStore
  <2> QED BY <1>1, <2>1 DEF RecipeKept
<1>2. ASSUME ChunkingOver \/ stage = "head"
      PROVE  job.path \in Version /\ job.data \in Seq(Chunk)
             /\ \A k \in 0 .. Len(job.data) : SubSeq(job.data, 1, k) \in Seq(Chunk)
  <2>1. job.path \in Version /\ job.data \in Seq(Chunk)
    BY <1>2 DEF ChunkingOver, BInv, JobOK, BackupJob, Working
  <2> QED BY <2>1
<1>3. CASE NewRecipe \/ AddDataBack
  <2>1. PICK head \in BOOLEAN : AppendTo(job.path, head, job.data)
    BY <1>3 DEF NewRecipe, AddDataBack, SaveRecipe
  <2>2. job.path \in Version /\ job.data \in Seq(Chunk)
    BY <1>2, <1>3 DEF NewRecipe, AddDataBack
  <2> QED BY <2>1, <2>2, AppendKeeps DEF BInv
<1>4. CASE TornRecipe
  <2>1. PICK head \in BOOLEAN, k \in 0 .. Len(job.data) :
           AppendTo(job.path, head, SubSeq(job.data, 1, k))
    BY <1>4 DEF TornRecipe
  <2>2. job.path \in Version /\ SubSeq(job.data, 1, k) \in Seq(Chunk)
    BY <1>2, <1>4 DEF TornRecipe
  <2> QED BY <2>1, <2>2, AppendKeeps DEF BInv
<1> QED
  BY <1>1, <1>3, <1>4
  DEF BNext, StartBackup, Duplicate, DuplicateUncounted, Unique, UniqueDies, SaveStep, SaveDone, SaveFailed,
      InsertMeta, RecipeUnopened, Close, CloseConfig, Closed, SaveIndex, IndexUnopened,
      TornIndex, Detect, StartRestore, RestoreWithoutFile, RestoreNext,
      RestoreFails, RestoreDone, Interrupted, Killed, backupVars, bvars

LEMMA VersionsKept ==
    ASSUME BInv, DirsOK, BackupOK, [BNext]_bvars
    PROVE  /\ DOMAIN metaDB \subseteq DOMAIN metaDB'
           /\ \A v \in DOMAIN index : v \in DOMAIN index' /\ index'[v] = index[v]
           /\ \A v \in DOMAIN truth : v \in DOMAIN truth' /\ truth'[v] = truth[v]
<1>1. CASE UNCHANGED <<metaDB, index, truth>>
  BY <1>1
<1>2. CASE InsertMeta
  BY <1>2 DEF InsertMeta, insert
<1>3. CASE SaveIndex \/ TornIndex
  <2>1. NextVersion \in Version /\ UNCHANGED metaDB
    BY <1>3 DEF SaveIndex, TornIndex, BackupOK, Working
  <2>2. NextVersion \notin DOMAIN index
    BY NextVersionFacts DEF DirsOK
  <2>3. \A v \in DOMAIN index : v \in DOMAIN index' /\ index'[v] = index[v]
    BY <1>3, <2>2 DEF SaveIndex, TornIndex, insert
  <2>4. \A v \in DOMAIN truth : v # NextVersion
    BY <2>2 DEF DirsOK
  <2>5. \A v \in DOMAIN truth : v \in DOMAIN truth' /\ truth'[v] = truth[v]
    BY <1>3, <2>4 DEF SaveIndex, TornIndex, insert
  <2> QED BY <2>1, <2>3, <2>5
<1> QED
  BY <1>1, <1>2, <1>3
  DEF BNext, StartBackup, Duplicate, DuplicateUncounted, Unique, UniqueDies, SaveStep, SaveDone, SaveFailed,
      NewRecipe, AddDataBack, SaveRecipe, TornRecipe, RecipeUnopened, Close, CloseConfig, Closed,
      IndexUnopened, Detect, StartRestore, RestoreWithoutFile, RestoreNext,
      RestoreFails, RestoreDone, Interrupted, Killed, backupVars, bvars

(* So a complete version stays complete as long as its chunks are.         *)
LEMMA CompleteStep ==
    ASSUME BInv, DirsOK, BackupOK, [BNext]_bvars, NEW v, Complete(v),
           \A i \in 1 .. Len(truth[v]) : truth[v][i] \in committed'
    PROVE  Complete(v)'
<1> DEFINE p == index[v].path
<1>1. /\ v \in DOMAIN truth /\ p \in DOMAIN metaDB /\ p \in DOMAIN recipes /\ recipes[p].head
      /\ Len(truth[v]) <= Len(recipes[p].entries)
      /\ \A i \in 1 .. Len(truth[v]) : truth[v][i] = recipes[p].entries[i]
  BY DEF Complete, query, HasHead, Entries
<1>2. v \in DOMAIN index
  BY <1>1 DEF DirsOK
<1>3. /\ v \in DOMAIN truth' /\ truth'[v] = truth[v] /\ index'[v].path = p
      /\ p \in DOMAIN metaDB'
  BY <1>1, <1>2, VersionsKept
<1>4. RecipeKept(p)
  BY <1>1, RecipesKept
<1>5. Len(truth[v]) \in Nat /\ Len(recipes[p].entries) \in Nat
  BY <1>1, ChunkListFacts DEF DirsOK, BInv, RecipesOK, IsStore
<1>6. Len(recipes[p].entries) <= Len(recipes'[p].entries) /\ Len(recipes'[p].entries) \in Nat
  <2>1. RecipesOK'
    BY BackupRecipeStep
  <2> QED BY <1>4, <2>1 DEF RecipeKept, RecipesOK, IsStore
<1>7. Len(truth[v]) <= Len(recipes'[p].entries)
  BY <1>1, <1>5, <1>6
<1>8. \A i \in 1 .. Len(truth[v]) : truth[v][i] = recipes'[p].entries[i]
  <2> SUFFICES ASSUME NEW i \in 1 .. Len(truth[v]) PROVE truth[v][i] = recipes'[p].entries[i]
    OBVIOUS
  <2>1. i \in 1 .. Len(recipes[p].entries)
    BY <1>1, <1>5
  <2> QED BY <1>1, <1>4, <2>1 DEF RecipeKept
<1> HIDE DEF p
<1> QED BY <1>1, <1>3, <1>4, <1>7, <1>8 DEF Complete, query, HasHead, Entries, RecipeKept

-----------------------------------------------------------------------------
(* The restore in progress: it has the recipe and the number of chunks of  *)
(* the version's index, and what it has read of a complete version are the *)
(* chunks of that version.                                                 *)
RestoreJob == [version : Version, path : Version \cup {NoPath}, number : 0 .. MaxChunks,
               out : Seq(Seq(Cell))]

ReadSoFar(v, out) ==
    Len(out) <= Len(truth[v]) /\ \A i \in 1 .. Len(out) : out[i] = Stored(truth[v][i])

RestoreOK ==
    stage = "restore" =>
        /\ job \in RestoreJob
        /\ job.version \in DOMAIN index
        /\ job.path = index[job.version].path
        /\ job.path # NoPath => job.number = index[job.version].chunknumber
        /\ Len(job.out) <= job.number
        /\ Complete(job.version) => ReadSoFar(job.version, job.out)

(* Of a complete version the index has the recipe's name and the number of *)
(* its chunks.                                                             *)
LEMMA CompleteFacts ==
    ASSUME BInv, DirsOK, NEW v, Complete(v)
    PROVE  /\ v \in DOMAIN truth /\ truth[v] \in Seq(Chunk) /\ Len(truth[v]) \in Nat
           /\ index[v].path \in Version /\ index[v].path # NoPath
           /\ index[v].chunknumber = Len(truth[v])
           /\ query(metaDB, index[v].path) /\ HasHead(index[v].path)
           /\ \A i \in 1 .. Len(truth[v]) :
                 /\ i <= Len(Entries(index[v].path))
                 /\ Entries(index[v].path)[i] = truth[v][i] /\ truth[v][i] \in committed
<1>1. v \in DOMAIN truth
  BY DEF Complete
<1>2. truth[v] \in Seq(Chunk) /\ Len(truth[v]) \in Nat
  BY <1>1, ChunkListFacts DEF DirsOK, IsStore
<1>3. index[v].path \in Version /\ index[v].chunknumber = Len(truth[v])
  BY <1>1 DEF DirsOK
<1>4. index[v].path # NoPath
  BY <1>3, NoPathAssumption, BoundsAssumption DEF Version
<1>5. Len(Entries(index[v].path)) \in Nat
  BY DEF Complete, HasHead, Entries, BInv, RecipesOK, IsStore
<1> QED BY <1>1, <1>2, <1>3, <1>4, <1>5 DEF Complete

(* A chunk of a closed session can be restored, and is what was stored.    *)
LEMMA CommittedReadable ==
    ASSUME BInv, phase = "ready", NEW c \in committed
    PROVE  ChunkReadable(c) /\ readContainer(fp2ChunkDB[c]) = Stored(c)
<1>1. c \in Chunk /\ IsOpen
  BY DEF BInv, Shape, TypeOK, IsOpen
<1>2. ReadsBack(c)
  BY <1>1, CommittedFacts, ReadsBackFrom DEF BInv, CommittedAt, InMemory
<1>3. fp2ChunkDB[c].length = Len(Stored(c))
  BY CommittedFacts DEF BInv
<1>4. Len(Stored(c)) = Len(Content[c])
  BY <1>1, StoredFacts
<1> QED BY <1>2, <1>3, <1>4 DEF ReadsBack, ChunkReadable

(* What readContainer copies for an entry of the index are cells.          *)
LEMMA ReadContainerType ==
    ASSUME Shape, NEW c \in DOMAIN fp2ChunkDB, CanRead(fp2ChunkDB[c].containerName)
    PROVE  readContainer(fp2ChunkDB[c]) \in Seq(Cell)
<1> DEFINE key == fp2ChunkDB[c]
           name == key.containerName
           buf == Source(name)
<1>1. key.offset \in Nat /\ key.length \in Nat /\ key.offset + key.length <= MaxContainerSize
  BY SizeAssumption DEF Shape, TypeOK, IsStore, Key, BoundsOK
<1>2. buf \in Buffer
  <2>1. body \in Buffer /\ readBody \in Buffer
    BY DEF Shape, TypeOK
  <2>2. name \in DOMAIN files => files[name] \in Seq(Cell) /\ Len(files[name]) \in Nat
    BY DEF Shape, TypeOK, IsStore
  <2>3. name \in DOMAIN files => ReadFile(readBody, files[name], Len(files[name])) \in Buffer
    BY <2>1, <2>2, ReadFileFacts
  <2> QED BY <2>1, <2>3 DEF Source, CanRead
<1> HIDE DEF buf
<1>3. \A i \in 1 .. key.length : key.offset + i \in Addr
  BY <1>1, SizeAssumption DEF Addr
<1>4. Bytes(buf, key.offset, key.length) \in [1 .. key.length -> Cell]
  BY <1>2, <1>3 DEF Bytes, Buffer
<1>5. Bytes(buf, key.offset, key.length) \in Seq(Cell)
  BY <1>1, <1>4
<1> QED BY <1>5 DEF readContainer, buf

LEMMA StartRestoreOK ==
    ASSUME BInv, DirsOK, NEW v \in Version, StartRestore(v)
    PROVE  RestoreOK'
<1>1. /\ v \in DOMAIN index /\ UNCHANGED index
      /\ \E k \in LoadedNumber(v) :
            job' = [version |-> v, path |-> index[v].path, number |-> k, out |-> <<>>]
  BY DEF StartRestore
<1>2. index[v].path \in Version \cup {NoPath} /\ index[v].chunknumber \in 0 .. MaxChunks
  BY <1>1 DEF DirsOK, IsStore, IndexEntry
<1>3. PICK k \in LoadedNumber(v) :
         job' = [version |-> v, path |-> index[v].path, number |-> k, out |-> <<>>]
  BY <1>1
<1>4. k \in 0 .. MaxChunks /\ (index[v].path # NoPath => k = index[v].chunknumber)
  BY <1>2 DEF LoadedNumber
<1>5. job' \in RestoreJob
  BY <1>2, <1>3, <1>4 DEF RestoreJob
<1>6. job'.out = <<>> /\ Len(job'.out) = 0 /\ k \in Nat
  BY <1>3, <1>4
<1>7. Complete(v)' => Len(truth'[v]) \in Nat
  BY ChunkListFacts DEF Complete, StartRestore, DirsOK, IsStore
<1>8. Complete(v)' => ReadSoFar(job.version, job.out)'
  BY <1>3, <1>6, <1>7 DEF ReadSoFar
<1> QED BY <1>1, <1>3, <1>4, <1>5, <1>6, <1>8 DEF RestoreOK

(* The chunk that is read next of a complete version.                      *)
LEMMA NextOfComplete ==
    ASSUME BInv, DirsOK, StageOK, RestoreOK, stage = "restore", Complete(job.version),
           Len(job.out) < job.number
    PROVE  /\ EntryReadable /\ ChunkReadable(EntryChunk)
           /\ RestorePos <= Len(truth[job.version])
           /\ EntryChunk = truth[job.version][RestorePos]
           /\ readContainer(fp2ChunkDB[EntryChunk]) = Stored(EntryChunk)
<1> DEFINE v == job.version
<1>1. /\ job \in RestoreJob /\ job.path = index[v].path
      /\ job.path # NoPath => job.number = index[v].chunknumber
  BY DEF RestoreOK
<1>2. /\ Len(truth[v]) \in Nat /\ index[v].path # NoPath /\ index[v].chunknumber = Len(truth[v])
      /\ query(metaDB, index[v].path) /\ HasHead(index[v].path)
      /\ \A i \in 1 .. Len(truth[v]) :
            /\ i <= Len(Entries(index[v].path))
            /\ Entries(index[v].path)[i] = truth[v][i] /\ truth[v][i] \in committed
  BY CompleteFacts
<1>3. Len(job.out) \in Nat /\ job.number = Len(truth[v]) /\ RestorePos \in 1 .. Len(truth[v])
  BY <1>1, <1>2 DEF RestoreJob, RestorePos
<1>4. EntryReadable /\ EntryChunk = truth[v][RestorePos] /\ EntryChunk \in committed
  BY <1>1, <1>2, <1>3 DEF EntryReadable, EntryChunk
<1>5. phase = "ready"
  BY DEF StageOK
<1> QED BY <1>3, <1>4, <1>5, CommittedReadable

LEMMA RestoreNextOK ==
    ASSUME BInv, DirsOK, BackupOK, StageOK, RestoreOK, RestoreNext
    PROVE  RestoreOK'
<1> DEFINE data == readContainer(fp2ChunkDB[EntryChunk])
<1>0. PICK v : v = job.version
  OBVIOUS
<1>1. /\ stage = "restore" /\ Len(job.out) < job.number /\ ChunkReadable(EntryChunk)
      /\ job' = [job EXCEPT !.out = Append(@, data)]
      /\ UNCHANGED <<metaDB, recipes, index, truth, committed, stage>>
  BY DEF RestoreNext, RestoreChunk, historyVars
<1>2. /\ job \in RestoreJob /\ v \in DOMAIN index
      /\ job.path = index[v].path /\ (job.path # NoPath => job.number = index[v].chunknumber)
  BY <1>0, <1>1 DEF RestoreOK
<1>3. data \in Seq(Cell)
  BY <1>1, ReadContainerType DEF ChunkReadable, query, BInv
<1> HIDE DEF data
<1>4. /\ job' \in RestoreJob /\ job'.version = v /\ job'.path = job.path
      /\ job'.number = job.number /\ job'.out = Append(job.out, data)
  <2>1. job.out \in Seq(Seq(Cell)) /\ Append(job.out, data) \in Seq(Seq(Cell))
    BY <1>2, <1>3 DEF RestoreJob
  <2> QED BY <1>0, <1>1, <1>2, <2>1 DEF RestoreJob
<1>5. /\ Len(job.out) \in Nat /\ Len(job'.out) = Len(job.out) + 1 /\ job.number \in Nat
      /\ job'.out[Len(job.out) + 1] = data
      /\ \A i \in 1 .. Len(job.out) : job'.out[i] = job.out[i]
  <2>1. job.out \in Seq(Seq(Cell)) /\ job.number \in Nat
    BY <1>2 DEF RestoreJob
  <2> QED BY <1>3, <1>4, <2>1
<1>6. Complete(v)' = Complete(v)
  BY <1>1 DEF Complete, query, HasHead, Entries
<1>7. ASSUME Complete(v) PROVE ReadSoFar(v, job'.out)
  <2>1. /\ RestorePos <= Len(truth[v]) /\ EntryChunk = truth[v][RestorePos]
        /\ data = Stored(EntryChunk)
    BY <1>0, <1>1, <1>7, NextOfComplete DEF data
  <2>2. ReadSoFar(v, job.out)
    BY <1>0, <1>1, <1>7 DEF RestoreOK
  <2>3. RestorePos = Len(job.out) + 1
    BY DEF RestorePos
  <2>4. \A i \in 1 .. Len(job'.out) : i \in 1 .. Len(job.out) \/ i = Len(job.out) + 1
    BY <1>5
  <2> QED BY <1>5, <2>1, <2>2, <2>3, <2>4 DEF ReadSoFar
<1>8. Complete(job.version)' => ReadSoFar(job.version, job.out)'
  <2>1. Complete(job.version)' = Complete(v)'
    BY <1>4 DEF Complete, query, HasHead, Entries
  <2>2. ReadSoFar(job.version, job.out)' = ReadSoFar(v, job'.out)
    BY <1>1, <1>4 DEF ReadSoFar
  <2> QED BY <1>6, <1>7, <2>1, <2>2
<1> QED BY <1>1, <1>2, <1>4, <1>5, <1>8 DEF RestoreOK

LEMMA RestoreStep ==
    ASSUME BInv, DirsOK, BackupOK, StageOK, RestoreOK, [BNext]_bvars PROVE RestoreOK'
<1>1. CASE UNCHANGED bvars
  BY <1>1 DEF bvars, vars, backupVars, historyVars, RestoreOK, Complete, query, HasHead, Entries,
              ReadSoFar
<1>2. CASE stage' # "restore"
  BY <1>2 DEF RestoreOK
<1>3. ASSUME NEW v \in Version, RestoreWithoutFile(v) PROVE stage' # "restore"
  BY <1>3 DEF RestoreWithoutFile
<1>4. ASSUME NEW n \in Version, NEW data \in ChunkList, StartBackup(n, data)
      PROVE  stage' # "restore"
  BY <1>4 DEF StartBackup
<1>5. CASE CloseConfig \/ Closed
  <2>1. phase \in {"closing", "configured"}
    BY <1>5 DEF CloseConfig, ConfigStep, WriteConfig, WriteConfigUnopened, Closed,
                SaveLastStep, SaveLast, SaveLastUnopened
  <2> QED BY <1>2, <1>5, <2>1 DEF CloseConfig, Closed, Ended, StageOK, backupVars
<1>6. ASSUME NEW c \in Chunk, Detect(c) PROVE stage' # "restore"
  BY <1>6 DEF Detect, backupVars
<1>7. CASE \/ Duplicate \/ DuplicateUncounted
           \/ Unique \/ UniqueDies \/ SaveStep \/ SaveDone \/ SaveFailed
  BY <1>2, <1>7 DEF Duplicate, DuplicateUncounted, Unique, UniqueDies, SaveStep, SaveDone, SaveFailed, MoreChunks,
                    Ended, backupVars
<1>8. CASE InsertMeta \/ NewRecipe \/ AddDataBack \/ RecipeUnopened \/ TornRecipe
  BY <1>2, <1>8 DEF InsertMeta, NewRecipe, AddDataBack, SaveRecipe, RecipeUnopened, TornRecipe,
                    Ended
<1>9. CASE Close \/ SaveIndex \/ IndexUnopened \/ TornIndex
  BY <1>2, <1>9 DEF Close, SaveIndex, IndexUnopened, TornIndex, AfterIndex, Ended
<1>10. CASE RestoreFails \/ RestoreDone \/ Interrupted \/ Killed
  BY <1>2, <1>10 DEF RestoreFails, RestoreDone, Interrupted, Killed, Ended
<1> QED
  BY <1>1, <1>2, <1>3, <1>4, <1>5, <1>6, <1>7, <1>8, <1>9, <1>10, StartRestoreOK, RestoreNextOK
  DEF BNext

(* The end of a restore.                                                   *)
LEMMA RestoreEnds ==
    ASSUME BInv, DirsOK, BackupOK, StageOK, RestoreOK, RestoreFails \/ RestoreDone
    PROVE  CompleteRestores'
<1>0. PICK v : v = job.version
  OBVIOUS
<1>1. /\ stage = "restore" /\ UNCHANGED <<metaDB, recipes, index, truth, committed>>
      /\ result'.version = v
  BY <1>0 DEF RestoreFails, RestoreDone, Exit
<1>2. Complete(v)' = Complete(v) /\ truth' = truth
  BY <1>1 DEF Complete, query, HasHead, Entries
<1> SUFFICES ASSUME Complete(v) PROVE ResultIs(v)'
  BY <1>1, <1>2 DEF CompleteRestores, Complete, ResultIs, query, HasHead, Entries
<1>3. job \in RestoreJob /\ job.path = index[v].path /\ Len(job.out) <= job.number
      /\ (job.path # NoPath => job.number = index[v].chunknumber) /\ ReadSoFar(v, job.out)
  BY <1>0, <1>1 DEF RestoreOK
<1>4. Len(job.out) \in Nat /\ job.number \in Nat /\ job.out \in Seq(Seq(Cell))
  BY <1>3 DEF RestoreJob
<1>5. RestoreDone
  <2>1. ASSUME RestoreFails PROVE FALSE
    BY <1>0, <1>1, <2>1, NextOfComplete DEF RestoreFails
  <2> QED BY <2>1
<1>6. /\ Len(job.out) = job.number /\ result'.out = job.out
      /\ result'.ok = (query(metaDB, job.path) /\ job.path \in DOMAIN recipes)
  BY <1>5 DEF RestoreDone
<1>7. /\ query(metaDB, index[v].path) /\ HasHead(index[v].path) /\ index[v].path # NoPath
      /\ index[v].chunknumber = Len(truth[v]) /\ Len(truth[v]) \in Nat
  BY CompleteFacts
<1>8. result'.ok
  BY <1>3, <1>6, <1>7 DEF HasHead
<1>9. job.out = [i \in 1 .. Len(truth[v]) |-> Stored(truth[v][i])]
  <2>1. Len(job.out) = Len(truth[v])
    BY <1>3, <1>6, <1>7
  <2>2. \A i \in 1 .. Len(truth[v]) : job.out[i] = Stored(truth[v][i])
    BY <1>3, <2>1 DEF ReadSoFar
  <2>3. job.out = [i \in 1 .. Len(job.out) |-> job.out[i]]
    BY <1>4
  <2> QED BY <2>1, <2>2, <2>3
<1> QED BY <1>2, <1>6, <1>8, <1>9 DEF ResultIs

LEMMA CompleteRestoresStep ==
    ASSUME BInv, DirsOK, BackupOK, StageOK, RestoreOK, CompleteRestores, [BNext]_bvars
    PROVE  CompleteRestores'
<1>1. CASE UNCHANGED bvars
  BY <1>1 DEF bvars, vars, backupVars, historyVars, CompleteRestores, Complete, ResultIs, query,
              HasHead, Entries
<1>2. CASE result' = NoResult
  BY <1>2 DEF CompleteRestores
<1>3. ASSUME NEW n \in Version, NEW data \in ChunkList, StartBackup(n, data)
      PROVE  result' = NoResult
  BY <1>3 DEF StartBackup
<1>4. ASSUME NEW v \in Version, StartRestore(v) PROVE result' = NoResult
  BY <1>4 DEF StartRestore
<1>5. ASSUME NEW v \in Version, RestoreWithoutFile(v) PROVE CompleteRestores'
  BY <1>5 DEF RestoreWithoutFile, CompleteRestores
<1>6. CASE result = NoResult /\ result' = result
  BY <1>2, <1>6
<1>7. CASE stage # "idle" /\ result' = result
  BY <1>6, <1>7 DEF StageOK
<1>8. CASE \/ Duplicate \/ DuplicateUncounted
           \/ Unique \/ UniqueDies \/ SaveStep \/ SaveDone \/ SaveFailed
  BY <1>7, <1>8 DEF Duplicate, DuplicateUncounted, Unique, UniqueDies, SaveStep, SaveDone, SaveFailed, MoreChunks,
                    backupVars
<1>9. CASE InsertMeta \/ NewRecipe \/ AddDataBack \/ RecipeUnopened \/ TornRecipe
  BY <1>7, <1>9 DEF InsertMeta, NewRecipe, AddDataBack, SaveRecipe, RecipeUnopened, TornRecipe,
                    ChunkingOver
<1>10. CASE Close \/ SaveIndex \/ IndexUnopened \/ TornIndex \/ RestoreNext
  BY <1>7, <1>10 DEF Close, SaveIndex, IndexUnopened, TornIndex, RestoreNext
<1>11. ASSUME NEW c \in Chunk, Detect(c) PROVE CompleteRestores'
  BY <1>7, <1>11 DEF Detect, backupVars
<1>12. CASE CloseConfig \/ Closed \/ Interrupted \/ Killed
  <2>1. phase # "closed" \/ stage = "index"
    BY <1>12 DEF CloseConfig, ConfigStep, WriteConfig, WriteConfigUnopened, Closed,
                 SaveLastStep, SaveLast, SaveLastUnopened, Interrupted, Interrupt, Killed,
                 Crash, TornClose, TornConfig, EmptiedConfig
  <2>2. stage # "idle" /\ result' = result
    BY <1>12, <2>1 DEF StageOK, CloseConfig, Closed, Interrupted, Killed, backupVars
  <2> QED BY <1>7, <2>2
<1> QED
  BY <1>1, <1>2, <1>3, <1>4, <1>5, <1>8, <1>9, <1>10, <1>11, <1>12, RestoreEnds DEF BNext

(* The inductive invariant of backups and restores.                        *)
ProgramInv == BInv /\ StageOK /\ DirsOK /\ BackupOK /\ RestoreOK /\ CompleteRestores

LEMMA ProgramInitInv == BInit => ProgramInv
<1> SUFFICES ASSUME BInit PROVE ProgramInv
  OBVIOUS
<1>1. BInv
  <2>1. Shape /\ Durable
    BY InitShape, InitDurable DEF BInit
  <2>2. JobOK /\ RecipesOK /\ NoDanglingEntry
    BY DEF BInit, JobOK, Working, RecipesOK, NoDanglingEntry, IsStore, EmptyStore
  <2> QED BY <2>1, <2>2 DEF BInv
<1>2. StageOK
  BY DEF BInit, Init, StageOK, Stage
<1>3. DirsOK
  <2>1. DOMAIN index = 0 .. (0 - 1) /\ 0 \in 0 .. (MaxVersion + 1)
    BY BoundsAssumption DEF BInit, EmptyStore
  <2>2. sessions \in 0 .. MaxSessions
    BY BoundsAssumption DEF BInit
  <2>3. /\ IsStore(metaDB, Version, Version) /\ IsStore(index, Version, IndexEntry)
        /\ IsStore(truth, Version, ChunkList) /\ DOMAIN truth = {}
        /\ uncounted \in [Chunk -> Nat]
    BY DEF BInit, EmptyStore, IsStore
  <2> QED BY <2>1, <2>2, <2>3 DEF DirsOK
<1>4. BackupOK /\ RestoreOK /\ CompleteRestores
  BY DEF BInit, BackupOK, Working, RestoreOK, CompleteRestores
<1> QED BY <1>1, <1>2, <1>3, <1>4 DEF ProgramInv

LEMMA ProgramStepInv == ProgramInv /\ [BNext]_bvars => ProgramInv'
<1> SUFFICES ASSUME ProgramInv, [BNext]_bvars PROVE ProgramInv'
  OBVIOUS
<1> USE DEF ProgramInv
<1>1. BInv'
  BY BackupStep, NextShape, NextDurable, BackupJobStep, BackupRecipeStep DEF BInv
<1>2. StageOK' /\ DirsOK' /\ BackupOK'
  BY StageStep, DirsStep, BackupOKStep
<1>3. RestoreOK' /\ CompleteRestores'
  BY RestoreStep, CompleteRestoresStep
<1> QED BY <1>1, <1>2, <1>3

LEMMA ProgramInvariant == BSpec => []ProgramInv
  BY ProgramInitInv, ProgramStepInv, PTL DEF BSpec


-----------------------------------------------------------------------------
(* The program implements the store's specification: its backups, restores *)
(* and deaths are sequences of the store's own operations.                 *)
THEOREM BackupUsesStorageCore == BSpec => UsesStorageCore
<1>1. BInit => Init
  BY DEF BInit
<1>2. BInv /\ [BNext]_bvars => [Next]_vars
  BY BackupStep
<1> QED BY <1>1, <1>2, BackupInvariant, PTL DEF BSpec, UsesStorageCore

(* Every recipe entry names a chunk that the index knows, in every state   *)
(* of every backup and after every crash or signal: the recipe is written  *)
(* only when all its chunks have been saved or counted.                    *)
THEOREM NoEntryDangles == BSpec => []NoDanglingEntry
<1>1. BInv => NoDanglingEntry
  BY DEF BInv
<1> QED BY <1>1, BackupInvariant, PTL

(* The chunks of closed sessions read back inside the program, too.        *)
THEOREM BackupCommittedIntact == BSpec => []CommittedIntact
BY BackupUsesStorageCore, CommittedChunksIntact, PTL DEF UsesStorageCore, Spec

(* The stores, the directories and the job of the program hold what their  *)
(* types say.                                                              *)
THEOREM BackupTypes == BSpec => []BTypeOK
<1>1. ProgramInv => BTypeOK
  <2> SUFFICES ASSUME ProgramInv PROVE BTypeOK
    OBVIOUS
  <2>1. /\ IsStore(metaDB, Version, Version)
        /\ IsStore(recipes, Version, [head : BOOLEAN, entries : Seq(Chunk)])
        /\ IsStore(index, Version, [path : Version \cup {NoPath}, chunknumber : 0 .. MaxChunks])
        /\ IsStore(truth, Version, ChunkList) /\ uncounted \in [Chunk -> Nat]
        /\ sessions \in 0 .. MaxSessions /\ stage \in Stage
    BY DEF ProgramInv, DirsOK, IndexEntry, BInv, RecipesOK, StageOK
  <2>2. ASSUME stage \in Working
        PROVE  job \in [path : Version, data : ChunkList, pos : 0 .. MaxChunks, saved : BOOLEAN]
    <3>1. job \in BackupJob /\ job.pos <= Len(job.data) /\ job.data \in ChunkList
      BY <2>2 DEF ProgramInv, BInv, JobOK, BackupOK
    <3>2. job.pos \in 0 .. MaxChunks
      BY <3>1, ChunkListFacts, BoundsAssumption DEF BackupJob
    <3> QED BY <3>1, <3>2 DEF BackupJob
  <2>3. stage = "restore" => job \in RestoreJob
    BY DEF ProgramInv, RestoreOK
  <2> QED BY <2>1, <2>2, <2>3 DEF BTypeOK, Working, RestoreJob
<1> QED BY <1>1, ProgramInvariant, PTL

(* Whatever modelled faults there were in the backups and in between       *)
(* (crashes, signals, torn writes, containers, recipes, index files and    *)
(* .StorageConfig that cannot be opened), the restore of a complete        *)
(* version succeeds and returns its bytes: varSizeChunking, saveChunk,     *)
(* ~StorageCore, checkRecipeStatus, saveToFile, loadIndex and              *)
(* restoreRecipeAndChunk agree on what a version is.                       *)
THEOREM CompleteVersionsRestore == BSpec => []CompleteRestores
<1>1. ProgramInv => CompleteRestores
  BY DEF ProgramInv
<1> QED BY <1>1, ProgramInvariant, PTL

(* No step of the program, and no fault, makes a complete version          *)
(* incomplete, except by tearing the write of a container its chunks were  *)
(* in, or of .StorageConfig.                                               *)
THEOREM CompleteVersionsSurvive == BSpec => CompleteSurvives
<1> DEFINE Step == \A v \in DOMAIN index : Complete(v) => Complete(v)' \/ LostToTornWrite(v)
<1>1. ProgramInv /\ [BNext]_bvars => [Step]_bvars
  <2> SUFFICES ASSUME ProgramInv, [BNext]_bvars, NEW v \in DOMAIN index, Complete(v),
                      ~LostToTornWrite(v)
               PROVE  Complete(v)'
    OBVIOUS
  <2> QED BY CompleteStep DEF ProgramInv, LostToTornWrite
<1> QED BY <1>1, ProgramInvariant, PTL DEF BSpec, CompleteSurvives

-----------------------------------------------------------------------------
(* Without faults.                                                         *)
(*                                                                         *)
(* A backup that is given the next version's number writes a recipe that   *)
(* no other version has, and has its version when it ends: recipes and     *)
(* recipe names are those of the versions, and of the backup in progress.  *)
OwnStages == {"close", "closing", "index"}
WithOwn(S, stages) == IF stage \in stages THEN S \cup {job.path} ELSE S

OwnRecipe ==
    /\ stage \in Working \ {"detect"} => job.path = NextVersion
    /\ DOMAIN metaDB \subseteq WithOwn(DOMAIN index, OwnStages \cup {"head"})
    /\ DOMAIN recipes \subseteq WithOwn(DOMAIN index, OwnStages)
    /\ stage = "head" => query(metaDB, job.path)
    /\ stage \in OwnStages /\ job.saved =>
          query(metaDB, job.path) /\ HasHead(job.path) /\ Entries(job.path) = job.data

(* Every version that was saved with a recipe is complete, and a restore   *)
(* finds the file.                                                         *)
AllComplete == \A v \in DOMAIN truth : Complete(v)
FileThere == result # NoResult => result.file

SoundInv == Accounted /\ OwnRecipe /\ AllComplete /\ FileThere

-----------------------------------------------------------------------------
(* Then no process dies, and every file can be opened.                     *)
Quiet ==
    \/ \E n \in Version, data \in ChunkList : StartBackup(n, data)
    \/ Duplicate \/ DuplicateUncounted \/ Unique \/ SaveStep \/ SaveDone \/ SaveFailed
    \/ InsertMeta \/ NewRecipe \/ AddDataBack
    \/ Close \/ CloseConfig \/ Closed \/ SaveIndex
    \/ \E c \in Chunk : Detect(c)
    \/ \E v \in Version : StartRestore(v)
    \/ RestoreNext \/ RestoreFails \/ RestoreDone

LEMMA QuietSteps ==
    ASSUME Faults = {}, \A c \in Chunk : Len(Content[c]) > 1, BInv, StageOK, BNext
    PROVE  Quiet
<1>1. ~RecipeUnopened /\ ~TornRecipe /\ ~IndexUnopened /\ ~TornIndex
      /\ \A v \in Version : ~RestoreWithoutFile(v)
  BY DEF RecipeUnopened, TornRecipe, IndexUnopened, TornIndex, RestoreWithoutFile
<1>2. ~Interrupted /\ ~Killed
  BY DEF Interrupted, Interrupt, Killed, Crash, TornClose, TornConfig, EmptiedConfig, Torn
<1>3. ~UniqueDies
  <2> SUFFICES ASSUME UniqueDies PROVE FALSE
    OBVIOUS
  <2>1. NextChunk \in Chunk
    BY DEF UniqueDies, MoreChunks, NextChunk, BInv, JobOK, Working, BackupJob
  <2>2. Len(Content[NextChunk]) \in Nat /\ Len(Content[NextChunk]) > 1
    BY <2>1, ContentAssumption
  <2> QED BY <2>2 DEF UniqueDies, Overrun, TornRotate, Torn
<1> QED BY <1>1, <1>2, <1>3 DEF BNext, Quiet

(* What most steps of OwnRecipe need: the stage moves within the stages    *)
(* that have a recipe of their own, or within the others.                  *)
LEMMA OwnFrame ==
    ASSUME OwnRecipe, UNCHANGED <<metaDB, recipes, index>>,
           stage' \in Working \ {"detect"} => stage \in Working \ {"detect"} /\ job'.path = job.path,
           stage' # "head",
           stage \in OwnStages => stage' \in OwnStages /\ job' = job,
           stage' \in OwnStages /\ job'.saved => stage \in OwnStages,
           stage # "head"
    PROVE  OwnRecipe'
<1>1. NextVersion' = NextVersion
  BY DEF NextVersion
<1>2. stage \in OwnStages => WithOwn(DOMAIN index, OwnStages)' = WithOwn(DOMAIN index, OwnStages)
                          /\ WithOwn(DOMAIN index, OwnStages \cup {"head"})' =
                                WithOwn(DOMAIN index, OwnStages \cup {"head"})
  BY DEF WithOwn, OwnStages
<1>3. stage \notin OwnStages => /\ WithOwn(DOMAIN index, OwnStages) = DOMAIN index
                             /\ WithOwn(DOMAIN index, OwnStages \cup {"head"}) = DOMAIN index
                             /\ DOMAIN index \subseteq WithOwn(DOMAIN index, OwnStages)'
                             /\ DOMAIN index \subseteq WithOwn(DOMAIN index, OwnStages \cup {"head"})'
  BY DEF WithOwn, OwnStages
<1>4. /\ DOMAIN metaDB' \subseteq WithOwn(DOMAIN index, OwnStages \cup {"head"})'
      /\ DOMAIN recipes' \subseteq WithOwn(DOMAIN index, OwnStages)'
  BY <1>2, <1>3 DEF OwnRecipe
<1>5. stage' \in OwnStages /\ job'.saved =>
          (query(metaDB, job.path) /\ HasHead(job.path) /\ Entries(job.path) = job.data)'
  BY DEF OwnRecipe, query, HasHead, Entries
<1> QED BY <1>1, <1>4, <1>5 DEF OwnRecipe

LEMMA OwnRecipeStep ==
    ASSUME InOrder, BInv, StageOK, DirsOK, BackupOK, OwnRecipe, Quiet
    PROVE  OwnRecipe'
<1> USE DEF OwnStages
<1>0. NextVersion \notin DOMAIN index /\ (index' = index => NextVersion' = NextVersion)
  <2>1. PICK m \in 0 .. (MaxVersion + 1) : DOMAIN index = 0 .. (m - 1)
    BY DEF DirsOK
  <2> QED BY <2>1, NextVersionFacts DEF NextVersion
<1>1. ASSUME NEW n \in Version, NEW data \in ChunkList, StartBackup(n, data) PROVE OwnRecipe'
  <2>1. /\ stage = "idle" /\ stage' = "chunk" /\ n = NextVersion /\ UNCHANGED <<metaDB, recipes, index>>
        /\ job' = [path |-> n, data |-> data, pos |-> 0, saved |-> FALSE]
    BY <1>1 DEF StartBackup
  <2> QED BY <1>0, <2>1 DEF OwnRecipe, WithOwn
<1>2. CASE Duplicate \/ DuplicateUncounted \/ SaveDone
  <2>1. /\ stage \in {"chunk", "saving"} /\ stage' = "chunk" /\ UNCHANGED <<metaDB, recipes, index>>
        /\ job' = [job EXCEPT !.pos = @ + 1]
    BY <1>2 DEF Duplicate, DuplicateUncounted, SaveDone, MoreChunks, ChunkDone
  <2>2. job'.path = job.path
    BY <2>1 DEF BInv, JobOK, BackupJob, Working
  <2> QED BY <2>1, <2>2, OwnFrame DEF Working
<1>3. CASE Unique \/ SaveStep
  <2>1. /\ stage \in {"chunk", "saving"} /\ stage' = "saving"
        /\ UNCHANGED <<metaDB, recipes, index, job>>
    BY <1>3 DEF Unique, SaveStep, MoreChunks, backupVars
  <2> QED BY <2>1, OwnFrame DEF Working
<1>4. CASE SaveFailed
  <2>1. /\ stage = "saving" /\ stage' = "close" /\ UNCHANGED <<metaDB, recipes, index, job>>
    BY <1>4 DEF SaveFailed
  <2>2. ~job.saved
    BY <2>1 DEF BackupOK, BInv, JobOK, BackupJob, Working
  <2> QED BY <2>1, <2>2, OwnFrame DEF Working
<1>5. CASE InsertMeta
  <2>1. /\ stage = "chunk" /\ stage' = "head" /\ UNCHANGED <<recipes, index, job>>
        /\ metaDB' = insert(metaDB, job.path, job.path)
    BY <1>5 DEF InsertMeta, ChunkingOver
  <2>2. DOMAIN metaDB' = DOMAIN metaDB \cup {job.path}
    BY <2>1 DEF insert
  <2> QED BY <1>0, <2>1, <2>2 DEF OwnRecipe, WithOwn, Working, query
<1>6. CASE NewRecipe \/ AddDataBack
  <2>1. stage \in {"chunk", "head"} /\ job.path = NextVersion
    BY <1>6 DEF NewRecipe, AddDataBack, ChunkingOver, OwnRecipe, Working
  <2>2. NewRecipe
    BY <1>0, <1>6, <2>1 DEF AddDataBack, ChunkingOver, query, OwnRecipe, WithOwn
  <2>3. /\ stage = "head" /\ stage' = "close" /\ UNCHANGED <<metaDB, index>>
        /\ job' = [job EXCEPT !.saved = TRUE] /\ AppendTo(job.path, TRUE, job.data)
    BY <2>2 DEF NewRecipe, SaveRecipe
  <2>4. job \in BackupJob
    BY <2>3 DEF BInv, JobOK, Working
  <2>5. job'.path = job.path /\ job'.data = job.data /\ job.data \in Seq(Chunk)
    BY <2>3, <2>4 DEF BackupJob
  <2>6. query(metaDB, job.path) /\ job.path \notin DOMAIN recipes
    BY <1>0, <2>1, <2>3 DEF OwnRecipe, WithOwn
  <2>7. recipes' = insert(recipes, job.path, [head |-> TRUE, entries |-> job.data])
    <3>1. <<>> \o job.data = job.data
      BY <2>5
    <3> QED BY <2>3, <2>6, <3>1 DEF AppendTo, Entries
  <2>8. /\ DOMAIN recipes' = DOMAIN recipes \cup {job.path}
        /\ recipes'[job.path] = [head |-> TRUE, entries |-> job.data]
    BY <2>7 DEF insert
  <2>9. (query(metaDB, job.path) /\ HasHead(job.path) /\ Entries(job.path) = job.data)'
    BY <2>3, <2>5, <2>6, <2>8 DEF query, HasHead, Entries
  <2> QED BY <1>0, <2>1, <2>3, <2>5, <2>8, <2>9 DEF OwnRecipe, WithOwn, Working
<1>7. CASE Close
  <2>1. /\ stage \in {"close", "detect"} /\ UNCHANGED <<metaDB, recipes, index, job>>
        /\ stage' = IF stage = "close" THEN "closing" ELSE "detected"
    BY <1>7 DEF Close
  <2> QED BY <2>1, OwnFrame DEF Working
<1>8. CASE CloseConfig
  <2>1. UNCHANGED <<metaDB, recipes, index, job, stage>> /\ phase = "closing"
    BY <1>8 DEF CloseConfig, ConfigStep, WriteConfig, WriteConfigUnopened, backupVars
  <2>2. stage # "head"
    BY <2>1 DEF StageOK
  <2> QED BY <2>1, <2>2, OwnFrame
<1>9. CASE Closed
  <2>1. /\ phase = "configured" /\ UNCHANGED <<metaDB, recipes, index>>
        /\ IF stage = "closing" THEN stage' = "index" /\ UNCHANGED job ELSE Ended
    BY <1>9 DEF Closed, SaveLastStep, SaveLast, SaveLastUnopened
  <2>2. stage \notin {"head", "close", "index"}
    BY <2>1 DEF StageOK
  <2> QED BY <2>1, <2>2, OwnFrame DEF Ended, Working
<1>10. CASE SaveIndex
  <2>1. /\ stage = "index" /\ stage' \in {"idle", "detect"} /\ UNCHANGED <<metaDB, recipes>>
        /\ job.path = NextVersion /\ DOMAIN index' = DOMAIN index \cup {NextVersion}
    BY <1>10 DEF SaveIndex, AfterIndex, Ended, OwnRecipe, Working, insert
  <2> QED BY <2>1 DEF OwnRecipe, WithOwn, Working
<1>11. ASSUME NEW c \in Chunk, Detect(c) PROVE OwnRecipe'
  <2>1. stage = "detect" /\ UNCHANGED <<metaDB, recipes, index, job, stage>>
    BY <1>11 DEF Detect, backupVars
  <2> QED BY <2>1, OwnFrame
<1>12. ASSUME NEW v \in Version, StartRestore(v) PROVE OwnRecipe'
  <2>1. stage = "idle" /\ stage' = "restore" /\ UNCHANGED <<metaDB, recipes, index>>
    BY <1>12 DEF StartRestore
  <2> QED BY <2>1, OwnFrame DEF Working
<1>13. CASE RestoreNext \/ RestoreFails \/ RestoreDone
  <2>1. stage = "restore" /\ stage' \in {"restore", "idle"} /\ UNCHANGED <<metaDB, recipes, index>>
    BY <1>13 DEF RestoreNext, RestoreFails, RestoreDone, Ended
  <2> QED BY <2>1, OwnFrame DEF Working
<1> QED
  BY <1>1, <1>2, <1>3, <1>4, <1>5, <1>6, <1>7, <1>8, <1>9, <1>10, <1>11, <1>12, <1>13 DEF Quiet

(* Without faults no chunk of a closed session is lost.                    *)
LEMMA CommittedGrows ==
    ASSUME Faults = {}, [Next]_vars PROVE committed \subseteq committed'
  BY DEF Next, Open, ReadNothing, SaveNew, BeginSave, WriteFits, Rotate, RotateUnopened,
         TornRotate, Overrun, WriteRotated, IndexChunk, IndexFails, AdvanceUsed, RestoreChunk,
         AddReference, deleteChunk, SetCount, BeginClose, ConfigStep, WriteConfig,
         WriteConfigUnopened, SaveLastStep, SaveLast, SaveLastUnopened, Exit, Interrupt, Crash,
         TornClose, Torn, TornConfig, EmptiedConfig, historyVars, vars

(* The version that is saved is complete: its recipe has its chunks, and   *)
(* the store has been closed.                                              *)
LEMMA AllCompleteStep ==
    ASSUME Faults = {}, InOrder, BInv, StageOK, DirsOK, BackupOK, Accounted, OwnRecipe,
           AllComplete, [BNext]_bvars
    PROVE  AllComplete'
<1>1. committed \subseteq committed'
  BY BackupStep, CommittedGrows
<1>2. ASSUME NEW v \in DOMAIN truth PROVE Complete(v)'
  <2>1. Complete(v)
    BY DEF AllComplete
  <2>2. \A i \in 1 .. Len(truth[v]) : truth[v][i] \in committed'
    BY <1>1, <2>1 DEF Complete
  <2> QED BY <2>1, <2>2, CompleteStep
<1>3. ASSUME NEW v \in DOMAIN truth', v \notin DOMAIN truth PROVE Complete(v)'
  <2>1. truth' # truth
    BY <1>3
  <2>2. SaveIndex /\ job.saved /\ truth' = insert(truth, NextVersion, job.data)
    BY <2>1
    DEF BNext, StartBackup, Duplicate, DuplicateUncounted, Unique, UniqueDies, SaveStep, SaveDone, SaveFailed,
        InsertMeta, NewRecipe, AddDataBack, SaveRecipe, TornRecipe, RecipeUnopened, Close,
        CloseConfig, Closed, SaveIndex, IndexUnopened, TornIndex, Detect, StartRestore,
        RestoreWithoutFile, RestoreNext, RestoreFails, RestoreDone, Interrupted, Killed,
        backupVars, bvars
  <2>3. v = NextVersion /\ truth'[v] = job.data
    BY <1>3, <2>2 DEF insert
  <2>4. /\ stage = "index" /\ UNCHANGED <<metaDB, recipes>> /\ index'[v].path = job.path
    BY <2>2, <2>3 DEF SaveIndex, insert
  <2>5. query(metaDB, job.path) /\ HasHead(job.path) /\ Entries(job.path) = job.data
    BY <2>2, <2>4 DEF OwnRecipe, OwnStages
  <2>6. job \in BackupJob /\ job.pos = Len(job.data) /\ Len(job.data) \in Nat
        /\ \A i \in 1 .. job.pos : job.data[i] \in DOMAIN fp2ChunkDB
    BY <2>2, <2>4 DEF BackupOK, BInv, JobOK, BackupJob, Working
  <2>7. DOMAIN fp2ChunkDB \subseteq committed
    BY <2>4 DEF Accounted, Known, StageOK, BInv, Durable, ClosedOK, IsOpen
  <2>8. \A i \in 1 .. Len(job.data) : job.data[i] \in committed'
    BY <1>1, <2>6, <2>7
  <2> QED BY <1>3, <2>3, <2>4, <2>5, <2>6, <2>8 DEF Complete, query, HasHead, Entries
<1> QED BY <1>2, <1>3 DEF AllComplete

LEMMA FileThereStep ==
    ASSUME FileThere, Quiet PROVE FileThere'
<1>1. CASE result' = result
  BY <1>1 DEF FileThere
<1>2. ASSUME NEW n \in Version, NEW data \in ChunkList, StartBackup(n, data)
      PROVE  result' = NoResult
  BY <1>2 DEF StartBackup
<1>3. ASSUME NEW v \in Version, StartRestore(v) PROVE result' = NoResult
  BY <1>3 DEF StartRestore
<1>4. CASE RestoreFails \/ RestoreDone
  <2>1. result'.file
    BY <1>4 DEF RestoreFails, RestoreDone
  <2> QED BY <2>1 DEF FileThere
<1>5. CASE result' = NoResult
  BY <1>5 DEF FileThere
<1>6. CASE \/ Duplicate \/ DuplicateUncounted \/ Unique \/ SaveStep \/ SaveDone \/ SaveFailed
           \/ InsertMeta \/ NewRecipe \/ AddDataBack \/ Close \/ CloseConfig \/ Closed \/ SaveIndex \/ RestoreNext
  <2>1. result' = result
    BY <1>6 DEF Duplicate, DuplicateUncounted, Unique, SaveStep, SaveDone, SaveFailed, InsertMeta, NewRecipe,
                AddDataBack, SaveRecipe, Close, CloseConfig, Closed, SaveIndex, RestoreNext,
                backupVars
  <2> QED BY <1>1, <2>1
<1>7. ASSUME NEW c \in Chunk, Detect(c) PROVE result' = result
  BY <1>7 DEF Detect, backupVars
<1> QED BY <1>1, <1>2, <1>3, <1>4, <1>5, <1>6, <1>7 DEF Quiet

(* With no fault, chunks of at least two bytes and versions saved in their *)
(* order, every restore of a version that was saved with a recipe succeeds *)
(* and returns its bytes, for any number of versions that share any chunks.*)
THEOREM BackupsRestore ==
    ASSUME Faults = {}, InOrder, \A c \in Chunk : Len(Content[c]) > 1
    PROVE  BSpec => []RestoreFaithful
<1>1. BInit => SoundInv
  <2> SUFFICES ASSUME BInit PROVE SoundInv
    OBVIOUS
  <2>1. Accounted
    BY DEF BInit, Init, Accounted, Known, EmptyStore, IsOpen
  <2>2. OwnRecipe /\ AllComplete /\ FileThere
    BY DEF BInit, OwnRecipe, OwnStages, Working, WithOwn, AllComplete, FileThere, EmptyStore
  <2> QED BY <2>1, <2>2 DEF SoundInv
<1>2. ProgramInv /\ SoundInv /\ [BNext]_bvars => SoundInv'
  <2> SUFFICES ASSUME ProgramInv, SoundInv, [BNext]_bvars PROVE SoundInv'
    OBVIOUS
  <2> USE DEF ProgramInv, SoundInv
  <2>1. [Next]_vars
    BY BackupStep
  <2>2. Accounted'
    BY <2>1, NextAccounted DEF BInv
  <2>3. AllComplete'
    BY AllCompleteStep
  <2>4. CASE BNext
    BY <2>2, <2>3, <2>4, QuietSteps, OwnRecipeStep, FileThereStep
  <2>5. CASE UNCHANGED bvars
    <3>1. UNCHANGED <<metaDB, recipes, index, stage, job, result>>
      BY <2>5 DEF bvars, backupVars
    <3>2. OwnRecipe'
      BY <3>1 DEF OwnRecipe, WithOwn, NextVersion, query, HasHead, Entries
    <3> QED BY <2>2, <2>3, <3>1, <3>2 DEF FileThere
  <2> QED BY <2>4, <2>5
<1>3. ProgramInv /\ SoundInv => RestoreFaithful
  BY DEF ProgramInv, SoundInv, AllComplete, FileThere, CompleteRestores, RestoreFaithful
<1> QED BY <1>1, <1>2, <1>3, ProgramInvariant, PTL DEF BSpec

(* Under the same assumptions every chunk of the index can be read         *)
(* whenever the program has a store open.                                  *)
THEOREM BackupRestorable ==
    ASSUME Faults = {}, \A c \in Chunk : Len(Content[c]) > 1
    PROVE  BSpec => []Restorable
BY BackupUsesStorageCore, SoundStoreRestores, PTL DEF UsesStorageCore, Spec

-----------------------------------------------------------------------------
(* The chunks of the backup in progress that are counted and of which the  *)
(* recipe has no entry yet.                                                *)
Counted == IF phase = "indexed" THEN job.pos + 1 ELSE job.pos
Pending(c) ==
    IF stage \in {"chunk", "saving", "head"} THEN {i \in 1 .. Counted : job.data[i] = c} ELSE {}

(* No chunk is counted more often than files had chunks.                   *)
CountLimit ==
    IF stage \in {"chunk", "saving"} THEN (sessions - 1) * MaxChunks + Counted
    ELSE sessions * MaxChunks

(* How often a chunk was met: its count, and what could not be inserted.   *)
Met(c) == fp2ChunkDB[c].count + uncounted[c]

CountInv ==
    /\ stage \in Working => sessions > 0
    /\ Saving => saving.count = 1 % Wrap
    /\ \A c \in DOMAIN fp2ChunkDB :
          /\ Met(c) >= Cardinality(References(c)) + Cardinality(Pending(c))
          /\ fp2ChunkDB[c].count <= CountLimit
-----------------------------------------------------------------------------
(* The sets whose elements are counted are finite.                         *)
LEMMA ReferencesFinite ==
    ASSUME RecipesOK, NEW c
    PROVE  IsFiniteSet(References(c)) /\ Cardinality(References(c)) \in Nat
<1>1. MaxVersion \in Int /\ MaxSessions * MaxChunks \in Int
  BY BoundsAssumption
<1>2. IsFiniteSet(Version) /\ IsFiniteSet(1 .. MaxSessions * MaxChunks)
  BY <1>1, FS_Interval DEF Version
<1>3. IsFiniteSet(Version \X (1 .. MaxSessions * MaxChunks))
  BY <1>2, FS_Product
<1>4. References(c) \in SUBSET (Version \X (1 .. MaxSessions * MaxChunks))
  BY DEF References, RecipesOK, IsStore
<1> QED BY <1>3, <1>4, FS_Subset, FS_CardinalityType

LEMMA PendingFinite ==
    ASSUME JobOK, NEW c
    PROVE  IsFiniteSet(Pending(c)) /\ Cardinality(Pending(c)) \in Nat
<1>1. CASE stage \in {"chunk", "saving", "head"}
  <2>1. Counted \in Int
    BY <1>1 DEF Counted, JobOK, Working, BackupJob
  <2>2. IsFiniteSet(1 .. Counted)
    BY <2>1, FS_Interval
  <2>3. Pending(c) \in SUBSET (1 .. Counted)
    BY <1>1 DEF Pending
  <2> QED BY <2>2, <2>3, FS_Subset, FS_CardinalityType
<1>2. CASE stage \notin {"chunk", "saving", "head"}
  BY <1>2, FS_EmptySet DEF Pending
<1> QED BY <1>1, <1>2

(* Where the limit is, and that it is below what the count can hold.       *)
LEMMA LimitFacts ==
    ASSUME BInv, StageOK, DirsOK, BackupOK, CountInv
    PROVE  /\ sessions * MaxChunks \in Nat /\ CountLimit \in Nat
           /\ CountLimit <= sessions * MaxChunks
           /\ sessions * MaxChunks < Wrap
           /\ stage \in {"chunk", "saving"} =>
                 /\ (sessions - 1) * MaxChunks \in Nat
                 /\ sessions * MaxChunks = (sessions - 1) * MaxChunks + MaxChunks
                 /\ job.pos \in Nat /\ Counted \in Nat /\ Counted <= MaxChunks
                 /\ Len(job.data) \in Nat /\ Len(job.data) <= MaxChunks
<1>1. sessions \in Nat /\ sessions <= MaxSessions /\ MaxChunks \in Nat /\ MaxSessions \in Nat
      /\ Wrap > MaxSessions * MaxChunks /\ Wrap \in Nat
  BY BoundsAssumption, SizeAssumption DEF DirsOK
<1>2. sessions * MaxChunks \in Nat /\ sessions * MaxChunks <= MaxSessions * MaxChunks
      /\ MaxSessions * MaxChunks \in Nat
  BY <1>1
<1>3. sessions * MaxChunks < Wrap
  BY <1>1, <1>2
<1>4. ASSUME stage \in {"chunk", "saving"}
      PROVE  /\ (sessions - 1) * MaxChunks \in Nat
             /\ sessions * MaxChunks = (sessions - 1) * MaxChunks + MaxChunks
             /\ job.pos \in Nat /\ Counted \in Nat /\ Counted <= MaxChunks
             /\ Len(job.data) \in Nat /\ Len(job.data) <= MaxChunks
  <2>1. sessions > 0 /\ job \in BackupJob /\ job.pos \in Nat /\ job.data \in ChunkList
        /\ job.pos <= Len(job.data) /\ (stage = "saving" => job.pos < Len(job.data))
        /\ (stage = "chunk" => phase = "ready")
    BY <1>4 DEF CountInv, BInv, JobOK, BackupJob, BackupOK, StageOK, Working
  <2>2. Len(job.data) \in Nat /\ Len(job.data) <= MaxChunks
    BY <2>1, ChunkListFacts
  <2>3. Counted \in Nat /\ Counted <= MaxChunks
    BY <1>1, <1>4, <2>1, <2>2 DEF Counted
  <2>4. (sessions - 1) * MaxChunks \in Nat
    BY <1>1, <2>1
  <2>5. sessions * MaxChunks = (sessions - 1) * MaxChunks + MaxChunks
    BY <1>1, <2>1
  <2> QED BY <2>1, <2>2, <2>3, <2>4, <2>5
<1>5. CountLimit \in Nat /\ CountLimit <= sessions * MaxChunks
  <2>1. CASE stage \in {"chunk", "saving"}
    <3> DEFINE base == (sessions - 1) * MaxChunks
    <3>1. base \in Nat /\ sessions * MaxChunks = base + MaxChunks /\ CountLimit = base + Counted
          /\ Counted \in Nat /\ Counted <= MaxChunks
      BY <1>4, <2>1 DEF CountLimit
    <3> HIDE DEF base
    <3> QED BY <1>1, <3>1
  <2>2. CASE stage \notin {"chunk", "saving"}
    BY <1>2, <2>2 DEF CountLimit
  <2> QED BY <2>1, <2>2
<1> QED BY <1>2, <1>3, <1>4, <1>5

(* The counts are numbers.                                                 *)
LEMMA CountType ==
    ASSUME BInv, DirsOK, NEW c \in DOMAIN fp2ChunkDB
    PROVE  fp2ChunkDB[c].count \in Nat /\ uncounted[c] \in Nat /\ Met(c) \in Nat
<1>1. c \in Chunk /\ fp2ChunkDB[c].count \in Nat
  BY SizeAssumption DEF BInv, Shape, TypeOK, IsStore, Key, Count
<1>2. uncounted[c] \in Nat
  BY <1>1 DEF DirsOK
<1> QED BY <1>1, <1>2 DEF Met

(* Steps that count nothing and write no recipe.                           *)
LEMMA CountFrame ==
    ASSUME BInv, StageOK, DirsOK, BackupOK, CountInv,
           UNCHANGED <<fp2ChunkDB, recipes, uncounted>>,
           stage' \in Working => sessions' > 0,
           Saving' => saving'.count = 1 % Wrap,
           NEW limit \in Nat, CountLimit' = limit, CountLimit <= limit,
           \A c : Pending(c)' \subseteq Pending(c)
    PROVE  CountInv'
<1> SUFFICES ASSUME NEW c \in DOMAIN fp2ChunkDB
             PROVE  /\ Met(c) >= Cardinality(References(c)') + Cardinality(Pending(c)')
                    /\ fp2ChunkDB[c].count <= limit
  BY DEF CountInv, Met
<1>1. References(c)' = References(c)
  BY DEF References
<1>2. Cardinality(Pending(c)') \in Nat /\ Cardinality(Pending(c)') <= Cardinality(Pending(c))
  <2>1. Pending(c)' \in SUBSET Pending(c) /\ IsFiniteSet(Pending(c))
    BY PendingFinite DEF BInv
  <2> QED BY <2>1, FS_Subset, FS_CardinalityType
<1>3. Cardinality(References(c)) \in Nat /\ Cardinality(Pending(c)) \in Nat
      /\ fp2ChunkDB[c].count \in Nat /\ Met(c) \in Nat
  BY ReferencesFinite, PendingFinite, CountType DEF BInv
<1>4. /\ Met(c) >= Cardinality(References(c)) + Cardinality(Pending(c))
      /\ fp2ChunkDB[c].count <= CountLimit /\ CountLimit \in Nat
  BY LimitFacts DEF CountInv
<1> QED BY <1>1, <1>2, <1>3, <1>4

(* Steps to where no chunk is counted: nothing is pending any more.        *)
LEMMA CountRests ==
    ASSUME BInv, StageOK, StageOK', DirsOK, BackupOK, CountInv,
           UNCHANGED <<fp2ChunkDB, recipes, uncounted>>,
           stage' \notin {"chunk", "saving", "head"}, stage' \in Working => stage \in Working,
           sessions' = sessions \/ sessions' = sessions + 1
    PROVE  CountInv'
<1>1. ~Saving'
  BY DEF StageOK, Stage, Saving
<1>2. /\ sessions \in Nat /\ MaxChunks \in Nat /\ sessions * MaxChunks \in Nat
      /\ CountLimit \in Nat /\ CountLimit <= sessions * MaxChunks
  <2>1. sessions \in Nat /\ MaxChunks \in Nat
    BY BoundsAssumption DEF DirsOK
  <2> QED BY <2>1, LimitFacts
<1>3. /\ (sessions + 1) * MaxChunks \in Nat
      /\ (sessions + 1) * MaxChunks = sessions * MaxChunks + MaxChunks
  BY <1>2
<1>4. PICK limit \in Nat : limit = sessions' * MaxChunks /\ CountLimit <= limit
  <2>1. CASE sessions' = sessions
    BY <1>2, <2>1
  <2>2. CASE sessions' = sessions + 1
    <3> DEFINE n == sessions * MaxChunks
               m == (sessions + 1) * MaxChunks
    <3>1. n \in Nat /\ m \in Nat /\ m = n + MaxChunks /\ CountLimit <= n
      BY <1>2, <1>3
    <3> HIDE DEF n, m
    <3>2. CountLimit <= m
      BY <1>2, <3>1
    <3> QED BY <2>2, <3>1, <3>2 DEF m
  <2> QED BY <2>1, <2>2
<1>5. CountLimit' = limit /\ \A c : Pending(c)' = {}
  BY <1>4 DEF CountLimit, Pending
<1>6. stage' \in Working => sessions' > 0
  BY <1>2 DEF CountInv
<1> QED BY <1>1, <1>4, <1>5, <1>6, CountFrame

(* One more chunk is met: c, the next of the file, which has the count n   *)
(* after it, and u inserts of a raised count have failed.                  *)
LEMMA CountOne ==
    ASSUME BInv, StageOK, DirsOK, BackupOK, CountInv, UNCHANGED recipes,
           stage \in {"chunk", "saving"}, stage' \in {"chunk", "saving"}, sessions' = sessions,
           job.pos < Len(job.data), Counted = job.pos, Counted' = job.pos + 1,
           job'.data = job.data, Saving' => saving'.count = 1 % Wrap,
           NEW c, c = job.data[job.pos + 1],
           DOMAIN fp2ChunkDB' = DOMAIN fp2ChunkDB \cup {c},
           \A d \in DOMAIN fp2ChunkDB : d # c => /\ fp2ChunkDB'[d].count = fp2ChunkDB[d].count
                                                 /\ uncounted'[d] = uncounted[d],
           NEW n \in Nat, n <= (sessions - 1) * MaxChunks + job.pos + 1,
           NEW u \in Nat, n + u > Cardinality(References(c)) + Cardinality(Pending(c)),
           fp2ChunkDB'[c].count = n, uncounted'[c] = u
    PROVE  CountInv'
<1>1. PICK base \in Nat : base = (sessions - 1) * MaxChunks
  BY LimitFacts
<1>2. job.pos \in Nat /\ CountLimit = base + job.pos /\ CountLimit' = base + (job.pos + 1)
  BY <1>1, LimitFacts DEF CountLimit
<1>3. \A d : References(d)' = References(d)
  BY DEF References
<1>4. \A d : d # c => Pending(d)' = Pending(d)
  <2> SUFFICES ASSUME NEW d, d # c
               PROVE  {i \in 1 .. (job.pos + 1) : job.data[i] = d} =
                      {i \in 1 .. job.pos : job.data[i] = d}
    BY DEF Pending
  <2> QED BY <1>2
<1>5. Pending(c)' = Pending(c) \cup {job.pos + 1}
  <2>1. {i \in 1 .. (job.pos + 1) : job.data[i] = c} =
            {i \in 1 .. job.pos : job.data[i] = c} \cup {job.pos + 1}
    BY <1>2
  <2> QED BY <2>1 DEF Pending
<1>6. \A d : Cardinality(References(d)) \in Nat /\ Cardinality(Pending(d)) \in Nat
  BY ReferencesFinite, PendingFinite DEF BInv
<1>7. /\ Cardinality(Pending(c) \cup {job.pos + 1}) \in Nat
      /\ Cardinality(Pending(c) \cup {job.pos + 1}) <= Cardinality(Pending(c)) + 1
  <2>1. IsFiniteSet(Pending(c)) /\ Cardinality(Pending(c)) \in Nat
    BY PendingFinite DEF BInv
  <2>2. Cardinality(Pending(c) \cup {job.pos + 1}) =
            IF job.pos + 1 \in Pending(c) THEN Cardinality(Pending(c))
            ELSE Cardinality(Pending(c)) + 1
    BY <2>1, FS_AddElement
  <2> QED BY <2>1, <2>2
<1>8. ASSUME NEW d \in DOMAIN fp2ChunkDB'
      PROVE  /\ Met(d)' >= Cardinality(References(d)') + Cardinality(Pending(d)')
             /\ fp2ChunkDB'[d].count <= CountLimit'
  <2>1. CASE d = c
    <3> DEFINE k == Cardinality(References(c))
               p == Cardinality(Pending(c))
               q == Cardinality(Pending(c) \cup {job.pos + 1})
    <3>1. k \in Nat /\ p \in Nat /\ q \in Nat /\ q <= p + 1 /\ n + u > k + p
      BY <1>6, <1>7
    <3> HIDE DEF k, p, q
    <3>2. n + u >= k + q
      BY <3>1
    <3>3. n <= base + (job.pos + 1)
      BY <1>1, <1>2
    <3> QED BY <1>2, <1>3, <1>5, <2>1, <3>2, <3>3 DEF k, q, Met
  <2>2. CASE d # c
    <3>1. d \in DOMAIN fp2ChunkDB /\ fp2ChunkDB'[d].count = fp2ChunkDB[d].count
          /\ Met(d)' = Met(d) /\ fp2ChunkDB[d].count \in Nat /\ Met(d) \in Nat
      BY <1>8, <2>2, CountType DEF Met
    <3>2. /\ Met(d) >= Cardinality(References(d)) + Cardinality(Pending(d))
          /\ fp2ChunkDB[d].count <= base + job.pos
      BY <1>2, <3>1 DEF CountInv
    <3> QED BY <1>2, <1>3, <1>4, <2>2, <3>1, <3>2
  <2> QED BY <2>1, <2>2
<1>9. stage' \in Working => sessions' > 0
  BY DEF CountInv, Working
<1> QED BY <1>8, <1>9 DEF CountInv

(* A recipe gets no more entries for a chunk than the backup has pending.  *)
LEMMA AppendedReferences ==
    ASSUME BInv, BInv', StageOK, stage \in {"chunk", "head"}, job.pos = Len(job.data),
           NEW head \in BOOLEAN, NEW k \in 0 .. Len(job.data),
           AppendTo(job.path, head, SubSeq(job.data, 1, k)), NEW c
    PROVE  Cardinality(References(c)') <= Cardinality(References(c)) + Cardinality(Pending(c))
<1> DEFINE n == job.path
           old == Entries(n)
           new == SubSeq(job.data, 1, k)
           N == MaxSessions * MaxChunks
           f == [i \in Pending(c) |-> <<n, Len(old) + i>>]
           added == {f[i] : i \in Pending(c)}
<1>1. n \in Version /\ job.data \in Seq(Chunk) /\ Len(job.data) \in Nat /\ phase = "ready"
  BY DEF BInv, JobOK, BackupJob, Working, StageOK
<1>2. Pending(c) = {i \in 1 .. Len(job.data) : job.data[i] = c}
  BY <1>1 DEF Pending, Counted
<1>3. new \in Seq(Chunk) /\ Len(new) = k /\ k \in Nat /\ \A i \in 1 .. k : new[i] = job.data[i]
  BY <1>1
<1>4. old \in Seq(Chunk) /\ Len(old) \in Nat /\ (n \notin DOMAIN recipes => Len(old) = 0)
      /\ (n \in DOMAIN recipes => old = recipes[n].entries)
  BY DEF Entries, BInv, RecipesOK, IsStore
<1>5. /\ DOMAIN recipes' = DOMAIN recipes \cup {n}
      /\ recipes'[n].entries = old \o new
      /\ \A m \in DOMAIN recipes : m # n => recipes'[m] = recipes[m]
  BY DEF AppendTo, insert
<1> HIDE DEF new, old
<1>6. Len(old \o new) = Len(old) + k
      /\ \A i \in 1 .. Len(old \o new) :
            (old \o new)[i] = IF i <= Len(old) THEN old[i] ELSE new[i - Len(old)]
  BY <1>3, <1>4
<1>7. References(c)' \subseteq References(c) \cup added
  <2> SUFFICES ASSUME NEW m \in DOMAIN recipes', NEW j \in 1 .. N,
                      j <= Len(recipes'[m].entries), recipes'[m].entries[j] = c
               PROVE  <<m, j>> \in References(c) \cup added
    BY DEF References
  <2>0. j \in Nat /\ j >= 1
    BY BoundsAssumption
  <2>1. CASE m # n
    <3>1. m \in DOMAIN recipes /\ recipes'[m] = recipes[m]
      BY <1>5, <2>1
    <3> QED BY <3>1 DEF References
  <2>2. CASE m = n /\ j <= Len(old)
    <3>1. n \in DOMAIN recipes /\ old = recipes[n].entries /\ old[j] = c
      BY <1>3, <1>4, <1>5, <1>6, <2>0, <2>2
    <3> QED BY <2>2, <3>1 DEF References
  <2>3. CASE m = n /\ ~(j <= Len(old))
    <3>0. j <= Len(old) + k
      BY <1>5, <1>6, <2>3
    <3>1. j - Len(old) \in 1 .. k /\ j = Len(old) + (j - Len(old))
      BY <1>3, <1>4, <2>0, <2>3, <3>0
    <3>2. job.data[j - Len(old)] = c
      BY <1>3, <1>4, <1>5, <1>6, <2>0, <2>3, <3>1
    <3>3. j - Len(old) \in 1 .. Len(job.data)
      BY <1>1, <1>3, <3>1
    <3>4. j - Len(old) \in Pending(c)
      BY <1>2, <3>2, <3>3
    <3>5. f[j - Len(old)] = <<m, j>>
      BY <2>3, <3>1, <3>4
    <3> QED BY <3>4, <3>5
  <2> QED BY <2>1, <2>2, <2>3
<1>8. IsFiniteSet(Pending(c)) /\ Cardinality(Pending(c)) \in Nat
      /\ IsFiniteSet(References(c)) /\ Cardinality(References(c)) \in Nat
  BY ReferencesFinite, PendingFinite DEF BInv
<1>9. IsFiniteSet(added) /\ Cardinality(added) <= Cardinality(Pending(c))
  <2>1. f \in Surjection(Pending(c), added)
    BY DEF Surjection
  <2> QED BY <1>8, <2>1, FS_Surjection
<1> HIDE DEF added
<1>10. /\ IsFiniteSet(References(c) \cup added)
       /\ Cardinality(References(c) \cup added) <= Cardinality(References(c)) + Cardinality(added)
       /\ Cardinality(added) \in Nat
  <2>1. Cardinality(References(c) \cup added) =
           Cardinality(References(c)) + Cardinality(added) - Cardinality(References(c) \cap added)
        /\ IsFiniteSet(References(c) \cup added)
    BY <1>8, <1>9, FS_Union
  <2>2. References(c) \cap added \in SUBSET added
    OBVIOUS
  <2>3. Cardinality(References(c) \cap added) \in Nat /\ Cardinality(added) \in Nat
    BY <1>9, <2>2, FS_Subset, FS_CardinalityType
  <2> QED BY <1>8, <2>1, <2>3
<1>11. Cardinality(References(c)') <= Cardinality(References(c) \cup added)
       /\ Cardinality(References(c) \cup added) \in Nat /\ Cardinality(References(c)') \in Nat
  <2>1. References(c)' \in SUBSET (References(c) \cup added)
    BY <1>7
  <2> QED BY <1>10, <2>1, FS_Subset, FS_CardinalityType
<1> QED BY <1>8, <1>9, <1>10, <1>11

LEMMA CountRecipe ==
    ASSUME BInv, BInv', StageOK, StageOK', DirsOK, BackupOK, CountInv,
           NewRecipe \/ AddDataBack \/ TornRecipe
    PROVE  CountInv'
<1>1. /\ stage \in {"chunk", "head"} /\ job.pos = Len(job.data) /\ job.data \in Seq(Chunk)
      /\ Len(job.data) \in Nat /\ SubSeq(job.data, 1, Len(job.data)) = job.data
  <2>1. ChunkingOver \/ stage = "head"
    BY DEF NewRecipe, AddDataBack, TornRecipe
  <2>2. job \in BackupJob /\ job.pos = Len(job.data)
    BY <2>1 DEF ChunkingOver, BInv, JobOK, Working
  <2>3. job.data \in Seq(Chunk) /\ Len(job.data) \in Nat
    BY <2>2 DEF BackupJob
  <2> QED BY <2>1, <2>2, <2>3 DEF ChunkingOver
<1>2. PICK head \in BOOLEAN, k \in 0 .. Len(job.data) :
         AppendTo(job.path, head, SubSeq(job.data, 1, k))
  <2>1. CASE TornRecipe
    BY <2>1 DEF TornRecipe
  <2>2. CASE NewRecipe \/ AddDataBack
    <3>1. PICK head \in BOOLEAN : AppendTo(job.path, head, job.data)
      BY <2>2 DEF NewRecipe, AddDataBack, SaveRecipe
    <3>2. Len(job.data) \in 0 .. Len(job.data)
      BY <1>1
    <3>3. AppendTo(job.path, head, SubSeq(job.data, 1, Len(job.data)))
      BY <1>1, <3>1, Zenon
    <3> QED BY <3>2, <3>3
  <2> QED BY <2>1, <2>2
<1>3. UNCHANGED <<fp2ChunkDB, uncounted, sessions>> /\ stage' \in {"close", "idle"}
  BY DEF NewRecipe, AddDataBack, SaveRecipe, TornRecipe, Crash, Ended, diskVars, vars
<1>4. ~Saving' /\ \A c : Pending(c)' = {}
  BY <1>3 DEF StageOK, Stage, Saving, Pending
<1>5. CountLimit' = sessions * MaxChunks /\ sessions * MaxChunks \in Nat /\ CountLimit \in Nat
      /\ CountLimit <= sessions * MaxChunks
  BY <1>3, LimitFacts DEF CountLimit
<1>6. ASSUME NEW c \in DOMAIN fp2ChunkDB
      PROVE  /\ Met(c)' >= Cardinality(References(c)') + Cardinality(Pending(c)')
             /\ fp2ChunkDB'[c].count <= CountLimit'
  <2>1. Cardinality(References(c)') <= Cardinality(References(c)) + Cardinality(Pending(c))
    BY <1>1, <1>2, AppendedReferences
  <2>2. /\ Cardinality(References(c)) \in Nat /\ Cardinality(Pending(c)) \in Nat
        /\ fp2ChunkDB[c].count \in Nat /\ Met(c) \in Nat /\ Met(c)' = Met(c)
    BY <1>3, ReferencesFinite, PendingFinite, CountType DEF BInv, Met
  <2>3. PICK r \in Nat : Cardinality(References(c)') = r
    <3>1. RecipesOK'
      BY DEF BInv
    <3>2. (RecipesOK => Cardinality(References(c)) \in Nat)'
      BY ReferencesFinite, PTL
    <3> QED BY <3>1, <3>2
  <2>4. /\ Met(c) >= Cardinality(References(c)) + Cardinality(Pending(c))
        /\ fp2ChunkDB[c].count <= CountLimit
    BY DEF CountInv
  <2>5. Cardinality(Pending(c)') = 0
    BY <1>4, FS_EmptySet
  <2> QED BY <1>3, <1>5, <2>1, <2>2, <2>3, <2>4, <2>5
<1>7. stage' \in Working => sessions' > 0
  BY <1>1, <1>3 DEF CountInv, Working
<1> QED BY <1>3, <1>4, <1>6, <1>7 DEF CountInv

LEMMA CountDuplicate ==
    ASSUME BInv, StageOK, DirsOK, BackupOK, CountInv, Duplicate
    PROVE  CountInv'
<1> DEFINE c == NextChunk
           n == fp2ChunkDB[c].count
<1>1. /\ stage = "chunk" /\ stage' = "chunk" /\ UNCHANGED <<recipes, sessions, phase>>
      /\ job.pos < Len(job.data) /\ job' = [job EXCEPT !.pos = @ + 1] /\ phase = "ready"
      /\ c \in DOMAIN fp2ChunkDB /\ c = job.data[job.pos + 1]
      /\ fp2ChunkDB' = insert(fp2ChunkDB, c, [fp2ChunkDB[c] EXCEPT !.count = (n + 1) % Wrap])
      /\ uncounted' = uncounted
  BY DEF Duplicate, MoreChunks, AddReference, SetCount, ChunkDone, NextChunk, query, objectVars
<1>2. job \in BackupJob /\ job.pos \in Nat
  BY <1>1 DEF BInv, JobOK, BackupJob, Working
<1>3. job'.pos = job.pos + 1 /\ job'.data = job.data
  BY <1>1, <1>2 DEF BackupJob
<1>4. Counted = job.pos /\ Counted' = job.pos + 1 /\ ~Saving'
  BY <1>1, <1>3 DEF Counted, Saving
<1>5. fp2ChunkDB[c] \in Key /\ n \in Nat /\ uncounted[c] \in Nat
  BY <1>1, CountType DEF BInv, Shape, TypeOK, IsStore
<1>6. PICK base \in Nat : base = (sessions - 1) * MaxChunks
  BY <1>1, LimitFacts
<1>7. n <= base + job.pos
      /\ n + uncounted[c] >= Cardinality(References(c)) + Cardinality(Pending(c))
  BY <1>1, <1>4, <1>6 DEF CountInv, CountLimit, Met
<1>8. n + 1 < Wrap /\ Wrap \in Nat
  <2>1. PICK m \in Nat : m = sessions * MaxChunks
    BY LimitFacts
  <2>2. m < Wrap /\ m = base + MaxChunks /\ Len(job.data) \in Nat /\ Len(job.data) <= MaxChunks
        /\ Wrap \in Nat /\ MaxChunks \in Nat
    BY <1>1, <1>6, <2>1, LimitFacts, SizeAssumption, BoundsAssumption
  <2> QED BY <1>1, <1>2, <1>5, <1>7, <2>1, <2>2
<1>9. (n + 1) % Wrap = n + 1
  BY <1>5, <1>8
<1> HIDE DEF c
<1>10. /\ DOMAIN fp2ChunkDB' = DOMAIN fp2ChunkDB \cup {c} /\ fp2ChunkDB'[c].count = n + 1
       /\ \A d \in DOMAIN fp2ChunkDB : d # c => fp2ChunkDB'[d].count = fp2ChunkDB[d].count
  BY <1>1, <1>5, <1>9 DEF insert, Key
<1>11. Cardinality(References(c)) \in Nat /\ Cardinality(Pending(c)) \in Nat
  BY ReferencesFinite, PendingFinite DEF BInv
<1> HIDE DEF n
<1>12. /\ n + 1 \in Nat /\ n + 1 <= base + job.pos + 1
       /\ (n + 1) + uncounted[c] > Cardinality(References(c)) + Cardinality(Pending(c))
  BY <1>2, <1>5, <1>7, <1>11
<1> QED BY <1>1, <1>3, <1>4, <1>5, <1>6, <1>10, <1>12, CountOne

(* The next chunk of the file is in the index, and its raised count is not *)
(* inserted.                                                               *)
LEMMA CountUncounted ==
    ASSUME BInv, StageOK, DirsOK, BackupOK, CountInv, DuplicateUncounted
    PROVE  CountInv'
<1> DEFINE c == NextChunk
           n == fp2ChunkDB[c].count
           u == uncounted[c]
<1>1. /\ stage = "chunk" /\ stage' = "chunk" /\ UNCHANGED <<recipes, sessions, phase, fp2ChunkDB>>
      /\ job.pos < Len(job.data) /\ job' = [job EXCEPT !.pos = @ + 1] /\ phase = "ready"
      /\ c \in DOMAIN fp2ChunkDB /\ c = job.data[job.pos + 1]
      /\ uncounted' = [uncounted EXCEPT ![c] = u + 1]
  BY DEF DuplicateUncounted, MoreChunks, ChunkDone, NextChunk, query, vars, diskVars, objectVars,
         StageOK
<1>2. job \in BackupJob /\ job.pos \in Nat
  BY <1>1 DEF BInv, JobOK, BackupJob, Working
<1>3. job'.pos = job.pos + 1 /\ job'.data = job.data
  BY <1>1, <1>2 DEF BackupJob
<1>4. Counted = job.pos /\ Counted' = job.pos + 1 /\ ~Saving'
  BY <1>1, <1>3 DEF Counted, Saving
<1>5. n \in Nat /\ u \in Nat /\ c \in Chunk
  BY <1>1, CountType DEF BInv, Shape, TypeOK, IsStore
<1>6. PICK base \in Nat : base = (sessions - 1) * MaxChunks
  BY <1>1, LimitFacts
<1>7. n <= base + job.pos /\ n + u >= Cardinality(References(c)) + Cardinality(Pending(c))
  BY <1>1, <1>4, <1>6 DEF CountInv, CountLimit, Met
<1>8. Cardinality(References(c)) \in Nat /\ Cardinality(Pending(c)) \in Nat
  BY ReferencesFinite, PendingFinite DEF BInv
<1> HIDE DEF c
<1>9. /\ uncounted'[c] = u + 1
      /\ \A d \in DOMAIN fp2ChunkDB : d # c => uncounted'[d] = uncounted[d]
  <2>1. DOMAIN fp2ChunkDB \subseteq Chunk /\ uncounted \in [Chunk -> Nat]
    BY DEF BInv, Shape, TypeOK, IsStore, DirsOK
  <2> QED BY <1>1, <1>5, <2>1
<1>10. DOMAIN fp2ChunkDB' = DOMAIN fp2ChunkDB \cup {c} /\ fp2ChunkDB'[c].count = n
  BY <1>1
<1> HIDE DEF n, u
<1>11. /\ u + 1 \in Nat /\ n <= base + job.pos + 1
       /\ n + (u + 1) > Cardinality(References(c)) + Cardinality(Pending(c))
  BY <1>2, <1>5, <1>7, <1>8
<1> QED BY <1>1, <1>3, <1>4, <1>5, <1>6, <1>9, <1>10, <1>11, CountOne

(* The entry of a new chunk, which nothing refers to yet.                  *)
LEMMA CountIndexed ==
    ASSUME BInv, StageOK, DirsOK, BackupOK, CountInv, SaveStep, IndexChunk
    PROVE  CountInv'
<1> DEFINE c == saving.chunk
<1>1. /\ stage = "saving" /\ stage' = "saving" /\ UNCHANGED <<recipes, sessions, job, saving, uncounted>>
      /\ phase = "written" /\ phase' = "indexed" /\ c \notin DOMAIN fp2ChunkDB
      /\ DOMAIN fp2ChunkDB' = DOMAIN fp2ChunkDB \cup {c} /\ fp2ChunkDB'[c] = SavingKey
      /\ \A d \in DOMAIN fp2ChunkDB : d # c => fp2ChunkDB'[d] = fp2ChunkDB[d]
  BY IndexChunkDB DEF SaveStep, IndexChunk, backupVars, BInv, Durable, InFlightOK
<1>2. /\ job \in BackupJob /\ job.pos \in Nat /\ job.pos < Len(job.data)
      /\ c = job.data[job.pos + 1]
      /\ \A i \in 1 .. job.pos : job.data[i] \in DOMAIN fp2ChunkDB
  BY <1>1 DEF BInv, JobOK, BackupJob, Working
<1>3. Counted = job.pos /\ Counted' = job.pos + 1
  BY <1>1 DEF Counted
<1>4. saving.count = 1 % Wrap
  BY <1>1 DEF CountInv, Saving
<1>5. PICK base \in Nat : base = (sessions - 1) * MaxChunks
  BY <1>1, LimitFacts
<1>6. 1 % Wrap = 1
  <2>1. PICK m \in Nat : m = sessions * MaxChunks
    BY LimitFacts
  <2>2. m < Wrap /\ m = base + MaxChunks /\ Wrap \in Nat /\ MaxChunks \in Nat /\ MaxChunks # 0
    BY <1>1, <1>5, <2>1, LimitFacts, SizeAssumption, BoundsAssumption
  <2>3. 1 < Wrap
    BY <2>1, <2>2
  <2> QED BY <2>2, <2>3
<1>7. fp2ChunkDB'[c].count = 1
  BY <1>1, <1>4, <1>6 DEF SavingKey
<1>8. References(c) = {}
  BY <1>1 DEF References, BInv, NoDanglingEntry, query
<1>9. Pending(c) = {}
  BY <1>1, <1>2, <1>3 DEF Pending
<1>10. uncounted[c] \in Nat
  <2>1. c \in Chunk
    BY <1>2 DEF BackupJob
  <2> QED BY <2>1 DEF DirsOK
<1>11. 1 + uncounted[c] > Cardinality(References(c)) + Cardinality(Pending(c))
  BY <1>8, <1>9, <1>10, FS_EmptySet
<1>12. 1 <= (sessions - 1) * MaxChunks + job.pos + 1
  BY <1>2, <1>5
<1> HIDE DEF c
<1> QED BY <1>1, <1>2, <1>3, <1>4, <1>7, <1>10, <1>11, <1>12, CountOne

LEMMA CountStep ==
    ASSUME BInv, BInv', StageOK, StageOK', DirsOK, BackupOK, CountInv, [BNext]_bvars
    PROVE  CountInv'
<1>1. CASE UNCHANGED bvars
  BY <1>1 DEF bvars, vars, objectVars, diskVars, backupVars, CountInv, Met, Saving, References,
              Pending, Counted, CountLimit
<1>2. ASSUME NEW n \in Version, NEW data \in ChunkList, StartBackup(n, data) PROVE CountInv'
  <2>1. /\ stage = "idle" /\ stage' = "chunk" /\ phase' = "ready" /\ sessions' = sessions + 1
        /\ UNCHANGED <<fp2ChunkDB, uncounted, recipes>> /\ job'.pos = 0
    BY <1>2 DEF StartBackup, Open, diskVars
  <2>2. sessions \in Nat /\ CountLimit = sessions * MaxChunks /\ CountLimit \in Nat
    BY <2>1, LimitFacts, BoundsAssumption DEF DirsOK, CountLimit
  <2>3. (sessions + 1) - 1 = sessions
    BY <2>2
  <2>4. CountLimit' = CountLimit
    <3>1. CountLimit' = ((sessions + 1) - 1) * MaxChunks + 0
      BY <2>1 DEF CountLimit, Counted
    <3> QED BY <2>2, <2>3, <3>1
  <2>5. \A c : Pending(c)' = {}
    BY <2>1 DEF Pending, Counted
  <2>6. sessions' > 0 /\ ~Saving' /\ CountLimit <= CountLimit
    BY <2>1, <2>2 DEF Saving
  <2> QED BY <2>1, <2>2, <2>4, <2>5, <2>6, CountFrame
<1>3. CASE Unique
  <2>1. /\ stage = "chunk" /\ stage' = "saving" /\ phase = "ready"
        /\ phase' \in {"written", "rotated"}
        /\ UNCHANGED <<fp2ChunkDB, uncounted, recipes, job, sessions>> /\ saving'.count = 1 % Wrap
    BY <1>3 DEF Unique, MoreChunks, BeginSave, WriteFits, Rotate, RotateUnopened, NeedsRotation, Arguments,
                query, diskVars
  <2>2. CountLimit' = CountLimit /\ CountLimit \in Nat /\ \A c : Pending(c)' = Pending(c)
    BY <2>1, LimitFacts DEF CountLimit, Pending, Counted
  <2>3. sessions' > 0 /\ CountLimit <= CountLimit
    BY <2>1, <2>2 DEF CountInv, Working
  <2> QED BY <2>1, <2>2, <2>3, CountFrame
<1>4. CASE SaveStep /\ WriteRotated
  <2>1. /\ stage = "saving" /\ phase = "rotated" /\ phase' = "written"
        /\ UNCHANGED <<fp2ChunkDB, uncounted, recipes, job, sessions, stage, saving>>
    BY <1>4 DEF SaveStep, WriteRotated, backupVars, diskVars
  <2>2. CountLimit' = CountLimit /\ CountLimit \in Nat /\ \A c : Pending(c)' = Pending(c)
    BY <2>1, LimitFacts DEF CountLimit, Pending, Counted
  <2>3. sessions' > 0 /\ CountLimit <= CountLimit /\ saving'.count = 1 % Wrap
    BY <2>1, <2>2 DEF CountInv, Working, Saving
  <2> QED BY <2>1, <2>2, <2>3, CountFrame
<1>5. CASE SaveDone
  <2>1. /\ stage = "saving" /\ stage' = "chunk" /\ phase = "indexed" /\ phase' = "ready"
        /\ UNCHANGED <<fp2ChunkDB, uncounted, recipes, sessions>> /\ job' = [job EXCEPT !.pos = @ + 1]
    BY <1>5 DEF SaveDone, AdvanceUsed, ChunkDone, diskVars
  <2>2. job'.pos = job.pos + 1 /\ job'.data = job.data
    BY <2>1 DEF BInv, JobOK, BackupJob, Working
  <2>3. Counted' = Counted
    BY <2>1, <2>2 DEF Counted
  <2>4. CountLimit' = CountLimit /\ CountLimit \in Nat /\ \A c : Pending(c)' = Pending(c)
    BY <2>1, <2>2, <2>3, LimitFacts DEF CountLimit, Pending
  <2>5. sessions' > 0 /\ CountLimit <= CountLimit /\ ~Saving'
    BY <2>1, <2>4 DEF CountInv, Working, Saving
  <2> QED BY <2>1, <2>4, <2>5, CountFrame
<1>6. CASE InsertMeta
  <2>1. /\ stage = "chunk" /\ stage' = "head" /\ phase' = phase /\ phase = "ready"
        /\ UNCHANGED <<fp2ChunkDB, uncounted, recipes, job, sessions>>
    BY <1>6 DEF InsertMeta, ChunkingOver, vars, objectVars, diskVars, StageOK
  <2>2. /\ CountLimit' = sessions * MaxChunks /\ sessions * MaxChunks \in Nat
        /\ CountLimit <= sessions * MaxChunks
        /\ \A c : Pending(c)' = Pending(c)
    BY <2>1, LimitFacts DEF CountLimit, Pending, Counted
  <2>3. sessions' > 0 /\ ~Saving'
    BY <2>1 DEF CountInv, Working, Saving
  <2> QED BY <2>1, <2>2, <2>3, CountFrame
<1>7. CASE UniqueDies \/ SaveFailed \/ RecipeUnopened
  <2>1. /\ UNCHANGED <<fp2ChunkDB, uncounted, recipes, sessions>>
        /\ stage' \in {"idle", "close"} /\ stage \in Working
    BY <1>7 DEF UniqueDies, SaveFailed, RecipeUnopened, Overrun, TornRotate, Torn, IndexFails,
                Ended, MoreChunks, ChunkingOver, Working, vars, diskVars
  <2> QED BY <2>1, CountRests
<1>8. CASE Close \/ CloseConfig \/ Closed
  <2>1. /\ UNCHANGED <<fp2ChunkDB, uncounted, recipes, sessions>>
        /\ stage' \in {"closing", "detected", "index", "idle"} \/ stage' = stage
        /\ stage' \in Working => stage \in Working
    BY <1>8 DEF Close, CloseConfig, Closed, BeginClose, ConfigStep, WriteConfig,
                WriteConfigUnopened, SaveLastStep, SaveLast, SaveLastUnopened, Ended, Working, backupVars, diskVars
  <2>2. stage \notin {"chunk", "saving", "head"}
    BY <1>8 DEF Close, CloseConfig, Closed, BeginClose, ConfigStep, WriteConfig,
                WriteConfigUnopened, SaveLastStep, SaveLast, SaveLastUnopened, StageOK, BInv, JobOK, Saving
  <2> QED BY <2>1, <2>2, CountRests
<1>9. CASE SaveIndex \/ IndexUnopened \/ TornIndex
  <2>1. /\ UNCHANGED <<fp2ChunkDB, uncounted, recipes, sessions>>
        /\ stage' \in {"idle", "detect"} /\ stage = "index"
    BY <1>9 DEF SaveIndex, IndexUnopened, TornIndex, AfterIndex, Ended, Open, vars, diskVars
  <2> QED BY <2>1, CountRests DEF Working
<1>10. ASSUME NEW c \in Chunk, Detect(c) PROVE CountInv'
  <2>1. /\ UNCHANGED <<fp2ChunkDB, uncounted, recipes, sessions, stage>> /\ stage = "detect"
    BY <1>10 DEF Detect, RestoreChunk, backupVars, diskVars
  <2> QED BY <2>1, CountRests
<1>11. ASSUME NEW v \in Version, StartRestore(v) \/ RestoreWithoutFile(v) PROVE CountInv'
  <2>1. /\ UNCHANGED <<fp2ChunkDB, uncounted, recipes>> /\ sessions' = sessions + 1
        /\ stage' \in {"restore", "idle"}
    BY <1>11 DEF StartRestore, RestoreWithoutFile, Open, vars, diskVars
  <2> QED BY <2>1, CountRests DEF Working
<1>12. CASE RestoreNext \/ RestoreFails \/ RestoreDone \/ Interrupted \/ Killed
  <2>1. /\ UNCHANGED <<fp2ChunkDB, uncounted, recipes, sessions>>
        /\ stage' \in {"restore", "idle", "interrupted"}
    BY <1>12 DEF RestoreNext, RestoreFails, RestoreDone, Interrupted, Killed, RestoreChunk,
                 Exit, Interrupt, Crash, TornClose, TornConfig, EmptiedConfig, Torn, Ended, vars,
                 diskVars
  <2> QED BY <2>1, CountRests DEF Working
<1> QED
  BY <1>1, <1>2, <1>3, <1>4, <1>5, <1>6, <1>7, <1>8, <1>9, <1>10, <1>11, <1>12,
     CountDuplicate, CountUncounted, CountIndexed, CountRecipe DEF BNext, SaveStep

(* In every state of every backup, and after every crash or signal, the    *)
(* count of a chunk and the inserts of it that failed are together no      *)
(* fewer than the recipe entries that name it: the chunker counts before   *)
(* the recipe is written, and the count does not wrap as long as fewer     *)
(* than Wrap chunks were met in all (BoundsAssumption).                    *)
THEOREM CountsCover == BSpec => []CountCoversReferences
<1>1. BInit => CountInv
  BY DEF BInit, Init, CountInv, Working, Saving, EmptyStore
<1>2. ProgramInv /\ ProgramInv' /\ CountInv /\ [BNext]_bvars => CountInv'
  BY CountStep DEF ProgramInv
<1>3. ProgramInv /\ CountInv => CountCoversReferences
  <2> SUFFICES ASSUME ProgramInv, CountInv, NEW c \in DOMAIN fp2ChunkDB
               PROVE  Met(c) >= Cardinality(References(c))
    BY DEF CountCoversReferences, Met
  <2>1. /\ Cardinality(References(c)) \in Nat /\ Cardinality(Pending(c)) \in Nat
        /\ Met(c) \in Nat
    BY ReferencesFinite, PendingFinite, CountType DEF ProgramInv, BInv
  <2> QED BY <2>1 DEF CountInv
<1> QED BY <1>1, <1>2, <1>3, ProgramInvariant, PTL DEF BSpec
=============================================================================
