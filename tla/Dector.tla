------------------------------ MODULE Dector ------------------------------
(***************************************************************************)
(* Dector::truetransferDector: two versions of a file are compared chunk   *)
(* by chunk.  Where they part, a window of size chunks of the old one is   *)
(* searched for the next chunks of the new one in turn; the places where   *)
(* they part and meet again are the transfer pairs, and the chunks between *)
(* are read back for their features.  Version 1 is the old one, 2 the new. *)
(*                                                                         *)
(* Nothing keeps the search inside the two vectors: it goes to chunk       *)
(* number chunknumber and further.  What is there is any fingerprint, and  *)
(* the same one all through the search.  IDs count from 0.                 *)
(***************************************************************************)
EXTENDS Integers, Sequences, FiniteSets, SequencesExt

CONSTANTS
    Fingerprint,    \* of chunks
    Known,          \* those of chunks that other files have stored before
    OldBeyond,      \* what may be read behind the end of a vector: one
    NewBeyond,      \* fingerprint or MaxWin of them
    OldVersions,    \* the versions considered: sequences of fingerprints
    NewVersions,
    MinWin,         \* minslidingWinSize
    MaxWin          \* maxslidingWinSize

ASSUME WindowAssumption ==
    /\ MinWin \in Nat \ {0} /\ MaxWin \in Nat \ {0}
    /\ MinWin <= MaxWin
    /\ Known \subseteq Fingerprint
    /\ \A b \in NewBeyond : b \in Seq(Range(b)) /\ Len(b) = MaxWin
    /\ OldVersions \subseteq Seq(Fingerprint) /\ NewVersions \subseteq Seq(Fingerprint)

VARIABLES
    old, new,           \* the fingerprints in memory: each vector and what is behind it
    n1, n2,             \* chunknumber of each version
    i1, i2,             \* i_1 and i_2
    stand1, stand2,     \* where the versions parted
    k, count,           \* place in the window, and how often it was searched
    size,               \* of the window
    flag,               \* 1: they meet again within the window, 2: not
    before, after,
    transferPair,       \* [newID, oldID]: newID is an ID of the old version
    log,                \* similar.log: a chunk of the old version and one of the new
    oldrestored,        \* IDs in oldrestoredChunkList
    newrestored,        \* IDs in newrestoredChunkList
    step                \* where truetransferDector is

indexes == <<old, new, n1, n2>>
marks == <<flag, before, after>>
outputs == <<transferPair, log, oldrestored, newrestored>>
dvars == <<indexes, i1, i2, stand1, stand2, k, count, size, marks, outputs, step>>

(* Behind the old version one chunk is read, behind the new one a window.  *)
DectorInit ==
    /\ \E v \in OldVersions, b \in OldBeyond : old = Append(v, b) /\ n1 = Len(v)
    /\ \E v \in NewVersions, b \in NewBeyond : new = v \o b /\ n2 = Len(v)
    /\ i1 = 0 /\ i2 = 0 /\ stand1 = 0 /\ stand2 = 0
    /\ k = 0 /\ count = 0 /\ size = MinWin
    /\ flag = 0 /\ before = 0 /\ after = 0
    /\ transferPair = <<>> /\ log = <<>>
    /\ oldrestored = <<>> /\ newrestored = <<>>
    /\ step = "outer"

Old(i) == old[i + 1]
New(i) == new[i + 1]

(* unique of a chunk: it was not stored when its version was chunked.      *)
OldUnique(i) == Old(i) \notin Known \cup {Old(j) : j \in 0 .. (i - 1)}
NewUnique(i) ==
    New(i) \notin Known \cup {Old(j) : j \in 0 .. (n1 - 1)} \cup {New(j) : j \in 0 .. (i - 1)}

(* Behind the vector of the new version unique is what is there: a choice. *)
Unique(i, u) == IF i < n2 THEN u = NewUnique(i) ELSE u \in BOOLEAN

Pair(i, j) == [newID |-> i, oldID |-> j]

(* The chunks strictly inside a region are asked for, and taken to be      *)
(* restored (Backup has when they are not).                                *)
Inside(from, end) ==
    IF from < end - 2 THEN [j \in 1 .. (end - 2 - from) |-> from + j] ELSE <<>>

-----------------------------------------------------------------------------
(* Mutant: the outer loop takes one chunk more of the old version.         *)
ComparingPast == step = "outer" /\ i1 <= n1 /\ i2 <= n2

(* The outer loop.                                                         *)
Comparing == step = "outer" /\ i1 < n1 /\ i2 <= n2

Advance == i1' = i1 + 1 /\ i2' = i2 + 1 /\ size' = MinWin

EqualChunks ==
    /\ Comparing
    /\ Old(i1) = New(i2)
    /\ flag # 2
    /\ Advance
    /\ UNCHANGED <<indexes, stand1, stand2, k, count, marks, outputs, step>>

(* The chunks of the region go into lists that end with the block: they    *)
(* shadow the ones whose features are taken.                               *)
EqualEndsRegion ==
    /\ Comparing
    /\ Old(i1) = New(i2)
    /\ flag = 2
    /\ transferPair' = Append(transferPair, Pair(i1 - 1, i2 - 1))
    /\ log' = Append(log, <<i1 - 1, i2 - 1>>)
    /\ stand1' = transferPair'[Len(transferPair)].newID
    /\ stand2' = transferPair'[Len(transferPair)].oldID
    /\ after' = 0 /\ flag' = 0
    /\ Advance
    /\ UNCHANGED <<indexes, k, count, before, oldrestored, newrestored, step>>

Part ==
    /\ Comparing
    /\ Old(i1) # New(i2)
    /\ stand1' = i1 /\ stand2' = i2
    /\ k' = 0 /\ count' = 0
    /\ step' = "window"
    /\ UNCHANGED <<indexes, i1, i2, size, marks, outputs>>

LoopEnds ==
    /\ step = "outer" /\ ~Comparing
    /\ step' = "features"
    /\ UNCHANGED <<indexes, i1, i2, stand1, stand2, k, count, size, marks, outputs>>

-----------------------------------------------------------------------------
(* The window.                                                             *)
Here == Old(i1 + k) = New(i2)

Meet ==
    /\ step = "window" /\ Here
    /\ i1' = i1 + k
    /\ size' = MinWin
    /\ IF flag = 2 THEN after' = 1 /\ UNCHANGED flag ELSE flag' = 1 /\ UNCHANGED after
    /\ step' = "region"
    /\ UNCHANGED <<indexes, i2, stand1, stand2, k, count, before, outputs>>

(* Mutant: the end of the old version is not looked for.                   *)
AtEndOfWindow == k = size - 1

(* The window is at its end, or the old version is.                        *)
AtEnd == i1 + k >= n1 \/ k = size - 1

Slide ==
    /\ step = "window" /\ ~Here
    /\ ~AtEnd
    /\ k' = k + 1
    /\ UNCHANGED <<indexes, i1, i2, stand1, stand2, count, size, marks, outputs, step>>

WindowEnds == step = "window" /\ ~Here /\ AtEnd

(* Mutant: the search is never given up.                                   *)
NextChunkForever ==
    /\ WindowEnds
    /\ i1' = stand1 /\ i2' = IF i2 < n2 THEN i2 + 1 ELSE i2
    /\ k' = 0 /\ count' = 0
    /\ UNCHANGED <<indexes, stand1, stand2, size, marks, outputs, step>>

NextChunk ==
    /\ WindowEnds
    /\ count + 1 < size
    /\ i1' = stand1 /\ i2' = i2 + 1
    /\ k' = 0 /\ count' = count + 1
    /\ UNCHANGED <<indexes, stand1, stand2, size, marks, outputs, step>>

(* The window was searched for size chunks.  The next one is larger, and   *)
(* begins where the new version is, which may be before stand1.            *)
GiveUp ==
    /\ WindowEnds
    /\ count + 1 >= size
    /\ i2' = i2 + 1 /\ i1' = i2 + 1
    /\ k' = 0 /\ count' = count + 1
    /\ size' = MaxWin
    /\ flag' = 2 /\ before' = 1
    /\ step' = "region"
    /\ UNCHANGED <<indexes, stand1, stand2, after, outputs>>

-----------------------------------------------------------------------------
(* What is done after the window: at most one of the four branches.        *)
AfterWindow == step = "region" /\ step' = "outer"

LogIf(u, entries) == log' = IF u THEN log \o entries ELSE log

IsRegion == flag = 1 /\ i1 # stand1 /\ i2 # stand2 /\ i1 - 1 # stand1 /\ i2 - 1 # stand2
IsPair == flag = 1 /\ ((i1 - 1 = stand1 /\ i2 - 1 = stand2) \/ (i1 = stand1 /\ i2 = stand2))
Opens == flag = 2 /\ before = 1 /\ after = 0
Closes == flag = 2 /\ after = 1

Region ==
    /\ AfterWindow /\ IsRegion
    /\ transferPair' = transferPair \o <<Pair(stand1, stand2), Pair(i1 - 1, i2 - 1)>>
    /\ \E u, v \in BOOLEAN :
          /\ Unique(stand2, u) /\ Unique(i2 - 1, v)
          /\ LogIf(u /\ v, <<<<stand1, stand2>>, <<i1 - 1, i2 - 1>>>>)
    /\ oldrestored' = oldrestored \o Inside(stand1, i1)
    /\ newrestored' = newrestored \o Inside(stand2, i2)
    /\ flag' = 0
    /\ UNCHANGED <<indexes, i1, i2, stand1, stand2, k, count, size, before, after>>

SinglePair ==
    /\ AfterWindow /\ IsPair
    /\ transferPair' = Append(transferPair, Pair(stand1, stand2))
    /\ \E u \in BOOLEAN : Unique(stand2, u) /\ LogIf(u, <<<<stand1, stand2>>>>)
    /\ flag' = 0
    /\ UNCHANGED <<indexes, i1, i2, stand1, stand2, k, count, size, before, after,
                   oldrestored, newrestored>>

(* Mutant: that a region is open is not remembered.                        *)
OpenRegionUnmarked ==
    /\ AfterWindow /\ Opens
    /\ transferPair' = Append(transferPair, Pair(stand1, stand2))
    /\ \E u \in BOOLEAN : Unique(stand2, u) /\ LogIf(u, <<<<stand1, stand2>>>>)
    /\ before' = 0
    /\ UNCHANGED <<indexes, i1, i2, stand1, stand2, k, count, size, flag, after,
                   oldrestored, newrestored>>

OpenRegion ==
    /\ AfterWindow /\ Opens
    /\ transferPair' = Append(transferPair, Pair(stand1, stand2))
    /\ \E u \in BOOLEAN : Unique(stand2, u) /\ LogIf(u, <<<<stand1, stand2>>>>)
    /\ before' = 0 /\ after' = 2
    /\ UNCHANGED <<indexes, i1, i2, stand1, stand2, k, count, size, flag,
                   oldrestored, newrestored>>

(* Mutant: the first pair of all is taken for the one that opened it.      *)
CloseRegionFromFirst ==
    LET from == transferPair[1]
    IN  /\ AfterWindow /\ Closes
        /\ transferPair' = Append(transferPair, Pair(i1 - 1, i2 - 1))
        /\ \E u \in BOOLEAN : Unique(i2 - 1, u) /\ LogIf(u, <<<<i1 - 1, i2 - 1>>>>)
        /\ stand1' = from.newID /\ stand2' = from.oldID
        /\ oldrestored' = oldrestored \o Inside(from.newID, i1)
        /\ newrestored' = newrestored \o Inside(from.oldID, i2)
        /\ after' = 0 /\ flag' = 0
        /\ UNCHANGED <<indexes, i1, i2, k, count, size, before>>

CloseRegion ==
    LET from == transferPair[Len(transferPair)]
    IN  /\ AfterWindow /\ Closes
        /\ transferPair' = Append(transferPair, Pair(i1 - 1, i2 - 1))
        /\ \E u \in BOOLEAN : Unique(i2 - 1, u) /\ LogIf(u, <<<<i1 - 1, i2 - 1>>>>)
        /\ stand1' = from.newID /\ stand2' = from.oldID
        /\ oldrestored' = oldrestored \o Inside(from.newID, i1)
        /\ newrestored' = newrestored \o Inside(from.oldID, i2)
        /\ after' = 0 /\ flag' = 0
        /\ UNCHANGED <<indexes, i1, i2, k, count, size, before>>

(* Chunks were inserted or removed only, or the search goes on.            *)
NoPair ==
    /\ AfterWindow
    /\ ~IsRegion /\ ~IsPair /\ ~Opens /\ ~Closes
    /\ UNCHANGED <<indexes, i1, i2, stand1, stand2, k, count, size, marks, outputs>>

DectorNext ==
    \/ EqualChunks \/ EqualEndsRegion \/ Part \/ LoopEnds
    \/ Meet \/ Slide \/ NextChunk \/ GiveUp
    \/ Region \/ SinglePair \/ OpenRegion \/ CloseRegion \/ NoPair

-----------------------------------------------------------------------------
PairType == [newID : Int, oldID : Int]

(* The types of the variables.  Every fingerprint that is read is one of   *)
(* the old version or the one behind it, of the new version or one of the  *)
(* MaxWin behind it.                                                       *)
DectorTypeOK ==
    /\ n1 \in Nat /\ Len(old) = n1 + 1 /\ n2 \in Nat /\ Len(new) = n2 + MaxWin
    /\ i1 \in Nat /\ i2 \in 0 .. (n2 + MaxWin)
    /\ stand1 \in Nat /\ stand2 \in 0 .. (n2 + MaxWin)
    /\ k \in 0 .. (MaxWin - 1) /\ count \in 0 .. MaxWin
    /\ size \in {MinWin, MaxWin}
    /\ flag \in {0, 1, 2} /\ before \in {0, 1} /\ after \in {0, 1, 2}
    /\ transferPair \in Seq(PairType)
    /\ step = "window" => /\ i1 = stand1 /\ i1 + k <= n1 /\ k < size
                          /\ i2 = stand2 + count /\ stand2 <= n2 /\ count < size

(* While the search for the end of a region goes on, the pair that opened  *)
(* it is the last one, so that transferPair[size - 2] is that pair when    *)
(* the region is closed, one way or the other, and a region is not opened  *)
(* inside another.                                                         *)
OpenRegionIsLast ==
    /\ step \in {"outer", "window"} =>
          /\ after # 1
          /\ flag = 2 <=> after = 2
          /\ flag = 2 => /\ transferPair # <<>>
                         /\ transferPair[Len(transferPair)].oldID < i2
    /\ (step = "region" /\ Closes) => transferPair # <<>>

(* What is behind the end of the new version looks like a chunk of the old *)
(* version.                                                                *)
FoundBeyond == \E j \in n2 .. (n2 + MaxWin - 1), i \in 0 .. n1 : New(j) = Old(i)

(* The window may run over the end of either version and start again       *)
(* behind it, but pairs name chunks of the old version, and those asked    *)
(* back are in both.  Only a fingerprint behind the new version that is    *)
(* found in the old one leads out of it, or the pair that opens a region   *)
(* at the end of the new version.                                          *)
PairsInside ==
    /\ \A p \in Range(transferPair) :
          p.newID \in 0 .. (n1 - 1) /\ p.oldID >= 0 /\ (p.oldID <= n2 \/ FoundBeyond)
    /\ \A id \in Range(oldrestored) : id \in 0 .. (n1 - 1)
    /\ \A id \in Range(newrestored) : id >= 0 /\ (id < n2 \/ FoundBeyond)

(* Regions follow one another in the new version, though not in the old    *)
(* one: no chunk of it is asked for, and its features taken, twice.        *)
NewChunksOnce ==
    \A a, b \in DOMAIN newrestored : a < b => newrestored[a] < newrestored[b]
=============================================================================
