----------------------------- MODULE FileIndex -----------------------------
(***************************************************************************)
(* The index that varSizeChunking builds of a file: a flat list of chunks  *)
(* or, with fileindex_flag 1, chunks grouped into segments and segments    *)
(* grouped into containers.  Chunks, segments and containers count from 0. *)
(*                                                                         *)
(* Whether the hash of a chunk or of a segment shows the pattern that ends *)
(* a group is a choice: a hash may have any value.                         *)
(***************************************************************************)
EXTENDS Integers, Sequences

CONSTANTS
    IndexFlag,      \* fileindex_flag: 0 flat, 1 three levels
    ChunkSize,      \* the sizes chunks have
    MinSegment,     \* MIN_SEGMENT_SIZE
    MaxSegment,     \* MAX_SEGMENT_SIZE
    MinContainer,   \* MIN_CONTAINER_SIZE
    MaxContainer,   \* MAX_CONTAINER_SIZE: 2 << 30 is negative as an int
    MaxIndexed      \* bound: chunks indexed

ASSUME IndexAssumption ==
    /\ IndexFlag \in {0, 1}
    /\ ChunkSize \subseteq Nat \ {0}
    /\ MinSegment \in Nat \ {0}
    /\ MaxSegment \in Nat
    /\ MinSegment <= MaxSegment
    /\ MinContainer \in Nat \ {0}
    /\ MaxContainer \in Int
    /\ MaxIndexed \in Nat

VARIABLES
    chunk,              \* fileindex.chunk: the chunkID of each entry
    segment,            \* fileindex.segment
    container,          \* fileindex.container
    chunknumber,        \* fileindex.chunknumber
    segmentnumber,      \* fileindex.segmentnumber
    containernumber,    \* fileindex.containernumber
    startChunkID,       \* segmentIndex.startChunkID
    startSegmentID,     \* containerIndex.startSegmentID
    segmentsize,        \* bytes counted for the open segment
    containersize,      \* bytes counted for the open container
    ended,              \* "no", or how the file ended: "cut" or "tail"
    offsets,            \* history: where in the file each chunk begins
    bytes               \* history: bytes indexed

groupVars == <<segment, container, segmentnumber, containernumber,
               startChunkID, startSegmentID, segmentsize, containersize>>
indexVars == <<chunk, chunknumber, groupVars, ended, offsets, bytes>>

-----------------------------------------------------------------------------
IndexInit ==
    /\ chunk = <<>> /\ segment = <<>> /\ container = <<>>
    /\ chunknumber = 0 /\ segmentnumber = 0 /\ containernumber = 0
    /\ startChunkID = 0 /\ startSegmentID = 0
    /\ segmentsize = 0 /\ containersize = 0
    /\ ended = "no"
    /\ offsets = <<>> /\ bytes = 0

(* Mutant: the minimum is not asked for.                                   *)
EndAtPattern(match, size, min, max) == size > max \/ match

EndOfSegment(match, size, min, max) ==
    /\ size >= min
    /\ size > max \/ match

(* chunkIndex is pushed and counted: what the branches have in common.     *)
PushChunk(size) ==
    /\ ended = "no"
    /\ chunk' = Append(chunk, chunknumber)
    /\ chunknumber' = chunknumber + 1
    /\ offsets' = Append(offsets, bytes)
    /\ bytes' = bytes + size

AddFlat ==
    /\ IndexFlag = 0
    /\ UNCHANGED <<groupVars, ended>>

StaysInSegment(size) ==
    /\ IndexFlag = 1
    /\ \E match \in BOOLEAN :
          ~EndOfSegment(match, segmentsize, MinSegment, MaxSegment)
    /\ segmentsize' = segmentsize + size
    /\ UNCHANGED <<segment, container, segmentnumber, containernumber,
                   startChunkID, startSegmentID, containersize, ended>>

(* Mutant: the next segment begins with the last chunk of this one.        *)
OverlappingSegment ==
    /\ IndexFlag = 1
    /\ \E match \in BOOLEAN :
          EndOfSegment(match, segmentsize, MinSegment, MaxSegment)
    /\ segment' = Append(segment, [segmentID |-> segmentnumber,
                                   startChunkID |-> startChunkID,
                                   endChunkID |-> chunknumber])
    /\ segmentnumber' = segmentnumber + 1
    /\ startChunkID' = chunknumber
    /\ segmentsize' = 0

(* The chunk pushed in this step is the last one of the segment.  Its size *)
(* is not added to segmentsize.                                            *)
EndSegment ==
    /\ IndexFlag = 1
    /\ \E match \in BOOLEAN :
          EndOfSegment(match, segmentsize, MinSegment, MaxSegment)
    /\ segment' = Append(segment, [segmentID |-> segmentnumber,
                                   startChunkID |-> startChunkID,
                                   endChunkID |-> chunknumber])
    /\ segmentnumber' = segmentnumber + 1
    /\ startChunkID' = chunknumber + 1
    /\ segmentsize' = 0

StaysInContainer ==
    /\ EndSegment
    /\ \E match \in BOOLEAN :
          ~EndOfSegment(match, containersize, MinContainer, MaxContainer)
    /\ containersize' = containersize + segmentsize
    /\ UNCHANGED <<container, containernumber, startSegmentID, ended>>

(* Mutant: startSegmentID is set before segmentnumber is counted.          *)
EndContainerOverlap ==
    /\ EndSegment
    /\ \E match \in BOOLEAN :
          EndOfSegment(match, containersize, MinContainer, MaxContainer)
    /\ container' = Append(container, [containerID |-> containernumber,
                                       startSegmentID |-> startSegmentID,
                                       endSegmentID |-> segmentnumber])
    /\ containernumber' = containernumber + 1
    /\ startSegmentID' = segmentnumber
    /\ containersize' = 0
    /\ UNCHANGED ended

(* Mutant: containersize is not reset.                                     *)
EndContainerNoReset ==
    /\ EndSegment
    /\ \E match \in BOOLEAN :
          EndOfSegment(match, containersize, MinContainer, MaxContainer)
    /\ container' = Append(container, [containerID |-> containernumber,
                                       startSegmentID |-> startSegmentID,
                                       endSegmentID |-> segmentnumber])
    /\ containernumber' = containernumber + 1
    /\ startSegmentID' = segmentnumber + 1
    /\ UNCHANGED <<containersize, ended>>

EndContainer ==
    /\ EndSegment
    /\ \E match \in BOOLEAN :
          EndOfSegment(match, containersize, MinContainer, MaxContainer)
    /\ container' = Append(container, [containerID |-> containernumber,
                                       startSegmentID |-> startSegmentID,
                                       endSegmentID |-> segmentnumber])
    /\ containernumber' = containernumber + 1
    /\ startSegmentID' = segmentnumber + 1
    /\ containersize' = 0
    /\ UNCHANGED ended

(* A chunk cut by the pattern or by maxChunkSize.                          *)
AddChunk(size) ==
    /\ PushChunk(size)
    /\ AddFlat \/ StaysInSegment(size) \/ StaysInContainer \/ EndContainer

(* Mutant: segmentnumber is counted after endSegmentID was set.            *)
AddFinalUncounted(size) ==
    /\ PushChunk(size)
    /\ ended' = "tail"
    /\ \/ IndexFlag = 0 /\ UNCHANGED groupVars
       \/ /\ IndexFlag = 1
          /\ segment' = Append(segment, [segmentID |-> segmentnumber,
                                         startChunkID |-> startChunkID,
                                         endChunkID |-> chunknumber + 1])
          /\ segmentnumber' = segmentnumber + 1
          /\ container' = Append(container, [containerID |-> containernumber,
                                             startSegmentID |-> startSegmentID,
                                             endSegmentID |-> segmentnumber - 1])
          /\ containernumber' = containernumber + 1
          /\ UNCHANGED <<startChunkID, startSegmentID, segmentsize, containersize>>

(* The rest of the file after the last cut.  With three levels it ends a   *)
(* segment, whose endChunkID is chunknumber after it was counted, and a    *)
(* container.                                                              *)
AddFinal(size) ==
    /\ PushChunk(size)
    /\ ended' = "tail"
    /\ \/ IndexFlag = 0 /\ UNCHANGED groupVars
       \/ /\ IndexFlag = 1
          /\ segment' = Append(segment, [segmentID |-> segmentnumber,
                                         startChunkID |-> startChunkID,
                                         endChunkID |-> chunknumber + 1])
          /\ segmentnumber' = segmentnumber + 1
          /\ container' = Append(container, [containerID |-> containernumber,
                                             startSegmentID |-> startSegmentID,
                                             endSegmentID |-> segmentnumber])
          /\ containernumber' = containernumber + 1
          /\ UNCHANGED <<startChunkID, startSegmentID, segmentsize, containersize>>

(* The file ends where a chunk was cut: there is nothing left to add, and  *)
(* nothing ends the open segment and container.                            *)
NothingLeft ==
    /\ ended = "no"
    /\ ended' = "cut"
    /\ UNCHANGED <<chunk, chunknumber, groupVars, offsets, bytes>>

(* A call of varSizeChunking on its index.                                 *)
IndexStep ==
    \/ \E size \in ChunkSize : AddChunk(size) \/ AddFinal(size)
    \/ NothingLeft

IndexTerminated == ended # "no" /\ UNCHANGED indexVars

IndexNext ==
    \/ chunknumber < MaxIndexed /\ IndexStep
    \/ chunknumber = MaxIndexed /\ NothingLeft
    \/ IndexTerminated

IndexSpec == IndexInit /\ [][IndexNext]_indexVars

-----------------------------------------------------------------------------
SegmentEntry == [segmentID : Nat, startChunkID : Nat, endChunkID : Nat]
ContainerEntry == [containerID : Nat, startSegmentID : Nat, endSegmentID : Nat]

(* The types of the index and of its counters.                             *)
IndexTypeOK ==
    /\ chunk \in Seq(Nat)
    /\ segment \in Seq(SegmentEntry)
    /\ container \in Seq(ContainerEntry)
    /\ chunknumber \in Nat /\ segmentnumber \in Nat /\ containernumber \in Nat
    /\ startChunkID \in Nat /\ startSegmentID \in Nat
    /\ segmentsize \in Nat /\ containersize \in Nat
    /\ ended \in {"no", "cut", "tail"}
    /\ offsets \in Seq(Nat)
    /\ bytes \in Nat

(* The three numbers that saveToFile writes, and up to which it and Dector *)
(* go through the vectors, are the lengths of the vectors.                 *)
NumbersMatch ==
    /\ chunknumber = Len(chunk)
    /\ segmentnumber = Len(segment)
    /\ containernumber = Len(container)

(* The file ended in a rest, which was put into a segment of its own.      *)
HasFinal == ended = "tail" /\ IndexFlag = 1

(* The first segment begins with chunk 0, each other one right behind the  *)
(* one before, the open one right behind the last; none is empty.  The     *)
(* final one counts its end differently (AddFinal).                        *)
SegmentsTile ==
    /\ \A k \in 1 .. Len(segment) :
          /\ segment[k].segmentID = k - 1
          /\ segment[k].startChunkID =
                IF k = 1 THEN 0 ELSE segment[k - 1].endChunkID + 1
          /\ segment[k].startChunkID <= segment[k].endChunkID
          /\ segment[k].endChunkID < chunknumber
                \/ (HasFinal /\ k = Len(segment) /\ segment[k].endChunkID = chunknumber)
    /\ ~HasFinal =>
          startChunkID = IF segment = <<>> THEN 0
                         ELSE segment[Len(segment)].endChunkID + 1

(* The same of containers and segments.                                    *)
ContainersTile ==
    /\ \A k \in 1 .. Len(container) :
          /\ container[k].containerID = k - 1
          /\ container[k].startSegmentID =
                IF k = 1 THEN 0 ELSE container[k - 1].endSegmentID + 1
          /\ container[k].startSegmentID <= container[k].endSegmentID
          /\ container[k].endSegmentID < segmentnumber
    /\ ~HasFinal =>
          startSegmentID = IF container = <<>> THEN 0
                           ELSE container[Len(container)].endSegmentID + 1

OffsetOf(c) == offsets[c + 1]

(* A segment that was ended by EndOfSegment has at least MinSegment bytes  *)
(* before its last chunk, and at most one chunk more than MaxSegment.      *)
SegmentSizes ==
    \A k \in 1 .. Len(segment) :
        (HasFinal => k < Len(segment)) =>
            LET size == OffsetOf(segment[k].endChunkID) - OffsetOf(segment[k].startChunkID)
            IN /\ size >= MinSegment
               /\ \E last \in ChunkSize : size <= MaxSegment + last

(* A container that was ended by EndOfSegment has at least MinContainer    *)
(* bytes before its last segment.                                          *)
ContainerSizes ==
    \A k \in 1 .. Len(container) :
        (HasFinal => k < Len(container)) =>
            OffsetOf(segment[container[k].endSegmentID + 1].startChunkID)
              - OffsetOf(segment[container[k].startSegmentID + 1].startChunkID)
            >= MinContainer

(* A file that ended in a rest has every chunk in a segment and every      *)
(* segment in a container ("final segment", "final container").  A file    *)
(* that ended at a cut need not: NothingLeft ends no group.                *)
EveryChunkGrouped ==
    HasFinal =>
        /\ \A c \in 0 .. (chunknumber - 1) :
              \E k \in 1 .. Len(segment) :
                  c \in segment[k].startChunkID .. segment[k].endChunkID
        /\ \A s \in 0 .. (segmentnumber - 1) :
              \E k \in 1 .. Len(container) :
                  s \in container[k].startSegmentID .. container[k].endSegmentID
=============================================================================
