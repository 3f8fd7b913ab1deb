-------------------------- MODULE FileIndexProofs --------------------------
(***************************************************************************)
(* Proofs about the three-level index: segments tile the chunks and        *)
(* containers tile the segments, and the groups have the sizes they        *)
(* should, for all sizes of chunks and groups and files of any length.     *)
(***************************************************************************)
EXTENDS FileIndex, TLAPS

(* Where in the file the open segment begins. *)
OpenAt == IF startChunkID < chunknumber THEN OffsetOf(startChunkID) ELSE bytes

(* segmentsize is what the open segment has, so that EndOfSegment judges   *)
(* the segment by its size.                                                *)
OpenSegment ==
    ended = "no" /\ IndexFlag = 1 =>
        /\ startChunkID <= chunknumber
        /\ segmentsize = bytes - OpenAt
        /\ segmentsize = 0 \/ \E last \in ChunkSize : segmentsize <= MaxSegment + last

(* containersize counts no more than the closed segments of the open       *)
(* container have.                                                         *)
OpenContainer ==
    ended = "no" /\ IndexFlag = 1 =>
        /\ startSegmentID <= segmentnumber
        /\ IF startSegmentID = segmentnumber THEN containersize = 0
           ELSE containersize <= OpenAt - OffsetOf(segment[startSegmentID + 1].startChunkID)

(* Without three levels there are no groups. *)
FlatHasNone == IndexFlag = 0 => segment = <<>> /\ container = <<>> /\ startChunkID = 0 /\ startSegmentID = 0

(* Segments that EndOfSegment ended lie within the chunks. *)
Lengths == NumbersMatch /\ Len(offsets) = chunknumber

IndexInv ==
    /\ IndexTypeOK
    /\ Lengths
    /\ FlatHasNone
    /\ SegmentsTile
    /\ ContainersTile
    /\ OpenSegment
    /\ OpenContainer
    /\ SegmentSizes
    /\ ContainerSizes

(* Appending keeps what a sequence has and adds one element.               *)
LEMMA AppendFacts ==
    ASSUME NEW S, NEW s \in Seq(S), NEW e \in S
    PROVE  /\ Append(s, e) \in Seq(S)
           /\ Len(Append(s, e)) = Len(s) + 1
           /\ \A k \in 1 .. Len(s) : Append(s, e)[k] = s[k]
           /\ Append(s, e)[Len(s) + 1] = e
           /\ Append(s, e) # <<>>
  OBVIOUS

(* The empty index satisfies the invariant.                                *)
LEMMA IndexInitInv == IndexInit => IndexInv
  <1> SUFFICES ASSUME IndexInit PROVE IndexInv
    OBVIOUS
  <1> USE IndexAssumption DEF IndexInit
  <1>1. IndexTypeOK /\ Lengths /\ FlatHasNone
    BY DEF IndexTypeOK, Lengths, NumbersMatch, FlatHasNone
  <1>2. SegmentsTile /\ ContainersTile /\ SegmentSizes /\ ContainerSizes
    BY DEF SegmentsTile, ContainersTile, SegmentSizes, ContainerSizes, HasFinal
  <1>3. OpenSegment /\ OpenContainer
    BY DEF OpenSegment, OpenContainer, OpenAt
  <1> QED
    BY <1>1, <1>2, <1>3 DEF IndexInv

-----------------------------------------------------------------------------
(* What PushChunk does to the lists: old chunks keep their places, the new *)
(* one has the offset of the bytes before it.                              *)
PushedFacts(size) ==
    /\ chunk' \in Seq(Nat) /\ Len(chunk') = Len(chunk) + 1
    /\ offsets' \in Seq(Nat) /\ Len(offsets') = chunknumber + 1
    /\ chunknumber' = chunknumber + 1
    /\ chunknumber \in Nat
    /\ bytes \in Nat /\ bytes' = bytes + size /\ size \in Nat
    /\ ended = "no"
    /\ \A c \in 0 .. (chunknumber - 1) : offsets'[c + 1] = offsets[c + 1]
    /\ \A c \in 0 .. (chunknumber - 1) : offsets[c + 1] \in Nat
    /\ offsets'[chunknumber + 1] = bytes

(* Pushing a chunk keeps the entries there are and adds one at the end.    *)
LEMMA Pushed ==
    ASSUME IndexInv, NEW size \in ChunkSize, PushChunk(size)
    PROVE  PushedFacts(size)
  <1> USE IndexAssumption DEF IndexInv, IndexTypeOK, Lengths, NumbersMatch, PushChunk
  <1>1. /\ chunk' \in Seq(Nat) /\ Len(chunk') = Len(chunk) + 1
    BY AppendFacts
  <1>2. /\ offsets' \in Seq(Nat) /\ Len(offsets') = chunknumber + 1
        /\ \A k \in 1 .. chunknumber : offsets'[k] = offsets[k]
        /\ offsets'[chunknumber + 1] = bytes
    BY AppendFacts
  <1>3. size \in Nat
    OBVIOUS
  <1>4. \A c \in 0 .. (chunknumber - 1) : c + 1 \in 1 .. chunknumber
    OBVIOUS
  <1>5. \A c \in 0 .. (chunknumber - 1) : offsets'[c + 1] = offsets[c + 1] /\ offsets[c + 1] \in Nat
    BY <1>2, <1>4
  <1> QED
    BY <1>1, <1>2, <1>3, <1>5 DEF PushedFacts

(* Before the file ends, the segments lie within the chunks and the        *)
(* containers within the segments.                                         *)
WithinFacts ==
    /\ \A k \in 1 .. Len(segment) :
          /\ segment[k] \in SegmentEntry
          /\ segment[k].startChunkID \in 0 .. (chunknumber - 1)
          /\ segment[k].endChunkID \in 0 .. (chunknumber - 1)
    /\ \A k \in 1 .. Len(container) :
          /\ container[k] \in ContainerEntry
          /\ container[k].startSegmentID + 1 \in 1 .. Len(segment)
          /\ container[k].endSegmentID + 1 \in 1 .. Len(segment)

(* The ends of segments and containers are places in the lists below them. *)
LEMMA Within ==
    ASSUME IndexInv, ended = "no"
    PROVE  WithinFacts
  <1> USE DEF IndexInv, IndexTypeOK
  <1>1. ASSUME NEW k \in 1 .. Len(segment)
        PROVE  /\ segment[k] \in SegmentEntry
               /\ segment[k].startChunkID \in 0 .. (chunknumber - 1)
               /\ segment[k].endChunkID \in 0 .. (chunknumber - 1)
    <2>1. segment[k] \in SegmentEntry
      OBVIOUS
    <2>2. segment[k].startChunkID \in Nat /\ segment[k].endChunkID \in Nat
      BY <2>1 DEF SegmentEntry
    <2>3. segment[k].startChunkID <= segment[k].endChunkID /\ segment[k].endChunkID < chunknumber
      BY DEF SegmentsTile, HasFinal
    <2> QED
      BY <2>1, <2>2, <2>3
  <1>2. ASSUME NEW k \in 1 .. Len(container)
        PROVE  /\ container[k] \in ContainerEntry
               /\ container[k].startSegmentID + 1 \in 1 .. Len(segment)
               /\ container[k].endSegmentID + 1 \in 1 .. Len(segment)
    <2>1. container[k] \in ContainerEntry
      OBVIOUS
    <2>2. container[k].startSegmentID \in Nat /\ container[k].endSegmentID \in Nat
      BY <2>1 DEF ContainerEntry
    <2>3. container[k].startSegmentID <= container[k].endSegmentID /\ container[k].endSegmentID < segmentnumber
      BY DEF ContainersTile
    <2> QED
      BY <2>1, <2>2, <2>3 DEF Lengths, NumbersMatch
  <1> QED
    BY <1>1, <1>2 DEF WithinFacts

(* Adding a chunk that leaves the groups alone, or extends the open        *)
(* segment, keeps the invariant.                                           *)
LEMMA FlatInv ==
    ASSUME IndexInv, NEW size \in ChunkSize, PushChunk(size),
           IndexFlag = 0, UNCHANGED groupVars, ended' \in {"no", "tail"}
    PROVE  IndexInv'
  <1> USE Pushed, IndexAssumption DEF groupVars, PushedFacts
  <1>1. segment = <<>> /\ container = <<>> /\ startChunkID = 0 /\ startSegmentID = 0
    BY DEF IndexInv, FlatHasNone
  <1>2. IndexTypeOK' /\ Lengths' /\ FlatHasNone'
    BY <1>1 DEF IndexInv, IndexTypeOK, Lengths, NumbersMatch, FlatHasNone
  <1>3. SegmentsTile' /\ ContainersTile' /\ SegmentSizes' /\ ContainerSizes'
    BY <1>1 DEF SegmentsTile, ContainersTile, SegmentSizes, ContainerSizes
  <1>4. OpenSegment' /\ OpenContainer'
    BY DEF OpenSegment, OpenContainer
  <1> QED
    BY <1>2, <1>3, <1>4 DEF IndexInv

(* A chunk that does not end the open segment keeps the invariant.         *)
LEMMA StaysInv ==
    ASSUME IndexInv, NEW size \in ChunkSize, PushChunk(size), StaysInSegment(size)
    PROVE  IndexInv'
  <1> USE IndexAssumption
  <1> USE DEF StaysInSegment, PushedFacts, WithinFacts
  <1>p. PushedFacts(size)
    BY Pushed
  <1>t. IndexTypeOK
    BY DEF IndexInv
  <1>1. IndexTypeOK' /\ Lengths' /\ FlatHasNone'
    BY <1>p DEF IndexInv, IndexTypeOK, Lengths, NumbersMatch, FlatHasNone
  <1>w. WithinFacts
    BY <1>p, Within DEF PushedFacts
  <1>2. SegmentsTile'
    <2>1. ASSUME NEW k \in 1 .. Len(segment)
          PROVE  segment[k].endChunkID < chunknumber'
      <3>1. segment[k].endChunkID \in 0 .. (chunknumber - 1)
        BY <1>w
      <3>2. chunknumber' = chunknumber + 1 /\ chunknumber \in Nat
        BY <1>p
      <3> HIDE DEF StaysInSegment, PushedFacts, WithinFacts
      <3> QED
        BY <3>1, <3>2
    <2> QED
      BY <1>p, <2>1 DEF IndexInv, SegmentsTile, HasFinal
  <1>3. ContainersTile'
    BY <1>p DEF IndexInv, ContainersTile, HasFinal
  <1>o. startChunkID <= chunknumber /\ OpenAt' = OpenAt /\ OpenAt \in Nat
    <2>1. startChunkID <= chunknumber
      BY <1>p DEF IndexInv, OpenSegment
    <2>2. CASE startChunkID < chunknumber
      <3>1. startChunkID \in 0 .. (chunknumber - 1)
        BY <1>p, <1>t, <2>2 DEF IndexTypeOK
      <3> QED
        BY <1>p, <3>1, <2>1, <2>2 DEF OpenAt, OffsetOf
    <2>3. CASE startChunkID = chunknumber
      BY <1>p, <2>3 DEF OpenAt, OffsetOf
    <2> QED
      BY <1>p, <1>t, <2>1, <2>2, <2>3 DEF IndexTypeOK
  <1>4. OpenSegment'
    <2>1. segmentsize = bytes - OpenAt
      BY <1>p DEF IndexInv, OpenSegment
    <2>4. segmentsize <= MaxSegment
      BY <1>t DEF EndOfSegment, IndexTypeOK
    <2>5. segmentsize' <= MaxSegment + size
      BY <1>p, <1>t, <2>4 DEF IndexTypeOK
    <2>6. segmentsize' = bytes' - OpenAt'
      BY <1>p, <1>t, <2>1, <1>o DEF IndexTypeOK
    <2>7. startChunkID' <= chunknumber'
      BY <1>p, <1>t, <1>o DEF IndexTypeOK
    <2> QED
      BY <2>5, <2>6, <2>7 DEF OpenSegment
  <1>5. OpenContainer'
    <2>4. startSegmentID # segmentnumber => startSegmentID + 1 \in 1 .. Len(segment)
      BY <1>p, <1>t DEF IndexInv, OpenContainer, IndexTypeOK, Lengths, NumbersMatch
    <2> QED
      BY <1>p, <1>o, <1>w, <2>4 DEF IndexInv, OpenContainer, OffsetOf
  <1>6. SegmentSizes'
    BY <1>p, <1>w DEF IndexInv, SegmentSizes, HasFinal, OffsetOf
  <1>7. ContainerSizes'
    BY <1>p, <1>w DEF IndexInv, ContainerSizes, HasFinal, OffsetOf
  <1> QED
    BY <1>1, <1>2, <1>3, <1>4, <1>5, <1>6, <1>7 DEF IndexInv

-----------------------------------------------------------------------------
(* The segment that EndSegment adds, among the old ones.                   *)
SegmentAdded(last) ==
    /\ segment' \in Seq(SegmentEntry)
    /\ Len(segment') = segmentnumber + 1 /\ Len(segment) = segmentnumber
    /\ segmentnumber \in Nat /\ segmentnumber' = segmentnumber + 1
    /\ \A k \in 1 .. segmentnumber : segment'[k] = segment[k]
    /\ segment'[segmentnumber + 1].segmentID = segmentnumber
    /\ segment'[segmentnumber + 1].startChunkID = startChunkID
    /\ segment'[segmentnumber + 1].endChunkID = last
    /\ segment' # <<>>

(* Ending a segment keeps the segments there are and adds one.             *)
LEMMA AddedSegment ==
    ASSUME IndexInv, NEW last \in Nat, segmentnumber' = segmentnumber + 1,
           segment' = Append(segment, [segmentID |-> segmentnumber,
                                       startChunkID |-> startChunkID,
                                       endChunkID |-> last])
    PROVE  SegmentAdded(last)
  <1> DEFINE e == [segmentID |-> segmentnumber, startChunkID |-> startChunkID, endChunkID |-> last]
  <1>1. /\ segment \in Seq(SegmentEntry) /\ segmentnumber \in Nat
        /\ Len(segment) = segmentnumber /\ startChunkID \in Nat
    BY DEF IndexInv, IndexTypeOK, Lengths, NumbersMatch
  <1>2. e \in SegmentEntry
    BY <1>1 DEF SegmentEntry
  <1>3. e.segmentID = segmentnumber /\ e.startChunkID = startChunkID /\ e.endChunkID = last
    OBVIOUS
  <1> HIDE DEF e
  <1>4. segment' = Append(segment, e)
    BY DEF e
  <1> QED
    BY <1>1, <1>2, <1>3, <1>4, AppendFacts DEF SegmentAdded

(* Ending a segment keeps the conjuncts about segments: EndOfSegment       *)
(* judged it by segmentsize, which is what its chunks but the last have.   *)
LEMMA EndSegmentInv ==
    ASSUME IndexInv, NEW size \in ChunkSize, PushChunk(size), EndSegment, UNCHANGED ended
    PROVE  /\ SegmentsTile' /\ OpenSegment' /\ SegmentSizes'
           /\ PushedFacts(size) /\ WithinFacts /\ SegmentAdded(chunknumber)
           /\ startChunkID' = chunknumber + 1 /\ OpenAt' = bytes + size
           /\ segmentsize' = 0 /\ segmentsize = bytes - OpenAt /\ segmentsize \in Nat
           /\ startChunkID \in 0 .. (chunknumber - 1) /\ OpenAt = offsets[startChunkID + 1]
           /\ IndexFlag = 1 /\ ~HasFinal' /\ ~HasFinal
  <1>p. PushedFacts(size)
    BY Pushed
  <1>c. /\ chunknumber \in Nat /\ chunknumber' = chunknumber + 1 /\ ended = "no"
        /\ bytes \in Nat /\ size \in Nat /\ bytes' = bytes + size
        /\ offsets'[chunknumber + 1] = bytes
    BY <1>p DEF PushedFacts
  <1>w. WithinFacts
    BY <1>c, Within
  <1>a. SegmentAdded(chunknumber)
    BY <1>c, AddedSegment DEF EndSegment
  <1>f. IndexFlag = 1 /\ ~HasFinal' /\ ~HasFinal
    BY <1>c DEF EndSegment, HasFinal
  <1>t. startChunkID \in Nat /\ segmentsize \in Nat
    BY DEF IndexInv, IndexTypeOK
  <1>e. segmentsize >= MinSegment
    BY DEF EndSegment, EndOfSegment
  <1>1. startChunkID' = chunknumber + 1 /\ segmentsize' = 0
    BY DEF EndSegment
  <1>2. /\ startChunkID <= chunknumber
        /\ segmentsize = bytes - OpenAt
        /\ segmentsize = 0 \/ \E last \in ChunkSize : segmentsize <= MaxSegment + last
    BY <1>c, <1>f DEF IndexInv, OpenSegment
  <1>3. startChunkID \in 0 .. (chunknumber - 1) /\ OpenAt = offsets[startChunkID + 1]
    <2>1. segmentsize # 0
      BY <1>e, <1>t, IndexAssumption
    <2>2. startChunkID # chunknumber
      BY <1>c, <1>2, <2>1 DEF OpenAt
    <2>3. startChunkID < chunknumber
      BY <1>c, <1>t, <1>2, <2>2
    <2> QED
      BY <1>c, <1>t, <2>3 DEF OpenAt, OffsetOf
  <1>4. OpenAt' = bytes + size
    BY <1>c, <1>1 DEF OpenAt
  <1>5. SegmentsTile'
    <2>1. ASSUME NEW k \in 1 .. segmentnumber
          PROVE  /\ segment'[k].segmentID = k - 1
                 /\ segment'[k].startChunkID =
                       IF k = 1 THEN 0 ELSE segment'[k - 1].endChunkID + 1
                 /\ segment'[k].startChunkID <= segment'[k].endChunkID
                 /\ segment'[k].endChunkID < chunknumber'
      <3>1. segment'[k] = segment[k] /\ (k # 1 => segment'[k - 1] = segment[k - 1])
        BY <1>a DEF SegmentAdded
      <3>2. segment[k].endChunkID \in 0 .. (chunknumber - 1)
        BY <1>a, <1>w DEF SegmentAdded, WithinFacts
      <3>3. segment[k].endChunkID < chunknumber'
        BY <1>c, <3>2
      <3> QED
        BY <1>a, <3>1, <3>3 DEF IndexInv, SegmentsTile, SegmentAdded
    <2>2. startChunkID = IF segmentnumber + 1 = 1 THEN 0 ELSE segment'[segmentnumber].endChunkID + 1
      <3>1. startChunkID = IF segment = <<>> THEN 0 ELSE segment[Len(segment)].endChunkID + 1
        BY <1>f DEF IndexInv, SegmentsTile
      <3>2. segment = <<>> <=> segmentnumber = 0
        BY <1>a DEF SegmentAdded, IndexInv, IndexTypeOK
      <3> QED
        BY <1>a, <3>1, <3>2 DEF SegmentAdded
    <2>3. startChunkID <= chunknumber /\ chunknumber < chunknumber'
      BY <1>c, <1>2
    <2>4. startChunkID' = segment'[Len(segment')].endChunkID + 1
      BY <1>a, <1>1 DEF SegmentAdded
    <2>5. \A k \in 1 .. Len(segment') : k \in 1 .. segmentnumber \/ k = segmentnumber + 1
      BY <1>a DEF SegmentAdded
    <2>6. \A k \in 1 .. Len(segment') :
              /\ segment'[k].segmentID = k - 1
              /\ segment'[k].startChunkID =
                    IF k = 1 THEN 0 ELSE segment'[k - 1].endChunkID + 1
              /\ segment'[k].startChunkID <= segment'[k].endChunkID
              /\ segment'[k].endChunkID < chunknumber'
      <3> SUFFICES ASSUME NEW k \in 1 .. Len(segment')
                   PROVE  /\ segment'[k].segmentID = k - 1
                          /\ segment'[k].startChunkID =
                                IF k = 1 THEN 0 ELSE segment'[k - 1].endChunkID + 1
                          /\ segment'[k].startChunkID <= segment'[k].endChunkID
                          /\ segment'[k].endChunkID < chunknumber'
        OBVIOUS
      <3>1. CASE k \in 1 .. segmentnumber
        BY <3>1, <2>1
      <3>2. CASE k = segmentnumber + 1
        BY <1>a, <2>2, <2>3, <3>2 DEF SegmentAdded
      <3> QED
        BY <2>5, <3>1, <3>2
    <2> QED
      BY <1>a, <2>4, <2>6 DEF SegmentsTile, SegmentAdded
  <1>6. OpenSegment'
    <2>1. startChunkID' <= chunknumber' /\ segmentsize' = bytes' - OpenAt'
      BY <1>c, <1>1, <1>4
    <2> QED
      BY <1>1, <2>1 DEF OpenSegment
  <1>7. SegmentSizes'
    <2> SUFFICES ASSUME NEW k \in 1 .. Len(segment')
                 PROVE  /\ offsets'[segment'[k].endChunkID + 1] - offsets'[segment'[k].startChunkID + 1] >= MinSegment
                        /\ \E last \in ChunkSize :
                              offsets'[segment'[k].endChunkID + 1] - offsets'[segment'[k].startChunkID + 1]
                                <= MaxSegment + last
      BY DEF SegmentSizes, OffsetOf
    <2>1. CASE k \in 1 .. segmentnumber
      <3>1. segment'[k] = segment[k]
        BY <1>a, <2>1 DEF SegmentAdded
      <3>2. segment[k].startChunkID \in 0 .. (chunknumber - 1) /\ segment[k].endChunkID \in 0 .. (chunknumber - 1)
        BY <1>a, <1>w, <2>1 DEF SegmentAdded, WithinFacts
      <3>3. /\ offsets'[segment[k].startChunkID + 1] = offsets[segment[k].startChunkID + 1]
            /\ offsets'[segment[k].endChunkID + 1] = offsets[segment[k].endChunkID + 1]
        BY <1>p, <3>2 DEF PushedFacts
      <3>4. /\ offsets[segment[k].endChunkID + 1] - offsets[segment[k].startChunkID + 1] >= MinSegment
            /\ \E last \in ChunkSize :
                 offsets[segment[k].endChunkID + 1] - offsets[segment[k].startChunkID + 1]
                   <= MaxSegment + last
        BY <1>a, <1>f, <2>1 DEF IndexInv, SegmentSizes, OffsetOf, SegmentAdded
      <3> QED
        BY <3>1, <3>3, <3>4
    <2>2. CASE k = segmentnumber + 1
      <3>1. offsets'[segment'[k].endChunkID + 1] = bytes
        BY <1>a, <1>c, <2>2 DEF SegmentAdded
      <3>2. offsets'[segment'[k].startChunkID + 1] = OpenAt
        BY <1>a, <1>p, <1>3, <2>2 DEF SegmentAdded, PushedFacts
      <3>3. segmentsize # 0
        BY <1>e, <1>t, IndexAssumption
      <3> QED
        BY <3>1, <3>2, <3>3, <1>2, <1>e
    <2> QED
      BY <1>a, <2>1, <2>2 DEF SegmentAdded
  <1> QED
    BY <1>p, <1>w, <1>a, <1>f, <1>t, <1>1, <1>2, <1>3, <1>4, <1>5, <1>6, <1>7

(* c bytes counted of what lies between x and o; now o moves to b + z and  *)
(* b - o is counted.                                                       *)
LEMMA CountedGrows ==
    ASSUME NEW c \in Nat, NEW o \in Nat, NEW x \in Nat, NEW b \in Nat, NEW z \in Nat,
           c <= o - x
    PROVE  c + (b - o) <= (b + z) - x
  OBVIOUS

(* Old containers keep their sizes when a segment is added.                *)
LEMMA OldContainers ==
    ASSUME IndexInv, NEW size \in ChunkSize, PushedFacts(size), WithinFacts,
           NEW last \in Nat, SegmentAdded(last), NEW k \in 1 .. Len(container)
    PROVE  /\ segment'[container[k].endSegmentID + 1] = segment[container[k].endSegmentID + 1]
           /\ segment'[container[k].startSegmentID + 1] = segment[container[k].startSegmentID + 1]
           /\ offsets'[segment[container[k].endSegmentID + 1].startChunkID + 1]
                - offsets'[segment[container[k].startSegmentID + 1].startChunkID + 1]
              >= MinContainer
  <1>1. /\ container[k].endSegmentID + 1 \in 1 .. segmentnumber
        /\ container[k].startSegmentID + 1 \in 1 .. segmentnumber
    BY DEF WithinFacts, SegmentAdded
  <1>2. /\ segment'[container[k].endSegmentID + 1] = segment[container[k].endSegmentID + 1]
        /\ segment'[container[k].startSegmentID + 1] = segment[container[k].startSegmentID + 1]
        /\ segment[container[k].endSegmentID + 1].startChunkID \in 0 .. (chunknumber - 1)
        /\ segment[container[k].startSegmentID + 1].startChunkID \in 0 .. (chunknumber - 1)
    BY <1>1 DEF WithinFacts, SegmentAdded
  <1>3. offsets[segment[container[k].endSegmentID + 1].startChunkID + 1]
          - offsets[segment[container[k].startSegmentID + 1].startChunkID + 1] >= MinContainer
    BY DEF IndexInv, ContainerSizes, OffsetOf, HasFinal, PushedFacts
  <1>4. /\ offsets'[segment[container[k].endSegmentID + 1].startChunkID + 1]
            = offsets[segment[container[k].endSegmentID + 1].startChunkID + 1]
        /\ offsets'[segment[container[k].startSegmentID + 1].startChunkID + 1]
            = offsets[segment[container[k].startSegmentID + 1].startChunkID + 1]
    BY <1>2 DEF PushedFacts
  <1> QED
    BY <1>2, <1>3, <1>4

(* Ending a segment inside a container.                                    *)
LEMMA StaysInContainerInv ==
    ASSUME IndexInv, NEW size \in ChunkSize, PushChunk(size), StaysInContainer
    PROVE  IndexInv'
  <1>s. /\ EndSegment /\ UNCHANGED ended
        /\ container' = container /\ containernumber' = containernumber
        /\ startSegmentID' = startSegmentID
        /\ containersize' = containersize + segmentsize
    BY DEF StaysInContainer
  <1>e. /\ SegmentsTile' /\ OpenSegment' /\ SegmentSizes'
        /\ PushedFacts(size) /\ WithinFacts /\ SegmentAdded(chunknumber)
        /\ startChunkID' = chunknumber + 1 /\ OpenAt' = bytes + size
        /\ segmentsize' = 0 /\ segmentsize = bytes - OpenAt /\ segmentsize \in Nat
        /\ startChunkID \in 0 .. (chunknumber - 1) /\ OpenAt = offsets[startChunkID + 1]
        /\ IndexFlag = 1 /\ ~HasFinal' /\ ~HasFinal
    BY <1>s, EndSegmentInv
  <1>t. /\ containersize \in Nat /\ startSegmentID \in Nat /\ container \in Seq(ContainerEntry)
        /\ containernumber \in Nat
    BY DEF IndexInv, IndexTypeOK
  <1>n. /\ bytes \in Nat /\ size \in Nat /\ ended = "no" /\ chunknumber \in Nat
        /\ offsets[startChunkID + 1] \in Nat
        /\ offsets'[startChunkID + 1] = offsets[startChunkID + 1]
    BY <1>e DEF PushedFacts
  <1>1. IndexTypeOK' /\ Lengths' /\ FlatHasNone'
    <2>1. /\ chunk' \in Seq(Nat) /\ offsets' \in Seq(Nat) /\ chunknumber' \in Nat /\ bytes' \in Nat
          /\ Len(chunk') = Len(chunk) + 1 /\ Len(offsets') = chunknumber + 1
          /\ chunknumber' = chunknumber + 1 /\ startChunkID' \in Nat
      BY <1>e, <1>n DEF PushedFacts
    <2>2. /\ segment' \in Seq(SegmentEntry) /\ segmentnumber' \in Nat
          /\ Len(segment') = segmentnumber'
      BY <1>e DEF SegmentAdded
    <2>3. containersize' \in Nat /\ ended' = "no"
      BY <1>s, <1>e, <1>t, <1>n
    <2>4. IndexTypeOK'
      BY <1>s, <1>e, <1>t, <2>1, <2>2, <2>3 DEF IndexTypeOK
    <2>5. Lengths'
      BY <1>s, <2>1, <2>2 DEF IndexInv, Lengths, NumbersMatch
    <2> QED
      BY <1>e, <2>4, <2>5 DEF FlatHasNone
  <1>2. ContainersTile'
    <2>1. ASSUME NEW k \in 1 .. Len(container)
          PROVE  container[k].endSegmentID < segmentnumber'
      <3>1. container[k].endSegmentID < segmentnumber /\ container[k] \in ContainerEntry
        BY <1>t DEF IndexInv, ContainersTile
      <3> QED
        BY <1>e, <3>1 DEF SegmentAdded, ContainerEntry
    <2> QED
      BY <1>s, <1>e, <2>1 DEF IndexInv, ContainersTile
  <1>o. startSegmentID <= segmentnumber
    BY <1>e, <1>n DEF IndexInv, OpenContainer
  <1>3. OpenContainer'
    <2>1. startSegmentID' # segmentnumber' /\ startSegmentID' <= segmentnumber'
      BY <1>s, <1>e, <1>t, <1>o DEF SegmentAdded
    <2>2. containersize' <= OpenAt' - offsets'[segment'[startSegmentID + 1].startChunkID + 1]
      <3>1. CASE startSegmentID = segmentnumber
        <4>1. containersize = 0
          BY <1>e, <1>n, <3>1 DEF IndexInv, OpenContainer
        <4>2. segment'[startSegmentID + 1].startChunkID = startChunkID
          BY <1>e, <3>1 DEF SegmentAdded
        <4> QED
          BY <1>s, <1>e, <1>n, <4>1, <4>2
      <3>2. CASE startSegmentID # segmentnumber
        <4>1. containersize <= OpenAt - offsets[segment[startSegmentID + 1].startChunkID + 1]
          BY <1>e, <1>n, <3>2 DEF IndexInv, OpenContainer, OffsetOf
        <4>2. startSegmentID + 1 \in 1 .. segmentnumber
          BY <1>e, <1>t, <1>o, <3>2 DEF SegmentAdded
        <4>3. segment'[startSegmentID + 1] = segment[startSegmentID + 1]
          BY <1>e, <4>2 DEF SegmentAdded
        <4>4. segment[startSegmentID + 1].startChunkID \in 0 .. (chunknumber - 1)
          BY <1>e, <4>2 DEF SegmentAdded, WithinFacts
        <4>5. /\ offsets'[segment[startSegmentID + 1].startChunkID + 1]
                  = offsets[segment[startSegmentID + 1].startChunkID + 1]
              /\ offsets[segment[startSegmentID + 1].startChunkID + 1] \in Nat
          BY <1>e, <4>4 DEF PushedFacts
        <4>6. containersize' <= OpenAt' - offsets[segment[startSegmentID + 1].startChunkID + 1]
          <5>1. containersize' = containersize + (bytes - OpenAt) /\ OpenAt' = bytes + size
            BY <1>s, <1>e
          <5>2. OpenAt \in Nat
            BY <1>e, <1>n
          <5> QED
            BY <5>1, <5>2, <1>n, <1>t, <4>1, <4>5, CountedGrows
        <4> QED
          BY <4>3, <4>5, <4>6
      <3> QED
        BY <3>1, <3>2
    <2> QED
      BY <1>s, <2>1, <2>2 DEF OpenContainer, OffsetOf
  <1>4. ContainerSizes'
    <2> SUFFICES ASSUME NEW k \in 1 .. Len(container)
                 PROVE  offsets'[segment'[container[k].endSegmentID + 1].startChunkID + 1]
                          - offsets'[segment'[container[k].startSegmentID + 1].startChunkID + 1]
                        >= MinContainer
      BY <1>s DEF ContainerSizes, OffsetOf
    <2> QED
      BY <1>e, <1>n, OldContainers
  <1> QED
    BY <1>1, <1>2, <1>3, <1>4, <1>e DEF IndexInv

(* The container that ends with the segment segmentnumber, among the old   *)
(* ones.                                                                   *)
ContainerAdded ==
    /\ container' \in Seq(ContainerEntry)
    /\ Len(container') = containernumber + 1 /\ Len(container) = containernumber
    /\ containernumber \in Nat /\ containernumber' = containernumber + 1
    /\ \A k \in 1 .. containernumber : container'[k] = container[k]
    /\ container'[containernumber + 1].containerID = containernumber
    /\ container'[containernumber + 1].startSegmentID = startSegmentID
    /\ container'[containernumber + 1].endSegmentID = segmentnumber
    /\ container' # <<>>

(* Ending a container keeps the containers there are and adds one.         *)
LEMMA AddedContainer ==
    ASSUME IndexInv, containernumber' = containernumber + 1,
           container' = Append(container, [containerID |-> containernumber,
                                           startSegmentID |-> startSegmentID,
                                           endSegmentID |-> segmentnumber])
    PROVE  ContainerAdded
  <1> DEFINE e == [containerID |-> containernumber, startSegmentID |-> startSegmentID,
                   endSegmentID |-> segmentnumber]
  <1>1. /\ container \in Seq(ContainerEntry) /\ containernumber \in Nat
        /\ Len(container) = containernumber /\ startSegmentID \in Nat /\ segmentnumber \in Nat
    BY DEF IndexInv, IndexTypeOK, Lengths, NumbersMatch
  <1>2. e \in ContainerEntry
    BY <1>1 DEF ContainerEntry
  <1>3. e.containerID = containernumber /\ e.startSegmentID = startSegmentID
        /\ e.endSegmentID = segmentnumber
    OBVIOUS
  <1> HIDE DEF e
  <1>4. container' = Append(container, e)
    BY DEF e
  <1> QED
    BY <1>1, <1>2, <1>3, <1>4, AppendFacts DEF ContainerAdded

(* The containers still tile the segments when one is added that ends with *)
(* the segment added in the same step.                                     *)
LEMMA ContainersStillTile ==
    ASSUME IndexInv, ~HasFinal, NEW last \in Nat, SegmentAdded(last), ContainerAdded,
           startSegmentID <= segmentnumber
    PROVE  \A k \in 1 .. Len(container') :
              /\ container'[k].containerID = k - 1
              /\ container'[k].startSegmentID =
                    IF k = 1 THEN 0 ELSE container'[k - 1].endSegmentID + 1
              /\ container'[k].startSegmentID <= container'[k].endSegmentID
              /\ container'[k].endSegmentID < segmentnumber'
  <1> SUFFICES ASSUME NEW k \in 1 .. Len(container')
               PROVE  /\ container'[k].containerID = k - 1
                      /\ container'[k].startSegmentID =
                            IF k = 1 THEN 0 ELSE container'[k - 1].endSegmentID + 1
                      /\ container'[k].startSegmentID <= container'[k].endSegmentID
                      /\ container'[k].endSegmentID < segmentnumber'
    OBVIOUS
  <1>t. container \in Seq(ContainerEntry) /\ Len(container) = containernumber
    BY DEF IndexInv, IndexTypeOK, ContainerAdded
  <1>1. CASE k \in 1 .. containernumber
    <2>1. container'[k] = container[k] /\ (k # 1 => container'[k - 1] = container[k - 1])
      BY <1>1 DEF ContainerAdded
    <2>2. container[k].endSegmentID < segmentnumber /\ container[k].endSegmentID \in Nat
      <3>1. container[k] \in ContainerEntry
        BY <1>1, <1>t
      <3>2. container[k].endSegmentID < segmentnumber
        BY <1>1, <1>t DEF IndexInv, ContainersTile
      <3> QED
        BY <3>1, <3>2 DEF ContainerEntry
    <2>3. container[k].endSegmentID < segmentnumber'
      BY <2>2 DEF SegmentAdded
    <2> QED
      BY <1>1, <1>t, <2>1, <2>3 DEF IndexInv, ContainersTile
  <1>2. CASE k = containernumber + 1
    <2>1. startSegmentID = IF container = <<>> THEN 0 ELSE container[Len(container)].endSegmentID + 1
      BY DEF IndexInv, ContainersTile
    <2>2. container = <<>> <=> containernumber = 0
      BY <1>t
    <2>3. startSegmentID = IF k = 1 THEN 0 ELSE container'[k - 1].endSegmentID + 1
      BY <1>2, <1>t, <2>1, <2>2 DEF ContainerAdded
    <2>4. segmentnumber < segmentnumber'
      BY DEF SegmentAdded
    <2> QED
      BY <1>2, <2>3, <2>4 DEF ContainerAdded
  <1> QED
    BY <1>1, <1>2 DEF ContainerAdded

(* Ending a segment and with it a container.                               *)
LEMMA EndContainerInv ==
    ASSUME IndexInv, NEW size \in ChunkSize, PushChunk(size), EndContainer
    PROVE  IndexInv'
  <1>s. /\ EndSegment /\ UNCHANGED ended
        /\ containernumber' = containernumber + 1
        /\ startSegmentID' = segmentnumber + 1
        /\ containersize' = 0
    BY DEF EndContainer
  <1>e. /\ SegmentsTile' /\ OpenSegment' /\ SegmentSizes'
        /\ PushedFacts(size) /\ WithinFacts /\ SegmentAdded(chunknumber)
        /\ startChunkID' = chunknumber + 1 /\ OpenAt' = bytes + size
        /\ segmentsize' = 0 /\ segmentsize = bytes - OpenAt /\ segmentsize \in Nat
        /\ startChunkID \in 0 .. (chunknumber - 1) /\ OpenAt = offsets[startChunkID + 1]
        /\ IndexFlag = 1 /\ ~HasFinal' /\ ~HasFinal
    BY <1>s, EndSegmentInv
  <1>n. /\ bytes \in Nat /\ size \in Nat /\ ended = "no" /\ chunknumber \in Nat
        /\ offsets'[startChunkID + 1] = offsets[startChunkID + 1]
    BY <1>e DEF PushedFacts
  <1>c. ContainerAdded
    BY <1>s, AddedContainer DEF EndContainer
  <1>t. containersize \in Nat /\ startSegmentID \in Nat
    BY DEF IndexInv, IndexTypeOK
  <1>o. startSegmentID <= segmentnumber
    BY <1>e, <1>n DEF IndexInv, OpenContainer
  <1>1. IndexTypeOK' /\ Lengths' /\ FlatHasNone'
    <2>1. /\ chunk' \in Seq(Nat) /\ offsets' \in Seq(Nat) /\ chunknumber' \in Nat /\ bytes' \in Nat
          /\ Len(chunk') = Len(chunk) + 1 /\ Len(offsets') = chunknumber + 1
          /\ chunknumber' = chunknumber + 1 /\ startChunkID' \in Nat
      BY <1>e, <1>n DEF PushedFacts
    <2>2. /\ segment' \in Seq(SegmentEntry) /\ segmentnumber' \in Nat
          /\ Len(segment') = segmentnumber' /\ startSegmentID' \in Nat
      BY <1>e, <1>s DEF SegmentAdded
    <2>3. /\ container' \in Seq(ContainerEntry) /\ containernumber' \in Nat
          /\ Len(container') = containernumber'
      BY <1>c DEF ContainerAdded
    <2>4. IndexTypeOK'
      BY <1>s, <1>e, <1>n, <2>1, <2>2, <2>3 DEF IndexTypeOK
    <2>5. Lengths'
      BY <2>1, <2>2, <2>3 DEF IndexInv, Lengths, NumbersMatch
    <2> QED
      BY <1>e, <2>4, <2>5 DEF FlatHasNone
  <1>2. ContainersTile'
    <2>1. startSegmentID' = container'[Len(container')].endSegmentID + 1 /\ container' # <<>>
      BY <1>s, <1>c DEF ContainerAdded
    <2> QED
      BY <1>c, <1>e, <1>o, <1>n, <2>1, ContainersStillTile DEF ContainersTile
  <1>3. OpenContainer'
    <2>1. startSegmentID' = segmentnumber'
      BY <1>s, <1>e DEF SegmentAdded
    <2>2. segmentnumber' \in Nat
      BY <1>e DEF SegmentAdded
    <2> QED
      BY <1>s, <2>1, <2>2 DEF OpenContainer
  <1>4. ContainerSizes'
    <2> SUFFICES ASSUME NEW k \in 1 .. Len(container')
                 PROVE  offsets'[segment'[container'[k].endSegmentID + 1].startChunkID + 1]
                          - offsets'[segment'[container'[k].startSegmentID + 1].startChunkID + 1]
                        >= MinContainer
      BY DEF ContainerSizes, OffsetOf
    <2>1. CASE k \in 1 .. containernumber
      <3>1. container'[k] = container[k] /\ k \in 1 .. Len(container)
        BY <1>c, <2>1 DEF ContainerAdded
      <3> QED
        BY <1>e, <1>n, <3>1, OldContainers
    <2>2. CASE k = containernumber + 1
      <3>1. containersize >= MinContainer
        BY DEF EndContainer, EndOfSegment
      <3>2. startSegmentID # segmentnumber
        BY <1>e, <1>n, <3>1, IndexAssumption DEF IndexInv, OpenContainer
      <3>3. containersize <= OpenAt - offsets[segment[startSegmentID + 1].startChunkID + 1]
        BY <1>e, <1>n, <3>2 DEF IndexInv, OpenContainer, OffsetOf
      <3>4. startSegmentID + 1 \in 1 .. segmentnumber
        BY <1>e, <1>t, <1>o, <3>2 DEF SegmentAdded
      <3>5. /\ segment'[startSegmentID + 1] = segment[startSegmentID + 1]
            /\ segment[startSegmentID + 1].startChunkID \in 0 .. (chunknumber - 1)
        BY <1>e, <3>4 DEF SegmentAdded, WithinFacts
      <3>6. /\ offsets'[segment[startSegmentID + 1].startChunkID + 1]
                = offsets[segment[startSegmentID + 1].startChunkID + 1]
            /\ offsets[segment[startSegmentID + 1].startChunkID + 1] \in Nat
            /\ offsets[startChunkID + 1] \in Nat
        BY <1>e, <3>5 DEF PushedFacts
      <3>7. /\ container'[k].endSegmentID = segmentnumber
            /\ container'[k].startSegmentID = startSegmentID
            /\ segment'[segmentnumber + 1].startChunkID = startChunkID
        BY <1>c, <1>e, <2>2 DEF ContainerAdded, SegmentAdded
      <3>8. OpenAt - offsets[segment[startSegmentID + 1].startChunkID + 1] >= MinContainer
        BY <1>e, <1>t, <3>1, <3>3, <3>6, IndexAssumption
      <3> QED
        BY <1>e, <1>n, <3>5, <3>6, <3>7, <3>8
    <2> QED
      BY <1>c, <2>1, <2>2 DEF ContainerAdded
  <1> QED
    BY <1>1, <1>2, <1>3, <1>4, <1>e DEF IndexInv

(* The final chunk of a file, with its final segment and container.        *)
LEMMA FinalInv ==
    ASSUME IndexInv, NEW size \in ChunkSize, AddFinal(size), IndexFlag = 1
    PROVE  IndexInv'
  <1>s. /\ PushChunk(size) /\ ended' = "tail" /\ IndexFlag # 0
        /\ segmentnumber' = segmentnumber + 1 /\ containernumber' = containernumber + 1
        /\ UNCHANGED <<startChunkID, startSegmentID, segmentsize, containersize>>
        /\ segment' = Append(segment, [segmentID |-> segmentnumber,
                                       startChunkID |-> startChunkID,
                                       endChunkID |-> chunknumber + 1])
        /\ container' = Append(container, [containerID |-> containernumber,
                                           startSegmentID |-> startSegmentID,
                                           endSegmentID |-> segmentnumber])
    BY DEF AddFinal
  <1>p. PushedFacts(size)
    BY <1>s, Pushed
  <1>n. /\ bytes \in Nat /\ size \in Nat /\ ended = "no" /\ chunknumber \in Nat
        /\ chunknumber' = chunknumber + 1 /\ chunknumber + 1 \in Nat
        /\ bytes' = bytes + size
    BY <1>p DEF PushedFacts
  <1>w. WithinFacts
    BY <1>n, Within
  <1>a. SegmentAdded(chunknumber + 1)
    BY <1>s, <1>n, AddedSegment
  <1>c. ContainerAdded
    BY <1>s, AddedContainer
  <1>f. HasFinal' /\ ~HasFinal
    BY <1>s, <1>n DEF HasFinal
  <1>o. /\ startSegmentID <= segmentnumber /\ startChunkID <= chunknumber
        /\ startChunkID \in Nat
    BY <1>n DEF IndexInv, OpenContainer, OpenSegment, IndexTypeOK
  <1>1. IndexTypeOK' /\ Lengths' /\ FlatHasNone'
    <2>1. /\ chunk' \in Seq(Nat) /\ offsets' \in Seq(Nat) /\ chunknumber' \in Nat /\ bytes' \in Nat
          /\ Len(chunk') = Len(chunk) + 1 /\ Len(offsets') = chunknumber + 1
      BY <1>n, <1>p DEF PushedFacts
    <2>2. /\ segment' \in Seq(SegmentEntry) /\ segmentnumber' \in Nat
          /\ Len(segment') = segmentnumber'
      BY <1>a DEF SegmentAdded
    <2>3. /\ container' \in Seq(ContainerEntry) /\ containernumber' \in Nat
          /\ Len(container') = containernumber'
      BY <1>c DEF ContainerAdded
    <2>4. /\ startChunkID' \in Nat /\ startSegmentID' \in Nat
          /\ segmentsize' \in Nat /\ containersize' \in Nat /\ ended' = "tail"
      BY <1>s DEF IndexInv, IndexTypeOK
    <2>5. IndexTypeOK'
      BY <2>1, <2>2, <2>3, <2>4 DEF IndexTypeOK
    <2>6. Lengths'
      BY <1>n, <2>1, <2>2, <2>3 DEF IndexInv, Lengths, NumbersMatch
    <2> QED
      BY <1>s, <2>5, <2>6 DEF FlatHasNone
  <1>2. SegmentsTile'
    <2> SUFFICES ASSUME NEW k \in 1 .. Len(segment')
                 PROVE  /\ segment'[k].segmentID = k - 1
                        /\ segment'[k].startChunkID =
                              IF k = 1 THEN 0 ELSE segment'[k - 1].endChunkID + 1
                        /\ segment'[k].startChunkID <= segment'[k].endChunkID
                        /\ \/ segment'[k].endChunkID < chunknumber'
                           \/ k = Len(segment') /\ segment'[k].endChunkID = chunknumber'
      BY <1>f DEF SegmentsTile
    <2>1. CASE k \in 1 .. segmentnumber
      <3>1. segment'[k] = segment[k] /\ (k # 1 => segment'[k - 1] = segment[k - 1])
        BY <1>a, <2>1 DEF SegmentAdded
      <3>2. segment[k].endChunkID \in 0 .. (chunknumber - 1)
        BY <1>a, <1>w, <2>1 DEF SegmentAdded, WithinFacts
      <3>3. segment[k].endChunkID < chunknumber'
        BY <1>n, <3>2
      <3> QED
        BY <1>a, <2>1, <3>1, <3>3 DEF IndexInv, SegmentsTile, SegmentAdded
    <2>2. CASE k = segmentnumber + 1
      <3>1. startChunkID = IF segment = <<>> THEN 0 ELSE segment[Len(segment)].endChunkID + 1
        BY <1>f DEF IndexInv, SegmentsTile
      <3>2. segment = <<>> <=> segmentnumber = 0
        BY <1>a DEF SegmentAdded, IndexInv, IndexTypeOK
      <3>3. startChunkID = IF k = 1 THEN 0 ELSE segment'[k - 1].endChunkID + 1
        BY <1>a, <2>2, <3>1, <3>2 DEF SegmentAdded
      <3>4. startChunkID <= chunknumber + 1
        BY <1>n, <1>o
      <3> QED
        BY <1>a, <1>n, <2>2, <3>3, <3>4 DEF SegmentAdded
    <2> QED
      BY <1>a, <2>1, <2>2 DEF SegmentAdded
  <1>3. ContainersTile'
    BY <1>c, <1>a, <1>o, <1>f, <1>n, ContainersStillTile DEF ContainersTile
  <1>4. OpenSegment' /\ OpenContainer'
    BY <1>s DEF OpenSegment, OpenContainer
  <1>5. SegmentSizes'
    <2> SUFFICES ASSUME NEW k \in 1 .. Len(segment'), k < Len(segment')
                 PROVE  /\ offsets'[segment'[k].endChunkID + 1] - offsets'[segment'[k].startChunkID + 1] >= MinSegment
                        /\ \E last \in ChunkSize :
                              offsets'[segment'[k].endChunkID + 1] - offsets'[segment'[k].startChunkID + 1]
                                <= MaxSegment + last
      BY <1>f DEF SegmentSizes, OffsetOf
    <2>0. k \in 1 .. segmentnumber /\ k \in 1 .. Len(segment)
      BY <1>a DEF SegmentAdded
    <2>1. segment'[k] = segment[k]
      BY <1>a, <2>0 DEF SegmentAdded
    <2>2. segment[k].startChunkID \in 0 .. (chunknumber - 1) /\ segment[k].endChunkID \in 0 .. (chunknumber - 1)
      BY <1>w, <2>0 DEF WithinFacts
    <2>3. /\ offsets'[segment[k].startChunkID + 1] = offsets[segment[k].startChunkID + 1]
          /\ offsets'[segment[k].endChunkID + 1] = offsets[segment[k].endChunkID + 1]
      BY <1>p, <2>2 DEF PushedFacts
    <2>4. /\ offsets[segment[k].endChunkID + 1] - offsets[segment[k].startChunkID + 1] >= MinSegment
          /\ \E last \in ChunkSize :
               offsets[segment[k].endChunkID + 1] - offsets[segment[k].startChunkID + 1]
                 <= MaxSegment + last
      BY <1>f, <2>0 DEF IndexInv, SegmentSizes, OffsetOf
    <2> QED
      BY <2>1, <2>3, <2>4
  <1>6. ContainerSizes'
    <2> SUFFICES ASSUME NEW k \in 1 .. Len(container'), k < Len(container')
                 PROVE  offsets'[segment'[container'[k].endSegmentID + 1].startChunkID + 1]
                          - offsets'[segment'[container'[k].startSegmentID + 1].startChunkID + 1]
                        >= MinContainer
      BY <1>f DEF ContainerSizes, OffsetOf
    <2>1. k \in 1 .. containernumber /\ k \in 1 .. Len(container)
      BY <1>c DEF ContainerAdded
    <2>2. container'[k] = container[k]
      BY <1>c, <2>1 DEF ContainerAdded
    <2> QED
      BY <1>p, <1>w, <1>a, <1>n, <2>1, <2>2, OldContainers
  <1> QED
    BY <1>1, <1>2, <1>3, <1>4, <1>5, <1>6 DEF IndexInv

(* The end of a file at a cut changes no list.                             *)
LEMMA NothingLeftInv ==
    ASSUME IndexInv, NothingLeft
    PROVE  IndexInv'
  <1>1. /\ ended = "no" /\ ended' = "cut"
        /\ UNCHANGED <<chunk, chunknumber, segment, container, segmentnumber, containernumber,
                       startChunkID, startSegmentID, segmentsize, containersize, offsets, bytes>>
    BY DEF NothingLeft, groupVars
  <1>2. ~HasFinal /\ ~HasFinal'
    BY <1>1 DEF HasFinal
  <1>3. IndexTypeOK' /\ Lengths' /\ FlatHasNone' /\ OpenSegment' /\ OpenContainer'
    BY <1>1 DEF IndexInv, IndexTypeOK, Lengths, NumbersMatch, FlatHasNone, OpenSegment, OpenContainer
  <1>4. SegmentsTile' /\ ContainersTile' /\ SegmentSizes' /\ ContainerSizes'
    BY <1>1, <1>2 DEF IndexInv, SegmentsTile, ContainersTile, SegmentSizes, ContainerSizes, OffsetOf
  <1> QED
    BY <1>3, <1>4 DEF IndexInv

(* Every call of varSizeChunking on its index keeps the invariant.         *)
LEMMA IndexStepInv ==
    ASSUME IndexInv, [IndexStep]_indexVars
    PROVE  IndexInv'
  <1>1. CASE UNCHANGED indexVars
    <2>1. UNCHANGED <<chunk, chunknumber, segment, container, segmentnumber, containernumber,
                      startChunkID, startSegmentID, segmentsize, containersize, ended, offsets, bytes>>
      BY <1>1 DEF indexVars, groupVars
    <2> QED
      BY <2>1 DEF IndexInv, IndexTypeOK, Lengths, NumbersMatch, FlatHasNone, SegmentsTile,
                  ContainersTile, OpenSegment, OpenContainer, SegmentSizes, ContainerSizes,
                  OpenAt, OffsetOf, HasFinal
  <1>2. CASE NothingLeft
    BY <1>2, NothingLeftInv
  <1>3. ASSUME NEW size \in ChunkSize, AddChunk(size)
        PROVE  IndexInv'
    <2>1. PushChunk(size)
      BY <1>3 DEF AddChunk
    <2>2. CASE AddFlat
      <3>1. ended' \in {"no", "tail"}
        BY <2>1, <2>2 DEF AddFlat, PushChunk
      <3> QED
        BY <2>1, <2>2, <3>1, FlatInv DEF AddFlat
    <2>3. CASE StaysInSegment(size)
      BY <2>1, <2>3, StaysInv
    <2>4. CASE StaysInContainer
      BY <2>1, <2>4, StaysInContainerInv
    <2>5. CASE EndContainer
      BY <2>1, <2>5, EndContainerInv
    <2> QED
      BY <1>3, <2>2, <2>3, <2>4, <2>5 DEF AddChunk
  <1>4. ASSUME NEW size \in ChunkSize, AddFinal(size)
        PROVE  IndexInv'
    <2>1. CASE IndexFlag = 0
      <3>1. PushChunk(size) /\ UNCHANGED groupVars /\ ended' \in {"no", "tail"}
        BY <1>4, <2>1 DEF AddFinal
      <3> QED
        BY <2>1, <3>1, FlatInv
    <2>2. CASE IndexFlag = 1
      BY <1>4, <2>2, FinalInv
    <2> QED
      BY <2>1, <2>2, IndexAssumption
  <1> QED
    BY <1>1, <1>2, <1>3, <1>4 DEF IndexStep

(* The index that varSizeChunking builds has the invariant, however its    *)
(* steps are scheduled.                                                    *)
THEOREM IndexCorrect == IndexInit /\ [][IndexStep]_indexVars => []IndexInv
  <1>1. IndexInit => IndexInv
    BY IndexInitInv
  <1>2. IndexInv /\ [IndexStep]_indexVars => IndexInv'
    BY IndexStepInv
  <1> QED
    BY <1>1, <1>2, PTL

(* The bounded specification that TLC checks takes the same steps.         *)
LEMMA BoundedSteps == IndexSpec => IndexInit /\ [][IndexStep]_indexVars
  <1>1. [IndexNext]_indexVars => [IndexStep]_indexVars
    BY DEF IndexNext, IndexStep, IndexTerminated
  <1> QED
    BY <1>1, PTL DEF IndexSpec

(* Segments tile the chunks of a file, and containers the segments.        *)
THEOREM GroupsTile == IndexSpec => [](SegmentsTile /\ ContainersTile)
  <1>1. IndexInv => SegmentsTile /\ ContainersTile
    BY DEF IndexInv
  <1> QED
    BY <1>1, BoundedSteps, IndexCorrect, PTL

(* The groups that EndOfSegment ends have the sizes its limits say.        *)
THEOREM GroupSizes == IndexSpec => [](SegmentSizes /\ ContainerSizes)
  <1>1. IndexInv => SegmentSizes /\ ContainerSizes
    BY DEF IndexInv
  <1> QED
    BY <1>1, BoundedSteps, IndexCorrect, PTL

(* The index keeps its types.                                              *)
THEOREM IndexTypeCorrect == IndexSpec => []IndexTypeOK
  <1>1. IndexInv => IndexTypeOK
    BY DEF IndexInv
  <1> QED
    BY <1>1, BoundedSteps, IndexCorrect, PTL

-----------------------------------------------------------------------------
InSegment(c) ==
    \E k \in 1 .. Len(segment) : c \in segment[k].startChunkID .. segment[k].endChunkID
InContainer(s) ==
    \E k \in 1 .. Len(container) : s \in container[k].startSegmentID .. container[k].endSegmentID

(* While the file is being read, the chunks before the open segment are in *)
(* segments, and the segments before the open container in containers.     *)
ClosedGrouped ==
    ended = "no" /\ IndexFlag = 1 =>
        /\ \A c \in Nat : c < startChunkID => InSegment(c)
        /\ \A s \in Nat : s < startSegmentID => InContainer(s)

(* A segment more, from the open one's first chunk on, takes in the chunks *)
(* up to its end.                                                          *)
LEMMA SegmentTakesIn ==
    ASSUME IndexInv, NEW e \in SegmentEntry, segment' = Append(segment, e),
           e.startChunkID = startChunkID,
           \A c \in Nat : c < startChunkID => InSegment(c)
    PROVE  \A c \in Nat : c <= e.endChunkID => InSegment(c)'
  <1>1. segment \in Seq(SegmentEntry) /\ startChunkID \in Nat /\ e.endChunkID \in Nat
    BY DEF IndexInv, IndexTypeOK, SegmentEntry
  <1>2. /\ Len(segment') = Len(segment) + 1 /\ Len(segment) \in Nat
        /\ \A k \in 1 .. Len(segment) : segment'[k] = segment[k]
        /\ segment'[Len(segment) + 1] = e
    BY <1>1, AppendFacts
  <1> TAKE c \in Nat
  <1> HAVE c <= e.endChunkID
  <1>3. CASE c < startChunkID
    <2>1. PICK k \in 1 .. Len(segment) : c \in segment[k].startChunkID .. segment[k].endChunkID
      BY <1>3 DEF InSegment
    <2>2. k \in 1 .. Len(segment')
      BY <1>2
    <2> QED
      BY <1>2, <2>1, <2>2 DEF InSegment
  <1>4. CASE c >= startChunkID
    <2>1. Len(segment) + 1 \in 1 .. Len(segment')
      BY <1>2
    <2>2. c \in e.startChunkID .. e.endChunkID
      BY <1>1, <1>4
    <2> QED
      BY <1>2, <2>1, <2>2 DEF InSegment
  <1> QED
    BY <1>1, <1>3, <1>4

(* The same of containers and segments.                                    *)
LEMMA ContainerTakesIn ==
    ASSUME IndexInv, NEW e \in ContainerEntry, container' = Append(container, e),
           e.startSegmentID = startSegmentID,
           \A s \in Nat : s < startSegmentID => InContainer(s)
    PROVE  \A s \in Nat : s <= e.endSegmentID => InContainer(s)'
  <1>1. container \in Seq(ContainerEntry) /\ startSegmentID \in Nat /\ e.endSegmentID \in Nat
    BY DEF IndexInv, IndexTypeOK, ContainerEntry
  <1>2. /\ Len(container') = Len(container) + 1 /\ Len(container) \in Nat
        /\ \A k \in 1 .. Len(container) : container'[k] = container[k]
        /\ container'[Len(container) + 1] = e
    BY <1>1, AppendFacts
  <1> TAKE s \in Nat
  <1> HAVE s <= e.endSegmentID
  <1>3. CASE s < startSegmentID
    <2>1. PICK k \in 1 .. Len(container) :
             s \in container[k].startSegmentID .. container[k].endSegmentID
      BY <1>3 DEF InContainer
    <2>2. k \in 1 .. Len(container')
      BY <1>2
    <2> QED
      BY <1>2, <2>1, <2>2 DEF InContainer
  <1>4. CASE s >= startSegmentID
    <2>1. Len(container) + 1 \in 1 .. Len(container')
      BY <1>2
    <2>2. s \in e.startSegmentID .. e.endSegmentID
      BY <1>1, <1>4
    <2> QED
      BY <1>2, <2>1, <2>2 DEF InContainer
  <1> QED
    BY <1>1, <1>3, <1>4

(* A segment that EndOfSegment ends has the chunks from the open one's     *)
(* first to the one being pushed.                                          *)
LEMMA EndSegmentGroups ==
    ASSUME IndexInv, ClosedGrouped, ended = "no", EndSegment
    PROVE  /\ IndexFlag = 1
           /\ \A c \in Nat : c < startChunkID' => InSegment(c)'
  <1> DEFINE e == [segmentID |-> segmentnumber, startChunkID |-> startChunkID,
                   endChunkID |-> chunknumber]
  <1>1. /\ IndexFlag = 1 /\ segment' = Append(segment, e) /\ startChunkID' = chunknumber + 1
        /\ chunknumber \in Nat
    BY DEF EndSegment, IndexInv, IndexTypeOK
  <1>2. e \in SegmentEntry
    BY DEF SegmentEntry, IndexInv, IndexTypeOK
  <1>3. \A c \in Nat : c <= e.endChunkID => InSegment(c)'
    BY <1>1, <1>2, SegmentTakesIn DEF ClosedGrouped
  <1> QED
    BY <1>1, <1>3

LEMMA GroupedStep ==
    ASSUME IndexInv, ClosedGrouped, EveryChunkGrouped, [IndexStep]_indexVars
    PROVE  ClosedGrouped' /\ EveryChunkGrouped'
  <1>1. CASE UNCHANGED indexVars
    BY <1>1 DEF indexVars, groupVars, ClosedGrouped, EveryChunkGrouped, InSegment, InContainer,
                HasFinal
  <1>2. CASE NothingLeft
    BY <1>2 DEF NothingLeft, ClosedGrouped, EveryChunkGrouped, HasFinal
  <1>3. ASSUME NEW size \in ChunkSize, AddChunk(size)
        PROVE  ClosedGrouped' /\ EveryChunkGrouped'
    <2>1. ended = "no"
      BY <1>3 DEF AddChunk, PushChunk
    <2>2. ended' = "no" /\ EveryChunkGrouped'
      BY <1>3, <2>1 DEF AddChunk, AddFlat, StaysInSegment, StaysInContainer, EndContainer,
                        EveryChunkGrouped, HasFinal
    <2>3. CASE AddFlat
      BY <2>2, <2>3 DEF AddFlat, ClosedGrouped
    <2>4. CASE StaysInSegment(size)
      BY <2>1, <2>2, <2>4 DEF StaysInSegment, ClosedGrouped, InSegment, InContainer
    <2>5. CASE StaysInContainer
      <3>1. \A c \in Nat : c < startChunkID' => InSegment(c)'
        BY <2>1, <2>5, EndSegmentGroups DEF StaysInContainer
      <3>2. \A s \in Nat : s < startSegmentID' => InContainer(s)'
        BY <2>1, <2>5, EndSegmentGroups DEF StaysInContainer, ClosedGrouped, InContainer
      <3> QED
        BY <2>2, <3>1, <3>2 DEF ClosedGrouped
    <2>6. CASE EndContainer
      <3> DEFINE e == [containerID |-> containernumber, startSegmentID |-> startSegmentID,
                       endSegmentID |-> segmentnumber]
      <3>1. \A c \in Nat : c < startChunkID' => InSegment(c)'
        BY <2>1, <2>6, EndSegmentGroups DEF EndContainer
      <3>2. /\ container' = Append(container, e) /\ startSegmentID' = segmentnumber + 1
            /\ segmentnumber \in Nat /\ IndexFlag = 1
        BY <2>1, <2>6, EndSegmentGroups DEF EndContainer, IndexInv, IndexTypeOK
      <3>3. e \in ContainerEntry
        BY DEF ContainerEntry, IndexInv, IndexTypeOK
      <3>4. \A s \in Nat : s <= e.endSegmentID => InContainer(s)'
        BY <2>1, <3>2, <3>3, ContainerTakesIn DEF ClosedGrouped
      <3>5. \A s \in Nat : s < startSegmentID' => InContainer(s)'
        BY <3>2, <3>4
      <3> QED
        BY <2>2, <3>1, <3>5 DEF ClosedGrouped
    <2> QED
      BY <1>3, <2>3, <2>4, <2>5, <2>6 DEF AddChunk
  <1>4. ASSUME NEW size \in ChunkSize, AddFinal(size)
        PROVE  ClosedGrouped' /\ EveryChunkGrouped'
    <2>1. ended = "no" /\ ended' = "tail" /\ chunknumber' = chunknumber + 1
      BY <1>4 DEF AddFinal, PushChunk
    <2>2. ClosedGrouped'
      BY <2>1 DEF ClosedGrouped
    <2>3. CASE IndexFlag = 0
      BY <2>2, <2>3 DEF EveryChunkGrouped, HasFinal
    <2>4. CASE IndexFlag = 1
      <3> DEFINE e == [segmentID |-> segmentnumber, startChunkID |-> startChunkID,
                       endChunkID |-> chunknumber + 1]
                 f == [containerID |-> containernumber, startSegmentID |-> startSegmentID,
                       endSegmentID |-> segmentnumber]
      <3>1. /\ segment' = Append(segment, e) /\ container' = Append(container, f)
            /\ segmentnumber' = segmentnumber + 1
        BY <1>4, <2>4 DEF AddFinal
      <3>2. /\ e \in SegmentEntry /\ f \in ContainerEntry
            /\ chunknumber \in Nat /\ segmentnumber \in Nat
        BY DEF SegmentEntry, ContainerEntry, IndexInv, IndexTypeOK
      <3>3. \A c \in Nat : c <= e.endChunkID => InSegment(c)'
        BY <2>1, <2>4, <3>1, <3>2, SegmentTakesIn DEF ClosedGrouped
      <3>4. \A s \in Nat : s <= f.endSegmentID => InContainer(s)'
        BY <2>1, <2>4, <3>1, <3>2, ContainerTakesIn DEF ClosedGrouped
      <3>5. \A c \in 0 .. (chunknumber' - 1) : InSegment(c)'
        BY <2>1, <3>2, <3>3
      <3>6. \A s \in 0 .. (segmentnumber' - 1) : InContainer(s)'
        BY <3>1, <3>2, <3>4
      <3> QED
        BY <2>2, <3>5, <3>6 DEF EveryChunkGrouped, InSegment, InContainer
    <2> QED
      BY <2>3, <2>4, IndexAssumption
  <1> QED
    BY <1>1, <1>2, <1>3, <1>4 DEF IndexStep

(* A file that ends in a rest has every chunk in a segment and every       *)
(* segment in a container.                                                 *)
THEOREM RestEndsGroups == IndexSpec => []EveryChunkGrouped
  <1>1. IndexInit => ClosedGrouped /\ EveryChunkGrouped
    BY DEF IndexInit, ClosedGrouped, EveryChunkGrouped, HasFinal
  <1>2. IndexInv /\ ClosedGrouped /\ EveryChunkGrouped /\ [IndexStep]_indexVars
          => ClosedGrouped' /\ EveryChunkGrouped'
    BY GroupedStep
  <1> QED
    BY <1>1, <1>2, BoundedSteps, IndexCorrect, PTL
=============================================================================
