-------------------------- MODULE CompressorProofs --------------------------
(***************************************************************************)
(* The theorems about Dector::truetransferDector followed by               *)
(* DeltaCompressor::compress, for all versions, window sizes, features,    *)
(* earlier documents and whatever is in memory behind the two vectors.     *)
(***************************************************************************)
EXTENDS Compressor, DectorProofs, FiniteSetTheorems

DocType == [hash : Fingerprint, group : {-1, 1}]

Steps == {"outer", "window", "region", "features", "detected", "aggregateF", "groupF", "groupS",
          "compressed"}

(* What is in the two vectors themselves are fingerprints, those that have *)
(* features, and the documents are of such chunks.                         *)
DocumentsOK ==
    /\ \A i \in 0 .. (n1 - 1) : Old(i) \in Fingerprint
    /\ \A i \in 0 .. (n2 - 1) : New(i) \in Fingerprint
    /\ taken \in Nat
    /\ restaurants \in Seq(DocType)
    /\ step \in Steps

(* Two documents that should be in a group.                                *)
Shares(feature, i, j) ==
    /\ i # j /\ restaurants[i].group = -1 /\ restaurants[j].group = -1
    /\ feature[restaurants[i].hash] = feature[restaurants[j].hash]

(* Those there are have a value that aggregate still has to return.        *)
AllInCursor(feature) ==
    \A i, j \in 1 .. Len(restaurants) :
        Shares(feature, i, j) => feature[restaurants[i].hash] \in cursor

NoneShare(feature) == \A i, j \in 1 .. Len(restaurants) : ~Shares(feature, i, j)

(* How far the groups are made at each step of compress.                   *)
GroupsOK ==
    /\ step = "groupF" => AllInCursor(F)
    /\ step \in {"groupS", "compressed"} => NoneShare(F)
    /\ step = "groupS" => AllInCursor(S)
    /\ step = "compressed" => NoneShare(S)

CompressorInv == SearchInv /\ DocumentsOK /\ GroupsOK

-----------------------------------------------------------------------------
LEMMA SeqSubset ==
    ASSUME NEW A, NEW B, A \subseteq B, NEW s \in Seq(A)
    PROVE  s \in Seq(B)
  OBVIOUS

(* Outside the search nothing changes that SearchInv speaks of, and step   *)
(* has left the places of the search.                                      *)
LEMMA SearchFrame ==
    ASSUME SearchInv,
           UNCHANGED <<indexes, i1, i2, stand1, stand2, k, count, size, marks,
                       transferPair, oldrestored, newrestored>>,
           step' = step \/ step' \notin {"outer", "window", "region"}
    PROVE  SearchInv'
<1>1. /\ UNCHANGED <<old, new, n1, n2>> /\ UNCHANGED indexes
      /\ UNCHANGED <<i1, i2, stand1, stand2, k, count, size, flag, before, after,
                     transferPair, oldrestored, newrestored>>
  BY DEF indexes, marks
<1>2. FoundBeyond' = FoundBeyond
  BY <1>1, SameIndexes
<1>3. OutputsOK' /\ Ascending' /\ LastPair' = LastPair /\ \A id : UpTo(id)' = UpTo(id)
  BY <1>1, SameOutputs
<1>4. SearchTypes'
  BY <1>1 DEF SearchInv, SearchTypes
<1>5. WindowOK' /\ StandOK'
  BY <1>1 DEF SearchInv, WindowOK, StandOK
<1>6. MarksOK' /\ RegionOK'
  BY <1>1, <1>2, <1>3 DEF SearchInv, MarksOK, RegionOK, HasOpened, HaveMet
<1>7. OrderOK'
  BY <1>1, <1>3 DEF SearchInv, OrderOK
<1> QED BY <1>3, <1>4, <1>5, <1>6, <1>7 DEF SearchInv

(* aggregate returns every value two documents without a group share.      *)
LEMMA AggregateHas ==
    ASSUME NEW feature, restaurants \in Seq(DocType),
           NEW i \in 1 .. Len(restaurants), NEW j \in 1 .. Len(restaurants),
           Shares(feature, i, j)
    PROVE  feature[restaurants[i].hash] \in Aggregate(feature)
<1> DEFINE v == feature[restaurants[i].hash]
           found == {a \in DOMAIN restaurants : restaurants[a].group = -1
                                             /\ feature[restaurants[a].hash] = v}
<1>1. DOMAIN restaurants = 1 .. Len(restaurants) /\ Len(restaurants) \in Nat
  OBVIOUS
<1>2. i \in found /\ j \in found /\ i # j
  BY <1>1 DEF Shares
<1>3. IsFiniteSet(found)
  <2>1. IsFiniteSet(1 .. Len(restaurants))
    BY <1>1, FS_Interval
  <2>2. found \in SUBSET (1 .. Len(restaurants))
    BY <1>1
  <2> QED BY <2>1, <2>2, FS_Subset
<1> HIDE DEF found
<1>4. Cardinality(found) > 1
  <2>1. Cardinality({i}) = 1 /\ IsFiniteSet({i})
    BY FS_Singleton
  <2>2. {i} \in SUBSET found /\ {i} # found
    BY <1>2
  <2>3. Cardinality({i}) <= Cardinality(found) /\ Cardinality(found) # Cardinality({i})
    BY <1>3, <2>2, FS_Subset
  <2>4. Cardinality(found) \in Nat
    BY <1>3, FS_CardinalityType
  <2> QED BY <2>1, <2>3, <2>4
<1>5. v \in {feature[d.hash] : d \in Range(restaurants)}
  BY <1>1 DEF Range
<1> QED BY <1>4, <1>5 DEF Aggregate, found

(* A group takes documents, changes no hash, and leaves none without a     *)
(* group that has the value.                                               *)
LEMMA GroupFacts ==
    ASSUME NEW feature, NEW v, restaurants \in Seq(DocType), Group(feature, v)
    PROVE  /\ restaurants' \in Seq(DocType) /\ Len(restaurants') = Len(restaurants)
           /\ \A j \in 1 .. Len(restaurants) :
                 /\ restaurants'[j].hash = restaurants[j].hash
                 /\ restaurants'[j].group = -1 =>
                       restaurants[j].group = -1 /\ feature[restaurants[j].hash] # v
<1>1. DOMAIN restaurants = 1 .. Len(restaurants) /\ Len(restaurants) \in Nat
  OBVIOUS
<1>2. restaurants' = [j \in 1 .. Len(restaurants) |->
                        IF feature[restaurants[j].hash] = v
                        THEN [restaurants[j] EXCEPT !.group = 1] ELSE restaurants[j]]
  BY <1>1 DEF Group
<1>3. \A j \in 1 .. Len(restaurants) : restaurants[j] \in DocType
  BY <1>1
<1>4. \A d \in DocType : /\ [d EXCEPT !.group = 1] \in DocType
                         /\ [d EXCEPT !.group = 1].hash = d.hash
                         /\ [d EXCEPT !.group = 1].group = 1
  BY DEF DocType
<1>5. \A j \in 1 .. Len(restaurants) :
         /\ restaurants'[j] \in DocType
         /\ restaurants'[j].hash = restaurants[j].hash
         /\ restaurants'[j].group = -1 =>
               restaurants[j].group = -1 /\ feature[restaurants[j].hash] # v
  BY <1>2, <1>3, <1>4
<1>6. restaurants' \in Seq(DocType) /\ Len(restaurants') = Len(restaurants)
  BY <1>1, <1>2, <1>5
<1> QED BY <1>5, <1>6

(* So two that still share a feature shared it before, and have another    *)
(* value of the feature that was grouped by.                               *)
LEMMA GroupShares ==
    ASSUME NEW feature, NEW v, NEW other, restaurants \in Seq(DocType), Group(feature, v),
           other = F \/ other = S,
           NEW i \in 1 .. Len(restaurants), NEW j \in 1 .. Len(restaurants),
           Shares(other, i, j)'
    PROVE  /\ Shares(other, i, j)
           /\ restaurants'[i].hash = restaurants[i].hash
           /\ feature[restaurants[i].hash] # v
  BY GroupFacts DEF Shares

LEMMA InsertFacts ==
    ASSUME restaurants \in Seq(DocType), NEW unique \in BOOLEAN, NEW hash,
           unique => hash \in Fingerprint, InsertIf(unique, hash)
    PROVE  restaurants' \in Seq(DocType)
<1>1. CASE ~unique
  BY <1>1 DEF InsertIf
<1>2. CASE unique
  <2>1. Document(hash) \in DocType
    BY <1>2 DEF Document, DocType
  <2> QED BY <1>2, <2>1 DEF InsertIf
<1> QED BY <1>1, <1>2

-----------------------------------------------------------------------------
LEMMA CompressorInitInv == CompressorInit => CompressorInv
<1> SUFFICES ASSUME CompressorInit PROVE CompressorInv
  OBVIOUS
<1>1. SearchInv
  BY DectorInitInv DEF CompressorInit
<1>2. restaurants \in Seq(DocType)
  <2>1. [hash : Known, group : {-1, 1}] \subseteq DocType
    BY WindowAssumption DEF DocType
  <2>2. restaurants \in Seq([hash : Known, group : {-1, 1}])
    BY FeatureAssumption DEF CompressorInit
  <2> QED BY <2>1, <2>2, SeqSubset
<1>3. \A i \in 0 .. (n1 - 1) : Old(i) \in Fingerprint
  <2>1. PICK v \in OldVersions, b \in OldBeyond : old = Append(v, b) /\ n1 = Len(v)
    BY DEF CompressorInit, DectorInit
  <2>2. v \in Seq(Fingerprint) /\ v \in Seq(Fingerprint \cup {b}) /\ b \in Fingerprint \cup {b}
    BY WindowAssumption
  <2>3. Len(v) \in Nat /\ \A j \in 1 .. Len(v) : old[j] = v[j] /\ v[j] \in Fingerprint
    BY <2>1, <2>2, AppendFacts
  <2> QED BY <2>1, <2>3 DEF Old
<1>4. \A i \in 0 .. (n2 - 1) : New(i) \in Fingerprint
  <2>1. PICK v \in NewVersions, b \in NewBeyond : new = v \o b /\ n2 = Len(v)
    BY DEF CompressorInit, DectorInit
  <2>2. /\ v \in Seq(Fingerprint) /\ v \in Seq(Fingerprint \cup Range(b))
        /\ b \in Seq(Fingerprint \cup Range(b))
    BY WindowAssumption
  <2>3. Len(v) \in Nat /\ \A j \in 1 .. Len(v) : new[j] = v[j] /\ v[j] \in Fingerprint
    BY <2>1, <2>2, ConcatFacts
  <2> QED BY <2>1, <2>3 DEF New
<1>5. step = "outer" /\ taken = 0
  BY DEF CompressorInit, DectorInit
<1> QED BY <1>1, <1>2, <1>3, <1>4, <1>5 DEF CompressorInv, DocumentsOK, GroupsOK, Steps

(* What does not change the vectors changes nothing in what they hold.     *)
LEMMA VersionsFrame ==
    ASSUME DocumentsOK, UNCHANGED indexes
    PROVE  /\ \A i \in 0 .. (n1' - 1) : Old(i)' \in Fingerprint
           /\ \A i \in 0 .. (n2' - 1) : New(i)' \in Fingerprint
<1>1. UNCHANGED <<old, new, n1, n2>>
  BY DEF indexes
<1> QED BY <1>1 DEF DocumentsOK, Old, New

LEMMA DetectingStep ==
    ASSUME CompressorInv, Detecting
    PROVE  CompressorInv'
<1>1. SearchInv' /\ DocumentsOK
  BY DectorStepInv DEF CompressorInv, Detecting
<1>2. /\ UNCHANGED indexes /\ UNCHANGED <<taken, restaurants, cursor>>
      /\ step' \in {"outer", "window", "region", "features"}
  <2>1. step' \in {"outer", "window", "region", "features"}
    BY DEF Detecting, DectorNext, EqualChunks, EqualEndsRegion, Part, LoopEnds, Meet, Slide,
           NextChunk, GiveUp, Region, SinglePair, OpenRegion, CloseRegion, NoPair, AfterWindow,
           Comparing, WindowEnds
  <2>2. UNCHANGED indexes
    BY DEF Detecting, DectorNext, EqualChunks, EqualEndsRegion, Part, LoopEnds, Meet, Slide,
           NextChunk, GiveUp, Region, SinglePair, OpenRegion, CloseRegion, NoPair
  <2> QED BY <2>1, <2>2 DEF Detecting, gvars
<1>3. DocumentsOK'
  BY <1>1, <1>2, VersionsFrame DEF DocumentsOK, Steps
<1>4. GroupsOK'
  BY <1>2 DEF GroupsOK
<1> QED BY <1>1, <1>3, <1>4 DEF CompressorInv

LEMMA TakeStep ==
    ASSUME CompressorInv, TakeOld \/ TakeNew
    PROVE  CompressorInv'
<1>1. /\ UNCHANGED indexes /\ taken' = taken + 1 /\ step = "features" /\ step' = step
      /\ UNCHANGED <<indexes, i1, i2, stand1, stand2, k, count, size, marks,
                     transferPair, oldrestored, newrestored>>
  BY DEF TakeOld, TakeNew, Taking, dvars, outputs
<1>2. SearchInv /\ DocumentsOK /\ taken \in Nat /\ restaurants \in Seq(DocType)
  BY DEF CompressorInv, DocumentsOK
<1>3. SearchInv'
  BY <1>1, <1>2, SearchFrame
<1>4. /\ n1 \in Nat /\ n2 \in Nat /\ Len(oldrestored) \in Nat /\ Len(newrestored) \in Nat
      /\ oldrestored \in Seq(Int) /\ newrestored \in Seq(Int)
  BY <1>2 DEF SearchInv, SearchTypes
<1>5. ASSUME TakeOld PROVE restaurants' \in Seq(DocType)
  <2> DEFINE id == oldrestored[taken + 1]
  <2>1. taken + 1 \in 1 .. Len(oldrestored)
    BY <1>2, <1>4, <1>5 DEF TakeOld
  <2>2. id \in 0 .. (n1 - 1)
    BY <1>2, <2>1 DEF SearchInv, OutputsOK, OldOK
  <2>3. Old(id) \in Fingerprint
    BY <1>2, <2>2 DEF DocumentsOK
  <2>4. InsertIf(OldUnique(id), Old(id)) /\ OldUnique(id) \in BOOLEAN
    BY <1>5 DEF TakeOld, OldUnique
  <2> HIDE DEF id
  <2> QED BY <1>2, <2>3, <2>4, InsertFacts
<1>6. ASSUME TakeNew PROVE restaurants' \in Seq(DocType)
  <2> DEFINE id == newrestored[taken + 1 - Len(oldrestored)]
             u == id < n2 /\ NewUnique(id)
  <2>1. taken + 1 - Len(oldrestored) \in 1 .. Len(newrestored)
    BY <1>2, <1>4, <1>6 DEF TakeNew
  <2>2. id \in Int /\ id >= 0
    BY <1>2, <1>4, <2>1 DEF SearchInv, OutputsOK, NewOK
  <2>3. u => New(id) \in Fingerprint
    <3>1. u => id \in 0 .. (n2 - 1)
      BY <1>4, <2>2
    <3> QED BY <1>2, <3>1 DEF DocumentsOK
  <2>4. InsertIf(u, New(id)) /\ u \in BOOLEAN
    BY <1>6 DEF TakeNew, NewUnique
  <2> HIDE DEF u, id
  <2> QED BY <1>2, <2>3, <2>4, InsertFacts
<1>7. restaurants' \in Seq(DocType)
  BY <1>5, <1>6
<1>8. DocumentsOK'
  BY <1>1, <1>2, <1>7, VersionsFrame DEF DocumentsOK
<1>9. GroupsOK'
  BY <1>1 DEF GroupsOK
<1> QED BY <1>3, <1>8, <1>9 DEF CompressorInv

(* The steps that change neither the documents nor the search.             *)
LEMMA PhaseStep ==
    ASSUME CompressorInv, FeaturesTaken \/ CompressLog \/ AggregateF \/ AggregateS \/ CompressGroups
    PROVE  CompressorInv'
<1>1. /\ UNCHANGED indexes /\ UNCHANGED <<taken, restaurants>>
      /\ UNCHANGED <<indexes, i1, i2, stand1, stand2, k, count, size, marks,
                     transferPair, oldrestored, newrestored>>
      /\ step' \in {"detected", "aggregateF", "groupF", "groupS", "compressed"}
  BY DEF FeaturesTaken, CompressLog, AggregateF, AggregateS, CompressGroups, Compresses, gvars,
         outputs
<1>2. SearchInv /\ DocumentsOK /\ restaurants \in Seq(DocType)
  BY DEF CompressorInv, DocumentsOK
<1>3. SearchInv'
  BY <1>1, <1>2, SearchFrame
<1>4. DocumentsOK'
  BY <1>1, <1>2, VersionsFrame DEF DocumentsOK, Steps
<1>5. \A feature, i, j : Shares(feature, i, j)' = Shares(feature, i, j)
  BY <1>1 DEF Shares
<1>6. GroupsOK'
  <2>1. CASE FeaturesTaken \/ CompressLog
    BY <2>1 DEF FeaturesTaken, CompressLog, GroupsOK
  <2>2. CASE AggregateF
    <3>1. step' = "groupF" /\ cursor' = Aggregate(F)
      BY <2>2 DEF AggregateF
    <3>2. AllInCursor(F)'
      BY <1>1, <1>2, <3>1, AggregateHas DEF AllInCursor, Shares
    <3> QED BY <3>1, <3>2 DEF GroupsOK
  <2>3. CASE AggregateS
    <3>1. step = "groupF" /\ cursor = {} /\ step' = "groupS" /\ cursor' = Aggregate(S)
      BY <2>3 DEF AggregateS
    <3>2. AllInCursor(S)'
      BY <1>1, <1>2, <3>1, AggregateHas DEF AllInCursor, Shares
    <3>3. NoneShare(F)'
      BY <1>1, <3>1 DEF CompressorInv, GroupsOK, AllInCursor, NoneShare, Shares
    <3> QED BY <3>1, <3>2, <3>3 DEF GroupsOK
  <2>4. CASE CompressGroups
    <3>1. step = "groupS" /\ cursor = {} /\ step' = "compressed"
      BY <2>4 DEF CompressGroups
    <3>2. NoneShare(F)' /\ NoneShare(S)'
      BY <1>1, <3>1 DEF CompressorInv, GroupsOK, AllInCursor, NoneShare, Shares
    <3> QED BY <3>1, <3>2 DEF GroupsOK
  <2> QED BY <2>1, <2>2, <2>3, <2>4
<1> QED BY <1>3, <1>4, <1>6 DEF CompressorInv

LEMMA GroupStep ==
    ASSUME CompressorInv, NEW at, NEW feature, GroupBy(at, feature),
           (at = "groupF" /\ feature = F) \/ (at = "groupS" /\ feature = S)
    PROVE  CompressorInv'
<1>1. /\ UNCHANGED indexes /\ UNCHANGED <<taken, step>> /\ step = at
      /\ UNCHANGED <<indexes, i1, i2, stand1, stand2, k, count, size, marks,
                     transferPair, oldrestored, newrestored>>
  BY DEF GroupBy, Compresses
<1>2. SearchInv /\ DocumentsOK /\ restaurants \in Seq(DocType)
  BY DEF CompressorInv, DocumentsOK
<1>3. PICK v \in cursor : Group(feature, v) /\ cursor' = cursor \ {v}
  BY DEF GroupBy
<1>4. SearchInv'
  BY <1>1, <1>2, SearchFrame
<1>5. restaurants' \in Seq(DocType) /\ Len(restaurants') = Len(restaurants)
  BY <1>2, <1>3, GroupFacts
<1>6. DocumentsOK'
  BY <1>1, <1>2, <1>5, VersionsFrame DEF DocumentsOK
<1>7. AllInCursor(feature)'
  <2> SUFFICES ASSUME NEW i \in 1 .. Len(restaurants'), NEW j \in 1 .. Len(restaurants'),
                      Shares(feature, i, j)'
               PROVE  feature[restaurants'[i].hash] \in cursor'
    BY DEF AllInCursor, Shares
  <2>1. /\ Shares(feature, i, j) /\ restaurants'[i].hash = restaurants[i].hash
        /\ feature[restaurants[i].hash] # v
    BY <1>2, <1>3, <1>5, GroupShares
  <2>2. feature[restaurants[i].hash] \in cursor
    BY <1>1, <1>5, <2>1 DEF CompressorInv, GroupsOK, AllInCursor
  <2> QED BY <1>3, <2>1, <2>2
<1>8. NoneShare(F) => NoneShare(F)'
  <2> SUFFICES ASSUME NEW i \in 1 .. Len(restaurants'), NEW j \in 1 .. Len(restaurants'),
                      Shares(F, i, j)'
               PROVE  Shares(F, i, j) /\ i \in 1 .. Len(restaurants) /\ j \in 1 .. Len(restaurants)
    BY DEF NoneShare, Shares
  <2> QED BY <1>2, <1>3, <1>5, GroupShares
<1>9. GroupsOK'
  BY <1>1, <1>7, <1>8 DEF CompressorInv, GroupsOK
<1> QED BY <1>4, <1>6, <1>9 DEF CompressorInv

LEMMA CompressorStepInv == CompressorInv /\ [CompressorNext]_<<dvars, gvars>> => CompressorInv'
<1> SUFFICES ASSUME CompressorInv, [CompressorNext]_<<dvars, gvars>> PROVE CompressorInv'
  OBVIOUS
<1>1. CASE GroupF \/ GroupS
  BY <1>1, GroupStep DEF GroupF, GroupS
<1>2. CASE UNCHANGED <<dvars, gvars>>
  <2>1. /\ UNCHANGED indexes /\ UNCHANGED <<taken, restaurants, cursor, step>>
        /\ UNCHANGED <<indexes, i1, i2, stand1, stand2, k, count, size, marks,
                       transferPair, oldrestored, newrestored>>
    BY <1>2 DEF dvars, gvars, outputs
  <2>2. SearchInv'
    BY <2>1, SearchFrame DEF CompressorInv
  <2>3. DocumentsOK'
    BY <2>1, VersionsFrame DEF CompressorInv, DocumentsOK
  <2>4. GroupsOK'
    BY <2>1 DEF CompressorInv, GroupsOK, AllInCursor, NoneShare, Shares
  <2> QED BY <2>2, <2>3, <2>4 DEF CompressorInv
<1> QED
  BY <1>1, <1>2, DetectingStep, TakeStep, PhaseStep DEF CompressorNext, Terminated

LEMMA CompressorInvGives == CompressorInv => GroupingComplete
<1> SUFFICES ASSUME CompressorInv PROVE GroupingComplete
  OBVIOUS
<1>1. DOMAIN restaurants = 1 .. Len(restaurants)
  BY DEF CompressorInv, DocumentsOK
<1> QED BY <1>1 DEF CompressorInv, GroupsOK, NoneShare, Shares, GroupingComplete

LEMMA CompressorInvAlways == CompressorSpec => []CompressorInv
  BY CompressorInitInv, CompressorStepInv, PTL DEF CompressorSpec

-----------------------------------------------------------------------------
(* truetransferDector reads nothing behind the old vector but one chunk,   *)
(* and nothing behind the new one but a window.                            *)
THEOREM DectorTypes == CompressorSpec => []DectorTypeOK
  BY CompressorInvAlways, SearchInvGives, PTL DEF CompressorInv

(* transferPair[size - 2], when a region ends, is the pair that opened it. *)
THEOREM RegionsClosed == CompressorSpec => []OpenRegionIsLast
  BY CompressorInvAlways, SearchInvGives, PTL DEF CompressorInv

(* The pairs and the chunks asked back are in the versions, unless what is *)
(* behind the new one looks like a chunk of the old one.                   *)
THEOREM PairsAreInside == CompressorSpec => []PairsInside
  BY CompressorInvAlways, SearchInvGives, PTL DEF CompressorInv

(* No chunk of the new version is asked for twice.                         *)
THEOREM NewChunksAscend == CompressorSpec => []NewChunksOnce
  BY CompressorInvAlways, SearchInvGives, PTL DEF CompressorInv

(* compress leaves no two documents without a group that share a feature.  *)
THEOREM GroupsComplete == CompressorSpec => []GroupingComplete
  BY CompressorInvAlways, CompressorInvGives, PTL
=============================================================================
