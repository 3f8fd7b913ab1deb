----------------------------- MODULE Compressor -----------------------------
(***************************************************************************)
(* What becomes of the chunks that Dector finds: it takes their features   *)
(* into the collection restaurants of a MongoDB, and                       *)
(* DeltaCompressor::compress (-rw) groups those that share a feature and   *)
(* makes deltas of the chunks of a group against its first.  compress also *)
(* makes deltas of the pairs of similar.log.  It measures the deltas and   *)
(* does not save them.                                                     *)
(*                                                                         *)
(* Documents have the form of two super-features (SFNumber 2).  With 4 the *)
(* field SF is an array, the _id that $SF.F gives is an array too, and     *)
(* get_utf8 of it throws as soon as two documents are not grouped.  The    *)
(* server executes find, aggregate and update_many one after the other;    *)
(* $group has read all its input when the first result arrives.            *)
(***************************************************************************)
EXTENDS Dector

CONSTANTS
    F, S,           \* the super-features of each fingerprint's chunk
    Similar,        \* <<base, chunk>>: the delta is shorter than the chunk
    Earlier         \* what restaurants may hold of earlier versions

ASSUME FeatureAssumption ==
    /\ DOMAIN F = Fingerprint /\ DOMAIN S = Fingerprint
    /\ Similar \subseteq Fingerprint \X Fingerprint
    /\ Earlier \subseteq Seq([hash : Known, group : {-1, 1}])

VARIABLES
    taken,          \* how many chunks of both lists Dector has dealt with
    restaurants,    \* the documents, in the order of their insertion
    cursor,         \* the features aggregate returned and still has
    groupList,
    deltas          \* the pairs <<base, chunk>> whose delta is counted

gvars == <<taken, restaurants, cursor, groupList, deltas>>

CompressorInit ==
    /\ DectorInit
    /\ taken = 0
    /\ restaurants \in Earlier
    /\ cursor = {} /\ groupList = <<>> /\ deltas = {}

Document(hash) == [hash |-> hash, group |-> -1]

(* extractSuperFeatures and insert_one for the unique chunks of both lists,*)
(* those of the old version first.  A chunk whose ID is behind the vector  *)
(* of the new version has no recipe entry to be restored by.               *)
Taking ==
    /\ step = "features"
    /\ taken' = taken + 1
    /\ UNCHANGED <<dvars, cursor, groupList, deltas>>

InsertIf(unique, hash) ==
    restaurants' = IF unique THEN Append(restaurants, Document(hash)) ELSE restaurants

TakeOld ==
    /\ taken < Len(oldrestored)
    /\ LET id == oldrestored[taken + 1] IN InsertIf(OldUnique(id), Old(id))
    /\ Taking

TakeNew ==
    /\ taken >= Len(oldrestored) /\ taken < Len(oldrestored) + Len(newrestored)
    /\ LET id == newrestored[taken + 1 - Len(oldrestored)]
       IN  InsertIf(id < n2 /\ NewUnique(id), New(id))
    /\ Taking

FeaturesTaken ==
    /\ step = "features"
    /\ taken = Len(oldrestored) + Len(newrestored)
    /\ step' = "detected"
    /\ UNCHANGED <<indexes, i1, i2, stand1, stand2, k, count, size, marks, outputs, gvars>>

-----------------------------------------------------------------------------
(* DeltaCompressor::compress *)
Compresses == UNCHANGED <<indexes, i1, i2, stand1, stand2, k, count, size, marks,
                          transferPair, oldrestored, newrestored, taken>>

(* The pairs of similar.log, which is then removed.                        *)
CompressLog ==
    LET pairs == {<<Old(e[1]), New(e[2])>> : e \in Range(log)}
    IN  /\ step = "detected"
        /\ deltas' = {p \in pairs : p[1] # p[2] /\ p \in Similar}
        /\ log' = <<>>
        /\ step' = "aggregateF"
        /\ Compresses /\ UNCHANGED <<restaurants, cursor, groupList>>

(* Mutant: a group needs three chunks.                                     *)
AggregateThree(feature) ==
    {v \in {feature[d.hash] : d \in Range(restaurants)} :
        Cardinality({j \in DOMAIN restaurants : restaurants[j].group = -1
                                             /\ feature[restaurants[j].hash] = v}) > 2}

(* What the pipeline of match and group returns, of the values with a      *)
(* count above 1.                                                          *)
Aggregate(feature) ==
    {v \in {feature[d.hash] : d \in Range(restaurants)} :
        Cardinality({j \in DOMAIN restaurants : restaurants[j].group = -1
                                             /\ feature[restaurants[j].hash] = v}) > 1}

AggregateF ==
    /\ step = "aggregateF"
    /\ cursor' = Aggregate(F)
    /\ step' = "groupF"
    /\ Compresses /\ UNCHANGED <<log, restaurants, groupList, deltas>>

AggregateS ==
    /\ step = "groupF" /\ cursor = {}
    /\ cursor' = Aggregate(S)
    /\ step' = "groupS"
    /\ Compresses /\ UNCHANGED <<log, restaurants, groupList, deltas>>

(* find and update_many take every document with the feature, those that   *)
(* are in a group included.                                                *)
Group(feature, v) ==
    LET Has(d) == feature[d.hash] = v
        found == SelectSeq(restaurants, Has)
    IN  /\ groupList' = Append(groupList, [j \in 1 .. Len(found) |-> found[j].hash])
        /\ restaurants' = [j \in DOMAIN restaurants |->
                              IF Has(restaurants[j]) THEN [restaurants[j] EXCEPT !.group = 1]
                              ELSE restaurants[j]]

GroupBy(at, feature) ==
    /\ step = at
    /\ \E v \in cursor : Group(feature, v) /\ cursor' = cursor \ {v}
    /\ Compresses /\ UNCHANGED <<log, deltas, step>>

GroupF == GroupBy("groupF", F)
GroupS == GroupBy("groupS", S)

(* The first chunk of a group is the base of the others.                   *)
CompressGroups ==
    /\ step = "groupS" /\ cursor = {}
    /\ deltas' = deltas \cup
          UNION {{<<g[1], g[j]>> : j \in {i \in 2 .. Len(g) : g[i] # g[1] /\ <<g[1], g[i]>> \in Similar}}
                    : g \in Range(groupList)}
    /\ step' = "compressed"
    /\ Compresses /\ UNCHANGED <<log, restaurants, cursor, groupList>>

Detecting == DectorNext /\ UNCHANGED gvars

Terminated == step = "compressed" /\ UNCHANGED <<dvars, gvars>>

CompressorNext ==
    \/ Detecting \/ TakeOld \/ TakeNew \/ FeaturesTaken
    \/ CompressLog \/ AggregateF \/ GroupF \/ AggregateS \/ GroupS \/ CompressGroups
    \/ Terminated

(* The program runs on until it has ended.                                 *)
CompressorSpec ==
    CompressorInit /\ [][CompressorNext]_<<dvars, gvars>> /\ WF_<<dvars, gvars>>(CompressorNext)

-----------------------------------------------------------------------------
(* After compress no two documents without a group share a feature, in     *)
(* whatever order the values of a feature are returned and whatever        *)
(* documents earlier versions left.                                        *)
GroupingComplete ==
    step = "compressed" =>
        \A i, j \in DOMAIN restaurants :
            (i # j /\ restaurants[i].group = -1 /\ restaurants[j].group = -1) =>
                /\ F[restaurants[i].hash] # F[restaurants[j].hash]
                /\ S[restaurants[i].hash] # S[restaurants[j].hash]

(* Detection ends, however often the window is searched and moved back,    *)
(* and so does compress.                                                   *)
CompressionEnds == <>(step = "compressed")
=============================================================================
