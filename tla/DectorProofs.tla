--------------------------- MODULE DectorProofs ---------------------------
(***************************************************************************)
(* What every pass of truetransferDector preserves, for all versions,      *)
(* window sizes and whatever is in memory behind the two vectors.  The     *)
(* theorems about the program that runs it are in CompressorProofs.        *)
(***************************************************************************)
EXTENDS Dector, TLAPS

LastPair == transferPair[Len(transferPair)]

(* A region is open, and its pair is the last one.                         *)
HasOpened == transferPair # <<>> /\ LastPair.oldID < i2

(* The types of the variables, and where i1 and i2 can be.                 *)
SearchTypes ==
    /\ n1 \in Nat /\ Len(old) = n1 + 1 /\ n2 \in Nat /\ Len(new) = n2 + MaxWin
    /\ i1 \in Nat /\ i2 \in Nat /\ i2 <= n2 + MaxWin
    /\ stand1 \in Nat /\ stand2 \in Nat /\ stand2 <= n2 + MaxWin
    /\ k \in Nat /\ k < MaxWin /\ count \in Nat /\ count <= MaxWin
    /\ size \in {MinWin, MaxWin}
    /\ flag \in {0, 1, 2} /\ before \in {0, 1} /\ after \in {0, 1, 2}
    /\ transferPair \in Seq(PairType)
    /\ oldrestored \in Seq(Int) /\ newrestored \in Seq(Int)

(* The place in the window.                                                *)
WindowOK ==
    step = "window" => /\ i1 = stand1 /\ i1 + k <= n1 /\ k < size
                       /\ i2 = stand2 + count /\ count < size

(* Where the versions parted.                                              *)
StandOK == step \in {"window", "region"} => stand1 < n1 /\ stand2 <= n2

(* The marks while no branch of the window's end is pending.               *)
MarksOK ==
    step \in {"outer", "window"} =>
        /\ after # 1
        /\ flag = 2 <=> after = 2
        /\ flag = 2 => i1 >= 1 /\ HasOpened

(* The versions have met again within the window.                          *)
HaveMet ==
    /\ i1 <= n1 /\ stand1 <= i1 /\ stand2 <= i2
    /\ i2 < n2 \/ FoundBeyond

(* The marks when the window has been left: met again or given up, with or *)
(* without an open region.                                                 *)
RegionOK ==
    step = "region" =>
        \/ flag = 1 /\ after = 0 /\ HaveMet
        \/ flag = 2 /\ after = 1 /\ HaveMet /\ i1 >= 1 /\ HasOpened
        \/ flag = 2 /\ after = 0 /\ before = 1 /\ i1 >= 1 /\ stand2 < i2
        \/ flag = 2 /\ after = 2 /\ before = 1 /\ i1 >= 1 /\ HasOpened

PairOK(p) == /\ p.newID \in 0 .. (n1 - 1) /\ p.oldID >= 0
             /\ p.oldID <= n2 + MaxWin /\ (p.oldID <= n2 \/ FoundBeyond)
OldOK(id) == id \in 0 .. (n1 - 1)
NewOK(id) == id >= 0 /\ (id < n2 \/ FoundBeyond)

OutputsOK ==
    /\ \A j \in 1 .. Len(transferPair) : PairOK(transferPair[j])
    /\ \A j \in 1 .. Len(oldrestored) : OldOK(oldrestored[j])
    /\ \A j \in 1 .. Len(newrestored) : NewOK(newrestored[j])

(* The chunks of the new version asked for so far are not behind the next  *)
(* place where a region can begin.                                         *)
UpTo(id) == \A j \in 1 .. Len(newrestored) : newrestored[j] <= id

Ascending ==
    \A a, b \in 1 .. Len(newrestored) : a < b => newrestored[a] < newrestored[b]

OrderOK ==
    /\ Ascending
    /\ after # 0 /\ step \in {"outer", "window", "region"} => UpTo(LastPair.oldID)
    /\ after = 0 /\ step = "outer" => UpTo(i2)
    /\ after = 0 /\ step \in {"window", "region"} => UpTo(stand2)

SearchInv ==
    /\ SearchTypes /\ WindowOK /\ StandOK /\ MarksOK /\ RegionOK /\ OutputsOK /\ OrderOK

-----------------------------------------------------------------------------
(* Sequences.                                                              *)
LEMMA AppendFacts ==
    ASSUME NEW T, NEW s \in Seq(T), NEW e \in T
    PROVE  /\ Append(s, e) \in Seq(T) /\ Len(Append(s, e)) = Len(s) + 1 /\ Len(s) \in Nat
           /\ \A j \in 1 .. Len(s) : Append(s, e)[j] = s[j]
           /\ Append(s, e)[Len(s) + 1] = e
  OBVIOUS

LEMMA ConcatFacts ==
    ASSUME NEW T, NEW s \in Seq(T), NEW t \in Seq(T)
    PROVE  /\ s \o t \in Seq(T) /\ Len(s \o t) = Len(s) + Len(t)
           /\ Len(s) \in Nat /\ Len(t) \in Nat
           /\ \A j \in 1 .. Len(s) : (s \o t)[j] = s[j]
           /\ \A j \in 1 .. Len(t) : (s \o t)[Len(s) + j] = t[j]
           /\ \A j \in 1 .. Len(s \o t) : j > Len(s) =>
                 j - Len(s) \in 1 .. Len(t) /\ (s \o t)[j] = t[j - Len(s)]
  OBVIOUS

(* The chunks strictly inside a region.                                    *)
LEMMA InsideFacts ==
    ASSUME NEW from \in Int, NEW end \in Int
    PROVE  /\ Inside(from, end) \in Seq(Int)
           /\ \A j \in 1 .. Len(Inside(from, end)) :
                 /\ Inside(from, end)[j] = from + j
                 /\ from + j <= end - 2
<1>1. CASE from < end - 2
  <2>1. end - 2 - from \in Nat
    BY <1>1
  <2>2. Inside(from, end) = [j \in 1 .. (end - 2 - from) |-> from + j]
    BY <1>1 DEF Inside
  <2>3. Inside(from, end) \in Seq(Int) /\ Len(Inside(from, end)) = end - 2 - from
    BY <2>1, <2>2
  <2> QED BY <2>1, <2>2, <2>3
<1>2. CASE ~(from < end - 2)
  BY <1>2 DEF Inside
<1> QED BY <1>1, <1>2

(* A pair that is recorded, in numbers.                                    *)
LEMMA PairFacts ==
    ASSUME NEW i \in Int, NEW j \in Int
    PROVE  Pair(i, j) \in PairType /\ Pair(i, j).newID = i /\ Pair(i, j).oldID = j
  BY DEF Pair, PairType

(* The last pair is one of them.                                           *)
LEMMA LastPairFacts ==
    ASSUME SearchInv, transferPair # <<>>
    PROVE  /\ Len(transferPair) \in 1 .. Len(transferPair)
           /\ LastPair \in PairType /\ LastPair.newID \in Int /\ LastPair.oldID \in Int
           /\ PairOK(LastPair)
<1>1. transferPair \in Seq(PairType)
  BY DEF SearchInv, SearchTypes
<1>2. Len(transferPair) \in 1 .. Len(transferPair)
  BY <1>1
<1>3. LastPair \in PairType
  BY <1>1, <1>2 DEF LastPair
<1> QED
  BY <1>2, <1>3 DEF LastPair, SearchInv, OutputsOK, PairType

-----------------------------------------------------------------------------
(* What a step leaves alone.                                               *)
LEMMA SameIndexes ==
    ASSUME UNCHANGED indexes
    PROVE  /\ UNCHANGED <<old, new, n1, n2>> /\ FoundBeyond' = FoundBeyond
           /\ \A p : PairOK(p)' = PairOK(p)
           /\ \A id : OldOK(id)' = OldOK(id) /\ NewOK(id)' = NewOK(id)
<1>1. UNCHANGED <<old, new, n1, n2>>
  BY DEF indexes
<1>2. FoundBeyond' = FoundBeyond
  BY <1>1 DEF FoundBeyond, Old, New
<1> QED
  BY <1>1, <1>2 DEF PairOK, OldOK, NewOK

LEMMA SameOutputs ==
    ASSUME SearchInv, UNCHANGED <<indexes, transferPair, oldrestored, newrestored>>
    PROVE  /\ OutputsOK' /\ Ascending' /\ LastPair' = LastPair
           /\ \A id : UpTo(id)' = UpTo(id)
<1>1. OutputsOK'
  BY SameIndexes DEF SearchInv, OutputsOK
<1>2. Ascending'
  BY DEF SearchInv, OrderOK, Ascending
<1> QED
  BY <1>1, <1>2 DEF LastPair, UpTo

(* One more pair, the chunks asked for as before.                          *)
LEMMA AppendPair ==
    ASSUME SearchInv, UNCHANGED <<indexes, oldrestored, newrestored>>,
           NEW i \in Int, NEW j \in Int, PairOK(Pair(i, j)),
           transferPair' = Append(transferPair, Pair(i, j))
    PROVE  /\ transferPair' \in Seq(PairType) /\ transferPair' # <<>>
           /\ LastPair'.oldID = j
           /\ OutputsOK' /\ Ascending'
           /\ \A id : UpTo(id)' = UpTo(id)
<1>1. transferPair \in Seq(PairType) /\ Pair(i, j) \in PairType
  BY PairFacts DEF SearchInv, SearchTypes
<1>2. /\ transferPair' \in Seq(PairType) /\ Len(transferPair') = Len(transferPair) + 1
      /\ Len(transferPair) \in Nat
      /\ \A a \in 1 .. Len(transferPair) : transferPair'[a] = transferPair[a]
      /\ transferPair'[Len(transferPair) + 1] = Pair(i, j)
  BY <1>1, AppendFacts
<1>3. transferPair' # <<>> /\ LastPair' = Pair(i, j)
  BY <1>2 DEF LastPair
<1>4. \A a \in 1 .. Len(transferPair') : PairOK(transferPair'[a])
  BY <1>2 DEF SearchInv, OutputsOK
<1>5. OutputsOK'
  BY <1>4, SameIndexes DEF SearchInv, OutputsOK
<1>6. Ascending' /\ \A id : UpTo(id)' = UpTo(id)
  BY DEF SearchInv, OrderOK, Ascending, UpTo
<1> QED
  BY <1>2, <1>3, <1>5, <1>6, PairFacts

(* The chunks inside a region are asked for, in order behind all others.   *)
LEMMA TakeInside ==
    ASSUME SearchInv, UNCHANGED indexes,
           NEW from1 \in Nat, NEW from2 \in Nat, UpTo(from2), HaveMet,
           oldrestored' = oldrestored \o Inside(from1, i1),
           newrestored' = newrestored \o Inside(from2, i2)
    PROVE  /\ oldrestored' \in Seq(Int) /\ newrestored' \in Seq(Int)
           /\ \A a \in 1 .. Len(oldrestored') : OldOK(oldrestored'[a])
           /\ \A a \in 1 .. Len(newrestored') : NewOK(newrestored'[a])
           /\ Ascending'
           /\ from2 <= i2 => \A a \in 1 .. Len(newrestored') : newrestored'[a] <= i2
<1> DEFINE ins1 == Inside(from1, i1)
           ins2 == Inside(from2, i2)
<1>1. /\ oldrestored \in Seq(Int) /\ newrestored \in Seq(Int)
      /\ i1 \in Nat /\ i2 \in Nat /\ n1 \in Nat /\ n2 \in Nat
  BY DEF SearchInv, SearchTypes
<1>2. /\ ins1 \in Seq(Int) /\ ins2 \in Seq(Int)
      /\ \A j \in 1 .. Len(ins1) : ins1[j] = from1 + j /\ from1 + j <= i1 - 2
      /\ \A j \in 1 .. Len(ins2) : ins2[j] = from2 + j /\ from2 + j <= i2 - 2
  <2>1. from1 \in Int /\ from2 \in Int /\ i1 \in Int /\ i2 \in Int
    BY <1>1
  <2>2. /\ ins1 \in Seq(Int)
        /\ \A j \in 1 .. Len(ins1) : ins1[j] = from1 + j /\ from1 + j <= i1 - 2
    BY <2>1, InsideFacts
  <2>3. /\ ins2 \in Seq(Int)
        /\ \A j \in 1 .. Len(ins2) : ins2[j] = from2 + j /\ from2 + j <= i2 - 2
    BY <2>1, InsideFacts
  <2> QED BY <2>2, <2>3
<1> HIDE DEF ins1, ins2
<1>3. /\ oldrestored' \in Seq(Int)
      /\ \A a \in 1 .. Len(oldrestored') :
            \/ a \in 1 .. Len(oldrestored) /\ oldrestored'[a] = oldrestored[a]
            \/ \E j \in 1 .. Len(ins1) : oldrestored'[a] = ins1[j]
  <2>1. oldrestored' = oldrestored \o ins1
    BY DEF ins1
  <2>2. /\ oldrestored \o ins1 \in Seq(Int) /\ Len(oldrestored) \in Nat
        /\ Len(oldrestored \o ins1) = Len(oldrestored) + Len(ins1) /\ Len(ins1) \in Nat
        /\ \A j \in 1 .. Len(oldrestored) : (oldrestored \o ins1)[j] = oldrestored[j]
        /\ \A j \in 1 .. Len(oldrestored \o ins1) : j > Len(oldrestored) =>
              /\ j - Len(oldrestored) \in 1 .. Len(ins1)
              /\ (oldrestored \o ins1)[j] = ins1[j - Len(oldrestored)]
    BY <1>1, <1>2, ConcatFacts
  <2>3. ASSUME NEW a \in 1 .. Len(oldrestored')
        PROVE  \/ a \in 1 .. Len(oldrestored) /\ oldrestored'[a] = oldrestored[a]
               \/ \E j \in 1 .. Len(ins1) : oldrestored'[a] = ins1[j]
    <3>1. CASE a <= Len(oldrestored)
      BY <2>1, <2>2, <3>1
    <3>2. CASE a > Len(oldrestored)
      <4>1. /\ a - Len(oldrestored) \in 1 .. Len(ins1)
            /\ oldrestored'[a] = ins1[a - Len(oldrestored)]
        BY <2>1, <2>2, <3>2
      <4> QED BY <4>1
    <3> QED BY <2>1, <2>2, <3>1, <3>2
  <2> QED BY <2>1, <2>2, <2>3
<1>4. /\ newrestored' \in Seq(Int) /\ Len(newrestored) \in Nat /\ Len(newrestored') \in Nat
      /\ \A a \in 1 .. Len(newrestored) : newrestored'[a] = newrestored[a]
      /\ \A a \in 1 .. Len(newrestored') : a > Len(newrestored) =>
            /\ a - Len(newrestored) \in 1 .. Len(ins2)
            /\ newrestored'[a] = ins2[a - Len(newrestored)]
  <2>1. newrestored' = newrestored \o ins2
    BY DEF ins2
  <2>2. /\ newrestored \o ins2 \in Seq(Int) /\ Len(newrestored) \in Nat
        /\ Len(newrestored \o ins2) = Len(newrestored) + Len(ins2) /\ Len(ins2) \in Nat
        /\ \A j \in 1 .. Len(newrestored) : (newrestored \o ins2)[j] = newrestored[j]
        /\ \A j \in 1 .. Len(newrestored \o ins2) : j > Len(newrestored) =>
              /\ j - Len(newrestored) \in 1 .. Len(ins2)
              /\ (newrestored \o ins2)[j] = ins2[j - Len(newrestored)]
    BY <1>1, <1>2, ConcatFacts
  <2> QED BY <2>1, <2>2
<1>5. \A a \in 1 .. Len(oldrestored') : OldOK(oldrestored'[a])
  <2> SUFFICES ASSUME NEW a \in 1 .. Len(oldrestored') PROVE OldOK(oldrestored'[a])
    OBVIOUS
  <2>1. CASE a \in 1 .. Len(oldrestored) /\ oldrestored'[a] = oldrestored[a]
    BY <2>1 DEF SearchInv, OutputsOK
  <2>2. CASE \E j \in 1 .. Len(ins1) : oldrestored'[a] = ins1[j]
    <3>1. PICK j \in 1 .. Len(ins1) : oldrestored'[a] = ins1[j]
      BY <2>2
    <3>2. oldrestored'[a] = from1 + j /\ from1 + j <= i1 - 2 /\ j \in Nat
      BY <1>2, <3>1
    <3> QED BY <1>1, <3>2 DEF OldOK, HaveMet
  <2> QED BY <1>3, <2>1, <2>2
<1>6. ASSUME NEW a \in 1 .. Len(newrestored'), a > Len(newrestored)
      PROVE  /\ newrestored'[a] = from2 + (a - Len(newrestored))
             /\ newrestored'[a] <= i2 - 2
  BY <1>2, <1>4, <1>6
<1>7. ASSUME NEW a \in 1 .. Len(newrestored'), a <= Len(newrestored)
      PROVE  /\ a \in 1 .. Len(newrestored) /\ newrestored'[a] = newrestored[a]
             /\ newrestored[a] \in Int /\ newrestored[a] <= from2
  BY <1>1, <1>4, <1>7 DEF UpTo
<1>8. \A a \in 1 .. Len(newrestored') : NewOK(newrestored'[a])
  <2> SUFFICES ASSUME NEW a \in 1 .. Len(newrestored') PROVE NewOK(newrestored'[a])
    OBVIOUS
  <2>1. CASE a <= Len(newrestored)
    BY <1>7, <2>1 DEF SearchInv, OutputsOK
  <2>2. CASE a > Len(newrestored)
    BY <1>1, <1>4, <1>6, <2>2 DEF NewOK, HaveMet
  <2> QED BY <1>4, <2>1, <2>2
<1>9. Ascending'
  <2> SUFFICES ASSUME NEW a \in 1 .. Len(newrestored'), NEW b \in 1 .. Len(newrestored'), a < b
               PROVE  newrestored'[a] < newrestored'[b]
    BY DEF Ascending
  <2>1. CASE b <= Len(newrestored)
    <3>1. a <= Len(newrestored)
      BY <1>4, <2>1
    <3> QED BY <1>7, <2>1, <3>1 DEF SearchInv, OrderOK, Ascending
  <2>2. CASE a <= Len(newrestored) /\ b > Len(newrestored)
    BY <1>4, <1>6, <1>7, <2>2
  <2>3. CASE a > Len(newrestored)
    <3>1. b > Len(newrestored)
      BY <1>4, <2>3
    <3> QED BY <1>4, <1>6, <2>3, <3>1
  <2> QED BY <1>4, <2>1, <2>2, <2>3
<1>10. ASSUME from2 <= i2, NEW a \in 1 .. Len(newrestored')
       PROVE  newrestored'[a] <= i2
  <2>1. CASE a <= Len(newrestored)
    BY <1>1, <1>7, <1>10, <2>1
  <2>2. CASE a > Len(newrestored)
    BY <1>1, <1>4, <1>6, <2>2
  <2> QED BY <1>4, <2>1, <2>2
<1> QED
  BY <1>3, <1>4, <1>5, <1>8, <1>9, <1>10

-----------------------------------------------------------------------------
(* The window sizes, as numbers.                                           *)
LEMMA SizeFacts ==
    ASSUME SearchInv
    PROVE  /\ MinWin \in Nat /\ MaxWin \in Nat /\ MinWin >= 1 /\ MinWin <= MaxWin
           /\ size \in Nat /\ size >= 1 /\ size <= MaxWin
  BY WindowAssumption DEF SearchInv, SearchTypes

(* The outer loop.                                                         *)
LEMMA OuterStep ==
    ASSUME SearchInv, EqualChunks \/ EqualEndsRegion \/ Part \/ LoopEnds
    PROVE  SearchInv'
<1>1. /\ step = "outer" /\ UNCHANGED indexes /\ UNCHANGED <<old, new, n1, n2>>
      /\ FoundBeyond' = FoundBeyond
  BY SameIndexes DEF EqualChunks, EqualEndsRegion, Part, LoopEnds, Comparing
<1>2. SearchTypes /\ (after # 1) /\ (flag = 2 <=> after = 2)
      /\ (flag = 2 => i1 >= 1 /\ HasOpened) /\ Ascending
  BY <1>1 DEF SearchInv, MarksOK, OrderOK
<1>3. CASE EqualChunks
  <2>1. /\ UNCHANGED <<stand1, stand2, k, count, flag, before, after, transferPair,
                       oldrestored, newrestored, step>>
        /\ i1' = i1 + 1 /\ i2' = i2 + 1 /\ size' = MinWin /\ flag # 2 /\ i2 <= n2
    BY <1>3 DEF EqualChunks, Comparing, Advance, marks, outputs
  <2>2. SearchTypes'
    BY <1>1, <1>2, <2>1, SizeFacts DEF SearchTypes
  <2>3. WindowOK' /\ StandOK' /\ MarksOK' /\ RegionOK'
    BY <1>1, <1>2, <2>1 DEF WindowOK, StandOK, MarksOK, RegionOK, SearchTypes
  <2>4. OutputsOK' /\ Ascending' /\ \A id : UpTo(id)' = UpTo(id)
    BY <1>1, <2>1, SameOutputs
  <2>5. UpTo(i2) /\ after = 0
    BY <1>1, <1>2, <2>1 DEF SearchInv, OrderOK, SearchTypes
  <2>6. UpTo(i2 + 1)
    BY <1>2, <2>5 DEF UpTo, SearchTypes
  <2>7. UpTo(i2)'
    BY <2>1, <2>6 DEF UpTo
  <2> QED BY <1>1, <2>1, <2>2, <2>3, <2>4, <2>5, <2>7 DEF SearchInv, OrderOK
<1>4. CASE EqualEndsRegion
  <2>1. /\ UNCHANGED <<k, count, before, oldrestored, newrestored, step>>
        /\ i1' = i1 + 1 /\ i2' = i2 + 1 /\ size' = MinWin /\ flag = 2 /\ i2 <= n2 /\ i1 < n1
        /\ transferPair' = Append(transferPair, Pair(i1 - 1, i2 - 1))
        /\ stand1' = transferPair'[Len(transferPair)].newID
        /\ stand2' = transferPair'[Len(transferPair)].oldID
        /\ after' = 0 /\ flag' = 0
    BY <1>4 DEF EqualEndsRegion, Comparing, Advance
  <2>2. /\ PairOK(LastPair) /\ LastPair.newID \in Int /\ LastPair.oldID \in Int
        /\ Len(transferPair) \in 1 .. Len(transferPair)
    BY <1>2, <2>1, LastPairFacts DEF HasOpened
  <2>3. i1 - 1 \in Int /\ i2 - 1 \in Int
    BY <1>2 DEF SearchTypes
  <2>4. PairOK(Pair(i1 - 1, i2 - 1))
    <3>1. Pair(i1 - 1, i2 - 1).newID = i1 - 1 /\ Pair(i1 - 1, i2 - 1).oldID = i2 - 1
      BY <2>3, PairFacts
    <3>2. i1 >= 1 /\ i1 < n1 /\ i2 >= 1 /\ i2 <= n2 /\ MaxWin \in Nat
          /\ i1 \in Nat /\ i2 \in Nat /\ n1 \in Nat /\ n2 \in Nat
      BY <1>2, <2>1, <2>2, SizeFacts DEF PairOK, HasOpened, SearchTypes
    <3> QED BY <3>1, <3>2 DEF PairOK
  <2>5. /\ transferPair' \in Seq(PairType) /\ OutputsOK' /\ Ascending'
        /\ \A id : UpTo(id)' = UpTo(id)
    BY <1>1, <2>1, <2>3, <2>4, AppendPair
  <2>6. transferPair'[Len(transferPair)] = LastPair
    BY <1>2, <2>1, <2>2, <2>3, PairFacts, AppendFacts DEF LastPair, SearchTypes
  <2>7. stand1' \in Nat /\ stand2' \in Nat /\ stand2' <= n2 + MaxWin
    BY <1>2, <2>1, <2>2, <2>6 DEF PairOK, SearchTypes
  <2>8. SearchTypes'
    <3>1. /\ i1' = i1 + 1 /\ i2' = i2 + 1 /\ i2 <= n2 /\ size' = MinWin /\ after' = 0 /\ flag' = 0
          /\ UNCHANGED <<old, new, n1, n2, k, count, before, oldrestored, newrestored>>
      BY <1>1, <2>1
    <3> QED BY <1>2, <2>5, <2>7, <3>1, SizeFacts DEF SearchTypes
  <2>9. WindowOK' /\ StandOK' /\ MarksOK' /\ RegionOK'
    BY <1>1, <2>1 DEF WindowOK, StandOK, MarksOK, RegionOK
  <2>10. UpTo(LastPair.oldID) /\ LastPair.oldID < i2
    BY <1>1, <1>2, <2>1 DEF SearchInv, OrderOK, HasOpened
  <2>11. UpTo(i2)'
    <3> SUFFICES ASSUME NEW j \in 1 .. Len(newrestored) PROVE newrestored[j] <= i2 + 1
      BY <2>1 DEF UpTo
    <3>1. newrestored[j] <= LastPair.oldID /\ newrestored[j] \in Int /\ i2 \in Nat
      BY <1>2, <2>10 DEF UpTo, SearchTypes
    <3> QED BY <2>2, <2>10, <3>1
  <2> QED BY <1>1, <2>1, <2>5, <2>8, <2>9, <2>11 DEF SearchInv, OrderOK
<1>5. CASE Part
  <2>1. /\ UNCHANGED <<i1, i2, size, flag, before, after, transferPair, oldrestored, newrestored>>
        /\ stand1' = i1 /\ stand2' = i2 /\ k' = 0 /\ count' = 0 /\ step' = "window"
        /\ i1 < n1 /\ i2 <= n2
    BY <1>5 DEF Part, Comparing, marks, outputs
  <2>2. SearchTypes'
    BY <1>1, <1>2, <2>1, SizeFacts DEF SearchTypes
  <2>3. WindowOK' /\ StandOK'
    BY <1>1, <1>2, <2>1, SizeFacts DEF WindowOK, StandOK, SearchTypes
  <2>4. OutputsOK' /\ Ascending' /\ LastPair' = LastPair /\ \A id : UpTo(id)' = UpTo(id)
    BY <1>1, <2>1, SameOutputs
  <2>5. MarksOK' /\ RegionOK'
    BY <1>2, <2>1, <2>4 DEF MarksOK, RegionOK, HasOpened
  <2> QED BY <1>1, <2>1, <2>2, <2>3, <2>4, <2>5 DEF SearchInv, OrderOK, UpTo
<1>6. CASE LoopEnds
  <2>1. /\ UNCHANGED <<i1, i2, stand1, stand2, k, count, size, flag, before, after,
                       transferPair, oldrestored, newrestored>>
        /\ step' = "features"
    BY <1>6 DEF LoopEnds, marks, outputs
  <2>2. SearchTypes'
    BY <1>1, <1>2, <2>1 DEF SearchTypes
  <2>3. WindowOK' /\ StandOK' /\ MarksOK' /\ RegionOK'
    BY <2>1 DEF WindowOK, StandOK, MarksOK, RegionOK
  <2>4. OutputsOK' /\ Ascending'
    BY <1>1, <2>1, SameOutputs
  <2> QED BY <2>1, <2>2, <2>3, <2>4 DEF SearchInv, OrderOK
<1> QED BY <1>3, <1>4, <1>5, <1>6

(* The window.                                                             *)
LEMMA WindowStep ==
    ASSUME SearchInv, Meet \/ Slide \/ NextChunk \/ GiveUp
    PROVE  SearchInv'
<1>1. /\ step = "window" /\ UNCHANGED indexes /\ UNCHANGED <<old, new, n1, n2>>
      /\ FoundBeyond' = FoundBeyond
      /\ UNCHANGED <<stand1, stand2, transferPair, oldrestored, newrestored>>
  BY SameIndexes DEF Meet, Slide, NextChunk, GiveUp, WindowEnds, outputs
<1>2. /\ SearchTypes /\ (after # 1) /\ (flag = 2 <=> after = 2)
      /\ (flag = 2 => i1 >= 1 /\ HasOpened) /\ Ascending
      /\ i1 = stand1 /\ i1 + k <= n1 /\ k < size
      /\ i2 = stand2 + count /\ count < size
      /\ stand1 < n1 /\ stand2 <= n2
  BY <1>1 DEF SearchInv, WindowOK, StandOK, MarksOK, OrderOK
<1>3. /\ OutputsOK' /\ Ascending' /\ LastPair' = LastPair
      /\ \A id : UpTo(id)' = UpTo(id)
  BY <1>1, SameOutputs
<1>4. StandOK'
  BY <1>1, <1>2 DEF StandOK
<1>5. CASE Meet
  <2>1. /\ UNCHANGED <<i2, k, count, before>>
        /\ i1' = i1 + k /\ size' = MinWin /\ Old(i1 + k) = New(i2) /\ step' = "region"
        /\ IF flag = 2 THEN after' = 1 /\ flag' = flag ELSE flag' = 1 /\ after' = after
    BY <1>5 DEF Meet, Here
  <2>2. SearchTypes'
    BY <1>1, <1>2, <2>1, SizeFacts DEF SearchTypes
  <2>3. WindowOK' /\ MarksOK'
    BY <2>1 DEF WindowOK, MarksOK
  <2>4. i2 < n2 \/ FoundBeyond
    <3>1. i1 + k \in 0 .. n1 /\ i2 \in 0 .. (n2 + MaxWin - 1)
      BY <1>2, SizeFacts DEF SearchTypes
    <3> QED BY <1>2, <2>1, <3>1, SizeFacts DEF FoundBeyond, SearchTypes
  <2>5. HaveMet'
    BY <1>1, <1>2, <2>1, <2>4 DEF HaveMet, SearchTypes
  <2>6. RegionOK'
    BY <1>1, <1>2, <1>3, <2>1, <2>5 DEF RegionOK, HasOpened, SearchTypes
  <2>7. OrderOK'
    BY <1>1, <1>2, <1>3, <2>1 DEF SearchInv, OrderOK, UpTo
  <2> QED BY <1>3, <1>4, <2>2, <2>3, <2>6, <2>7 DEF SearchInv
<1>6. CASE Slide
  <2>1. /\ UNCHANGED <<i1, i2, count, size, flag, before, after, step>>
        /\ k' = k + 1 /\ i1 + k < n1 /\ k # size - 1
    BY <1>2, <1>6 DEF Slide, AtEnd, marks, SearchTypes
  <2>2. SearchTypes'
    BY <1>1, <1>2, <2>1, SizeFacts DEF SearchTypes
  <2>3. HasOpened' = HasOpened
    BY <1>1, <1>3, <2>1 DEF HasOpened
  <2>4. WindowOK' /\ MarksOK' /\ RegionOK'
    BY <1>1, <1>2, <2>1, <2>3, SizeFacts DEF WindowOK, MarksOK, RegionOK, SearchTypes
  <2>5. OrderOK'
    BY <1>1, <1>2, <1>3, <2>1 DEF SearchInv, OrderOK, UpTo
  <2> QED BY <1>3, <1>4, <2>2, <2>4, <2>5 DEF SearchInv
<1>7. CASE NextChunk
  <2>1. /\ UNCHANGED <<size, flag, before, after, step>>
        /\ i1' = stand1 /\ i2' = i2 + 1 /\ k' = 0 /\ count' = count + 1 /\ count + 1 < size
    BY <1>7 DEF NextChunk, marks
  <2>2. SearchTypes'
    BY <1>1, <1>2, <2>1, SizeFacts DEF SearchTypes
  <2>3. HasOpened => HasOpened'
    BY <1>1, <1>2, <1>3, <2>1, LastPairFacts DEF HasOpened, SearchTypes
  <2>4. WindowOK' /\ MarksOK' /\ RegionOK'
    BY <1>1, <1>2, <2>1, <2>3, SizeFacts DEF WindowOK, MarksOK, RegionOK, SearchTypes
  <2>5. OrderOK'
    BY <1>1, <1>2, <1>3, <2>1 DEF SearchInv, OrderOK, UpTo
  <2> QED BY <1>3, <1>4, <2>2, <2>4, <2>5 DEF SearchInv
<1>8. CASE GiveUp
  <2>1. /\ UNCHANGED after
        /\ i1' = i2 + 1 /\ i2' = i2 + 1 /\ k' = 0 /\ count' = count + 1
        /\ size' = MaxWin /\ flag' = 2 /\ before' = 1 /\ step' = "region"
    BY <1>8 DEF GiveUp
  <2>2. SearchTypes'
    BY <1>1, <1>2, <2>1, SizeFacts DEF SearchTypes
  <2>3. HasOpened => HasOpened'
    BY <1>1, <1>2, <1>3, <2>1, LastPairFacts DEF HasOpened, SearchTypes
  <2>4. WindowOK' /\ MarksOK' /\ RegionOK'
    BY <1>1, <1>2, <2>1, <2>3, SizeFacts DEF WindowOK, MarksOK, RegionOK, SearchTypes
  <2>5. OrderOK'
    BY <1>1, <1>2, <1>3, <2>1 DEF SearchInv, OrderOK, UpTo
  <2> QED BY <1>3, <1>4, <2>2, <2>4, <2>5 DEF SearchInv
<1> QED BY <1>5, <1>6, <1>7, <1>8

(* After the window: at most one of the branches, and back to the outer    *)
(* loop.                                                                   *)
LEMMA RegionStep ==
    ASSUME SearchInv, Region
    PROVE  SearchInv'
<1>1. /\ step = "region" /\ step' = "outer" /\ flag = 1 /\ flag' = 0
      /\ i1 # stand1 /\ i2 # stand2
      /\ UNCHANGED indexes /\ UNCHANGED <<old, new, n1, n2>>
      /\ UNCHANGED <<i1, i2, stand1, stand2, k, count, size, before, after>>
      /\ transferPair' = transferPair \o <<Pair(stand1, stand2), Pair(i1 - 1, i2 - 1)>>
      /\ oldrestored' = oldrestored \o Inside(stand1, i1)
      /\ newrestored' = newrestored \o Inside(stand2, i2)
  BY DEF Region, AfterWindow, IsRegion, indexes
<1>2. /\ SearchTypes /\ after = 0 /\ HaveMet /\ stand1 < n1 /\ stand2 <= n2
      /\ UpTo(stand2) /\ Ascending
  BY <1>1 DEF SearchInv, StandOK, RegionOK, OrderOK
<1>3. /\ stand1 \in Nat /\ stand2 \in Nat /\ i1 \in Nat /\ i2 \in Nat /\ n1 \in Nat /\ n2 \in Nat
      /\ stand1 < i1 /\ stand2 < i2 /\ i1 <= n1 /\ i2 <= n2 + MaxWin /\ MaxWin \in Nat
      /\ (i2 < n2 \/ FoundBeyond)
  BY <1>1, <1>2, SizeFacts DEF SearchTypes, HaveMet
<1>4. /\ oldrestored' \in Seq(Int) /\ newrestored' \in Seq(Int)
      /\ \A a \in 1 .. Len(oldrestored') : OldOK(oldrestored'[a])
      /\ \A a \in 1 .. Len(newrestored') : NewOK(newrestored'[a])
      /\ Ascending'
      /\ \A a \in 1 .. Len(newrestored') : newrestored'[a] <= i2
  <2>1. /\ oldrestored' \in Seq(Int) /\ newrestored' \in Seq(Int)
        /\ \A a \in 1 .. Len(oldrestored') : OldOK(oldrestored'[a])
        /\ \A a \in 1 .. Len(newrestored') : NewOK(newrestored'[a])
        /\ Ascending'
        /\ stand2 <= i2 => \A a \in 1 .. Len(newrestored') : newrestored'[a] <= i2
    BY <1>1, <1>2, <1>3, TakeInside
  <2>2. stand2 <= i2
    BY <1>3
  <2> QED BY <2>1, <2>2
<1> DEFINE p == Pair(stand1, stand2)
           q == Pair(i1 - 1, i2 - 1)
<1>5. /\ p \in PairType /\ p.newID = stand1 /\ p.oldID = stand2
  BY <1>3, PairFacts
<1>6. /\ q \in PairType /\ q.newID = i1 - 1 /\ q.oldID = i2 - 1
  <2>1. i1 - 1 \in Int /\ i2 - 1 \in Int
    BY <1>3
  <2> QED BY <2>1, PairFacts
<1>7. PairOK(p) /\ PairOK(q)
  BY <1>2, <1>3, <1>5, <1>6 DEF PairOK
<1> HIDE DEF p, q
<1>8. /\ transferPair' \in Seq(PairType)
      /\ \A a \in 1 .. Len(transferPair') : PairOK(transferPair'[a])
  <2>1. transferPair' = transferPair \o <<p, q>> /\ transferPair \in Seq(PairType)
    BY <1>1, <1>2 DEF p, q, SearchTypes
  <2>2. <<p, q>> \in Seq(PairType) /\ Len(<<p, q>>) = 2
    BY <1>5, <1>6
  <2>3. /\ transferPair' \in Seq(PairType) /\ Len(transferPair) \in Nat
        /\ Len(transferPair') = Len(transferPair) + 2
        /\ \A j \in 1 .. Len(transferPair) : transferPair'[j] = transferPair[j]
        /\ transferPair'[Len(transferPair) + 1] = p
        /\ transferPair'[Len(transferPair) + 2] = q
    BY <2>1, <2>2
  <2>4. \A a \in 1 .. Len(transferPair) : PairOK(transferPair[a])
    BY DEF SearchInv, OutputsOK
  <2>5. \A a \in 1 .. Len(transferPair') :
           a \in 1 .. Len(transferPair) \/ a = Len(transferPair) + 1 \/ a = Len(transferPair) + 2
    BY <2>3
  <2> QED BY <1>7, <2>3, <2>4, <2>5
<1>9. OutputsOK'
  BY <1>1, <1>4, <1>8, SameIndexes DEF OutputsOK
<1>10. SearchTypes'
  BY <1>1, <1>2, <1>4, <1>8 DEF SearchTypes
<1>11. WindowOK' /\ StandOK' /\ MarksOK' /\ RegionOK'
  BY <1>1, <1>2 DEF WindowOK, StandOK, MarksOK, RegionOK
<1>12. OrderOK'
  BY <1>1, <1>2, <1>4 DEF OrderOK, UpTo
<1> QED BY <1>9, <1>10, <1>11, <1>12 DEF SearchInv

LEMMA PairStep ==
    ASSUME SearchInv, SinglePair \/ OpenRegion
    PROVE  SearchInv'
<1>1. /\ step = "region" /\ step' = "outer"
      /\ UNCHANGED indexes /\ UNCHANGED <<old, new, n1, n2>>
      /\ UNCHANGED <<i1, i2, stand1, stand2, k, count, size, oldrestored, newrestored>>
      /\ transferPair' = Append(transferPair, Pair(stand1, stand2))
      /\ \/ flag = 1 /\ flag' = 0 /\ UNCHANGED <<before, after>>
         \/ flag = 2 /\ after = 0 /\ before' = 0 /\ after' = 2 /\ flag' = 2
  BY DEF SinglePair, OpenRegion, AfterWindow, IsPair, Opens, indexes
<1>2. /\ SearchTypes /\ after = 0 /\ stand1 < n1 /\ stand2 <= n2 /\ UpTo(stand2)
      /\ stand2 <= i2 /\ (flag = 2 => i1 >= 1 /\ stand2 < i2)
  BY <1>1 DEF SearchInv, StandOK, RegionOK, OrderOK, HaveMet, SearchTypes
<1>3. /\ stand1 \in Int /\ stand2 \in Int /\ stand1 \in Nat /\ stand2 \in Nat
      /\ n1 \in Nat /\ n2 \in Nat /\ MaxWin \in Nat
  BY <1>2, SizeFacts DEF SearchTypes
<1>4. PairOK(Pair(stand1, stand2))
  <2>1. Pair(stand1, stand2).newID = stand1 /\ Pair(stand1, stand2).oldID = stand2
    BY <1>3, PairFacts
  <2> QED BY <1>2, <1>3, <2>1 DEF PairOK
<1>5. /\ transferPair' \in Seq(PairType) /\ transferPair' # <<>> /\ LastPair'.oldID = stand2
      /\ OutputsOK' /\ Ascending' /\ \A id : UpTo(id)' = UpTo(id)
  BY <1>1, <1>3, <1>4, AppendPair
<1>6. SearchTypes'
  BY <1>1, <1>2, <1>5 DEF SearchTypes
<1>7. WindowOK' /\ StandOK' /\ RegionOK'
  BY <1>1 DEF WindowOK, StandOK, RegionOK
<1>8. MarksOK'
  BY <1>1, <1>2, <1>5 DEF MarksOK, HasOpened
<1>9. UpTo(i2)
  <2> SUFFICES ASSUME NEW j \in 1 .. Len(newrestored) PROVE newrestored[j] <= i2
    BY DEF UpTo
  <2>1. newrestored[j] <= stand2 /\ newrestored[j] \in Int /\ i2 \in Nat
    BY <1>2 DEF UpTo, SearchTypes
  <2> QED BY <1>2, <1>3, <2>1
<1>10. OrderOK'
  BY <1>1, <1>2, <1>5, <1>9 DEF OrderOK, UpTo
<1> QED BY <1>5, <1>6, <1>7, <1>8, <1>10 DEF SearchInv

LEMMA CloseStep ==
    ASSUME SearchInv, CloseRegion
    PROVE  SearchInv'
<1>1. /\ step = "region" /\ step' = "outer" /\ flag = 2 /\ after = 1 /\ flag' = 0 /\ after' = 0
      /\ UNCHANGED indexes /\ UNCHANGED <<old, new, n1, n2>>
      /\ UNCHANGED <<i1, i2, k, count, size, before>>
      /\ transferPair' = Append(transferPair, Pair(i1 - 1, i2 - 1))
      /\ stand1' = LastPair.newID /\ stand2' = LastPair.oldID
      /\ oldrestored' = oldrestored \o Inside(LastPair.newID, i1)
      /\ newrestored' = newrestored \o Inside(LastPair.oldID, i2)
  BY DEF CloseRegion, AfterWindow, Closes, indexes, LastPair
<1>2. /\ SearchTypes /\ HaveMet /\ i1 >= 1 /\ HasOpened /\ UpTo(LastPair.oldID)
  BY <1>1 DEF SearchInv, RegionOK, OrderOK
<1>3. /\ i1 \in Nat /\ i2 \in Nat /\ n1 \in Nat /\ n2 \in Nat /\ MaxWin \in Nat
      /\ LastPair.newID \in Nat /\ LastPair.oldID \in Nat /\ LastPair.oldID < i2
      /\ i1 <= n1 /\ i2 <= n2 + MaxWin /\ (i2 < n2 \/ FoundBeyond)
  BY <1>2, LastPairFacts, SizeFacts DEF SearchTypes, HasOpened, HaveMet, PairOK
<1>4. /\ oldrestored' \in Seq(Int) /\ newrestored' \in Seq(Int)
      /\ \A a \in 1 .. Len(oldrestored') : OldOK(oldrestored'[a])
      /\ \A a \in 1 .. Len(newrestored') : NewOK(newrestored'[a])
      /\ Ascending'
      /\ \A a \in 1 .. Len(newrestored') : newrestored'[a] <= i2
  <2>1. /\ oldrestored' \in Seq(Int) /\ newrestored' \in Seq(Int)
        /\ \A a \in 1 .. Len(oldrestored') : OldOK(oldrestored'[a])
        /\ \A a \in 1 .. Len(newrestored') : NewOK(newrestored'[a])
        /\ Ascending'
        /\ LastPair.oldID <= i2 => \A a \in 1 .. Len(newrestored') : newrestored'[a] <= i2
    BY <1>1, <1>2, <1>3, TakeInside
  <2>2. LastPair.oldID <= i2
    BY <1>3
  <2> QED BY <2>1, <2>2
<1>5. /\ i1 - 1 \in Int /\ i2 - 1 \in Int
  BY <1>3
<1> DEFINE q == Pair(i1 - 1, i2 - 1)
<1>6. /\ q \in PairType /\ q.newID = i1 - 1 /\ q.oldID = i2 - 1
  BY <1>5, PairFacts
<1>7. PairOK(q)
  BY <1>2, <1>3, <1>6 DEF PairOK
<1> HIDE DEF q
<1>8. /\ transferPair' \in Seq(PairType)
      /\ \A a \in 1 .. Len(transferPair') : PairOK(transferPair'[a])
  <2>1. transferPair' = Append(transferPair, q) /\ transferPair \in Seq(PairType)
    BY <1>1, <1>2 DEF q, SearchTypes
  <2>2. /\ transferPair' \in Seq(PairType) /\ Len(transferPair) \in Nat
        /\ Len(transferPair') = Len(transferPair) + 1
        /\ \A j \in 1 .. Len(transferPair) : transferPair'[j] = transferPair[j]
        /\ transferPair'[Len(transferPair) + 1] = q
    BY <1>6, <2>1, AppendFacts
  <2> QED BY <1>7, <2>2 DEF SearchInv, OutputsOK
<1>9. OutputsOK'
  BY <1>1, <1>4, <1>8, SameIndexes DEF OutputsOK
<1>10. SearchTypes'
  <2>1. stand1' \in Nat /\ stand2' \in Nat /\ stand2' <= n2 + MaxWin
    BY <1>1, <1>3
  <2> QED BY <1>1, <1>2, <1>4, <1>8, <2>1 DEF SearchTypes
<1>11. WindowOK' /\ StandOK' /\ MarksOK' /\ RegionOK'
  BY <1>1 DEF WindowOK, StandOK, MarksOK, RegionOK
<1>12. OrderOK'
  BY <1>1, <1>4 DEF OrderOK, UpTo
<1> QED BY <1>9, <1>10, <1>11, <1>12 DEF SearchInv

LEMMA NoPairStep ==
    ASSUME SearchInv, NoPair
    PROVE  SearchInv'
<1>1. /\ step = "region" /\ step' = "outer" /\ ~Opens /\ ~Closes
      /\ UNCHANGED indexes /\ UNCHANGED <<old, new, n1, n2>>
      /\ UNCHANGED <<i1, i2, stand1, stand2, k, count, size, flag, before, after, transferPair,
                     oldrestored, newrestored>>
  BY DEF NoPair, AfterWindow, indexes, marks, outputs
<1>2. SearchTypes
  BY DEF SearchInv
<1>3. \/ flag = 1 /\ after = 0 /\ stand2 <= i2 /\ UpTo(stand2)
      \/ flag = 2 /\ after = 2 /\ i1 >= 1 /\ HasOpened /\ UpTo(LastPair.oldID)
  BY <1>1 DEF SearchInv, RegionOK, OrderOK, Opens, Closes, HaveMet
<1>4. OutputsOK' /\ Ascending' /\ LastPair' = LastPair /\ \A id : UpTo(id)' = UpTo(id)
  BY <1>1, SameOutputs
<1>5. SearchTypes'
  BY <1>1, <1>2 DEF SearchTypes
<1>6. WindowOK' /\ StandOK' /\ MarksOK' /\ RegionOK'
  BY <1>1, <1>3, <1>4 DEF WindowOK, StandOK, MarksOK, RegionOK, HasOpened
<1>7. after = 0 => UpTo(i2)
  <2> SUFFICES ASSUME after = 0, NEW j \in 1 .. Len(newrestored) PROVE newrestored[j] <= i2
    BY DEF UpTo
  <2>1. /\ newrestored[j] <= stand2 /\ stand2 <= i2 /\ newrestored[j] \in Int
        /\ stand2 \in Nat /\ i2 \in Nat
    BY <1>2, <1>3 DEF UpTo, SearchTypes
  <2> QED BY <2>1
<1>8. OrderOK'
  BY <1>1, <1>3, <1>4, <1>7 DEF OrderOK, UpTo
<1> QED BY <1>4, <1>5, <1>6, <1>8 DEF SearchInv

-----------------------------------------------------------------------------
(* The search begins with the invariant, each pass keeps it, and it gives  *)
(* the properties that are checked.                                        *)
LEMMA DectorInitInv == DectorInit => SearchInv
<1> SUFFICES ASSUME DectorInit PROVE SearchInv
  OBVIOUS
<1>1. PICK v \in OldVersions, b \in OldBeyond : old = Append(v, b) /\ n1 = Len(v)
  BY DEF DectorInit
<1>2. PICK w \in NewVersions, c \in NewBeyond : new = w \o c /\ n2 = Len(w)
  BY DEF DectorInit
<1>3. n1 \in Nat /\ Len(old) = n1 + 1
  <2>1. v \in Seq(Fingerprint \cup {b}) /\ b \in Fingerprint \cup {b}
    BY WindowAssumption
  <2> QED BY <1>1, <2>1, AppendFacts
<1>4. n2 \in Nat /\ Len(new) = n2 + MaxWin
  <2>1. w \in Seq(Fingerprint \cup Range(c)) /\ c \in Seq(Fingerprint \cup Range(c))
        /\ Len(c) = MaxWin
    BY WindowAssumption
  <2> QED BY <1>2, <2>1, ConcatFacts
<1>5. SearchTypes
  BY <1>3, <1>4, WindowAssumption DEF DectorInit, SearchTypes
<1> QED
  BY <1>5 DEF DectorInit, SearchInv, WindowOK, StandOK, MarksOK, RegionOK, OutputsOK, OrderOK,
              Ascending, UpTo

LEMMA DectorStepInv == SearchInv /\ DectorNext => SearchInv'
  BY OuterStep, WindowStep, RegionStep, PairStep, CloseStep, NoPairStep DEF DectorNext

LEMMA SearchInvGives ==
    SearchInv => DectorTypeOK /\ OpenRegionIsLast /\ PairsInside /\ NewChunksOnce
<1> SUFFICES ASSUME SearchInv
             PROVE  DectorTypeOK /\ OpenRegionIsLast /\ PairsInside /\ NewChunksOnce
  OBVIOUS
<1>1. SearchTypes
  BY DEF SearchInv
<1>2. DectorTypeOK
  BY <1>1, SizeFacts DEF SearchInv, SearchTypes, WindowOK, StandOK, DectorTypeOK
<1>3. OpenRegionIsLast
  BY DEF SearchInv, MarksOK, RegionOK, HasOpened, LastPair, OpenRegionIsLast, Closes
<1>4. PairsInside
  <2>1. /\ DOMAIN transferPair = 1 .. Len(transferPair)
        /\ DOMAIN oldrestored = 1 .. Len(oldrestored)
        /\ DOMAIN newrestored = 1 .. Len(newrestored)
    BY <1>1 DEF SearchTypes
  <2> QED BY <2>1 DEF SearchInv, OutputsOK, PairOK, OldOK, NewOK, PairsInside, Range
<1>5. NewChunksOnce
  <2>1. DOMAIN newrestored = 1 .. Len(newrestored)
    BY <1>1 DEF SearchTypes
  <2>2. Ascending
    BY DEF SearchInv, OrderOK
  <2> QED BY <2>1, <2>2 DEF Ascending, NewChunksOnce
<1> QED BY <1>2, <1>3, <1>4, <1>5
=============================================================================
