-------------------------- MODULE PointStoreProofs --------------------------
(***************************************************************************)
(* Proofs about an array of points of any size under any traffic.          *)
(***************************************************************************)
EXTENDS PointStore, PointsProofs

(***************************************************************************)
(* Types                                                                   *)
(***************************************************************************)

\* Every slot always holds a well-formed point.
THEOREM TypeCorrect == Spec => []TypeOK
<1>1. Init => TypeOK
  <2>1. Unused \in Point
    BY PointsAssumption DEF Unused, Zero, Point, DataTypes, KnownTypes
  <2>2. QED
    BY <2>1 DEF Init, TypeOK
<1>2. TypeOK /\ [Next]_vars => TypeOK'
  <2>1. SUFFICES ASSUME TypeOK, [Next]_vars PROVE TypeOK'
    OBVIOUS
  <2>2. CASE UNCHANGED vars
    BY <2>1, <2>2 DEF vars, TypeOK
  <2>3. ASSUME NEW p \in Traffic, Merge(p) PROVE TypeOK'
    <3>1. p \in Point /\ Normalised(p) \in Point
      BY StoreAssumption, NormalisedPoint
    <3>2. pts' \in [Slots -> Point]
      <4>1. Size \in Nat /\ Slots = 1..Size /\ pts' = Merged(pts, p)
        BY <2>3, StoreAssumption DEF Slots, Merge
      <4>2. QED
        BY <2>1, <3>1, <4>1, MergedCases DEF TypeOK
    <3>3. ret' \in {"OK", "ENOMEM"}
      BY <2>3 DEF Merge, MergeRet
    <3>4. latest' \subseteq Point
      BY <2>1, <2>3, <3>1 DEF TypeOK, Merge, Superseded
    <3>5. QED
      BY <3>2, <3>3, <3>4 DEF TypeOK
  <2>4. QED
    BY <2>1, <2>2, <2>3 DEF Next
<1>3. QED
  BY <1>1, <1>2, PTL DEF Spec

(***************************************************************************)
(* One value per identity                                                  *)
(***************************************************************************)

\* KnownUnique is what the lemmas about merges call Unique.
LEMMA KnownUniqueIsUnique ==
  ASSUME TypeOK
  PROVE  KnownUnique <=> Unique(pts)
BY DEF TypeOK, KnownUnique, Unique

\* No array ever shows two values of one identity.
THEOREM OneValuePerIdentity == Spec => []KnownUnique
<1>1. Init => KnownUnique
  BY DEF Init, KnownUnique, Unused, Named
<1>2. TypeOK /\ KnownUnique /\ [Next]_vars => KnownUnique'
  <2>1. SUFFICES ASSUME TypeOK, KnownUnique, [Next]_vars PROVE KnownUnique'
    OBVIOUS
  <2>2. CASE UNCHANGED vars
    BY <2>1, <2>2 DEF vars, KnownUnique
  <2>3. ASSUME NEW p \in Traffic, Merge(p) PROVE KnownUnique'
    <3>1. /\ Size \in Nat /\ p \in Point
          /\ pts \in [1..Size -> Point] /\ Unique(pts) /\ pts' = Merged(pts, p)
      BY <2>1, <2>3, StoreAssumption, KnownUniqueIsUnique DEF TypeOK, Slots, Merge
    <3>2. pts' \in [1..Size -> Point] /\ Unique(pts')
      BY <3>1, MergedUnique
    <3>3. QED
      BY <3>2 DEF KnownUnique, Unique, Slots
  <2>4. QED
    BY <2>1, <2>2, <2>3 DEF Next
<1>3. QED
  BY <1>1, <1>2, TypeCorrect, PTL DEF Spec

(***************************************************************************)
(* Slots are never given to another identity                               *)
(***************************************************************************)

\* A taken slot keeps its type and key through every merge.
THEOREM SlotsKeepIdentity == Spec => SlotKeepsIdentity
<1> DEFINE Keeps == \A i \in Slots : Named(pts[i]) => Id(pts'[i]) = Id(pts[i])
<1>1. TypeOK /\ [Next]_vars => [Keeps]_vars
  <2>1. SUFFICES ASSUME TypeOK, NEW p \in Traffic, Merge(p) PROVE Keeps
    BY DEF Next
  <2>2. pts \in [Slots -> Point] /\ p \in Point
    BY <2>1, StoreAssumption DEF TypeOK
  <2>3. CASE pts' = pts
    BY <2>3
  <2>4. ASSUME NEW s \in Slots,
               pts' = [pts EXCEPT ![s] = Normalised(p)],
               s \in Matches(pts, Normalised(p)) \/ s \in Free(pts)
        PROVE  Keeps
    BY <2>2, <2>4 DEF Matches, Free
  <2>5. Size \in Nat /\ Slots = 1..Size /\ pts' = Merged(pts, p)
    BY <2>1, StoreAssumption DEF Slots, Merge
  <2>6. QED
    BY <2>2, <2>3, <2>4, <2>5, MergedCases
<1>2. QED
  BY <1>1, TypeCorrect, PTL DEF Spec, SlotKeepsIdentity

(***************************************************************************)
(* Readers see the last value or none                                      *)
(***************************************************************************)

\* Nothing readable is ever older than the last point offered for its identity.
THEOREM NothingStale == Spec => []NoStaleValue
<1>1. Init => NoStaleValue
  BY DEF Init, NoStaleValue, Visible, Unused, Named
<1>2. TypeOK /\ KnownUnique /\ NoStaleValue /\ [Next]_vars => NoStaleValue'
  <2>1. SUFFICES ASSUME TypeOK, KnownUnique, NoStaleValue, [Next]_vars
                 PROVE  NoStaleValue'
    OBVIOUS
  <2>2. CASE UNCHANGED vars
    BY <2>1, <2>2 DEF vars, NoStaleValue
  <2>3. ASSUME NEW p \in Traffic, Merge(p) PROVE NoStaleValue'
    <3>1. SUFFICES ASSUME NEW q \in Visible(pts') PROVE q \in latest'
      BY DEF NoStaleValue
    <3>2. p \in Point /\ pts' = Merged(pts, p)
      BY <2>3, StoreAssumption DEF Merge
    <3>3. Named(q) /\ Known(q)
      BY <3>1 DEF Visible
    <3>4. CASE q = Normalised(p)
      BY <2>3, <3>3, <3>4 DEF Merge
    <3>5. CASE q \in Visible(pts) /\ Id(q) # Id(Normalised(p))
      BY <2>1, <2>3, <3>5 DEF Merge, Superseded, NoStaleValue
    <3>6. /\ Size \in Nat /\ pts \in [1..Size -> Point] /\ Unique(pts)
          /\ q \in Visible(Merged(pts, p))
      BY <2>1, <3>1, <3>2, StoreAssumption, KnownUniqueIsUnique DEF TypeOK, Slots
    <3>7. QED
      BY <3>2, <3>4, <3>5, <3>6, VisibleAfterMerge
  <2>4. QED
    BY <2>1, <2>2, <2>3 DEF Next
<1>3. QED
  BY <1>1, <1>2, TypeCorrect, OneValuePerIdentity, PTL DEF Spec

(***************************************************************************)
(* The array implements the bounded map                                    *)
(***************************************************************************)

\* A free slot is room in the map: readable identities and wasted slots cannot
\* use up the slots.
LEMMA FreeIsRoom ==
  ASSUME TypeOK, Free(pts) # {}
  PROVE  Cardinality(ReadableIds) + Cardinality(WastedSlots) < Size
<1> DEFINE R == {i \in Slots : Named(pts[i]) /\ Known(pts[i])}
           f == [i \in R |-> Id(pts[i])]
<1>1. pts \in [Slots -> Point] /\ Slots = 1..Size /\ Size \in Nat
  BY StoreAssumption DEF TypeOK, Slots
<1>2. IsFiniteSet(Slots) /\ Cardinality(Slots) = Size
  BY <1>1, FS_Interval
<1>3. PICK s \in Slots : ~Named(pts[s])
  BY <1>1 DEF Free
<1>4. R \subseteq Slots /\ WastedSlots \subseteq Slots /\ R \cap WastedSlots = {}
  BY DEF WastedSlots
<1>5. IsFiniteSet(R) /\ IsFiniteSet(WastedSlots)
  BY <1>2, <1>4, FS_Subset
<1>6. Cardinality(R \cup WastedSlots) = Cardinality(R) + Cardinality(WastedSlots)
  <2>1. Cardinality(R \cap WastedSlots) = 0
    BY <1>4, FS_EmptySet
  <2>2. Cardinality(R) \in Nat /\ Cardinality(WastedSlots) \in Nat
    BY <1>5, FS_CardinalityType
  <2>3. Cardinality(R \cup WastedSlots) =
          Cardinality(R) + Cardinality(WastedSlots) - Cardinality(R \cap WastedSlots)
    BY <1>5, FS_Union, Zenon
  <2> HIDE DEF R
  <2>4. QED
    BY <2>1, <2>2, <2>3
<1>7. Cardinality(R \cup WastedSlots) <= Size - 1
  <2>1. R \cup WastedSlots \in SUBSET (Slots \ {s})
    BY <1>3, <1>4 DEF WastedSlots
  <2>2. IsFiniteSet(Slots \ {s}) /\ Cardinality(Slots \ {s}) = Size - 1
    BY <1>2, <1>3, FS_RemoveElement
  <2>3. QED
    BY <2>1, <2>2, FS_Subset
<1>8. IsFiniteSet(ReadableIds) /\ Cardinality(ReadableIds) <= Cardinality(R)
  <2>1. ReadableIds = {Id(pts[i]) : i \in R}
    BY <1>1 DEF ReadableIds, Visible
  <2>2. f \in Surjection(R, ReadableIds)
    BY <2>1 DEF Surjection
  <2>3. QED
    BY <1>5, <2>2, FS_Surjection
<1>9. /\ Cardinality(R) \in Nat /\ Cardinality(WastedSlots) \in Nat
      /\ Cardinality(ReadableIds) \in Nat
  BY <1>5, <1>8, FS_CardinalityType
<1> HIDE DEF R, f
<1>10. QED
  BY <1>1, <1>6, <1>7, <1>8, <1>9

\* What a map of the readable points says of an identity is the one point that is
\* readable, before and after a step.
IdsOf(a) == {Id(q) : q \in Visible(a)}
MapOf(a) == [i \in IdsOf(a) |-> CHOOSE q \in Visible(a) : Id(q) = i]

LEMMA MapOfArray ==
  ASSUME NEW n \in Nat, NEW a \in [1..n -> Point], Unique(a), NEW q \in Visible(a)
  PROVE  Id(q) \in IdsOf(a) /\ MapOf(a)[Id(q)] = q
<1>1. \A r \in Visible(a) : Id(r) = Id(q) => r = q
  BY OneReadable
<1>2. Id(q) \in IdsOf(a)
  BY DEF IdsOf
<1>3. QED
  BY <1>1, <1>2 DEF MapOf

\* The abstract specification counts as this one does.
LEMMA SameCardinality ==
  ASSUME NEW S
  PROVE  Map!Cardinality(S) = Cardinality(S)
BY DEF Map!Cardinality, Cardinality

\* Every merge is a step of the bounded map, or none: a point of known data type
\* is put, one of unknown type spoils a place, one that is refused or has no type
\* leaves the map as it was.
LEMMA MergeIsMapStep ==
  ASSUME TypeOK, KnownUnique, TypeOK', KnownUnique', NEW p \in Traffic, Merge(p)
  PROVE  Map!Next \/ UNCHANGED <<ReadableMap, Cardinality(WastedSlots)>>
<1> DEFINE q == Normalised(p)
<1>1. /\ Size \in Nat /\ Slots = 1..Size /\ pts \in [1..Size -> Point] /\ Unique(pts)
      /\ p \in Point /\ pts' = Merged(pts, p)
  BY StoreAssumption, KnownUniqueIsUnique DEF TypeOK, Slots, Merge
<1>2. q \in Point /\ q.key # BlankKey
  BY <1>1, NormalisedPoint
<1>3. CASE Refused(pts, p)
  <2>1. pts' = pts
    BY <1>1, <1>3 DEF Merged
  <2>2. QED
    BY <2>1 DEF ReadableMap, ReadableIds, WastedSlots
<1>4. pts' \in [1..Size -> Point] /\ Unique(pts')
  BY <1>1, MergedUnique
<1>5. ReadableMap = MapOf(pts) /\ ReadableMap' = MapOf(pts')
  BY DEF ReadableMap, ReadableIds, MapOf, IdsOf
<1>6. CASE ~Refused(pts, p)
  <2>1. PICK s \in 1..Size :
          /\ pts' = [pts EXCEPT ![s] = q]
          /\ s \in Matches(pts, q) \/ (s \in Free(pts) /\ Matches(pts, q) = {})
    BY <1>1, <1>6, MergedCases
  <2>2. Visible(pts') = {v \in Visible(pts) : Id(v) # Id(q)}
                          \cup {v \in {q} : Named(v) /\ Known(v)}
    BY <1>1, <1>6, VisibleOfMerged
  <2>3. s \notin WastedSlots
    BY <2>1 DEF WastedSlots, Matches, Free
  <2>4. Id(q) \in ReadableIds \/ Cardinality(ReadableIds) + Cardinality(WastedSlots) < Size
    <3>1. CASE s \in Matches(pts, q)
      BY <1>1, <3>1 DEF Matches, Visible, ReadableIds
    <3>2. CASE s \in Free(pts)
      BY <3>2, FreeIsRoom
    <3>3. QED
      BY <2>1, <3>1, <3>2
  <2>5. CASE ~Named(q)
    <3>1. Visible(pts') = Visible(pts)
      BY <2>2, <2>5 DEF Visible, Named, Id
    <3>2. WastedSlots' = WastedSlots
      BY <1>1, <2>1, <2>3, <2>5 DEF WastedSlots
    <3>3. QED
      BY <3>1, <3>2 DEF ReadableMap, ReadableIds
  <2>6. CASE Named(q) /\ Known(q)
    <3>1. WastedSlots' = WastedSlots
      BY <1>1, <2>1, <2>3, <2>6 DEF WastedSlots
    <3>2. q \in Visible(pts')
      BY <2>2, <2>6
    <3>3. ReadableIds' = ReadableIds \cup {Id(q)}
      BY <2>2, <3>2 DEF ReadableIds
    <3>4. ASSUME NEW i \in ReadableIds'
          PROVE  ReadableMap'[i] = IF i = Id(q) THEN q ELSE ReadableMap[i]
      <4>1. PICK v \in Visible(pts') : Id(v) = i
        BY <3>4 DEF ReadableIds
      <4>2. ReadableMap'[i] = v
        BY <1>1, <1>4, <1>5, <4>1, MapOfArray
      <4>3. CASE i = Id(q)
        BY <2>2, <4>1, <4>2, <4>3
      <4>4. CASE i # Id(q)
        BY <1>1, <1>5, <2>2, <4>1, <4>2, <4>4, MapOfArray
      <4>5. QED
        BY <4>3, <4>4
    <3>5. Id(q) \in Types \X Keys
      BY <1>2, <2>6 DEF Point, Named, Id
    <3>6. Map!Put(Id(q), q)
      BY <2>4, <3>1, <3>3, <3>4, SameCardinality DEF Map!Put, Map!Room, ReadableMap
    <3>7. QED
      BY <1>2, <3>5, <3>6 DEF Map!Next
  <2>7. CASE Named(q) /\ ~Known(q)
    <3>1. Visible(pts') = {v \in Visible(pts) : Id(v) # Id(q)}
      BY <2>2, <2>7
    <3>2. WastedSlots' = WastedSlots \cup {s}
      BY <1>1, <2>1, <2>7 DEF WastedSlots
    <3>3. Cardinality(WastedSlots)' = Cardinality(WastedSlots) + 1
      <4>1. IsFiniteSet(WastedSlots)
        <5>1. WastedSlots \in SUBSET (1..Size) /\ IsFiniteSet(1..Size)
          BY <1>1, FS_Interval DEF WastedSlots
        <5>2. QED
          BY <5>1, FS_Subset
      <4>2. QED
        BY <2>3, <3>2, <4>1, FS_AddElement
    <3>4. ReadableIds' = ReadableIds \ {Id(q)}
      BY <3>1 DEF ReadableIds
    <3>5. ASSUME NEW i \in ReadableIds' PROVE ReadableMap'[i] = ReadableMap[i]
      <4>1. PICK v \in Visible(pts') : Id(v) = i
        BY <3>5 DEF ReadableIds
      <4>2. v \in Visible(pts)
        BY <3>1, <4>1
      <4>3. QED
        BY <1>1, <1>4, <1>5, <4>1, <4>2, MapOfArray
    <3>6. Id(q) \in Types \X Keys
      BY <1>2, <2>7 DEF Point, Named, Id
    <3>7. Map!Spoil(Id(q))
      BY <2>4, <3>3, <3>4, <3>5, SameCardinality DEF Map!Spoil, Map!Room, ReadableMap
    <3>8. QED
      BY <3>6, <3>7 DEF Map!Next
  <2>8. QED
    BY <2>5, <2>6, <2>7
<1>7. QED
  BY <1>3, <1>6

\* An array of points is, to its readers, a bounded map from identity to the last
\* point stored, which only points of unknown data type shrink.
THEOREM ArrayIsMap == Spec => RefinesMap
<1>1. Init => Map!Init
  <2>1. SUFFICES ASSUME Init PROVE Map!Init
    OBVIOUS
  <2>2. Visible(pts) = {} /\ WastedSlots = {}
    BY <2>1 DEF Init, Visible, WastedSlots, Unused, Named
  <2>3. ReadableMap = Map!Nothing
    BY <2>2 DEF ReadableMap, ReadableIds, Map!Nothing
  <2>4. Cardinality(WastedSlots) = 0
    BY <2>2, FS_EmptySet
  <2>5. QED
    BY <2>3, <2>4 DEF Map!Init
<1>2. /\ TypeOK /\ KnownUnique /\ TypeOK' /\ KnownUnique'
      /\ [Next]_vars
      => [Map!Next]_<<ReadableMap, Cardinality(WastedSlots)>>
  <2>1. SUFFICES ASSUME TypeOK, KnownUnique, TypeOK', KnownUnique', [Next]_vars
                 PROVE  Map!Next \/ UNCHANGED <<ReadableMap, Cardinality(WastedSlots)>>
    OBVIOUS
  <2>2. CASE UNCHANGED vars
    BY <2>2 DEF vars, ReadableMap, ReadableIds, WastedSlots
  <2>3. ASSUME NEW p \in Traffic, Merge(p)
        PROVE  Map!Next \/ UNCHANGED <<ReadableMap, Cardinality(WastedSlots)>>
    BY <2>1, <2>3, MergeIsMapStep
  <2>4. QED
    BY <2>1, <2>2, <2>3 DEF Next
<1>3. QED
  BY <1>1, <1>2, TypeCorrect, OneValuePerIdentity, PTL DEF Spec, RefinesMap, Map!Spec
=============================================================================
