------------------------------- MODULE Points -------------------------------
(***************************************************************************)
(* Points and the merge of one point into an array of points: struct point *)
(* (include/point.h) and points_merge (lib/point.c).  A point's timestamp  *)
(* and data bytes are one abstract value; its data type is kept, because   *)
(* points_merge and every reader of an array branch on it.                 *)
(***************************************************************************)
EXTENDS Integers, FiniteSets

CONSTANTS
  Types,     \* the nonempty type strings in use
  Keys,      \* the nonempty key strings in use, "0" among them
  Values,    \* abstract (time, data) pairs
  NoType,    \* the empty type string: an unused slot, or a point without type
  BlankKey,  \* the empty key string
  ZeroKey    \* the key "0"

ASSUME PointsAssumption ==
  /\ NoType \notin Types
  /\ BlankKey \notin Keys
  /\ ZeroKey \in Keys
  /\ Values # {}

\* POINT_DATA_TYPE_*: UNK is 0; the values from _END on are treated alike.
KnownTypes == {"FLT", "INT", "STR", "JSN"}
DataTypes == KnownTypes \cup {"UNK"}

Point == [type : Types \cup {NoType}, key : Keys \cup {BlankKey},
          dt : DataTypes, val : Values]

Known(p) == p.dt \in KnownTypes
Named(p) == p.type # NoType
Id(p) == <<p.type, p.key>>

\* A zeroed struct: static storage, or point p = {}.
Zero == CHOOSE v \in Values : TRUE
Unused == [type |-> NoType, key |-> BlankKey, dt |-> "UNK", val |-> Zero]

\* A blank key is rewritten to "0" in the caller's own point.
Normalised(p) == [p EXCEPT !.key = IF @ = BlankKey THEN ZeroKey ELSE @]

\* Mutant: the key is not compared.
MatchesByType(pts, q) ==
  {i \in DOMAIN pts : Named(pts[i]) /\ Known(pts[i]) /\ pts[i].type = q.type}

\* Mutant: a slot of unknown data type is matched like any other.
MatchesUnknown(pts, q) ==
  {i \in DOMAIN pts : Named(pts[i]) /\ Id(pts[i]) = Id(q)}

\* Slots the scan takes as the place of q: named, of a known data type, and of
\* the same identity.  A slot of unknown data type is logged and passed over.
Matches(pts, q) ==
  {i \in DOMAIN pts : Named(pts[i]) /\ Known(pts[i]) /\ Id(pts[i]) = Id(q)}

Free(pts) == {i \in DOMAIN pts : ~Named(pts[i])}

Lowest(S) == CHOOSE i \in S : \A j \in S : i <= j

\* Mutant: a free slot is taken before a match is looked for.
SlotFreeFirst(pts, p) ==
  IF Free(pts) # {} THEN Lowest(Free(pts)) ELSE Lowest(Matches(pts, Normalised(p)))

\* The slot that receives p: its match, or else the first free one.
Slot(pts, p) ==
  IF Matches(pts, Normalised(p)) # {}
    THEN Lowest(Matches(pts, Normalised(p)))
    ELSE Lowest(Free(pts))

Refused(pts, p) == Matches(pts, Normalised(p)) = {} /\ Free(pts) = {}

\* Mutants: a full array is written past its end; the key is left blank; a match
\* keeps its old value.
MergedPastEnd(pts, p) ==
  IF Refused(pts, p)
    THEN [i \in 1..(Cardinality(DOMAIN pts) + 1) |->
            IF i \in DOMAIN pts THEN pts[i] ELSE Normalised(p)]
    ELSE [pts EXCEPT ![Slot(pts, p)] = Normalised(p)]

MergedRaw(pts, p) ==
  IF Refused(pts, p) THEN pts ELSE [pts EXCEPT ![Slot(pts, p)] = p]

MergedKeepsOld(pts, p) ==
  IF Refused(pts, p) \/ Matches(pts, Normalised(p)) # {} THEN pts
  ELSE [pts EXCEPT ![Slot(pts, p)] = Normalised(p)]

\* points_merge: the array afterwards, and the value returned.
Merged(pts, p) ==
  IF Refused(pts, p) THEN pts
  ELSE [pts EXCEPT ![Slot(pts, p)] = Normalised(p)]

MergeRet(pts, p) == IF Refused(pts, p) THEN "ENOMEM" ELSE "OK"

\* What a reader of the array gets: points_json_encode and point_emit skip
\* unnamed slots and slots of unknown data type.
Visible(pts) == {pts[i] : i \in {j \in DOMAIN pts : Named(pts[j]) /\ Known(pts[j])}}
=============================================================================
