----------------------------- MODULE PointStore -----------------------------
(***************************************************************************)
(* One array of points and the sequence of merges made into it under its   *)
(* lock: the point cache (lib/point-cache.c) and the web server's private  *)
(* cache (apps/siot-net/src/web.c) are each such an array.                 *)
(***************************************************************************)
EXTENDS Points

CONSTANTS
  Size,     \* slots in the array
  Traffic   \* the points that may arrive

ASSUME StoreAssumption ==
  /\ Size \in Nat \ {0}
  /\ Traffic \subseteq Point

VARIABLES
  pts,      \* the array
  ret,      \* what the last merge returned
  latest    \* history: of each identity, the last point if its type is known

vars == <<pts, ret, latest>>

Slots == 1..Size

\* Static storage: every slot is zero.
Init ==
  /\ pts = [i \in Slots |-> Unused]
  /\ ret = "OK"
  /\ latest = {}

\* The history without the identity of p.
Superseded(p) == {q \in latest : Id(q) # Id(Normalised(p))}

\* point_cache_merge: the whole of points_merge happens under the lock.
Merge(p) ==
  /\ pts' = Merged(pts, p)
  /\ ret' = MergeRet(pts, p)
  /\ latest' = Superseded(p) \cup {q \in {Normalised(p)} : Named(q) /\ Known(q)}

Next == \E p \in Traffic : Merge(p)

Spec == Init /\ [][Next]_vars

-----------------------------------------------------------------------------
TypeOK ==
  /\ pts \in [Slots -> Point]
  /\ ret \in {"OK", "ENOMEM"}
  /\ latest \subseteq Point

\* A reader never meets two values for one identity: the match found by
\* points_merge is the only slot of known data type with that type and key.
KnownUnique ==
  \A i, j \in Slots :
    /\ Named(pts[i]) /\ Known(pts[i])
    /\ Named(pts[j]) /\ Known(pts[j])
    /\ Id(pts[i]) = Id(pts[j])
    => i = j

\* What a reader sees under an identity is the last value offered for it: a
\* merge that is refused, or that lands in another slot, never leaves an older
\* value readable.
NoStaleValue == Visible(pts) \subseteq latest

\* A slot, once taken, belongs to its identity for good: points_merge replaces
\* a value only by one of the same type and key and never frees a slot.
SlotKeepsIdentity ==
  [][\A i \in Slots : Named(pts[i]) => Id(pts'[i]) = Id(pts[i])]_vars

\* include/point-cache.h:7-8, "The point cache holds the most recent value of
\* every point published": an identity that has a slot shows the last value
\* offered for it.  (That a full array takes no new identity is documented.)
HoldsMostRecent ==
  \A q \in latest :
    (\E i \in Slots : Named(pts[i]) /\ Id(pts[i]) = Id(q)) => q \in Visible(pts)

-----------------------------------------------------------------------------
\* Refinement: the map of readable values, and the slots lost to unknown types.
ReadableIds == {Id(q) : q \in Visible(pts)}
ReadableMap == [i \in ReadableIds |-> CHOOSE q \in Visible(pts) : Id(q) = i]
WastedSlots == {i \in Slots : Named(pts[i]) /\ ~Known(pts[i])}

Map == INSTANCE PointMap WITH
         map <- ReadableMap,
         wasted <- Cardinality(WastedSlots),
         Ids <- Types \X Keys,
         Contents <- Point,
         Capacity <- Size

\* The array implements the bounded map.
RefinesMap == Map!Spec
=============================================================================
